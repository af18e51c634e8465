-------------------------- MODULE KineticHandlers --------------------------
(***************************************************************************)
(* What the operations of KineticObjects (cmd/kinetic.go,                   *)
(* cmd/kinetic-multipart.go) and the handlers that call them do to           *)
(* kineticMutex and to the connection pool, as programs of ConnPool.  Loops  *)
(* over parts or keys that repeat the same steps are taken once; an early    *)
(* return gives a prefix that is another operation's program.                *)
(***************************************************************************)
EXTENDS ConnPool

(* One store operation under kineticMutex, or several on one connection. *)
Section == <<"lock", "get", "release", "unlock">>

(* Two connections, one after the other, in one critical section. *)
DoubleSection == <<"lock", "get", "release", "get", "release", "unlock">>

(* One store operation without kineticMutex. *)
Bare == <<"get", "release">>

statBucketDir == Section
GetBucketInfo == Section
getObjectInfo == Section
currentVersion == Section
koStat == Bare

(* checkPutObjectArgs and its siblings ask for the bucket. *)
checkBucketExist == GetBucketInfo

(* The deferred calls run in reverse order: Unlock first. *)
deleteKeys == <<"lock", "get", "unlock", "release">>
deleteParts == Section \o deleteKeys \o Section \o deleteKeys

MakeBucketWithLocation == DoubleSection
DeleteObject == Section
ListObjects == Section \o getObjectInfo

(* What it does with the connection after the release is not a use of the     *)
(* pool.                                                                    *)
ListBuckets == Section

(* isBucketEmpty, the walk, the objects it finds, the bucket's own key.  The *)
(* walk is a goroutine of its own, and DeleteBucket waits for it.            *)
DeleteBucket == ListObjects \o ListObjects \o DeleteObject \o Section

(* The bucket check, the version, and CPut without kineticMutex. *)
putObject == Section \o currentVersion \o Bare
PutObject == checkBucketExist \o putObject

(* GetObjectHandler: the reader is closed after the body was copied. *)
GetObjectNInfo == getObjectInfo \o <<"open", "close">>

(* CopyObjectHandler: gr.Close() is deferred until after CopyObject. *)
CopyObject ==
    getObjectInfo \o <<"open">> \o statBucketDir \o checkBucketExist
    \o putObject \o <<"close">>

copyMultipartObject == currentVersion \o Section \o Section \o deleteParts
CopyObjectOfParts ==
    getObjectInfo \o <<"open">> \o statBucketDir \o checkBucketExist
    \o copyMultipartObject \o <<"close">>

NewMultipartUpload == checkBucketExist \o GetBucketInfo \o Section
ListObjectParts ==
    checkBucketExist \o GetBucketInfo \o currentVersion \o Section \o koStat
    \o Section
PutObjectPart == checkBucketExist \o GetBucketInfo \o currentVersion \o Section
AbortMultipartUpload == Section \o currentVersion \o deleteParts
CompleteMultipartUpload ==
    currentVersion \o Section \o koStat \o DoubleSection \o deleteParts

(* The handlers ask for the upload's parts first; the one for a part asks     *)
(* twice, and aborts the upload when anything fails.                         *)
PutObjectPartHandler == ListObjectParts \o ListObjectParts \o PutObjectPart
PutObjectPartHandlerFailed == ListObjectParts \o AbortMultipartUpload
CompleteMultipartUploadHandler == ListObjectParts \o CompleteMultipartUpload

(* gr.Close() is deferred until the handler is done; CopyObjectPart itself    *)
(* asks the store for nothing.                                               *)
CopyObjectPartHandler ==
    getObjectInfo \o <<"open">> \o ListObjectParts \o ListObjectParts \o <<"close">>

(* The handlers that ask for connections while they have a reader open. *)
CopyHandlers == {CopyObject, CopyObjectOfParts, CopyObjectPartHandler}

Handlers ==
    {GetBucketInfo, ListBuckets, MakeBucketWithLocation, DeleteBucket,
     ListObjects, DeleteObject, PutObject, GetObjectNInfo, NewMultipartUpload,
     PutObjectPartHandler, PutObjectPartHandlerFailed, AbortMultipartUpload,
     CompleteMultipartUploadHandler} \union CopyHandlers

(* All handlers keep the discipline, and only the copies, of objects and of   *)
(* parts, wait with a reader open: what is proved of ConnPool holds for any   *)
(* mixture of them.                                                         *)
ASSUME HandlersAssumption ==
    \A p \in Handlers :
        /\ p \in Seq(Steps) /\ p # <<>> /\ Disciplined(p)
        /\ Flat(p) \/ p \in CopyHandlers
=============================================================================
