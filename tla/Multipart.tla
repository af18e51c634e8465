----------------------------- MODULE Multipart -----------------------------
(***************************************************************************)
(* cmd/kinetic-multipart.go and the parts of cmd/kinetic.go that write one   *)
(* object: multipart uploads of the object, simple puts, deletes and copies.  *)
(*                                                                         *)
(* The store keeps the object's metadata under its own key (variable meta), *)
(* one temporary "json" key per upload, and one key per part.  A part's key  *)
(* carries a version, the part's number and its etag.  A version is not an    *)
(* upload's own: all uploads in progress write under the version that        *)
(* follows the object's current one, and commit by making it current.        *)
(*                                                                         *)
(* A request is a sequence of store operations (field todo); each is atomic, *)
(* and all but koStat and the CPut of putObject run under kineticMutex,       *)
(* which only CompleteMultipartUpload and DeleteObject keep over several.     *)
(* An upload's parts have contents of their own: the etag names the upload.   *)
(***************************************************************************)
EXTENDS Integers, Sequences, FiniteSets

CONSTANTS
    Workers,        \* request goroutines
    Uploads,        \* upload IDs, each given out once
    CopyTag,        \* the etag of parts written by copyMultipartObject
    Parts,          \* part numbers
    MaxVersion,     \* 99999
    RangeMax,       \* keys one CGetKeyRange returns: 800
    Ops,            \* the operations besides those of an upload
    MayFail,        \* the store operations that may fail: "get", "put", "delete"
    Exclusive,      \* clients work on one upload, on copies, or on one self-copy at a time
    Crashes,        \* the server may restart
    MaxCommits,     \* bound: no Complete is sent for an upload committed so often
    None

ASSUME BoundsAssumption ==
    /\ Parts \subseteq Nat
    /\ MaxVersion \in Nat \ {0} /\ RangeMax \in Nat \ {0} /\ MaxCommits \in Nat
    /\ IsFiniteSet(Parts) /\ IsFiniteSet(Uploads)
ASSUME OptionsAssumption ==
    /\ Ops \subseteq {"put", "remove", "copy", "selfCopy"}
    /\ MayFail \subseteq {"get", "put", "delete"}
    /\ Exclusive \in BOOLEAN /\ Crashes \in BOOLEAN
    /\ CopyTag \notin Uploads /\ None \notin Workers /\ None \notin Uploads

VARIABLES
    meta,           \* None, or the object's version and its parts (none if simple)
    store,          \* the part keys
    json,           \* the uploads whose temporary json key exists
    mutex,          \* the owner of kineticMutex over several operations
    nsLock,         \* the owner of the object's namespace write lock
    loc,            \* the request of each worker
    acked,          \* history: the part numbers acknowledged for each upload
    commits,        \* history: how often each upload was committed
    aborted         \* history: uploads whose json key an abort has removed

stored == <<meta, store, json>>
history == <<acked, commits, aborted>>
vars == <<meta, store, json, mutex, nsLock, loc, acked, commits, aborted>>

Versions == 0..MaxVersion       \* 0 is the empty version string
PartKeys == [ver : Versions, num : Parts, tag : Uploads \union {CopyTag}]

Steps == {"version", "rangeCurrent", "rangeNext", "deleteKeys", "statFirst", "checkJson",
          "putPart", "validate", "takeJson", "commit", "dropJson", "return",
          "lock", "unlock", "putObject", "deleteParts", "deleteMeta", "copyParts", "putCopy",
          "source"}
SelfCopies == {"selfCopy", "selfPut", "selfFailed"}
Operations == {"idle", "part", "complete", "abort", "put", "remove", "copy", "copyFailed"}
              \union SelfCopies

(* A request: what is left to do, the upload and the parts it names, and the  *)
(* version and the keys it has read.                                       *)
Requests == [op : Operations, todo : Seq(Steps), up : Uploads \union {None},
             nums : SUBSET Parts, ver : Versions, keys : SUBSET PartKeys]

(* What currentVersion finds. *)
Version == IF meta = None THEN 0 ELSE meta.ver

MutantNewVersion(v) == v + 1

newVersion(v) == LET n == (v + 1) % (MaxVersion + 1) IN IF n = 0 THEN 1 ELSE n

(* The keys of a version's parts; CGetKeyRange returns the first RangeMax. *)
KeysOf(v) == {k \in store : k.ver = v}
First(T, S) == T \subseteq S /\ \A k \in T, j \in S \ T : k.num <= j.num
KeyRange(S) ==
    IF Cardinality(S) <= RangeMax THEN {S}
    ELSE {T \in SUBSET S : Cardinality(T) = RangeMax /\ First(T, S)}

(* The sequences of store operations. *)
listObjectParts == <<"version", "rangeCurrent", "statFirst", "checkJson">>
deletePartsCurrent == <<"rangeCurrent", "deleteKeys", "rangeCurrent", "deleteKeys">>
deletePartsNext == <<"rangeNext", "deleteKeys", "rangeNext", "deleteKeys">>
AbortMultipartUpload == <<"dropJson", "version">> \o deletePartsNext \o <<"return">>
PutObjectPartHandler == listObjectParts \o listObjectParts \o <<"version", "putPart">>
MutantCompleteHandler ==
    listObjectParts \o <<"version", "rangeCurrent", "validate", "takeJson", "commit">>
CompleteMultipartUploadHandler ==
    listObjectParts \o <<"version", "rangeNext", "validate", "takeJson", "commit">>
PutObject == <<"lock", "version", "putObject", "unlock">>
DeleteObject == <<"lock", "deleteParts", "deleteMeta", "unlock">>
MutantCopyObject ==
    <<"lock", "version", "putCopy", "copyParts">> \o deletePartsCurrent \o <<"unlock">>
CopyObject ==
    <<"lock", "version", "copyParts", "putCopy">> \o deletePartsCurrent \o <<"unlock">>
(* A copy of the object to itself takes no namespace lock, neither to read its   *)
(* source nor to write; one that only concerns metadata writes nothing.          *)
CopyToItself == <<"source", "version", "copyParts", "putCopy">> \o deletePartsCurrent
CopySimpleToItself == <<"version", "putObject">>

Idle == [op |-> "idle", todo |-> <<>>, up |-> None, nums |-> {}, ver |-> 0, keys |-> {}]

Init ==
    /\ meta = None /\ store = {} /\ json = {}
    /\ mutex = None /\ nsLock = None
    /\ loc = [w \in Workers |-> Idle]
    /\ acked = [u \in Uploads |-> {}]
    /\ commits = [u \in Uploads |-> 0]
    /\ aborted = {}

At(w, step) == loc[w].todo # <<>> /\ Head(loc[w].todo) = step

(* The step is one operation under kineticMutex. *)
AtLocked(w, step) == At(w, step) /\ mutex = None

Done(l) == IF l.todo = <<>> THEN Idle ELSE l

(* The request goes on to its next step, or to a sequence of its own. *)
Continue(w, l) == loc' = [loc EXCEPT ![w] = Done([l EXCEPT !.todo = Tail(@)])]
Goto(w, op, todo) == loc' = [loc EXCEPT ![w] = Done([@ EXCEPT !.op = op, !.todo = todo])]

(* What an error makes of the request: the handler of a part aborts the       *)
(* upload, a copy removes what it wrote, the others just return.             *)
Fail(w) ==
    CASE loc[w].op = "part" -> Goto(w, "abort", AbortMultipartUpload)
      [] loc[w].op = "copy" -> Goto(w, "copyFailed", deletePartsNext \o <<"unlock">>)
      [] loc[w].op = "selfCopy" -> Goto(w, "selfFailed", deletePartsNext)
      [] loc[w].op \in {"put", "remove"} -> Goto(w, loc[w].op, <<"unlock">>)
      [] OTHER -> Goto(w, "idle", <<>>)

(* Clients work on u only: no other upload is open or has a request running,   *)
(* and nothing is copied to the object.  Nothing else is done with the object     *)
(* while it is copied to itself, because nothing but the clients' care keeps      *)
(* other requests out then.                                                  *)
Alone(u) ==
    /\ \A v \in Uploads \ {u} : v \notin json /\ \A w \in Workers : loc[w].up # v
    /\ \A w \in Workers : loc[w].op \notin {"copy", "copyFailed"} \union SelfCopies
(* No upload is open or has a request running. *)
NoUploads == json = {} /\ \A w \in Workers : loc[w].up = None
NoSelfCopy == \A w \in Workers : loc[w].op \notin SelfCopies

Started(u) == u \in json \/ acked[u] # {} \/ commits[u] > 0 \/ u \in aborted

-----------------------------------------------------------------------------
(***************************************************************************)
(* Requests arrive.                                                        *)
(***************************************************************************)

NewMultipartUpload(u) ==
    /\ ~Started(u)
    /\ Exclusive => Alone(u)
    /\ mutex = None
    /\ json' = json \union {u}
    /\ UNCHANGED <<meta, store, mutex, nsLock, loc, history>>

Begin(w, op, todo, u, nums) ==
    /\ loc[w] = Idle
    /\ loc' = [loc EXCEPT ![w] =
                [op |-> op, todo |-> todo, up |-> u, nums |-> nums, ver |-> 0, keys |-> {}]]
    /\ UNCHANGED <<stored, mutex, nsLock, history>>

(* A client completes an upload with parts it has had acknowledged. *)
BeginUploadRequest(w) ==
    \E u \in Uploads :
        /\ Started(u)
        /\ Exclusive => Alone(u)
        /\ \/ \E n \in Parts : Begin(w, "part", PutObjectPartHandler, u, {n})
           \/ \E nums \in (SUBSET acked[u]) \ {{}} :
                /\ commits[u] < MaxCommits
                /\ Begin(w, "complete", CompleteMultipartUploadHandler, u, nums)
           \/ Begin(w, "abort", AbortMultipartUpload, u, {})

BeginObjectRequest(w) ==
    /\ Exclusive => NoSelfCopy
    /\ \/ "put" \in Ops /\ Begin(w, "put", PutObject, None, {})
       \/ "remove" \in Ops /\ Begin(w, "remove", DeleteObject, None, {})
       \/ /\ "copy" \in Ops
          /\ Exclusive => NoUploads
          /\ Begin(w, "copy", CopyObject, None, Parts)
       \/ /\ "selfCopy" \in Ops
          /\ Exclusive => json = {} /\ \A v \in Workers : loc[v] = Idle
          /\ Begin(w, "selfCopy", CopyToItself, None, {})

-----------------------------------------------------------------------------
(***************************************************************************)
(* The store operations of all requests.                                    *)
(***************************************************************************)

(* currentVersion: its callers discard the error and go on with "". *)
CurrentVersion(w) ==
    /\ AtLocked(w, "version")
    /\ \E v \in {Version} \union (IF "get" \in MayFail THEN {0} ELSE {}) :
            Continue(w, [loc[w] EXCEPT !.ver = v])
    /\ UNCHANGED <<stored, mutex, nsLock, history>>

(* CGetKeyRange returns no error: when the store fails the list is empty. *)
GetKeyRange(w) ==
    /\ AtLocked(w, "rangeCurrent") \/ AtLocked(w, "rangeNext")
    /\ LET v == IF At(w, "rangeCurrent") THEN loc[w].ver ELSE newVersion(loc[w].ver)
       IN  \E S \in KeyRange(KeysOf(v)) \union (IF "get" \in MayFail THEN {{}} ELSE {}) :
              Continue(w, [loc[w] EXCEPT !.keys = S])
    /\ UNCHANGED <<stored, mutex, nsLock, history>>

(* deleteParts gives up after an error; the error of its second round is lost  *)
(* in a variable of an inner block, so that AbortMultipartUpload returns nil.   *)
deletePartsError(w) ==
    LET todo == loc[w].todo
        last == todo[Len(todo)]
        second == \A i \in 2..Len(todo) : todo[i] \notin {"rangeCurrent", "rangeNext"}
    IN  Goto(w, loc[w].op,
             IF last = "unlock" \/ (last = "return" /\ second) THEN <<last>> ELSE <<>>)

DeleteKeys(w) ==
    /\ AtLocked(w, "deleteKeys")
    /\ \/ /\ store' = store \ loc[w].keys
          /\ Continue(w, [loc[w] EXCEPT !.keys = {}])
       \/ /\ "delete" \in MayFail
          /\ \E S \in SUBSET loc[w].keys :
                S # loc[w].keys /\ First(S, loc[w].keys) /\ store' = store \ S
          /\ deletePartsError(w)
    /\ UNCHANGED <<meta, json, mutex, nsLock, history>>

(* ListObjectParts looks at the first part of the object's current version,   *)
(* and at all parts of it that have the same number.                         *)
StatFirst(w) ==
    /\ At(w, "statFirst")
    /\ LET keys == loc[w].keys
           first == {k \in keys : \A j \in keys : k.num <= j.num}
           doubles == {k \in keys : \E j \in keys : j # k /\ j.num = k.num}
           found == first \union doubles \subseteq store
       IN  \/ found /\ Continue(w, loc[w])
           \/ (~found \/ "get" \in MayFail) /\ Fail(w)
    /\ UNCHANGED <<stored, mutex, nsLock, history>>

CheckJson(w) ==
    /\ AtLocked(w, "checkJson")
    /\ \/ loc[w].up \in json /\ Continue(w, loc[w])
       \/ (loc[w].up \notin json \/ "get" \in MayFail) /\ Fail(w)
    /\ UNCHANGED <<stored, mutex, nsLock, history>>
-----------------------------------------------------------------------------
(***************************************************************************)
(* The steps of the upload's requests.                                      *)
(***************************************************************************)

(* The keys of the parts a request names. *)
Wanted(w) ==
    {[ver |-> newVersion(loc[w].ver), num |-> n, tag |-> loc[w].up] : n \in loc[w].nums}

PutPart(w) ==
    /\ AtLocked(w, "putPart")
    /\ \/ /\ store' = store \union Wanted(w)
          /\ acked' = [acked EXCEPT ![loc[w].up] = @ \union loc[w].nums]
          /\ Continue(w, loc[w])
       \/ "put" \in MayFail /\ UNCHANGED <<store, acked>> /\ Fail(w)
    /\ UNCHANGED <<meta, json, mutex, nsLock, commits, aborted>>

(* CompleteMultipartUpload looks the parts up in what it has listed, and      *)
(* stats each of them.                                                      *)
Validate(w) ==
    /\ At(w, "validate")
    /\ LET found == Wanted(w) \subseteq loc[w].keys /\ Wanted(w) \subseteq store
       IN  \/ found /\ Continue(w, [loc[w] EXCEPT !.keys = {}])
           \/ (~found \/ "get" \in MayFail) /\ Fail(w)
    /\ UNCHANGED <<stored, mutex, nsLock, history>>

MutantTakeJsonKept(w) ==
    /\ AtLocked(w, "takeJson")
    /\ \/ /\ loc[w].up \in json
          /\ mutex' = w
          /\ Continue(w, loc[w])
       \/ loc[w].up \notin json /\ UNCHANGED mutex /\ Fail(w)
    /\ UNCHANGED <<stored, nsLock, history>>
MutantTakeJsonUnlocked(w) ==
    /\ AtLocked(w, "takeJson")
    /\ \/ loc[w].up \in json /\ Continue(w, loc[w])
       \/ loc[w].up \notin json /\ Fail(w)
    /\ UNCHANGED <<stored, mutex, nsLock, history>>
(* It then gets and removes the json key, ignoring an error of the removal,   *)
(* and keeps kineticMutex until it has written the metadata.                 *)
TakeJson(w) ==
    /\ AtLocked(w, "takeJson")
    /\ \/ /\ loc[w].up \in json
          /\ \/ json' = json \ {loc[w].up}
             \/ "delete" \in MayFail /\ json' = json
          /\ mutex' = w
          /\ Continue(w, loc[w])
       \/ /\ loc[w].up \notin json \/ "get" \in MayFail
          /\ UNCHANGED <<json, mutex>>
          /\ Fail(w)
    /\ UNCHANGED <<meta, store, nsLock, history>>

MutantCommitPurgesOnError(w) ==
    /\ At(w, "commit")
    /\ mutex' = None
    /\ \/ /\ meta' = [ver |-> newVersion(loc[w].ver),
                      parts |-> {[num |-> n, tag |-> loc[w].up] : n \in loc[w].nums}]
          /\ commits' = [commits EXCEPT ![loc[w].up] = @ + 1]
       \/ "put" \in MayFail /\ UNCHANGED <<meta, commits>>
    /\ Goto(w, "complete", IF loc[w].ver = 0 THEN <<>> ELSE deletePartsCurrent)
    /\ UNCHANGED <<store, json, nsLock, acked, aborted>>
Commit(w) ==
    /\ At(w, "commit")
    /\ mutex' = None
    /\ \/ /\ meta' = [ver |-> newVersion(loc[w].ver),
                      parts |-> {[num |-> n, tag |-> loc[w].up] : n \in loc[w].nums}]
          /\ commits' = [commits EXCEPT ![loc[w].up] = @ + 1]
          /\ Goto(w, "complete", IF loc[w].ver = 0 THEN <<>> ELSE deletePartsCurrent)
       \/ "put" \in MayFail /\ UNCHANGED <<meta, commits>> /\ Fail(w)
    /\ UNCHANGED <<store, json, nsLock, acked, aborted>>

MutantDropJson(w) ==
    /\ AtLocked(w, "dropJson")
    /\ Continue(w, loc[w])
    /\ UNCHANGED <<stored, mutex, nsLock, history>>
(* AbortMultipartUpload ignores an error of its first step. *)
DropJson(w) ==
    /\ AtLocked(w, "dropJson")
    /\ \/ /\ json' = json \ {loc[w].up}
          /\ aborted' = aborted \union {loc[w].up}
       \/ "delete" \in MayFail /\ UNCHANGED <<json, aborted>>
    /\ Continue(w, loc[w])
    /\ UNCHANGED <<meta, store, mutex, nsLock, acked, commits>>

(* ... and returns the error of deleteParts; here it returns none. *)
AbortReturns(w) ==
    /\ At(w, "return")
    /\ Continue(w, loc[w])
    /\ UNCHANGED <<stored, mutex, nsLock, history>>

-----------------------------------------------------------------------------
(***************************************************************************)
(* The steps of puts, deletes and copies, under the namespace lock that      *)
(* uploads, and copies of the object to itself, do not take.                 *)
(***************************************************************************)

Lock(w) ==
    /\ At(w, "lock")
    /\ nsLock = None
    /\ nsLock' = w
    /\ Continue(w, loc[w])
    /\ UNCHANGED <<stored, mutex, history>>

Unlock(w) ==
    /\ At(w, "unlock")
    /\ nsLock' = None
    /\ Continue(w, loc[w])
    /\ UNCHANGED <<stored, mutex, history>>

(* The CPut of putObject, without kineticMutex. *)
PutSimple(w) ==
    /\ At(w, "putObject")
    /\ \/ /\ meta' = [ver |-> newVersion(loc[w].ver), parts |-> {}]
          /\ Continue(w, loc[w])
       \/ "put" \in MayFail /\ UNCHANGED meta /\ Fail(w)
    /\ UNCHANGED <<store, json, mutex, nsLock, history>>

(* DeleteObject reads the metadata, deletes the parts it names, ignoring      *)
(* errors, and then the metadata itself, all under kineticMutex.             *)
DeleteObjectParts(w) ==
    /\ AtLocked(w, "deleteParts")
    /\ \/ /\ meta = None \/ "get" \in MayFail
          /\ UNCHANGED <<store, mutex>>
          /\ Fail(w)
       \/ /\ meta # None
          /\ mutex' = w
          /\ LET named == {[ver |-> meta.ver, num |-> p.num, tag |-> p.tag] : p \in meta.parts}
             IN  \E S \in IF "delete" \in MayFail THEN SUBSET named ELSE {named} :
                    store' = store \ S
          /\ Continue(w, loc[w])
    /\ UNCHANGED <<meta, json, nsLock, history>>

DeleteObjectMeta(w) ==
    /\ At(w, "deleteMeta")
    /\ mutex' = None
    /\ \/ meta' = None /\ Continue(w, loc[w])
       \/ "delete" \in MayFail /\ UNCHANGED meta /\ Fail(w)
    /\ UNCHANGED <<store, json, nsLock, history>>

(* The handler reads the metadata of the source; here it is the object itself. *)
(* putObject writes an object without parts, copyMultipartObject the others.    *)
ReadSource(w) ==
    /\ AtLocked(w, "source")
    /\ \/ (meta = None \/ "get" \in MayFail) /\ Goto(w, "idle", <<>>)
       \/ /\ meta # None /\ meta.parts = {}
          /\ Goto(w, "selfPut", CopySimpleToItself)
       \/ /\ meta # None /\ meta.parts # {}
          /\ Continue(w, [loc[w] EXCEPT
                !.nums = {p.num : p \in meta.parts},
                !.keys = {[ver |-> meta.ver, num |-> p.num, tag |-> p.tag] : p \in meta.parts}])
    /\ UNCHANGED <<stored, mutex, nsLock, history>>

(* The parts of the source, with their etags: those of another object, or those *)
(* that this object had.                                                    *)
Source(w) ==
    IF loc[w].op = "copy" THEN {[num |-> n, tag |-> CopyTag] : n \in Parts}
    ELSE {[num |-> k.num, tag |-> k.tag] : k \in loc[w].keys}

(* copyMultipartObject: each part in a critical section of its own, under the   *)
(* number and the etag that it has in the source.                             *)
CopyPart(w) ==
    /\ AtLocked(w, "copyParts")
    /\ \/ \E n \in loc[w].nums :
            /\ store' = store \union {[ver |-> newVersion(loc[w].ver), num |-> n, tag |-> p.tag] :
                                        p \in {q \in Source(w) : q.num = n}}
            /\ LET l == [loc[w] EXCEPT !.nums = @ \ {n}]
               IN  IF l.nums = {} THEN Continue(w, l) ELSE loc' = [loc EXCEPT ![w] = l]
       \/ "put" \in MayFail /\ UNCHANGED store /\ Fail(w)
    /\ UNCHANGED <<meta, json, mutex, nsLock, history>>

PutCopy(w) ==
    /\ AtLocked(w, "putCopy")
    /\ \/ /\ meta' = [ver |-> newVersion(loc[w].ver), parts |-> Source(w)]
          /\ Continue(w, loc[w])
       \/ "put" \in MayFail /\ UNCHANGED meta /\ Fail(w)
    /\ UNCHANGED <<store, json, mutex, nsLock, history>>

(* The server stops and starts again: only the store is left. *)
Restart ==
    /\ Crashes
    /\ loc' = [w \in Workers |-> Idle]
    /\ mutex' = None /\ nsLock' = None
    /\ UNCHANGED <<stored, history>>

Step(w) ==
    \/ CurrentVersion(w) \/ GetKeyRange(w) \/ DeleteKeys(w)
    \/ StatFirst(w) \/ CheckJson(w) \/ PutPart(w)
    \/ Validate(w) \/ TakeJson(w) \/ Commit(w)
    \/ DropJson(w) \/ AbortReturns(w)
    \/ Lock(w) \/ Unlock(w) \/ PutSimple(w)
    \/ DeleteObjectParts(w) \/ DeleteObjectMeta(w)
    \/ ReadSource(w) \/ CopyPart(w) \/ PutCopy(w)

Next ==
    \/ \E u \in Uploads : NewMultipartUpload(u)
    \/ \E w \in Workers : BeginUploadRequest(w) \/ BeginObjectRequest(w) \/ Step(w)
    \/ Restart

Spec == Init /\ [][Next]_vars

-----------------------------------------------------------------------------
(***************************************************************************)
(* Properties.                                                             *)
(***************************************************************************)

(* Versions stay in 0..MaxVersion, through newVersion's wrap-around, and the    *)
(* object's own is never the empty one; keys and requests have their types.    *)
TypeOK ==
    /\ meta \in {None} \union [ver : Versions \ {0},
                               parts : SUBSET [num : Parts, tag : Uploads \union {CopyTag}]]
    /\ store \subseteq PartKeys
    /\ json \subseteq Uploads
    /\ mutex \in Workers \union {None} /\ nsLock \in Workers \union {None}
    /\ loc \in [Workers -> Requests]
    /\ acked \in [Uploads -> SUBSET Parts]
    /\ commits \in [Uploads -> Nat]
    /\ aborted \subseteq Uploads

(* An object that GET finds can be read: every part its metadata names is in  *)
(* the store, unless a delete of the object is half done.                    *)
CommittedReadable ==
    meta # None =>
        \/ \A p \in meta.parts : [ver |-> meta.ver, num |-> p.num, tag |-> p.tag] \in store
        \/ \E w \in Workers : At(w, "deleteMeta")

(* A Complete that is retried, or sent twice at once, commits once: the json   *)
(* key is taken and the metadata written in one critical section.            *)
CommitOnce == \A u \in Uploads : commits[u] <= 1

(* Once an abort has removed its json key an upload is never committed.       *)
AbortFinal ==
    [][\A u \in Uploads : commits'[u] # commits[u] => u \notin aborted]_vars

(* The parts of an upload in progress stay where Complete will look for them. *)
AckedPartsKept ==
    \A u \in json, n \in Parts :
        n \in acked[u] => [ver |-> newVersion(Version), num |-> n, tag |-> u] \in store

(* Complete finds the acknowledged parts of an upload in what it lists. *)
AckedPartsAccepted ==
    \A w \in Workers :
        At(w, "validate") /\ loc[w].up \in json => Wanted(w) \subseteq loc[w].keys
=============================================================================
