------------------------------- MODULE Buckets -------------------------------
(***************************************************************************)
(* The bucket operations and the listing of cmd/kinetic.go on one bucket:     *)
(* MakeBucketWithLocation, GetBucketInfo, DeleteBucket with its emptiness     *)
(* check and its walk, PutObject, CopyObject, DeleteObject and ListObjects,    *)
(* as requests that run side by side.  The locks are those of RWNamespace,    *)
(* which NSLock implements; a step between two of them is one critical        *)
(* section of kineticMutex.  The keys of the bucket are 1..K, in the order     *)
(* of the store.                                                            *)
(***************************************************************************)
EXTENDS Naturals, FiniteSets, FiniteSetsExt

CONSTANTS
    Clients,        \* goroutines that serve requests
    K,              \* number of keys "bucket/..."
    Hidden,         \* the keys whose metadata says hidden: parts of uploads
    Dir,            \* Dir[k]: the prefix up to the delimiter, 0 if there is none
    Extensions,     \* Extensions[k]: the keys that k is a proper prefix of
    Requests,       \* Requests[c]: what client c may ask for
    MaxRequests,    \* MaxRequests[c]: how many of them it serves
    MaxKeyRange     \* maxKeyRange of ListObjects, 400 in the code

Keys == 1..K

(* The path "bucket/" that NewNSLock(ctx, bucket, "") locks. *)
BucketPath == 0

Ops == {"make", "delbucket", "put", "copy", "remove", "list"}

(* key: the object; src: the object a copy reads; the rest are the arguments of   *)
(* a listing, pattern being the keys that match a prefix with a "*" in it.  A     *)
(* prefix without one only bounds the range of keys.                            *)
RequestType ==
    [op : Ops, key : Keys, src : Keys, max : Nat, delim : BOOLEAN, pattern : SUBSET Keys]
NoRequest ==
    [op |-> "none", key |-> 0, src |-> 0, max |-> 0, delim |-> FALSE, pattern |-> {}]

ASSUME KAssumption == K \in Nat
ASSUME HiddenAssumption == Hidden \subseteq Keys
ASSUME DirAssumption == Dir \in [Keys -> Nat]
(* The keys that k is a prefix of follow it at once, in the same directory. *)
ASSUME ExtensionsAssumption ==
    /\ Extensions \in [Keys -> SUBSET Keys]
    /\ \A k \in Keys : \A j \in Extensions[k] :
          k < j /\ (k + 1)..j \subseteq Extensions[k] /\ Dir[k] \in {0, Dir[j]}
ASSUME RequestsAssumption == Requests \in [Clients -> SUBSET RequestType]
ASSUME RangeAssumption == MaxKeyRange \in Nat \ {0}

VARIABLES
    bucket,         \* the key "bucket.<name>" exists
    stored,         \* the keys of the bucket that exist
    holds,          \* the namespace locks
    pc, req,        \* where each goroutine is, and its request
    served,         \* requests begun
    ok,             \* no error so far
    lst,            \* local state of ListObjects and of the walk
    names,          \* DeleteBucket: the objects the walk sent
    since           \* history: the keys that exist since a listing began, or since
                    \* DeleteBucket locked the bucket

vars == <<bucket, stored, holds, pc, req, served, ok, lst, names, since>>

NS == INSTANCE RWNamespace WITH Resources <- Keys \union {BucketPath}

PCs == {"idle", "lockBucket", "lockSource", "lockObject", "make", "source", "info", "stat", "put", "remove",
        "range", "keys", "listed", "walk", "visit", "erase", "drop", "return"}

(* lost is history: a range of this listing could not be read. *)
NoListing == [from |-> 1, remain |-> 0, keys |-> {}, done |-> FALSE, found |-> {},
              dirs |-> {}, earlier |-> {}, lost |-> FALSE]

Init ==
    /\ bucket \in BOOLEAN
    /\ stored \in SUBSET Keys
    /\ ~bucket => stored = {}
    /\ NS!Init
    /\ pc = [c \in Clients |-> "idle"]
    /\ req = [c \in Clients |-> NoRequest]
    /\ served = [c \in Clients |-> 0]
    /\ ok = [c \in Clients |-> TRUE]
    /\ lst = [c \in Clients |-> NoListing]
    /\ names = [c \in Clients |-> {}]
    /\ since = [c \in Clients |-> {}]

Go(c, p) == pc' = [pc EXCEPT ![c] = p]

(* The request is over, with an error unless e. *)
Finish(c, e) ==
    /\ Go(c, "return")
    /\ ok' = [ok EXCEPT ![c] = @ /\ e]

-----------------------------------------------------------------------------
(***************************************************************************)
(* Requests and locks.                                                     *)
(***************************************************************************)

(* DeleteBucket lists with maxKeys = 1, no prefix and no delimiter             *)
(* (isBucketEmpty).                                                          *)
MaxKeys(c) == IF req[c].op = "delbucket" THEN 1 ELSE req[c].max
Recursive(c) == req[c].op = "delbucket" \/ ~req[c].delim
Matches(c, k) == req[c].op = "delbucket" \/ k \in req[c].pattern

(* A call of ListObjects begins: nRemainKeys is maxKeys, at most maxKeyRange.     *)
(* What the earlier pages returned is with the client.                          *)
Page(c, from, found, earlier, lost) ==
    [from |-> from, keys |-> {}, done |-> FALSE,
     remain |-> IF MaxKeys(c) > MaxKeyRange THEN MaxKeyRange ELSE MaxKeys(c),
     found |-> found, dirs |-> {}, earlier |-> earlier, lost |-> lost]

(* A copy of an object to itself takes no lock of an object. *)
CopiesToItself(r) == r.op = "copy" /\ r.src = r.key

(* A handler calls the object layer: which lock or step comes first. *)
Begin(c, r) ==
    /\ pc[c] = "idle" /\ served[c] < MaxRequests[c]
    /\ req' = [req EXCEPT ![c] = r]
    /\ served' = [served EXCEPT ![c] = @ + 1]
    /\ since' = [since EXCEPT ![c] = IF r.op = "list" THEN stored ELSE {}]
    /\ lst' = [lst EXCEPT ![c] = Page(c, 1, {}, {}, FALSE)']
    /\ Go(c, CASE r.op \in {"make", "delbucket", "put"} -> "lockBucket"
               [] r.op = "copy" -> IF CopiesToItself(r) THEN "source" ELSE "lockSource"
               [] r.op = "remove" -> "lockObject"
               [] r.op = "list" -> IF r.max > 0 THEN "range" ELSE "listed")
    /\ UNCHANGED <<bucket, stored, holds, ok, names>>

(* The object whose lock c wants: DeleteBucket deletes the names in order. *)
IsObject(c, k) ==
    IF req[c].op = "delbucket" THEN k \in names[c] /\ \A j \in names[c] : k <= j
    ELSE k = req[c].key

BucketMode(c) == IF req[c].op \in {"make", "delbucket"} THEN "write" ELSE "read"

AcquireBucket(c) ==
    /\ pc[c] = "lockBucket"
    /\ NS!Take(c, {BucketPath}, BucketMode(c))
    /\ Go(c, CASE req[c].op = "make" -> "make"
               [] req[c].op = "delbucket" -> "range"
               [] OTHER -> "info")
    /\ since' = [since EXCEPT ![c] = IF req[c].op = "delbucket" THEN stored ELSE {}]
    /\ UNCHANGED <<bucket, stored, req, served, ok, lst, names>>

(* CopyObjectHandler: the source's read lock, which is held until gr.Close. *)
AcquireSource(c) ==
    /\ pc[c] = "lockSource"
    /\ NS!Take(c, {req[c].src}, "read")
    /\ Go(c, "source")
    /\ UNCHANGED <<bucket, stored, req, served, ok, lst, names, since>>

AcquireObject(c) ==
    /\ pc[c] = "lockObject"
    /\ \E k \in Keys : IsObject(c, k) /\ NS!Take(c, {k}, "write")
    /\ Go(c, CASE req[c].op = "put" -> "put"
               [] req[c].op = "copy" -> "stat"
               [] req[c].op = "remove" -> "remove"
               [] OTHER -> "erase")
    /\ UNCHANGED <<bucket, stored, req, served, ok, lst, names, since>>

(* The names that are left, or the end of DeleteBucket's loop. *)
NextName(c, left) ==
    /\ names' = [names EXCEPT ![c] = left]
    /\ Go(c, IF left # {} THEN "lockObject" ELSE "drop")

(* Nobody gives up waiting for a lock. *)
MutantTimeOut(c) == FALSE /\ UNCHANGED vars

(* A lock is not granted in time: the request fails, except that DeleteBucket   *)
(* goes on with the next object.                                              *)
TimeOut(c) ==
    /\ pc[c] \in {"lockBucket", "lockSource", "lockObject"}
    /\ IF pc[c] = "lockObject" /\ req[c].op = "delbucket"
         THEN /\ \E k \in names[c] : IsObject(c, k) /\ NextName(c, names[c] \ {k})
              /\ ok' = [ok EXCEPT ![c] = FALSE]
         ELSE Finish(c, FALSE) /\ UNCHANGED names
    /\ UNCHANGED <<bucket, stored, holds, req, served, lst, since>>

(* The deferred Unlock calls and the response. *)
Return(c) ==
    /\ pc[c] = "return"
    /\ Go(c, "idle")
    /\ NS!Become(c, Keys \union {BucketPath}, "none")
    /\ req' = [req EXCEPT ![c] = NoRequest]
    /\ ok' = [ok EXCEPT ![c] = TRUE]
    /\ lst' = [lst EXCEPT ![c] = NoListing]
    /\ names' = [names EXCEPT ![c] = {}]
    /\ since' = [since EXCEPT ![c] = {}]
    /\ UNCHANGED <<bucket, stored, served>>

-----------------------------------------------------------------------------
(***************************************************************************)
(* Buckets and objects.                                                    *)
(***************************************************************************)

(* The existence test and the put are one critical section.  Any error of the   *)
(* test counts as not found, and the error of the put is ignored.              *)
MakeBucket(c) ==
    /\ pc[c] = "make"
    /\ \/ bucket /\ UNCHANGED bucket /\ Finish(c, FALSE)
       \/ bucket' \in {bucket, TRUE} /\ Finish(c, TRUE)
    /\ UNCHANGED <<stored, holds, req, served, lst, names, since>>

(* GetBucketInfo, called by checkPutObjectArgs, with its deferred RUnlock. *)
GetBucketInfo(c) ==
    /\ pc[c] = "info"
    /\ NS!Drop(c, {BucketPath})
    /\ \/ Finish(c, FALSE)
       \/ bucket /\ Go(c, IF req[c].op = "put" THEN "lockObject" ELSE "put") /\ UNCHANGED ok
    /\ UNCHANGED <<bucket, stored, req, served, lst, names, since>>

(* GetObjectNInfo of a copy's source. *)
GetObjectNInfo(c) ==
    /\ pc[c] = "source"
    /\ \/ Finish(c, FALSE)
       \/ /\ req[c].src \in stored
          /\ Go(c, IF CopiesToItself(req[c]) THEN "stat" ELSE "lockObject") /\ UNCHANGED ok
    /\ UNCHANGED <<bucket, stored, holds, req, served, lst, names, since>>

(* CopyObject looks at the (source) bucket without its lock.  A copy of an object  *)
(* to itself that changes only metadata ends there: it reads them and writes      *)
(* nothing.                                                                  *)
StatBucketDir(c) ==
    /\ pc[c] = "stat"
    /\ \/ Finish(c, FALSE)
       \/ bucket /\ CopiesToItself(req[c]) /\ Finish(c, TRUE)
       \/ bucket /\ Go(c, "lockBucket") /\ UNCHANGED ok
    /\ UNCHANGED <<bucket, stored, holds, req, served, lst, names, since>>

(* putObject: that the bucket is not found is no error here. *)
PutObject(c) ==
    /\ pc[c] = "put"
    /\ \/ stored' = stored \union {req[c].key} /\ Finish(c, TRUE)
       \/ UNCHANGED stored /\ Finish(c, FALSE)
    /\ UNCHANGED <<bucket, holds, req, served, lst, names, since>>

(* k is gone from the store, and from what exists since a listing began. *)
Remove(k) ==
    /\ stored' = stored \ {k}
    /\ since' = [d \in Clients |-> since[d] \ {k}]

(* The key is deleted twice: when the second call fails it is gone already. *)
DeleteObject(c) ==
    /\ pc[c] = "remove"
    /\ \/ req[c].key \in stored /\ Remove(req[c].key) /\ \E e \in BOOLEAN : Finish(c, e)
       \/ UNCHANGED <<stored, since>> /\ Finish(c, FALSE)
    /\ UNCHANGED <<bucket, holds, req, served, lst, names>>

-----------------------------------------------------------------------------
(***************************************************************************)
(* ListObjects.                                                            *)
(***************************************************************************)

(* CGetKeyRange: the first n keys that exist, from a key on.  It joins and splits  *)
(* them at ":"; names here have none.                                          *)
KeyRange(from, n) ==
    LET S == {k \in stored : k >= from}
    IN  {k \in S : Cardinality({j \in S : j < k}) < n}

(* The range asks for maxKeyRange keys, not for those that are left. *)
MutantGetRange(c) ==
    LET l == lst[c]
        ks == KeyRange(l.from, MaxKeyRange)
    IN  /\ pc[c] = "range"
        /\ \/ /\ lst' = [lst EXCEPT ![c].keys = ks, ![c].done = Cardinality(ks) < l.remain]
              /\ Go(c, IF \A k \in stored : k < l.from THEN "listed" ELSE "keys")
           \/ /\ lst' = [lst EXCEPT ![c].keys = {}, ![c].done = TRUE, ![c].lost = TRUE]
              /\ Go(c, "listed")
        /\ UNCHANGED <<bucket, stored, holds, req, served, ok, names, since>>

(* One range of keys; fewer than asked for means that there are no more.  A        *)
(* range that cannot be read looks like that too: CGetKeyRange drops the status    *)
(* and answers without keys and without an error.                               *)
GetRange(c) ==
    LET l == lst[c]
        ks == KeyRange(l.from, l.remain)
    IN  /\ pc[c] = "range"
        /\ \/ /\ lst' = [lst EXCEPT ![c].keys = ks, ![c].done = Cardinality(ks) < l.remain]
              /\ Go(c, IF \A k \in stored : k < l.from THEN "listed" ELSE "keys")
           \/ /\ lst' = [lst EXCEPT ![c].keys = {}, ![c].done = TRUE, ![c].lost = TRUE]
              /\ Go(c, "listed")
        /\ UNCHANGED <<bucket, stored, holds, req, served, ok, names, since>>

(* What key k does to the page once its metadata was read.  A key that does not  *)
(* match, and one of a prefix that is listed already, take no room; a hidden one *)
(* does.                                                                      *)
Account(c, l, k) ==
    LET dir == ~Recursive(c) /\ Dir[k] # 0
        more == [l EXCEPT !.from = k + 1, !.keys = @ \ {k}]
    IN  IF ~Matches(c, k) \/ (k \notin Hidden /\ dir /\ Dir[k] \in l.dirs) THEN more
        ELSE [more EXCEPT !.remain = @ - 1,
                          !.found = IF k \in Hidden \/ dir THEN @ ELSE @ \union {k},
                          !.dirs = IF k \in Hidden \/ ~dir THEN @ ELSE @ \union {Dir[k]}]

(* The next key of the range, if its metadata can be read or need not be.       *)
ListKey(c) ==
    /\ pc[c] = "keys"
    /\ \E k \in lst[c].keys :
         /\ \A j \in lst[c].keys : k <= j
         /\ Matches(c, k) => k \in stored
         /\ LET l == Account(c, lst[c], k)
            IN  /\ lst' = [lst EXCEPT ![c] = l]
                /\ Go(c, IF l.keys # {} THEN "keys"
                         ELSE IF ~l.done /\ l.remain > 0 THEN "range" ELSE "listed")
    /\ UNCHANGED <<bucket, stored, holds, req, served, ok, names, since>>

(* The metadata of a key cannot be read, because it was deleted meanwhile for     *)
(* example: the whole listing fails.                                          *)
ListFails(c) ==
    /\ pc[c] = "keys"
    /\ Finish(c, FALSE) /\ UNCHANGED lst
    /\ UNCHANGED <<bucket, stored, holds, req, served, names, since>>

IsTruncated(c) == ~(lst[c].remain > 0 \/ MaxKeys(c) <= MaxKeyRange)

(* The incremented key is left out of the range as well. *)
MutantNextMarker(k) == k + 2

(* NextMarker = IncStr(startKey): the least string that startKey is no prefix of. *)
NextMarker(k) == IF Extensions[k] = {} THEN k + 1 ELSE Max(Extensions[k]) + 1

(* The client asks for the page at NextMarker. *)
NextPage(c) ==
    Page(c, NextMarker(lst[c].from - 1), lst[c].found, lst[c].earlier \union lst[c].dirs, lst[c].lost)

(* The emptiness check is not looked at. *)
MutantListed(c) ==
    /\ pc[c] = "listed"
    /\ IF req[c].op = "delbucket" THEN Go(c, "walk") /\ UNCHANGED <<ok, lst>>
       ELSE IF IsTruncated(c)
         THEN lst' = [lst EXCEPT ![c] = NextPage(c)] /\ Go(c, "range") /\ UNCHANGED ok
         ELSE Finish(c, TRUE) /\ UNCHANGED lst
    /\ UNCHANGED <<bucket, stored, holds, req, served, names, since>>

(* ListObjects returns: DeleteBucket goes on if the page is empty; a client      *)
(* asks for the next page while IsTruncated is set.                            *)
Listed(c) ==
    /\ pc[c] = "listed"
    /\ IF req[c].op = "delbucket"
         THEN /\ IF lst[c].found = {} /\ lst[c].dirs = {}
                   THEN Go(c, "walk") /\ UNCHANGED ok ELSE Finish(c, FALSE)
              /\ UNCHANGED lst
         ELSE IF IsTruncated(c)
           THEN lst' = [lst EXCEPT ![c] = NextPage(c)] /\ Go(c, "range") /\ UNCHANGED ok
           ELSE Finish(c, TRUE) /\ UNCHANGED lst
    /\ UNCHANGED <<bucket, stored, holds, req, served, names, since>>

-----------------------------------------------------------------------------
(***************************************************************************)
(* DeleteBucket after its emptiness check.                                 *)
(***************************************************************************)

(* Walk: the goroutine reads one range that holds every key (fewer than 800). *)
Walk(c) ==
    /\ pc[c] = "walk"
    /\ stored # {}
    /\ lst' = [lst EXCEPT ![c].keys = stored]
    /\ Go(c, "visit")
    /\ UNCHANGED <<bucket, stored, holds, req, served, ok, names, since>>

(* It sends the next object, if it is not hidden. *)
Visit(c) ==
    /\ pc[c] = "visit"
    /\ \E k \in lst[c].keys \intersect stored :
         /\ \A j \in lst[c].keys : k <= j
         /\ lst' = [lst EXCEPT ![c].keys = @ \ {k}]
         /\ names' = [names EXCEPT ![c] = @ \union ({k} \ Hidden)]
    /\ UNCHANGED <<bucket, stored, holds, pc, req, served, ok, since>>

(* The walk is over and the channel closed: after the last key, or without a      *)
(* word when the range, or the metadata of a key, cannot be read.               *)
WalkEnds(c) ==
    /\ pc[c] \in {"walk", "visit"}
    /\ NextName(c, names[c])
    /\ UNCHANGED <<bucket, stored, holds, req, served, ok, lst, since>>

(* DeleteObject of one of them, with its deferred Unlock. *)
Erase(c) ==
    /\ pc[c] = "erase"
    /\ \E k \in names[c] :
         /\ IsObject(c, k)
         /\ NS!Drop(c, {k})
         /\ NextName(c, names[c] \ {k})
         /\ \/ k \in stored /\ Remove(k) /\ ok' \in {ok, [ok EXCEPT ![c] = FALSE]}
            \/ UNCHANGED <<stored, since>> /\ ok' = [ok EXCEPT ![c] = FALSE]
    /\ UNCHANGED <<bucket, req, served, lst>>

(* The bucket's own key goes last, if no object failed; then the key "bucketKey", *)
(* whose error is returned too.                                               *)
DropBucket(c) ==
    /\ pc[c] = "drop"
    /\ \/ ok[c] /\ bucket' = FALSE /\ \E e \in BOOLEAN : Finish(c, e)
       \/ UNCHANGED bucket /\ Finish(c, FALSE)
    /\ UNCHANGED <<stored, holds, req, served, lst, names, since>>

-----------------------------------------------------------------------------
Step(c) ==
    \/ AcquireBucket(c) \/ AcquireSource(c) \/ AcquireObject(c) \/ TimeOut(c) \/ Return(c)
    \/ MakeBucket(c) \/ GetBucketInfo(c) \/ GetObjectNInfo(c) \/ StatBucketDir(c)
    \/ PutObject(c) \/ DeleteObject(c)
    \/ GetRange(c) \/ ListKey(c) \/ ListFails(c) \/ Listed(c)
    \/ Walk(c) \/ Visit(c) \/ WalkEnds(c) \/ Erase(c) \/ DropBucket(c)

Next == \E c \in Clients : Step(c) \/ \E r \in Requests[c] : Begin(c, r)

Spec == Init /\ [][Next]_vars

(* A request that was begun runs on: a lock is granted or its timeout fires. *)
Fairness == \A c \in Clients : WF_vars(Step(c))

LiveSpec == Spec /\ Fairness

-----------------------------------------------------------------------------
(***************************************************************************)
(* Properties.                                                             *)
(***************************************************************************)

ListingType ==
    [from : Nat, remain : Nat, keys : SUBSET Keys, done : BOOLEAN,
     found : SUBSET Keys, dirs : SUBSET Nat, earlier : SUBSET Nat, lost : BOOLEAN]

TypeOK ==
    /\ bucket \in BOOLEAN
    /\ stored \in SUBSET Keys
    /\ holds \in [Clients -> [Keys \union {BucketPath} -> NS!Modes]]
    /\ pc \in [Clients -> PCs]
    /\ req \in [Clients -> RequestType \union {NoRequest}]
    /\ served \in [Clients -> Nat]
    /\ ok \in [Clients -> BOOLEAN]
    /\ lst \in [Clients -> ListingType]
    /\ names \in [Clients -> SUBSET Keys]
    /\ since \in [Clients -> SUBSET stored]

(* A listing that ends well, page after page until IsTruncated is not set, and    *)
(* all of whose ranges were read, returned every visible object that existed      *)
(* all the while and that it was asked for, itself or by its prefix.             *)
ListingComplete ==
    \A c \in Clients : pc[c] = "return" /\ req[c].op = "list" /\ ok[c] /\ ~lst[c].lost =>
        \A k \in (since[c] \intersect req[c].pattern) \ Hidden :
            \/ k \in lst[c].found
            \/ req[c].delim /\ Dir[k] \in lst[c].dirs \union lst[c].earlier

(* DeleteBucket deletes no object that was in the bucket when it took the        *)
(* bucket's lock, before it looked whether the bucket is empty, if it could       *)
(* look: a range that cannot be read passes for an empty bucket.                *)
DeletesOnlyNew ==
    [][\A c \in Clients : pc[c] = "erase" /\ pc'[c] # "erase" /\ ~lst[c].lost
          => (stored \ stored') \intersect since[c] = {}]_vars

(* Every request is answered, although CopyObject waits for the bucket with the  *)
(* object locked and DeleteBucket for the object with the bucket locked, and two  *)
(* copies in opposite directions wait for each other's source.                  *)
RequestsFinish == \A c \in Clients : pc[c] # "idle" ~> pc[c] = "idle"
=============================================================================
