------------------------ MODULE MultipartStageProofs ------------------------
(***************************************************************************)
(* Every step of a request leaves to all the others what they rely on at the    *)
(* point of their program where they stand.  So a committed object stays        *)
(* readable: no request ever deletes keys of the version that the metadata      *)
(* names.  The steps that only read are in MultipartProofs.  A copy of the       *)
(* object to itself, which takes no lock, comes last: it relies on being alone. *)
(***************************************************************************)
EXTENDS MultipartProofs

(* PutObjectPart adds a key, or fails and aborts the upload. *)
LEMMA PutPartReadable ==
    ASSUME Careful, IInv, IInv', RInv, NEW w \in Workers, PutPart(w)
    PROVE  RInv'
<1>1. /\ UNCHANGED <<meta, json, nsLock, commits, aborted>> /\ store \subseteq store'
      /\ Fail(w) \/ Continue(w, loc[w])
      /\ At(w, "putPart")
  BY DEF PutPart, AtLocked
<1>2. Request(w) /\ ~At(w, "deleteMeta")
  BY <1>1 DEF RInv, At
<1>3. Kind(loc[w]) = "part" /\ Len(loc[w].todo) = 1
  BY <1>1, <1>2, Standing, Points, Zenon
<1>4. loc[w].op # "copy"
  BY <1>3, OfKind
<1>5. Turned(w) /\ Request(w)' /\ Stage(w)'
  BY <1>1, <1>2, <1>3, <1>4, FailsReady, FreelyReady
<1> QED
  BY <1>1, <1>2, <1>5, Reading

(* An abort ends. *)
LEMMA AbortReturnsReadable ==
    ASSUME Careful, IInv, IInv', RInv, NEW w \in Workers, AbortReturns(w)
    PROVE  RInv'
<1>1. /\ UNCHANGED <<meta, store, json, nsLock, commits, aborted>>
      /\ Continue(w, loc[w]) /\ At(w, "return")
  BY DEF AbortReturns, stored, history
<1>2. Request(w) /\ ~At(w, "deleteMeta")
  BY <1>1 DEF RInv, At
<1>3. Len(loc[w].todo) = 1
  BY <1>1, <1>2, Standing, Points, Zenon
<1>4. Turned(w) /\ Request(w)' /\ Stage(w)'
  BY <1>1, <1>2, <1>3, FreelyReady
<1> QED
  BY <1>1, <1>2, <1>4, Reading

(* The namespace lock is taken by a request that has done nothing yet. *)
LEMMA LockReadable ==
    ASSUME Careful, IInv, IInv', RInv, NEW w \in Workers, Lock(w)
    PROVE  RInv'
<1> DEFINE k == Kind(loc[w])
           n == Len(loc[w].todo)
<1>1. /\ UNCHANGED <<meta, store, json, commits, aborted>>
      /\ Continue(w, loc[w]) /\ At(w, "lock") /\ nsLock = None /\ nsLock' = w
  BY DEF Lock, stored, history
<1>2. Request(w) /\ ~At(w, "deleteMeta") /\ loc[w] \in Requests
  BY <1>1 DEF RInv, At, IInv, TypeOK
<1>3. (k \in {"put", "remove"} /\ n = 4) \/ (k = "copy" /\ n = 9)
  BY <1>1, <1>2, Standing, Points, Zenon
<1>4. Free(k, n - 1)
  BY <1>3, FreeNext, Zenon
<1>5. Advanced(w, loc[w])
  BY <1>1, <1>2, Continues
<1>6. /\ Kind(loc'[w]) = k /\ Len(loc'[w].todo) = n - 1 /\ loc'[w].nums = loc[w].nums
  <2>1. n # 1
    BY <1>3
  <2> QED
    BY <1>5, <2>1 DEF Advanced
<1>7. Request(w)'
  <2>1. k = "copy" => loc[w].nums = Parts
    <3>1. 9 > 7
      OBVIOUS
    <3> QED
      BY <1>2, <1>3, <3>1, Zenon DEF Request
  <2> QED
    BY <1>1, <1>2, <1>5, <1>6, <2>1, StillRequest
<1>8. Turned(w) /\ Stage(w)'
  BY <1>4, <1>5, <1>6, <1>7, AdvancedTurned, Carefree
<1> QED
  BY <1>1, <1>2, <1>7, <1>8, Reading

(* It is given back by its owner, at its end. *)
LEMMA UnlockReadable ==
    ASSUME Careful, IInv, IInv', RInv, NEW w \in Workers, Unlock(w)
    PROVE  RInv'
<1>1. /\ UNCHANGED <<meta, store, json, commits, aborted>>
      /\ Continue(w, loc[w]) /\ At(w, "unlock") /\ nsLock' = None
  BY DEF Unlock, stored, history
<1>2. Request(w) /\ ~At(w, "deleteMeta") /\ loc[w] \in Requests
  BY <1>1 DEF RInv, At, IInv, TypeOK
<1>3. Kind(loc[w]) \in {"put", "remove", "copy", "copyFailed"} /\ Len(loc[w].todo) = 1
  BY <1>1, <1>2, Standing, Points, ZenonT(30)
<1>4. nsLock = w
  <2>1. loc[w].op \in {"put", "remove", "copy", "copyFailed"}
    BY <1>2, <1>3, KindOp
  <2> QED
    BY <1>1, <1>2, <2>1, HasLock
<1>5. Advanced(w, loc[w])
  BY <1>1, <1>2, Continues
<1>6. loc'[w] = Idle
  BY <1>3, <1>5 DEF Advanced
<1>7. Turned(w) /\ Request(w)' /\ Stage(w)'
  BY <1>5, <1>6, AdvancedTurned, IdleRelies
<1> QED
  BY <1>1, <1>2, <1>4, <1>7, Reading

(* Complete goes on to take the json key only if it finds its parts. *)
LEMMA ValidateReadable ==
    ASSUME Careful, IInv, IInv', RInv, NEW w \in Workers, Validate(w)
    PROVE  RInv'
<1> DEFINE l == [loc[w] EXCEPT !.keys = {}]
<1>1. UNCHANGED <<meta, store, json, nsLock, commits, aborted>> /\ At(w, "validate")
  BY DEF Validate, stored, history
<1>2. Request(w) /\ ~At(w, "deleteMeta") /\ loc[w] \in Requests
  BY <1>1 DEF RInv, At, IInv, TypeOK
<1>3. Kind(loc[w]) = "complete" /\ Len(loc[w].todo) = 3
  BY <1>1, <1>2, Standing, Points, Zenon
<1>4. CASE Fail(w)
  <2>1. loc[w].op # "copy"
    BY <1>3, OfKind
  <2>2. Turned(w) /\ Request(w)' /\ Stage(w)'
    BY <1>1, <1>2, <1>4, <2>1, FailsReady
  <2> QED
    BY <1>1, <1>2, <2>2, Reading
<1>5. CASE Continue(w, l) /\ Wanted(w) \subseteq store
  <2>1. /\ l \in Requests /\ l.todo = loc[w].todo /\ l.up = loc[w].up /\ l.op = loc[w].op
        /\ l.ver = loc[w].ver /\ l.nums = loc[w].nums
    BY <1>2 DEF Requests
  <2>2. Continue(w, l)
    BY <1>5
  <2> HIDE DEF l
  <2>3. Advanced(w, l)
    BY <1>1, <1>2, <2>1, <2>2, Continues
  <2>4. /\ loc'[w].up = loc[w].up /\ loc'[w].ver = loc[w].ver /\ loc'[w].nums = loc[w].nums
        /\ Kind(loc'[w]) = "complete" /\ Len(loc'[w].todo) = 2
        /\ loc'[w].todo \in Seq(Steps) /\ loc'[w].todo # <<>>
        /\ Follows("complete", loc'[w].todo)
    BY <1>3, <2>1, <2>3 DEF Advanced, IInv, TypeOK, Requests
  <2>5. Turned(w) /\ Request(w)'
    BY <1>1, <1>2, <2>3, AdvancedTurned, KeepsLock
  <2>6. ~At(w, "deleteKeys")'
    <3>1. Point("complete", 2, Head(loc'[w].todo))
      BY <2>4, TailFollows, Zenon
    <3> QED
      BY <3>1, DeletePoints DEF At
  <2>7. Wanted(w)' = Wanted(w)
    BY <2>4 DEF Wanted
  <2>8. Stage(w)'
    BY <1>1, <1>5, <2>4, <2>6, <2>7 DEF Stage, Deleting
  <2> QED
    BY <1>1, <1>2, <2>5, <2>8, Reading
<1> QED
  BY <1>4, <1>5, Reliable DEF Validate

(* What is left when an upload's json key is removed. *)
LEMMA JsonRemoved ==
    ASSUME IInv, RInv, NEW w \in Workers, Turned(w), Request(w)', Stage(w)',
           ~At(w, "deleteMeta"), UNCHANGED <<meta, store, nsLock, commits>>,
           json' \subseteq json, aborted \subseteq aborted'
    PROVE  RInv'
<1>1. ASSUME NEW v \in Workers \ {w} PROVE Left(v)
  <2>1. loc'[v] = loc[v] /\ Stage(v) /\ Version' = Version
    BY SMTT(20) DEF Turned, RInv, Version
  <2>2. Deleting(loc[v]) => Unread(meta', Doomed(loc[v]))
    BY <2>1, Zenon DEF Stage
  <2> QED
    BY <2>1, <2>2, Zenon DEF Left
<1> QED
  BY <1>1, Settled, SMTT(20)

(* Complete takes the json key; its parts are still there. *)
LEMMA TakeJsonReadable ==
    ASSUME Careful, IInv, IInv', RInv, NEW w \in Workers, TakeJson(w)
    PROVE  RInv'
<1>1. UNCHANGED <<meta, store, nsLock, commits, aborted>> /\ At(w, "takeJson")
  BY DEF TakeJson, AtLocked, history
<1>2. Request(w) /\ Stage(w) /\ ~At(w, "deleteMeta") /\ loc[w] \in Requests
  BY <1>1 DEF RInv, At, IInv, TypeOK
<1>3. Kind(loc[w]) = "complete" /\ Len(loc[w].todo) = 2
  BY <1>1, <1>2, Standing, Points, Zenon
<1>4. CASE Fail(w) /\ json' = json
  <2>1. loc[w].op # "copy"
    BY <1>3, OfKind
  <2>2. Turned(w) /\ Request(w)' /\ Stage(w)'
    BY <1>1, <1>2, <1>4, <2>1, FailsReady
  <2> QED
    BY <1>1, <1>2, <1>4, <2>2, Reading
<1>5. CASE Continue(w, loc[w]) /\ json' \subseteq json /\ loc[w].up \in json
  <2>1. Wanted(w) \subseteq store
    BY <1>2, <1>3, <1>5 DEF Stage
  <2>3. Advanced(w, loc[w])
    BY <1>1, <1>2, <1>5, Continues
  <2>4. /\ loc'[w].up = loc[w].up /\ loc'[w].ver = loc[w].ver /\ loc'[w].nums = loc[w].nums
        /\ Kind(loc'[w]) = "complete" /\ Len(loc'[w].todo) = 1
        /\ loc'[w].todo \in Seq(Steps) /\ loc'[w].todo # <<>>
        /\ Follows("complete", loc'[w].todo)
    BY <1>3, <2>3 DEF Advanced, IInv, TypeOK, Requests
  <2>5. Turned(w) /\ Request(w)'
    BY <1>1, <1>2, <2>3, AdvancedTurned, KeepsLock
  <2>6. ~At(w, "deleteKeys")'
    <3>1. Point("complete", 1, Head(loc'[w].todo))
      BY <2>4, TailFollows, Zenon
    <3> QED
      BY <3>1, DeletePoints DEF At
  <2>7. Wanted(w)' = Wanted(w)
    BY <2>4 DEF Wanted
  <2>8. Stage(w)'
    BY <1>1, <2>1, <2>4, <2>6, <2>7 DEF Stage, Deleting
  <2> QED
    BY <1>1, <1>2, <1>5, <2>5, <2>8, JsonRemoved
<1> QED
  BY <1>4, <1>5, Reliable DEF TakeJson

(* An abort removes the json key, so that the upload cannot be completed. *)
LEMMA DropJsonReadable ==
    ASSUME Careful, IInv, IInv', RInv, NEW w \in Workers, DropJson(w)
    PROVE  RInv'
<1>1. /\ UNCHANGED <<meta, store, nsLock, commits>> /\ At(w, "dropJson")
      /\ Continue(w, loc[w])
      /\ json' = json \ {loc[w].up} /\ aborted' = aborted \union {loc[w].up}
  BY Reliable DEF DropJson, AtLocked
<1>2. Request(w) /\ ~At(w, "deleteMeta") /\ loc[w] \in Requests
  BY <1>1 DEF RInv, At, IInv, TypeOK
<1>3. Kind(loc[w]) = "abort" /\ Len(loc[w].todo) = 7
  BY <1>1, <1>2, Standing, Points, Zenon
<1>4. Advanced(w, loc[w])
  BY <1>1, <1>2, Continues
<1>5. /\ loc'[w].up = loc[w].up
      /\ Kind(loc'[w]) = "abort" /\ Len(loc'[w].todo) = 6
      /\ loc'[w].todo \in Seq(Steps) /\ loc'[w].todo # <<>>
      /\ Follows("abort", loc'[w].todo)
  BY <1>3, <1>4 DEF Advanced, IInv, TypeOK, Requests
<1>6. Turned(w) /\ Request(w)'
  BY <1>1, <1>2, <1>4, AdvancedTurned, KeepsLock
<1>7. ~At(w, "deleteKeys")'
  <2>1. Point("abort", 6, Head(loc'[w].todo))
    BY <1>5, TailFollows, Zenon
  <2> QED
    BY <2>1, DeletePoints DEF At
<1>8. Stage(w)'
  BY <1>1, <1>5, <1>7 DEF Stage, Deleting
<1> QED
  BY <1>1, <1>2, <1>6, <1>8, JsonRemoved

(* The parts of another object have an etag of their own. *)
LEMMA CopySource ==
    ASSUME NEW w \in Workers, loc[w].op = "copy"
    PROVE  /\ Source(w) = {[num |-> n, tag |-> CopyTag] : n \in Parts}
           /\ \A v : \A n \in Parts :
                 {[ver |-> v, num |-> n, tag |-> p.tag] : p \in {q \in Source(w) : q.num = n}}
                    = {[ver |-> v, num |-> n, tag |-> CopyTag]}
<1>1. Source(w) = {[num |-> n, tag |-> CopyTag] : n \in Parts}
  BY DEF Source
<1>2. ASSUME NEW n \in Parts PROVE {q \in Source(w) : q.num = n} = {[num |-> n, tag |-> CopyTag]}
  BY <1>1
<1>3. ASSUME NEW n \in Parts, NEW v
      PROVE  {[ver |-> v, num |-> n, tag |-> p.tag] : p \in {[num |-> n, tag |-> CopyTag]}}
                = {[ver |-> v, num |-> n, tag |-> CopyTag]}
  OBVIOUS
<1> QED
  BY <1>1, <1>2, <1>3, Zenon

(* A copy adds its parts under the version that follows the object's. *)
LEMMA CopyPartReadable ==
    ASSUME Careful, IInv, IInv', RInv, NEW w \in Workers, CopyPart(w)
    PROVE  RInv'
<1>1. UNCHANGED <<meta, json, nsLock, commits, aborted>> /\ At(w, "copyParts")
  BY DEF CopyPart, AtLocked, history
<1>2. Request(w) /\ Stage(w) /\ ~At(w, "deleteMeta") /\ loc \in [Workers -> Requests]
  BY <1>1 DEF RInv, At, IInv, TypeOK
<1>3. Kind(loc[w]) = "copy" /\ Len(loc[w].todo) = 7
  BY <1>1, <1>2, Standing, Points, Zenon
<1>4. /\ Version = loc[w].ver
      /\ \A p \in Parts \ loc[w].nums : Key(newVersion(loc[w].ver), p, CopyTag) \in store
  BY <1>2, <1>3, Zenon DEF Stage
<1>5. CASE Fail(w) /\ store' = store
  <2>1. Turned(w) /\ Request(w)' /\ Stage(w)'
    BY <1>1, <1>2, <1>4, <1>5, FailsReady, Zenon
  <2> QED
    BY <1>1, <1>2, <1>5, <2>1, Reading, SMTT(20)
<1>6. ASSUME NEW p \in loc[w].nums,
             store' = store \union {[ver |-> newVersion(loc[w].ver), num |-> p, tag |-> CopyTag]},
             LET l == [loc[w] EXCEPT !.nums = @ \ {p}]
             IN  IF l.nums = {} THEN Continue(w, l) ELSE loc' = [loc EXCEPT ![w] = l]
      PROVE  RInv'
  <2> DEFINE l == [loc[w] EXCEPT !.nums = @ \ {p}]
  <2>1. /\ l \in Requests /\ l.todo = loc[w].todo /\ l.up = loc[w].up /\ l.op = loc[w].op
        /\ l.ver = loc[w].ver /\ l.nums = loc[w].nums \ {p}
    BY <1>2, Zenon DEF Requests
  <2>2. IF l.nums = {} THEN Continue(w, l) ELSE loc' = [loc EXCEPT ![w] = l]
    BY <1>6
  <2> HIDE DEF l
  <2>3. \A q \in Parts \ l.nums : Key(newVersion(loc[w].ver), q, CopyTag) \in store'
    BY <1>4, <1>6, <2>1 DEF Key
  <2>4. Version' = loc[w].ver /\ store \subseteq store'
    BY <1>1, <1>4, <1>6 DEF Version
  <2>5. ASSUME Turned(w), Request(w)', Kind(loc'[w]) = "copy", Len(loc'[w].todo) \in {6, 7},
               loc'[w].ver = loc[w].ver, loc'[w].nums = l.nums,
               Len(loc'[w].todo) = 6 => l.nums = {}
        PROVE  RInv'
    <3>1. ~At(w, "deleteKeys")'
      <4>1. loc'[w].todo \in Seq(Steps) /\ Follows("copy", loc'[w].todo)
        BY <2>5 DEF IInv, TypeOK, Requests, Request
      <4>2. At(w, "deleteKeys")' => Point("copy", Len(loc'[w].todo), "deleteKeys")
        BY <4>1, TailFollows, Zenon DEF At
      <4>3. ~Point("copy", 6, "deleteKeys") /\ ~Point("copy", 7, "deleteKeys")
        BY DeletePoints
      <4> QED
        BY <2>5, <4>2, <4>3, Zenon
    <3>2. ~Deleting(loc'[w])
      <4>1. \A m \in {6, 7} : ~(m <= 5)
        OBVIOUS
      <4> QED
        BY <2>5, <4>1, Zenon DEF Deleting
    <3>3. Stage(w)'
      BY <2>3, <2>4, <2>5, <3>1, <3>2 DEF Stage
    <3> QED
      BY <1>1, <1>2, <2>4, <2>5, <3>3, Reading, Zenon
  <2>6. CASE l.nums = {}
    <3>1. Continue(w, l)
      BY <2>2, <2>6
    <3>2. Advanced(w, l)
      BY <1>1, <1>2, <2>1, <3>1, Continues
    <3>3. Turned(w) /\ Request(w)'
      BY <1>1, <1>2, <3>2, AdvancedTurned, KeepsLock
    <3>4. /\ loc'[w].ver = loc[w].ver /\ loc'[w].nums = l.nums
          /\ Kind(loc'[w]) = "copy" /\ Len(loc'[w].todo) = 6
      BY <1>3, <2>1, <3>2 DEF Advanced
    <3> QED
      BY <2>5, <2>6, <3>3, <3>4
  <2>7. CASE l.nums # {}
    <3>1. loc' = [loc EXCEPT ![w] = l]
      BY <2>2, <2>7
    <3>2. loc'[w] = l /\ \A v \in Workers \ {w} : loc'[v] = loc[v]
      BY <1>2, <3>1
    <3>3. Kind(loc'[w]) = "copy" /\ Len(loc'[w].todo) = 7
      BY <1>3, <2>1, <3>2 DEF Kind
    <3>4. Turned(w)
      BY <2>1, <3>2 DEF Turned
    <3>5. Request(w)'
      <4>1. Owns(loc'[w]) => Owns(loc[w])
        BY <1>3 DEF Owns
      <4>2. loc'[w].op # "idle" /\ loc'[w].todo # <<>>
        BY <1>2, <2>1, <3>2, <1>1 DEF Request, At, Idle
      <4>3. ~(Len(loc'[w].todo) > 7) /\ Follows(Kind(loc'[w]), loc'[w].todo)
        <5>1. Follows("copy", loc[w].todo) /\ ~(7 > 7)
          BY <1>2, <1>3 DEF Request
        <5>2. loc'[w].todo = loc[w].todo
          BY <2>1, <3>2
        <5> QED
          BY <3>3, <5>1, <5>2, Zenon
      <4>4. Owns(loc'[w]) => nsLock' = w
        BY <1>1, <1>2, <4>1 DEF Request
      <4> QED
        BY <1>2, <2>1, <3>2, <4>2, <4>3, <4>4 DEF Request
    <3> QED
      BY <2>1, <2>5, <3>2, <3>3, <3>4, <3>5
  <2> QED
    BY <2>6, <2>7
<1>7. loc[w].op = "copy" /\ loc[w].nums \subseteq Parts
  BY <1>2, <1>3, KindOp DEF Requests
<1>8. ASSUME NEW n \in loc[w].nums
      PROVE  {[ver |-> newVersion(loc[w].ver), num |-> n, tag |-> p.tag] :
                p \in {q \in Source(w) : q.num = n}}
                = {[ver |-> newVersion(loc[w].ver), num |-> n, tag |-> CopyTag]}
  BY <1>7, CopySource
<1> QED
  BY <1>5, <1>6, <1>8, Zenon DEF CopyPart

-----------------------------------------------------------------------------
(* Only one copy is under way, and no other request has the lock. *)
LEMMA LockExcludes ==
    ASSUME RInv, NEW w \in Workers, nsLock = w, NEW v \in Workers \ {w}
    PROVE  /\ ~(Kind(loc[v]) = "copy" /\ Len(loc[v].todo) < 9)
           /\ Kind(loc[v]) # "copyFailed"
<1>1. Owns(loc[v]) => nsLock = v
  BY DEF RInv, Request
<1> QED
  BY <1>1 DEF Owns

(* Uploads and copies exclude each other. *)
LEMMA UploadExcludes ==
    ASSUME IInv, RInv, NEW w \in Workers, Kind(loc[w]) \in {"part", "complete", "purge", "abort"}
    PROVE  /\ \A v \in Workers : Kind(loc[v]) \notin {"copy", "copyFailed"}
           /\ json \subseteq {loc[w].up}
           /\ \A v \in Workers : loc[v].up \in {None, loc[w].up}
<1>1. loc[w].up # None
  BY OfKind
<1>2. ASSUME NEW v \in Workers, Kind(loc[v]) \in {"copy", "copyFailed"}
      PROVE  FALSE
  <2>1. loc[v].op \in {"copy", "copyFailed"}
    BY <1>2, KindOp DEF IInv, TypeOK
  <2> QED
    BY <1>1, <2>1 DEF RInv, Apart
<1> QED
  BY <1>1, <1>2 DEF RInv, Apart

(* A Complete with one step to go holds kineticMutex. *)
LEMMA CommitHolds ==
    ASSUME IInv, RInv, NEW v \in Workers, Kind(loc[v]) = "complete", Len(loc[v].todo) = 1
    PROVE  At(v, "commit") /\ mutex = v
<1>1. loc[v].todo \in Seq(Steps) /\ Follows("complete", loc[v].todo) /\ RequestInv(v)
  BY DEF IInv, TypeOK, Requests, RInv, Request
<1>2. loc[v].todo # <<>>
  <2>1. Len(<<>>) = 0 /\ 0 # 1
    OBVIOUS
  <2> QED
    BY <2>1, Zenon
<1>3. Point("complete", 1, Head(loc[v].todo))
  BY <1>1, <1>2, TailFollows, Zenon
<1>4. \A s : Point("complete", 1, s) => s = "commit"
  BY DEF Point
<1>5. Head(loc[v].todo) = "commit"
  BY <1>3, <1>4
<1> QED
  BY <1>1, <1>2, <1>5 DEF At, RequestInv, Holding

(* A simple put replaces the object; no copy can be between two steps. *)
LEMMA PutSimpleReadable ==
    ASSUME Careful, IInv, IInv', RInv, NEW w \in Workers, PutSimple(w)
    PROVE  RInv'
<1>1. UNCHANGED <<store, json, nsLock, commits, aborted>> /\ At(w, "putObject")
  BY DEF PutSimple, history
<1>2. Request(w) /\ ~At(w, "deleteMeta") /\ loc[w] \in Requests
  BY <1>1 DEF RInv, At, IInv, TypeOK
<1>3. Kind(loc[w]) = "put" /\ Len(loc[w].todo) = 2
  BY <1>1, <1>2, Standing, Points, Zenon
<1>4. loc[w].op = "put" /\ nsLock = w
  <2>1. loc[w].op = "put"
    BY <1>2, <1>3, KindOp
  <2> QED
    BY <1>1, <1>2, <2>1, HasLock
<1>5. CASE Fail(w) /\ meta' = meta
  <2>1. Turned(w) /\ Request(w)' /\ Stage(w)'
    BY <1>1, <1>2, <1>4, <1>5, FailsReady
  <2> QED
    BY <1>1, <1>2, <1>5, <2>1, Reading
<1>6. CASE Continue(w, loc[w]) /\ meta' = [ver |-> newVersion(loc[w].ver), parts |-> {}]
  <2>1. Turned(w) /\ Request(w)' /\ Stage(w)'
    BY <1>1, <1>2, <1>3, <1>6, FreelyReady, FreeNext, Zenon
  <2>2. meta'.parts = {} /\ \A v : Unread(meta', v)
    BY <1>6 DEF Unread
  <2>3. ASSUME NEW v \in Workers \ {w} PROVE Left(v)
    <3>1. loc'[v] = loc[v]
      BY <2>1 DEF Turned
    <3>2. ~(Kind(loc[v]) = "copy" /\ Len(loc[v].todo) \in {6, 7})
      <4>1. \A m \in {6, 7} : m < 9
        OBVIOUS
      <4> QED
        BY <1>4, <4>1, LockExcludes, Zenon
    <3> QED
      BY <1>1, <2>2, <3>1, <3>2 DEF Left
  <2>4. Tags' /\ CommittedReadable'
    BY <2>2 DEF Tags, CommittedReadable
  <2> QED
    BY <1>1, <2>1, <2>3, <2>4, Rewritten
<1> QED
  BY <1>5, <1>6 DEF PutSimple

(* A delete removes the metadata. *)
LEMMA DeleteObjectMetaReadable ==
    ASSUME Careful, IInv, IInv', RInv, NEW w \in Workers, DeleteObjectMeta(w)
    PROVE  RInv'
<1>1. /\ UNCHANGED <<store, json, nsLock, commits, aborted>> /\ At(w, "deleteMeta")
      /\ Continue(w, loc[w]) /\ meta' = None
  BY Reliable DEF DeleteObjectMeta, history
<1>2. Request(w) /\ loc[w] \in Requests
  BY <1>1 DEF RInv, At, IInv, TypeOK
<1>3. Kind(loc[w]) = "remove"
  BY <1>1, <1>2, Standing, Points
<1>4. nsLock = w
  <2>1. loc[w].op = "remove"
    BY <1>2, <1>3, KindOp
  <2> QED
    BY <1>1, <1>2, <2>1, HasLock
<1>5. Turned(w) /\ Request(w)' /\ Stage(w)'
  BY <1>1, <1>2, <1>3, FreelyReady, FreeNext, Zenon
<1>6. \A v : Unread(meta', v)
  BY <1>1 DEF Unread
<1>7. ASSUME NEW v \in Workers \ {w} PROVE Left(v)
  <2>1. loc'[v] = loc[v]
    BY <1>5 DEF Turned
  <2>2. ~(Kind(loc[v]) = "copy" /\ Len(loc[v].todo) \in {6, 7})
    <3>1. \A m \in {6, 7} : m < 9
      OBVIOUS
    <3> QED
      BY <1>4, <3>1, LockExcludes, Zenon
  <2> QED
    BY <1>1, <1>6, <2>1, <2>2 DEF Left
<1>8. Tags' /\ CommittedReadable'
  BY <1>1 DEF Tags, CommittedReadable
<1> QED
  BY <1>1, <1>5, <1>7, <1>8, Rewritten

(* A delete removes the object's parts, never those of an open upload: their     *)
(* etags are not among the object's, even under the same version.              *)
LEMMA DeleteObjectPartsReadable ==
    ASSUME Careful, IInv, IInv', RInv, NEW w \in Workers, DeleteObjectParts(w)
    PROVE  RInv'
<1> DEFINE named == {[ver |-> meta.ver, num |-> p.num, tag |-> p.tag] : p \in meta.parts}
<1>1. UNCHANGED <<meta, json, nsLock, commits, aborted>> /\ At(w, "deleteParts") /\ mutex = None
  BY DEF DeleteObjectParts, AtLocked, history
<1>2. Request(w) /\ ~At(w, "deleteMeta") /\ loc[w] \in Requests
  BY <1>1 DEF RInv, At, IInv, TypeOK
<1>3. Kind(loc[w]) = "remove" /\ Len(loc[w].todo) = 3
  BY <1>1, <1>2, Standing, Points, Zenon
<1>4. loc[w].op = "remove" /\ nsLock = w
  <2>1. loc[w].op = "remove"
    BY <1>2, <1>3, KindOp
  <2> QED
    BY <1>1, <1>2, <2>1, HasLock
<1>5. CASE Fail(w) /\ store' = store
  <2>1. Turned(w) /\ Request(w)' /\ Stage(w)'
    BY <1>1, <1>2, <1>4, <1>5, FailsReady
  <2> QED
    BY <1>1, <1>2, <1>5, <2>1, Reading
<1>6. CASE Continue(w, loc[w]) /\ store' = store \ named /\ meta # None
  <2>1. Turned(w) /\ Request(w)' /\ Stage(w)'
    BY <1>1, <1>2, <1>3, <1>6, FreelyReady, FreeNext, Zenon
  <2>2. ASSUME NEW v \in Workers \ {w} PROVE Left(v)
    <3>1. loc'[v] = loc[v] /\ Stage(v)
      BY <2>1 DEF Turned, RInv
    <3>2. ~(Kind(loc[v]) = "copy" /\ Len(loc[v].todo) \in {6, 7})
      <4>1. \A m \in {6, 7} : m < 9
        OBVIOUS
      <4> QED
        BY <1>4, <4>1, LockExcludes, Zenon
    <3>3. ~(Kind(loc[v]) = "complete" /\ Len(loc[v].todo) = 1)
      BY <1>1, CommitHolds, OptionsAssumption
    <3>4. ASSUME loc[v].up \in json PROVE Wanted(v) \cap named = {}
      <4>1. loc[v].up \in Uploads /\ commits[loc[v].up] = 0
        BY <3>4, Reliable DEF IInv, TypeOK, Taken
      <4>2. \A p \in meta.parts : p.tag # loc[v].up
        BY <1>6, <4>1, OptionsAssumption DEF RInv, Tags
      <4>3. \A key \in Wanted(v) : key.tag = loc[v].up
        BY DEF Wanted
      <4>4. \A key \in named : \E p \in meta.parts : key.tag = p.tag
        OBVIOUS
      <4> HIDE DEF named
      <4> QED
        BY <4>2, <4>3, <4>4
    <3>5. Deleting(loc[v]) => Unread(meta', Doomed(loc[v]))
      BY <1>1, <3>1, Zenon DEF Stage
    <3> HIDE DEF named
    <3>6. loc[v].up \in json => Wanted(v) \cap store \subseteq store'
      BY <1>6, <3>4
    <3> QED
      BY <1>1, <3>1, <3>2, <3>3, <3>5, <3>6, Zenon DEF Left
  <2>3. At(w, "deleteMeta")'
    <3>1. Advanced(w, loc[w])
      BY <1>1, <1>2, <1>6, Continues
    <3>2. /\ Len(loc'[w].todo) = 2 /\ loc'[w].todo # <<>> /\ loc'[w].todo \in Seq(Steps)
          /\ Follows("remove", loc'[w].todo)
      BY <1>3, <3>1 DEF Advanced, IInv, TypeOK, Requests
    <3>3. Point("remove", 2, Head(loc'[w].todo))
      BY <3>2, TailFollows, Zenon
    <3>4. \A s : Point("remove", 2, s) => s = "deleteMeta"
      BY DEF Point
    <3> QED
      BY <3>2, <3>3, <3>4 DEF At
  <2>4. Tags' /\ CommittedReadable'
    BY <1>1, <2>3 DEF RInv, Tags, CommittedReadable
  <2> QED
    BY <1>1, <2>1, <2>2, <2>4, Rewritten
<1> QED
  BY <1>5, <1>6, Reliable DEF DeleteObjectParts

(* Whoever deletes keys, no upload is open that could be completed. *)
LEMMA DeletesClosed ==
    ASSUME Careful, IInv, RInv, NEW w \in Workers, Deleting(loc[w])
    PROVE  json = {}
<1> DEFINE k == Kind(loc[w])
           n == Len(loc[w].todo)
<1>0. Stage(w) /\ n \in Nat
  BY DEF RInv, IInv, TypeOK, Requests
<1>1. CASE k = "purge"
  <2>1. commits[loc[w].up] # 0
    BY <1>0, <1>1 DEF Stage
  <2>2. json \subseteq {loc[w].up} /\ loc[w].up \in Uploads
    BY <1>1, UploadExcludes, OfKind
  <2> QED
    BY <2>1, <2>2, Reliable DEF IInv, Taken
<1>2. CASE k = "abort"
  <2>1. n <= 5
    BY <1>2 DEF Deleting
  <2>2. n <= 6
    <3>1. \A m \in Nat : m <= 5 => m <= 6
      OBVIOUS
    <3> QED
      BY <1>0, <2>1, <3>1
  <2>3. loc[w].up \in aborted
    BY <1>0, <1>2, <2>2 DEF Stage
  <2>4. json \subseteq {loc[w].up}
    BY <1>2, UploadExcludes
  <2> QED
    BY <2>3, <2>4 DEF IInv
<1>3. CASE k \in {"copy", "copyFailed"}
  <2>1. loc[w].op \in {"copy", "copyFailed"}
    BY <1>3, KindOp DEF IInv, TypeOK
  <2> QED
    BY <2>1 DEF RInv, Apart
<1> QED
  BY <1>1, <1>2, <1>3 DEF Deleting

(* No copy has parts to write or to commit meanwhile. *)
LEMMA DeletesAlone ==
    ASSUME IInv, RInv, NEW w \in Workers, Deleting(loc[w]), NEW v \in Workers \ {w}
    PROVE  ~(Kind(loc[v]) = "copy" /\ Len(loc[v].todo) \in {6, 7})
<1>1. CASE Kind(loc[w]) \in {"purge", "abort"}
  BY <1>1, UploadExcludes
<1>2. CASE Kind(loc[w]) \in {"copy", "copyFailed"}
  <2>1. Owns(loc[w])
    <3>1. \A m \in Nat : m <= 5 => m < 9
      OBVIOUS
    <3>2. Len(loc[w].todo) \in Nat
      BY DEF IInv, TypeOK, Requests
    <3> QED
      BY <1>2, <3>1, <3>2 DEF Deleting, Owns
  <2>2. nsLock = w
    BY <2>1 DEF RInv, Request
  <2>3. \A m \in {6, 7} : m < 9
    OBVIOUS
  <2> QED
    BY <2>2, <2>3, LockExcludes, Zenon
<1> QED
  BY <1>1, <1>2 DEF Deleting

(* Only these requests delete keys. *)
LEMMA DeleteStep ==
    ASSUME IInv, NEW w \in Workers, Request(w), At(w, "deleteKeys")
    PROVE  Deleting(loc[w])
<1>1. Point(Kind(loc[w]), Len(loc[w].todo), "deleteKeys")
  BY Standing
<1>2. \/ Kind(loc[w]) = "purge"
      \/ Kind(loc[w]) \in {"abort", "copy", "copyFailed"} /\ Len(loc[w].todo) \in {4, 2}
  BY <1>1, DeletePoints, Zenon
<1>3. \A m \in {4, 2} : m <= 5
  OBVIOUS
<1> QED
  BY <1>2, <1>3, Zenon DEF Deleting

(* The keys that purges, aborts and copies delete are of a version that nobody   *)
(* reads or completes.                                                      *)
LEMMA DeleteKeysReadable ==
    ASSUME Careful, IInv, IInv', RInv, NEW w \in Workers, DeleteKeys(w)
    PROVE  RInv'
<1> DEFINE l == [loc[w] EXCEPT !.keys = {}]
<1>1. /\ UNCHANGED <<meta, json, nsLock, commits, aborted>> /\ At(w, "deleteKeys") /\ mutex = None
      /\ Continue(w, l) /\ store' = store \ loc[w].keys
  BY Reliable DEF DeleteKeys, AtLocked, history
<1>2. Request(w) /\ Stage(w) /\ ~At(w, "deleteMeta") /\ loc[w] \in Requests
  BY <1>1 DEF RInv, At, IInv, TypeOK
<1>3. /\ l \in Requests /\ l.todo = loc[w].todo /\ l.up = loc[w].up /\ l.op = loc[w].op
      /\ l.ver = loc[w].ver /\ l.keys = {}
  BY <1>2 DEF Requests
<1>4. Continue(w, l)
  BY <1>1
<1> HIDE DEF l
<1>5. Advanced(w, l)
  BY <1>1, <1>2, <1>3, <1>4, Continues, Zenon
<1>6. Turned(w) /\ Request(w)'
  BY <1>1, <1>2, <1>5, AdvancedTurned, KeepsLock
<1>7. Deleting(loc[w])
  BY <1>1, <1>2, DeleteStep
<1>8. Stage(w)'
  <2>1. CASE loc'[w] = Idle
    BY <2>1, IdleRelies
  <2>2. CASE loc'[w] # Idle
    BY <1>1, <1>2, <1>3, <1>5, <1>7, <2>2, StillDeleting, SMTT(20)
  <2> QED
    BY <2>1, <2>2
<1>9. ASSUME NEW v \in Workers \ {w} PROVE Left(v)
  <2>1. loc'[v] = loc[v] /\ Stage(v)
    BY <1>6 DEF Turned, RInv
  <2>2. json = {}
    BY <1>7, DeletesClosed
  <2>3. ~(Kind(loc[v]) = "complete" /\ Len(loc[v].todo) = 1)
    BY <1>1, CommitHolds, OptionsAssumption
  <2>4. ~(Kind(loc[v]) = "copy" /\ Len(loc[v].todo) \in {6, 7})
    BY <1>7, DeletesAlone, SMTT(20)
  <2>5. Deleting(loc[v]) => Unread(meta', Doomed(loc[v]))
    BY <1>1, <2>1, Zenon DEF Stage
  <2> QED
    BY <1>1, <2>1, <2>2, <2>3, <2>4, <2>5, Zenon DEF Left
<1>10. ASSUME meta # None, NEW p \in meta.parts
       PROVE  Key(meta.ver, p.num, p.tag) \notin loc[w].keys
  <2>1. Unread(meta, Doomed(loc[w])) /\ \A key \in loc[w].keys : key.ver = Doomed(loc[w])
    BY <1>1, <1>2, <1>7, Zenon DEF Stage
  <2>2. meta.ver # Doomed(loc[w])
    BY <1>10, <2>1 DEF Unread
  <2>3. Key(meta.ver, p.num, p.tag).ver = meta.ver
    BY DEF Key
  <2> QED
    BY <2>1, <2>2, <2>3, SMTT(20)
<1> QED
  BY <1>1, <1>2, <1>6, <1>8, <1>9, <1>10, Settled

(* When Complete commits, no request is deleting: not the purge or the abort of  *)
(* the same upload, for it would have been committed or aborted before.         *)
LEMMA NobodyDeletes ==
    ASSUME Careful, IInv, RInv, NEW w \in Workers, At(w, "commit"),
           Kind(loc[w]) = "complete", NEW v \in Workers
    PROVE  ~Deleting(loc[v])
<1>1. SUFFICES ASSUME Deleting(loc[v]) PROVE FALSE
  OBVIOUS
<1>2. Kind(loc[v]) \in {"purge", "abort"}
  BY <1>1, UploadExcludes DEF Deleting
<1>3. loc[v].up = loc[w].up
  BY <1>2, UploadExcludes, OfKind
<1>4. loc[w].up \notin aborted /\ commits[loc[w].up] = 0
  BY Reliable DEF IInv, RequestInv, Taken
<1>5. Stage(v) /\ Len(loc[v].todo) \in Nat
  BY DEF RInv, IInv, TypeOK, Requests
<1>6. Kind(loc[v]) = "abort" => Len(loc[v].todo) <= 6
  <2>1. \A m \in Nat : m <= 5 => m <= 6
    OBVIOUS
  <2> QED
    BY <1>1, <1>5, <2>1 DEF Deleting
<1> QED
  BY <1>2, <1>3, <1>4, <1>5, <1>6 DEF Stage

(* The commit makes the version of the parts the object's own, and dooms the old one. *)
LEMMA CommitReadable ==
    ASSUME Careful, IInv, IInv', RInv, NEW w \in Workers, Commit(w)
    PROVE  RInv'
<1> DEFINE l == loc[w]
           u == loc[w].up
<1>1. UNCHANGED <<store, json, nsLock, aborted>> /\ At(w, "commit")
  BY DEF Commit
<1>2. /\ Request(w) /\ Stage(w) /\ ~At(w, "deleteMeta") /\ loc \in [Workers -> Requests]
      /\ loc[w] \in Requests
  BY <1>1 DEF RInv, At, IInv, TypeOK
<1>3. Kind(loc[w]) = "complete" /\ Len(loc[w].todo) = 1
  BY <1>1, <1>2, Standing, Points, Zenon
<1>4. u \in Uploads /\ u # None /\ loc[w].op = "complete"
  BY <1>2, <1>3, OfKind, KindOp
<1>5. CASE Fail(w) /\ UNCHANGED <<meta, commits>>
  <2>1. Turned(w) /\ Request(w)' /\ Stage(w)'
    BY <1>1, <1>2, <1>4, <1>5, FailsReady
  <2> QED
    BY <1>1, <1>2, <1>5, <2>1, Reading
<1>6. CASE /\ meta' = [ver |-> newVersion(loc[w].ver),
                       parts |-> {[num |-> n, tag |-> loc[w].up] : n \in loc[w].nums}]
           /\ commits' = [commits EXCEPT ![loc[w].up] = @ + 1]
           /\ Goto(w, "complete", IF loc[w].ver = 0 THEN <<>> ELSE deletePartsCurrent)
  <2>1. /\ \A x \in Uploads : commits[x] # 0 => commits'[x] # 0
        /\ commits'[u] # 0
    <3>1. commits \in [Uploads -> Nat]
      BY DEF IInv, TypeOK
    <3>2. commits' = [commits EXCEPT ![u] = commits[u] + 1]
      BY <1>6
    <3>3. commits'[u] = commits[u] + 1 /\ \A x \in Uploads \ {u} : commits'[x] = commits[x]
      BY <1>4, <3>1, <3>2
    <3>4. \A m \in Nat : m + 1 # 0
      OBVIOUS
    <3> QED
      BY <1>4, <3>1, <3>3, <3>4
  <2>2. meta'.ver = newVersion(loc[w].ver)
        /\ meta'.parts = {[num |-> n, tag |-> loc[w].up] : n \in loc[w].nums}
    BY <1>6
  <2>3. /\ \A v \in Workers \ {w} : loc'[v] = loc[v]
        /\ loc'[w] # Idle => loc'[w].op = "complete" /\ loc'[w].up = u /\ loc'[w].ver = loc[w].ver
    BY <1>6, Purges
  <2>4. Turned(w)
    BY <1>6, Purges
  <2>5. loc'[w] # Idle =>
            /\ Kind(loc'[w]) = "purge" /\ Len(loc'[w].todo) = 4 /\ loc'[w].todo # <<>>
            /\ Follows("purge", loc'[w].todo)
    BY <1>6, Purges
  <2>6. Request(w)'
    <3>1. CASE loc'[w] = Idle
      BY <3>1, IdleRelies
    <3>2. CASE loc'[w] # Idle
      <4>1. ~Owns(loc'[w])
        BY <2>5, <3>2, SMTT(20) DEF Owns
      <4> QED
        BY <1>4, <2>3, <2>5, <3>2, <4>1 DEF Request, UploadOps
    <3> QED
      BY <3>1, <3>2
  <2>7. Stage(w)'
    <3>1. CASE loc'[w] = Idle
      BY <3>1, IdleRelies
    <3>2. CASE loc'[w] # Idle
      <4>1. Doomed(loc'[w]) = loc[w].ver
        BY <2>3, <2>5, <3>2 DEF Doomed
      <4>2. Unread(meta', Doomed(loc'[w]))
        <5>1. newVersion(loc[w].ver) # loc[w].ver
          BY <1>2, NextVersion, Zenon DEF Requests
        <5> QED
          BY <2>2, <4>1, <5>1, SMTT(20) DEF Unread
      <4>3. ~At(w, "deleteKeys")'
        <5>1. loc'[w].todo \in Seq(Steps)
          BY DEF IInv, TypeOK, Requests
        <5>2. Point("purge", 4, Head(loc'[w].todo))
          BY <2>5, <3>2, <5>1, TailFollows, Zenon
        <5>3. ~Point("purge", 4, "deleteKeys")
          BY DeletePoints
        <5> QED
          BY <5>2, <5>3 DEF At
      <4> QED
        BY <2>1, <2>3, <2>5, <3>2, <4>2, <4>3, Zenon DEF Stage
    <3> QED
      BY <3>1, <3>2
  <2>8. ASSUME NEW v \in Workers \ {w} PROVE Left(v)
    <3>1. loc'[v] = loc[v] /\ ~Deleting(loc[v])
      BY <1>1, <1>3, <2>3, NobodyDeletes
    <3>2. Kind(loc[v]) # "copy"
      BY <1>3, UploadExcludes
    <3> QED
      BY <1>1, <2>1, <3>1, <3>2 DEF Left
  <2>9. Tags'
    <3>1. \A p \in meta'.parts : p.tag = u
      BY <2>2
    <3> QED
      BY <1>4, <2>1, <3>1 DEF Tags
  <2>10. CommittedReadable'
    <3>1. Wanted(w) \subseteq store
      BY <1>2, <1>3, Zenon DEF Stage
    <3>2. \A p \in meta'.parts : [ver |-> meta'.ver, num |-> p.num, tag |-> p.tag] \in Wanted(w)
      BY <2>2, SMTT(20) DEF Wanted
    <3> QED
      BY <1>1, <3>1, <3>2, SMTT(20) DEF CommittedReadable
  <2> QED
    BY <1>1, <2>4, <2>6, <2>7, <2>8, <2>9, <2>10, Rewritten
<1> QED
  BY <1>5, <1>6 DEF Commit

(* So does a copy's, when all of its parts are there. *)
LEMMA PutCopyReadable ==
    ASSUME Careful, IInv, IInv', RInv, NEW w \in Workers, PutCopy(w)
    PROVE  RInv'
<1>1. UNCHANGED <<store, json, nsLock, commits, aborted>> /\ At(w, "putCopy")
  BY Zenon DEF PutCopy, AtLocked, history
<1>2. /\ Request(w) /\ Stage(w) /\ ~At(w, "deleteMeta") /\ loc[w] \in Requests
  BY <1>1, Zenon DEF RInv, At, IInv, TypeOK
<1>3. Kind(loc[w]) = "copy" /\ Len(loc[w].todo) = 6
  BY <1>1, <1>2, Standing, Points, Zenon
<1>4. loc[w].op = "copy" /\ nsLock = w
  <2>1. loc[w].op = "copy"
    BY <1>2, <1>3, KindOp
  <2> QED
    BY <1>1, <1>2, <2>1, HasLock
<1>5. /\ Version = loc[w].ver
      /\ \A p \in Parts : Key(newVersion(loc[w].ver), p, CopyTag) \in store
  BY <1>2, <1>3, Zenon DEF Stage
<1>6. CASE Fail(w) /\ meta' = meta
  <2>1. Turned(w) /\ Request(w)' /\ Stage(w)'
    BY <1>1, <1>2, <1>5, <1>6, FailsReady
  <2> QED
    BY <1>1, <1>2, <1>6, <2>1, Reading
<1>7. CASE /\ meta' = [ver |-> newVersion(loc[w].ver),
                       parts |-> {[num |-> n, tag |-> CopyTag] : n \in Parts}]
           /\ Continue(w, loc[w])
  <2>1. meta'.ver = newVersion(loc[w].ver)
        /\ meta'.parts = {[num |-> n, tag |-> CopyTag] : n \in Parts}
    BY <1>7, SMTT(20)
  <2>2. Advanced(w, loc[w])
    BY <1>1, <1>2, <1>7, Continues, Zenon
  <2>3. /\ loc'[w].ver = loc[w].ver /\ Kind(loc'[w]) = "copy" /\ Len(loc'[w].todo) = 5
        /\ loc'[w].todo # <<>> /\ loc'[w].todo \in Seq(Steps)
        /\ Follows("copy", loc'[w].todo)
    BY <1>3, <2>2 DEF Advanced, IInv, TypeOK, Requests
  <2>4. Turned(w) /\ Request(w)'
    <3>1. Turned(w)
      BY <2>2, AdvancedTurned, Zenon
    <3>2. nsLock' = nsLock /\ At(w, "putCopy") /\ "putCopy" # "lock"
      BY <1>1, Zenon
    <3> QED
      BY <1>2, <2>2, <3>1, <3>2, KeepsLock
  <2>5. Stage(w)'
    <3>1. Doomed(loc'[w]) = loc[w].ver
      BY <2>3 DEF Doomed
    <3>2. Unread(meta', Doomed(loc'[w]))
      <4>1. newVersion(loc[w].ver) # loc[w].ver
        BY <1>2, NextVersion DEF Requests
      <4> QED
        BY <2>1, <3>1, <4>1 DEF Unread
    <3>3. ~At(w, "deleteKeys")'
      <4>1. Point("copy", 5, Head(loc'[w].todo))
        BY <2>3, TailFollows, Zenon
      <4>2. ~Point("copy", 5, "deleteKeys")
        BY DeletePoints
      <4> QED
        BY <4>1, <4>2 DEF At
    <3> QED
      BY <2>3, <3>2, <3>3, SMTT(20) DEF Stage
  <2>6. ASSUME NEW v \in Workers \ {w} PROVE Left(v)
    <3>1. loc'[v] = loc[v]
      BY <2>4 DEF Turned
    <3>2. Kind(loc[v]) \notin {"part", "complete", "purge", "abort"}
      BY <1>3, UploadExcludes
    <3>3. /\ ~(Kind(loc[v]) = "copy" /\ Len(loc[v].todo) < 9)
          /\ Kind(loc[v]) # "copyFailed"
      BY <1>4, LockExcludes
    <3>4. \A m \in Nat : m <= 5 \/ m \in {6, 7} => m < 9
      OBVIOUS
    <3>5. Len(loc[v].todo) \in Nat
      BY DEF IInv, TypeOK, Requests
    <3>6. ~(Kind(loc[v]) = "copy" /\ Len(loc[v].todo) \in {6, 7}) /\ ~Deleting(loc[v])
      BY <3>2, <3>3, <3>4, <3>5, Zenon DEF Deleting
    <3> QED
      BY <1>1, <3>1, <3>2, <3>6 DEF Left
  <2>7. Tags'
    BY <2>1 DEF Tags
  <2>8. CommittedReadable'
    <3>1. \A p \in meta'.parts : p.num \in Parts /\ p.tag = CopyTag
      BY <2>1
    <3>2. \A p \in meta'.parts : Key(meta'.ver, p.num, p.tag) \in store'
      BY <1>1, <1>5, <2>1, <3>1, Zenon
    <3> QED
      BY <3>2, Zenon DEF CommittedReadable, Key
  <2> QED
    BY <1>1, <2>4, <2>5, <2>6, <2>7, <2>8, Rewritten
<1>8. Source(w) = {[num |-> n, tag |-> CopyTag] : n \in Parts}
  BY <1>4, CopySource, Zenon
<1> QED
  BY <1>6, <1>7, <1>8, Zenon DEF PutCopy

-----------------------------------------------------------------------------
(* A new upload is the only one, and its first Complete is still to come. *)
LEMMA NewMultipartUploadReadable ==
    ASSUME Careful, IInv, RInv, NEW u \in Uploads, NewMultipartUpload(u)
    PROVE  RInv'
<1>1. /\ UNCHANGED <<meta, store, nsLock, loc, commits, aborted>> /\ json' = json \union {u}
      /\ u \notin json /\ acked[u] = {} /\ Alone(u)
  BY Reliable DEF NewMultipartUpload, Started, history
<1>2. json = {} /\ \A w \in Workers : loc[w].up \in {None, u}
  BY <1>1, SMTT(20) DEF Alone, IInv, TypeOK, Requests
<1>3. Apart'
  BY <1>1, <1>2, Zenon DEF Apart, Alone
<1>4. ASSUME NEW v \in Workers PROVE Left(v)
  <2>1. Kind(loc[v]) = "complete" => loc[v].up # u
    <3>1. Kind(loc[v]) = "complete" => Commits(loc[v].todo)
      BY KindOp, SMTT(20) DEF IInv, TypeOK
    <3> QED
      BY <1>1, <3>1, Zenon DEF IInv, RequestInv
  <2>2. Stage(v) /\ Version' = Version
    BY <1>1, Zenon DEF RInv, Version
  <2>3. Deleting(loc[v]) => Unread(meta', Doomed(loc[v]))
    BY <1>1, <2>2, Zenon DEF Stage
  <2>4. Kind(loc[v]) = "complete" => ~(loc[v].up \in json')
    <3>1. Kind(loc[v]) = "complete" => loc[v].op \in UploadOps
      BY KindOp, Zenon DEF IInv, TypeOK, UploadOps
    <3>2. Kind(loc[v]) = "complete" => loc[v].up # None
      BY <3>1, Zenon DEF RInv, Request
    <3>3. Kind(loc[v]) = "complete" => loc[v].up \notin {None, u}
      BY <2>1, <3>2
    <3> QED
      BY <1>2, <3>3
  <2> QED
    BY <1>1, <2>2, <2>3, <2>4, Zenon DEF Left
<1>5. \A v \in Workers : Request(v)' /\ Stage(v)'
  BY <1>4, Bystander DEF RInv
<1>6. Tags' /\ CommittedReadable'
  BY <1>1 DEF RInv, Tags, CommittedReadable, At
<1> QED
  BY <1>3, <1>5, <1>6 DEF RInv

(* A worker takes a request, at the start of its program. *)
LEMMA BeginReadable ==
    ASSUME Careful, IInv, IInv', RInv, NEW w \in Workers, NEW o, NEW t, NEW u, NEW nums,
           Begin(w, o, t, u, nums),
           t # <<>>, Follows(o, t), o = "complete" => Commits(t), Free(o, Len(t)),
           o \notin {"idle", "copyFailed"}, u = None <=> o \notin UploadOps,
           o \in {"put", "remove", "copy"} => o \in Ops,
           o \in {"put", "remove"} => Len(t) = 4,
           o = "copy" => Len(t) = 9 /\ nums = Parts /\ NoUploads,
           u # None => u \in Uploads /\ Alone(u)
    PROVE  RInv'
<1> DEFINE l == [op |-> o, todo |-> t, up |-> u, nums |-> nums, ver |-> 0, keys |-> {}]
<1>0. loc \in [Workers -> Requests] /\ json \subseteq Uploads
  BY SMTT(20) DEF IInv, TypeOK
<1>1. /\ loc' = [loc EXCEPT ![w] = l] /\ loc[w] = Idle
      /\ UNCHANGED <<meta, store, json, nsLock, commits, aborted>>
  BY Zenon DEF Begin, stored, history
<1>2. l.op = o /\ l.todo = t /\ l.up = u /\ l.nums = nums /\ Kind(l) = o
  BY DEF Kind
<1> HIDE DEF l
<1>3. loc'[w] = l /\ \A v \in Workers \ {w} : loc'[v] = loc[v]
  BY <1>0, <1>1
<1>4. Request(w)'
  <2>1. ~Owns(l)
    <3>1. ~(4 < 4) /\ ~(9 < 9)
      OBVIOUS
    <3>2. o \in {"put", "remove"} => ~(Len(t) < 4)
      BY <3>1, Zenon
    <3>3. o = "copy" => ~(Len(t) < 9)
      BY <3>1, Zenon
    <3> QED
      BY <1>2, <3>2, <3>3 DEF Owns
  <2> QED
    BY <1>2, <1>3, <2>1 DEF Request
<1>5. Stage(w)'
  BY <1>2, <1>3, <1>4, Carefree
<1>6. \A v \in Workers : Request(v)' /\ Stage(v)'
  <2>1. ASSUME NEW v \in Workers \ {w} PROVE Left(v)
    <3>1. Stage(v) /\ Version' = Version
      BY <1>1, SMTT(20) DEF RInv, Version
    <3>2. Deleting(loc[v]) => Unread(meta', Doomed(loc[v]))
      BY <1>1, <3>1, Zenon DEF Stage
    <3> QED
      BY <1>1, <1>3, <3>1, <3>2 DEF Left
  <2> QED
    BY <1>4, <1>5, <2>1, Bystander DEF RInv
<1>7. Apart'
  <2>0. \A v \in Workers : loc[v].up \in Uploads \union {None}
    BY <1>0, SMTT(20) DEF Requests
  <2>1. CASE u # None
    <3>1. /\ json \subseteq {u} /\ \A v \in Workers : loc[v].up \in {None, u}
          /\ \A v \in Workers : loc[v].op \notin {"copy", "copyFailed"}
      BY <1>0, <2>0, <2>1 DEF Alone
    <3>2. o \notin {"copy", "copyFailed"}
      BY <2>1 DEF UploadOps
    <3> QED
      BY <1>1, <1>2, <1>3, <3>1, <3>2, Zenon DEF Apart
  <2>2. CASE u = None /\ o = "copy"
    BY <1>1, <1>2, <1>3, <2>2, SMTT(20) DEF Apart, NoUploads
  <2>3. CASE u = None /\ o # "copy"
    <3>1. o \notin {"copy", "copyFailed"}
      BY <2>3, SMTT(20)
    <3> QED
      BY <1>1, <1>2, <1>3, <2>3, <3>1, StillApart DEF RInv
  <2> QED
    BY <2>1, <2>2, <2>3
<1>8. Tags' /\ CommittedReadable'
  <2>1. \A v \in Workers : At(v, "deleteMeta") => At(v, "deleteMeta")'
    <3>1. ~At(w, "deleteMeta")
      BY <1>1 DEF At, Idle
    <3> QED
      BY <1>3, <3>1 DEF At
  <2> QED
    BY <1>1, <2>1, Zenon DEF RInv, Tags, CommittedReadable
<1> QED
  BY <1>6, <1>7, <1>8 DEF RInv

-----------------------------------------------------------------------------
(***************************************************************************)
(* A copy of the object to itself.  It owns no lock, and relies on being the    *)
(* only request.                                                            *)
(***************************************************************************)

(* What is left of its programs. *)
ToPurge(t, range) == t \in Seq({range, "deleteKeys"})
ToPut(t) ==
    /\ t # <<>> /\ Head(t) = "putCopy"
    /\ Tail(t) # <<>> /\ Head(Tail(t)) = "rangeCurrent" /\ ToPurge(Tail(t), "rangeCurrent")
ToCopy(t) == t # <<>> /\ Head(t) = "copyParts" /\ ToPut(Tail(t))
ToBegin(t) == t # <<>> /\ Head(t) = "version" /\ ToCopy(Tail(t))
ToRead(t) == t # <<>> /\ Head(t) = "source" /\ ToBegin(Tail(t))
ToPutSimple(t) == t # <<>> /\ Head(t) = "putObject" /\ Tail(t) = <<>>
ToBeginSimple(t) == t # <<>> /\ Head(t) = "version" /\ ToPutSimple(Tail(t))

(* It deletes keys of version v, which the object does not have. *)
Discards(w, v) ==
    /\ Unread(meta, v)
    /\ At(w, "deleteKeys") => \A key \in loc[w].keys : key.ver = v

(* All parts of the object but those of the numbers in rest have been copied. *)
Copied(w, rest) ==
    /\ meta # None /\ Source(w) = meta.parts
    /\ \A p \in meta.parts : p.num \notin rest =>
          Key(newVersion(loc[w].ver), p.num, p.tag) \in store

SelfStage(w) ==
    LET l == loc[w]
    IN  \/ l.op = "selfCopy" /\ ToRead(l.todo)
        \/ /\ l.op = "selfCopy" /\ ToBegin(l.todo)
           /\ meta # None /\ Source(w) = meta.parts /\ l.nums = {p.num : p \in meta.parts}
        \/ l.op = "selfCopy" /\ ToCopy(l.todo) /\ Version = l.ver /\ Copied(w, l.nums)
        \/ l.op = "selfCopy" /\ ToPut(l.todo) /\ Version = l.ver /\ Copied(w, {})
        \/ l.op = "selfCopy" /\ ToPurge(l.todo, "rangeCurrent") /\ Discards(w, l.ver)
        \/ l.op = "selfFailed" /\ ToPurge(l.todo, "rangeNext") /\ Discards(w, newVersion(l.ver))
        \/ /\ l.op = "selfPut" /\ (ToBeginSimple(l.todo) \/ ToPutSimple(l.todo))
           /\ meta # None /\ meta.parts = {}

(* Every part of the object is in the store. *)
Whole == meta # None => \A p \in meta.parts : Key(meta.ver, p.num, p.tag) \in store

SelfInv(w) ==
    /\ "selfCopy" \in Ops
    /\ loc[w].up = None /\ loc[w].todo # <<>> /\ SelfStage(w)
    /\ \A v \in Workers \ {w} : loc[v] = Idle
    /\ json = {} /\ Tags /\ Whole

(* What a step of it leaves: the same object, and nothing else in progress. *)
SelfStep(w) ==
    /\ \A v \in Workers \ {w} : loc'[v] = loc[v]
    /\ UNCHANGED <<json, acked, commits, aborted>>
    /\ \/ meta' = meta
       \/ /\ meta # None
          /\ meta' = [ver |-> newVersion(loc[w].ver), parts |-> meta.parts]
    /\ Whole'
    /\ loc'[w] = Idle \/ (loc'[w].up = None /\ loc'[w].todo # <<>> /\ SelfStage(w)')

(* The programs begin as said. *)
LEMMA SelfStarts ==
    /\ ToRead(CopyToItself) /\ ToBeginSimple(CopySimpleToItself)
    /\ ToPurge(deletePartsNext, "rangeNext") /\ Head(deletePartsNext) = "rangeNext"
    /\ CopyToItself # <<>> /\ CopySimpleToItself # <<>> /\ deletePartsNext # <<>>
<1>1. /\ ToPurge(deletePartsNext, "rangeNext") /\ Head(deletePartsNext) = "rangeNext"
      /\ deletePartsNext # <<>>
  BY DEF deletePartsNext, ToPurge
<1>2. ToBeginSimple(CopySimpleToItself)
  BY DEF CopySimpleToItself, ToBeginSimple, ToPutSimple
<1>3. ToRead(CopyToItself)
  <2> DEFINE T == <<"rangeCurrent", "deleteKeys", "rangeCurrent", "deleteKeys">>
             S == <<"putCopy", "rangeCurrent", "deleteKeys", "rangeCurrent", "deleteKeys">>
             R == <<"copyParts", "putCopy", "rangeCurrent", "deleteKeys", "rangeCurrent",
                    "deleteKeys">>
             Q == <<"version", "copyParts", "putCopy", "rangeCurrent", "deleteKeys",
                    "rangeCurrent", "deleteKeys">>
             P == <<"source", "version", "copyParts", "putCopy", "rangeCurrent", "deleteKeys",
                    "rangeCurrent", "deleteKeys">>
  <2>1. CopyToItself = P
    <3> DEFINE C == CopyToItself
    <3>1. /\ C \in Seq(Steps) /\ Len(C) = 8
          /\ C[1] = "source" /\ C[2] = "version" /\ C[3] = "copyParts" /\ C[4] = "putCopy"
          /\ C[5] = "rangeCurrent" /\ C[6] = "deleteKeys" /\ C[7] = "rangeCurrent"
          /\ C[8] = "deleteKeys"
      BY DEF CopyToItself, deletePartsCurrent, Steps
    <3>2. /\ P \in Seq(Steps) /\ Len(P) = 8
          /\ P[1] = "source" /\ P[2] = "version" /\ P[3] = "copyParts" /\ P[4] = "putCopy"
          /\ P[5] = "rangeCurrent" /\ P[6] = "deleteKeys" /\ P[7] = "rangeCurrent"
          /\ P[8] = "deleteKeys"
      BY DEF Steps
    <3> HIDE DEF C, P
    <3>3. ASSUME NEW i \in 1..8 PROVE C[i] = P[i]
      <4>1. i \in {1, 2, 3, 4, 5, 6, 7, 8}
        OBVIOUS
      <4> QED
        BY <3>1, <3>2, <4>1
    <3>4. C = P
      BY <3>1, <3>2, <3>3
    <3> QED
      BY <3>4 DEF C
  <2>2. P # <<>> /\ Head(P) = "source" /\ Tail(P) = Q
    OBVIOUS
  <2>3. Q # <<>> /\ Head(Q) = "version" /\ Tail(Q) = R
    OBVIOUS
  <2>4. R # <<>> /\ Head(R) = "copyParts" /\ Tail(R) = S
    OBVIOUS
  <2>5. S # <<>> /\ Head(S) = "putCopy" /\ Tail(S) = T
    OBVIOUS
  <2>6. T # <<>> /\ Head(T) = "rangeCurrent" /\ T \in Seq({"rangeCurrent", "deleteKeys"})
    OBVIOUS
  <2> HIDE DEF P, Q, R, S, T
  <2> QED
    BY <2>1, <2>2, <2>3, <2>4, <2>5, <2>6, Zenon DEF ToRead, ToBegin, ToCopy, ToPut, ToPurge
<1> QED
  BY <1>1, <1>2, <1>3 DEF ToRead, ToBeginSimple

(* It begins alone, with an object that can be read. *)
LEMMA BeginToItself ==
    ASSUME IInv, NEW w \in Workers, "selfCopy" \in Ops, json = {},
           \A v \in Workers : loc[v] = Idle,
           Begin(w, "selfCopy", CopyToItself, None, {}), Tags, CommittedReadable
    PROVE  SelfInv(w)'
<1> DEFINE l == [op |-> "selfCopy", todo |-> CopyToItself, up |-> None, nums |-> {}, ver |-> 0,
                 keys |-> {}]
<1>1. /\ loc' = [loc EXCEPT ![w] = l] /\ loc \in [Workers -> Requests]
      /\ UNCHANGED <<meta, store, json, commits>>
  BY Zenon DEF Begin, stored, history, IInv, TypeOK
<1>2. l.op = "selfCopy" /\ l.todo = CopyToItself /\ l.up = None
  OBVIOUS
<1> HIDE DEF l
<1>3. loc'[w] = l /\ \A v \in Workers \ {w} : loc'[v] = loc[v]
  BY <1>1
<1>4. \A v \in Workers : ~At(v, "deleteMeta")
  BY DEF At, Idle
<1>5. Whole
  BY <1>4 DEF Whole, CommittedReadable, Key
<1>6. SelfStage(w)' /\ loc'[w].todo # <<>> /\ loc'[w].up = None
  BY <1>2, <1>3, SelfStarts, Zenon DEF SelfStage
<1> QED
  BY <1>1, <1>3, <1>5, <1>6 DEF SelfInv, Tags, Whole

(* At its end, and after a restart, nothing is in progress. *)
LEMMA AllIdle ==
    ASSUME \A w \in Workers : loc'[w] = Idle, json' = {}, Tags', Whole'
    PROVE  RInv'
<1>1. \A w \in Workers : Request(w)' /\ Stage(w)'
  BY IdleRelies
<1>2. Idle.up = None /\ Idle.op = "idle"
  BY DEF Idle
<1>3. Apart'
  BY <1>2 DEF Apart
<1>4. CommittedReadable'
  BY DEF Whole, CommittedReadable, Key
<1> QED
  BY <1>1, <1>3, <1>4 DEF RInv

(* It has done a step. *)
LEMMA SelfContinues ==
    ASSUME IInv, NEW w \in Workers, loc[w].todo # <<>>, NEW l \in Requests,
           l.todo = loc[w].todo, Continue(w, l)
    PROVE  /\ \A v \in Workers \ {w} : loc'[v] = loc[v]
           /\ Tail(loc[w].todo) = <<>> => loc'[w] = Idle
           /\ Tail(loc[w].todo) # <<>> =>
                 /\ loc'[w].todo = Tail(loc[w].todo) /\ loc'[w].op = l.op /\ loc'[w].up = l.up
                 /\ loc'[w].ver = l.ver /\ loc'[w].nums = l.nums /\ loc'[w].keys = l.keys
<1> DEFINE m == [l EXCEPT !.todo = Tail(@)]
<1>1. /\ m.todo = Tail(loc[w].todo) /\ m.up = l.up /\ m.op = l.op
      /\ m.nums = l.nums /\ m.ver = l.ver /\ m.keys = l.keys
  BY DEF Requests
<1>2. loc' = [loc EXCEPT ![w] = Done(m)] /\ loc \in [Workers -> Requests]
  BY DEF Continue, IInv, TypeOK
<1> HIDE DEF m
<1>3. loc'[w] = Done(m) /\ \A v \in Workers \ {w} : loc'[v] = loc[v]
  BY <1>2
<1> QED
  BY <1>1, <1>3, Zenon DEF Done

(* It goes to a program of its own, or ends. *)
LEMMA SelfGoes ==
    ASSUME IInv, NEW w \in Workers, NEW o, NEW t, Goto(w, o, t)
    PROVE  /\ \A v \in Workers \ {w} : loc'[v] = loc[v]
           /\ t = <<>> => loc'[w] = Idle
           /\ t # <<>> => loc'[w].todo = t /\ loc'[w].op = o /\ loc'[w].up = loc[w].up
                          /\ loc'[w].ver = loc[w].ver
<1> DEFINE m == [loc[w] EXCEPT !.op = o, !.todo = t]
<1>1. m.todo = t /\ m.up = loc[w].up /\ m.op = o /\ m.ver = loc[w].ver
  BY DEF Requests, IInv, TypeOK
<1>2. loc' = [loc EXCEPT ![w] = Done(m)] /\ loc \in [Workers -> Requests]
  BY DEF Goto, IInv, TypeOK
<1> HIDE DEF m
<1>3. loc'[w] = Done(m) /\ \A v \in Workers \ {w} : loc'[v] = loc[v]
  BY <1>2
<1> QED
  BY <1>1, <1>3 DEF Done

(* Its failing put removes the parts it wrote, which nobody reads. *)
LEMMA SelfFails ==
    ASSUME Careful, IInv, NEW w \in Workers, SelfInv(w), Fail(w), meta' = meta,
           loc[w].op = "selfCopy", Version = loc[w].ver
    PROVE  /\ \A v \in Workers \ {w} : loc'[v] = loc[v]
           /\ loc'[w].up = None /\ loc'[w].todo # <<>> /\ SelfStage(w)'
<1>1. Goto(w, "selfFailed", deletePartsNext)
  BY DEF Fail
<1>2. /\ \A v \in Workers \ {w} : loc'[v] = loc[v]
      /\ loc'[w].todo = deletePartsNext /\ loc'[w].op = "selfFailed" /\ loc'[w].up = loc[w].up
      /\ loc'[w].ver = loc[w].ver
  BY <1>1, SelfGoes, SelfStarts
<1>3. Unread(meta', newVersion(loc'[w].ver))
  BY <1>2, NextUnread
<1>4. ~At(w, "deleteKeys")'
  BY <1>2, SelfStarts DEF At
<1>5. SelfStage(w)'
  BY <1>2, <1>3, <1>4, SelfStarts, Zenon DEF SelfStage, Discards
<1> QED
  BY <1>2, <1>5, SelfStarts DEF SelfInv

(* Where its programs stand. *)
LEMMA SelfPoints ==
    ASSUME NEW w \in Workers, SelfInv(w), NEW step, At(w, step)
    PROVE  /\ step \in {"source", "version", "copyParts", "putCopy", "rangeCurrent", "rangeNext",
                        "deleteKeys", "putObject"}
           /\ loc[w].op \in SelfCopies
           /\ step = "source" => loc[w].op = "selfCopy" /\ ToRead(loc[w].todo)
           /\ step = "version" =>
                 \/ /\ loc[w].op = "selfCopy" /\ ToBegin(loc[w].todo)
                    /\ meta # None /\ Source(w) = meta.parts
                    /\ loc[w].nums = {p.num : p \in meta.parts}
                 \/ /\ loc[w].op = "selfPut" /\ ToBeginSimple(loc[w].todo)
                    /\ meta # None /\ meta.parts = {}
           /\ step = "copyParts" =>
                 /\ loc[w].op = "selfCopy" /\ ToCopy(loc[w].todo)
                 /\ Version = loc[w].ver /\ Copied(w, loc[w].nums)
           /\ step = "putCopy" =>
                 /\ loc[w].op = "selfCopy" /\ ToPut(loc[w].todo)
                 /\ Version = loc[w].ver /\ Copied(w, {})
           /\ step = "putObject" =>
                 loc[w].op = "selfPut" /\ ToPutSimple(loc[w].todo) /\ meta # None /\ meta.parts = {}
           /\ step \in {"rangeCurrent", "rangeNext", "deleteKeys"} =>
                 \/ /\ loc[w].op = "selfCopy" /\ ToPurge(loc[w].todo, "rangeCurrent")
                    /\ Discards(w, loc[w].ver) /\ step # "rangeNext"
                 \/ /\ loc[w].op = "selfFailed" /\ ToPurge(loc[w].todo, "rangeNext")
                    /\ Discards(w, newVersion(loc[w].ver)) /\ step # "rangeCurrent"
<1> DEFINE t == loc[w].todo
<1>1. t # <<>> /\ Head(t) = step /\ SelfStage(w)
  BY DEF SelfInv, At
<1>2. ASSUME NEW range, ToPurge(t, range) PROVE step \in {range, "deleteKeys"}
  BY <1>1, <1>2 DEF ToPurge
<1>3. CASE loc[w].op = "selfCopy" /\ ToRead(t)
  BY <1>1, <1>3, Zenon DEF ToRead, SelfCopies
<1>4. CASE /\ loc[w].op = "selfCopy" /\ ToBegin(t) /\ meta # None /\ Source(w) = meta.parts
           /\ loc[w].nums = {p.num : p \in meta.parts}
  BY <1>1, <1>4, Zenon DEF ToBegin, SelfCopies
<1>5. CASE loc[w].op = "selfCopy" /\ ToCopy(t) /\ Version = loc[w].ver /\ Copied(w, loc[w].nums)
  BY <1>1, <1>5, Zenon DEF ToCopy, SelfCopies
<1>6. CASE loc[w].op = "selfCopy" /\ ToPut(t) /\ Version = loc[w].ver /\ Copied(w, {})
  BY <1>1, <1>6, Zenon DEF ToPut, SelfCopies
<1>7. CASE loc[w].op = "selfCopy" /\ ToPurge(t, "rangeCurrent") /\ Discards(w, loc[w].ver)
  <2>1. step \in {"rangeCurrent", "deleteKeys"}
    BY <1>2, <1>7, Zenon
  <2> QED
    BY <1>7, <2>1 DEF SelfCopies
<1>8. CASE loc[w].op = "selfFailed" /\ ToPurge(t, "rangeNext") /\ Discards(w, newVersion(loc[w].ver))
  <2>1. step \in {"rangeNext", "deleteKeys"}
    BY <1>2, <1>8, Zenon
  <2> QED
    BY <1>8, <2>1 DEF SelfCopies
<1>9. CASE /\ loc[w].op = "selfPut" /\ (ToBeginSimple(t) \/ ToPutSimple(t))
           /\ meta # None /\ meta.parts = {}
  BY <1>1, <1>9, Zenon DEF ToBeginSimple, ToPutSimple, SelfCopies
<1> QED
  BY <1>1, <1>3, <1>4, <1>5, <1>6, <1>7, <1>8, <1>9, Zenon DEF SelfStage

(* It goes on with the same object. *)
LEMMA SelfReads ==
    ASSUME Careful, IInv, NEW w \in Workers, SelfInv(w), ReadSource(w)
    PROVE  SelfStep(w)
<1> DEFINE l == [loc[w] EXCEPT
                   !.nums = {p.num : p \in meta.parts},
                   !.keys = {[ver |-> meta.ver, num |-> p.num, tag |-> p.tag] : p \in meta.parts}]
<1>1. /\ At(w, "source") /\ UNCHANGED <<meta, store, json, acked, commits, aborted>>
      /\ loc[w] \in Requests
  BY DEF ReadSource, AtLocked, stored, history, IInv, TypeOK
<1>2. loc[w].op = "selfCopy" /\ ToRead(loc[w].todo)
  BY <1>1, SelfPoints
<1>3. Whole' /\ loc[w].up = None /\ loc[w].todo # <<>>
  BY <1>1 DEF SelfInv, Whole
<1>4. CASE Goto(w, "idle", <<>>)
  BY <1>1, <1>3, <1>4, SelfGoes DEF SelfStep
<1>5. CASE meta # None /\ meta.parts = {} /\ Goto(w, "selfPut", CopySimpleToItself)
  <2>1. /\ \A v \in Workers \ {w} : loc'[v] = loc[v]
        /\ loc'[w].todo = CopySimpleToItself /\ loc'[w].op = "selfPut" /\ loc'[w].up = None
    BY <1>3, <1>5, SelfGoes, SelfStarts
  <2>2. SelfStage(w)'
    BY <1>1, <1>5, <2>1, SelfStarts, Zenon DEF SelfStage
  <2> QED
    BY <1>1, <1>3, <2>1, <2>2, SelfStarts DEF SelfStep
<1>6. CASE meta # None /\ Continue(w, l)
  <2>1. /\ meta.ver \in Versions
        /\ meta.parts \subseteq [num : Parts, tag : Uploads \union {CopyTag}]
    BY <1>6 DEF IInv, TypeOK
  <2> DEFINE N == {p.num : p \in meta.parts}
             K == {[ver |-> meta.ver, num |-> p.num, tag |-> p.tag] : p \in meta.parts}
  <2>2. N \subseteq Parts /\ K \subseteq PartKeys
    BY <2>1 DEF PartKeys
  <2>3. {[num |-> k.num, tag |-> k.tag] : k \in K} = meta.parts
    <3>1. ASSUME NEW p \in meta.parts
          PROVE  [num |-> p.num, tag |-> p.tag] = p
                 /\ [ver |-> meta.ver, num |-> p.num, tag |-> p.tag] \in K
      BY <2>1
    <3>2. ASSUME NEW k \in K PROVE [num |-> k.num, tag |-> k.tag] \in meta.parts
      BY <3>1
    <3>3. ASSUME NEW p \in meta.parts PROVE \E k \in K : p = [num |-> k.num, tag |-> k.tag]
      <4>1. [ver |-> meta.ver, num |-> p.num, tag |-> p.tag].num = p.num
            /\ [ver |-> meta.ver, num |-> p.num, tag |-> p.tag].tag = p.tag
        OBVIOUS
      <4> QED
        BY <3>1, <4>1, Zenon
    <3> HIDE DEF K
    <3> QED
      BY <3>2, <3>3
  <2> HIDE DEF N, K
  <2>4. /\ l \in Requests /\ l.todo = loc[w].todo /\ l.up = None /\ l.op = "selfCopy"
        /\ l.nums = N /\ l.keys = K
    BY <1>1, <1>2, <1>3, <2>2, Zenon DEF Requests, N, K
  <2>5. Continue(w, l)
    BY <1>6
  <2> HIDE DEF l
  <2>6. ToBegin(Tail(loc[w].todo)) /\ Tail(loc[w].todo) # <<>>
    BY <1>2 DEF ToRead, ToBegin
  <2>7. /\ \A v \in Workers \ {w} : loc'[v] = loc[v]
        /\ loc'[w].todo = Tail(loc[w].todo) /\ loc'[w].op = "selfCopy" /\ loc'[w].up = None
        /\ loc'[w].nums = N /\ loc'[w].keys = K
    BY <1>3, <2>4, <2>5, <2>6, SelfContinues
  <2>8. Source(w)' = meta.parts
    BY <2>3, <2>7 DEF Source
  <2>9. SelfStage(w)'
    BY <1>1, <1>6, <2>6, <2>7, <2>8, Zenon DEF SelfStage, N
  <2> QED
    BY <1>1, <1>3, <2>6, <2>7, <2>9 DEF SelfStep
<1> QED
  BY <1>4, <1>5, <1>6 DEF ReadSource

(* It finds the version that it was to copy. *)
LEMMA SelfVersion ==
    ASSUME Careful, IInv, NEW w \in Workers, SelfInv(w), CurrentVersion(w)
    PROVE  SelfStep(w)
<1> DEFINE l == [loc[w] EXCEPT !.ver = Version]
<1>1. /\ At(w, "version") /\ Continue(w, l) /\ loc[w] \in Requests
      /\ UNCHANGED <<meta, store, json, acked, commits, aborted>>
  BY Reliable DEF CurrentVersion, AtLocked, stored, history, IInv, TypeOK
<1>2. Version \in Versions
  BY BoundsAssumption DEF Version, IInv, TypeOK, Versions
<1>3. /\ l \in Requests /\ l.todo = loc[w].todo /\ l.up = loc[w].up /\ l.op = loc[w].op
      /\ l.nums = loc[w].nums /\ l.ver = Version /\ l.keys = loc[w].keys
  BY <1>1, <1>2 DEF Requests
<1>4. Continue(w, l)
  BY <1>1
<1> HIDE DEF l
<1>5. Whole' /\ loc[w].up = None /\ loc[w].todo # <<>> /\ Version' = Version
  BY <1>1 DEF SelfInv, Whole, Version
<1>6. CASE /\ loc[w].op = "selfCopy" /\ ToBegin(loc[w].todo)
           /\ meta # None /\ Source(w) = meta.parts
           /\ loc[w].nums = {p.num : p \in meta.parts}
  <2>1. ToCopy(Tail(loc[w].todo)) /\ Tail(loc[w].todo) # <<>>
    BY <1>6 DEF ToBegin, ToCopy
  <2>2. /\ \A v \in Workers \ {w} : loc'[v] = loc[v]
        /\ loc'[w].todo = Tail(loc[w].todo) /\ loc'[w].op = "selfCopy" /\ loc'[w].up = None
        /\ loc'[w].nums = loc[w].nums /\ loc'[w].keys = loc[w].keys /\ loc'[w].ver = Version
    BY <1>3, <1>4, <1>5, <1>6, <2>1, SelfContinues
  <2>3. Source(w)' = meta'.parts
    BY <1>1, <1>6, <2>2, Zenon DEF Source
  <2>4. Copied(w, loc[w].nums)'
    BY <1>1, <1>6, <2>2, <2>3, Zenon DEF Copied
  <2>5. SelfStage(w)'
    BY <1>5, <2>1, <2>2, <2>4, Zenon DEF SelfStage
  <2> QED
    BY <1>1, <1>5, <2>1, <2>2, <2>5 DEF SelfStep
<1>7. CASE /\ loc[w].op = "selfPut" /\ ToBeginSimple(loc[w].todo)
           /\ meta # None /\ meta.parts = {}
  <2>1. ToPutSimple(Tail(loc[w].todo)) /\ Tail(loc[w].todo) # <<>>
    BY <1>7, Zenon DEF ToBeginSimple, ToPutSimple
  <2>2. /\ \A v \in Workers \ {w} : loc'[v] = loc[v]
        /\ loc'[w].todo = Tail(loc[w].todo) /\ loc'[w].op = "selfPut" /\ loc'[w].up = None
    BY <1>3, <1>4, <1>5, <1>7, <2>1, SelfContinues
  <2>3. SelfStage(w)'
    BY <1>1, <1>7, <2>1, <2>2, Zenon DEF SelfStage
  <2> QED
    BY <1>1, <1>5, <2>1, <2>2, <2>3 DEF SelfStep
<1> QED
  BY <1>1, <1>6, <1>7, SelfPoints, Zenon

(* The copy of an object without parts replaces it by one without parts. *)
LEMMA SelfPutsSimple ==
    ASSUME Careful, IInv, NEW w \in Workers, SelfInv(w), PutSimple(w)
    PROVE  SelfStep(w)
<1>1. /\ At(w, "putObject") /\ UNCHANGED <<store, json, acked, commits, aborted>>
      /\ loc[w] \in Requests
  BY DEF PutSimple, history, IInv, TypeOK
<1>2. loc[w].op = "selfPut" /\ Tail(loc[w].todo) = <<>> /\ meta # None /\ meta.parts = {}
      /\ loc[w].todo # <<>>
  BY <1>1, SelfPoints, Zenon DEF ToPutSimple
<1>3. /\ \A v \in Workers \ {w} : loc'[v] = loc[v]
      /\ loc'[w] = Idle
  <2>1. CASE Continue(w, loc[w])
    BY <1>1, <1>2, <2>1, SelfContinues
  <2>2. CASE Fail(w)
    <3>1. Goto(w, "idle", <<>>)
      BY <1>2, <2>2 DEF Fail
    <3> QED
      BY <3>1, SelfGoes
  <2> QED
    BY <2>1, <2>2, Zenon DEF PutSimple
<1>4. /\ meta' = meta \/ meta' = [ver |-> newVersion(loc[w].ver), parts |-> meta.parts]
      /\ meta'.parts = {}
  BY <1>2 DEF PutSimple
<1> QED
  BY <1>1, <1>2, <1>3, <1>4 DEF SelfStep, Whole

(* It goes on discarding keys of version v, in the same program. *)
LEMMA SelfDiscards ==
    ASSUME IInv, NEW w \in Workers, loc[w].up = None, loc[w].todo # <<>>,
           NEW range \in {"rangeCurrent", "rangeNext"}, ToPurge(loc[w].todo, range),
           \/ loc[w].op = "selfCopy" /\ range = "rangeCurrent"
           \/ loc[w].op = "selfFailed" /\ range = "rangeNext",
           NEW v, v = IF range = "rangeCurrent" THEN loc[w].ver ELSE newVersion(loc[w].ver),
           NEW l \in Requests, l.todo = loc[w].todo, l.up = loc[w].up, l.op = loc[w].op,
           l.ver = loc[w].ver, \A key \in l.keys : key.ver = v, Continue(w, l),
           Unread(meta, v), meta' = meta
    PROVE  /\ \A x \in Workers \ {w} : loc'[x] = loc[x]
           /\ loc'[w] = Idle \/ (loc'[w].up = None /\ loc'[w].todo # <<>> /\ SelfStage(w)')
<1>1. ToPurge(Tail(loc[w].todo), range)
  BY DEF ToPurge
<1>2. /\ \A x \in Workers \ {w} : loc'[x] = loc[x]
      /\ Tail(loc[w].todo) = <<>> => loc'[w] = Idle
      /\ Tail(loc[w].todo) # <<>> =>
            /\ loc'[w].todo = Tail(loc[w].todo) /\ loc'[w].op = l.op /\ loc'[w].up = l.up
            /\ loc'[w].ver = l.ver /\ loc'[w].keys = l.keys
  BY SelfContinues
<1>3. ASSUME Tail(loc[w].todo) # <<>> PROVE SelfStage(w)'
  <2>1. ToPurge(loc'[w].todo, range) /\ loc'[w].op = loc[w].op /\ loc'[w].ver = loc[w].ver
        /\ \A key \in loc'[w].keys : key.ver = v
    BY <1>1, <1>2, <1>3
  <2>2. Discards(w, v)'
    BY <2>1, Zenon DEF Discards
  <2>3. CASE loc[w].op = "selfCopy" /\ range = "rangeCurrent"
    BY <2>1, <2>2, <2>3, Zenon DEF SelfStage
  <2>4. CASE loc[w].op = "selfFailed" /\ range = "rangeNext"
    BY <2>1, <2>2, <2>4, Zenon DEF SelfStage
  <2> QED
    BY <2>3, <2>4
<1> QED
  BY <1>2, <1>3, Zenon

(* It lists keys of that version. *)
LEMMA SelfLists ==
    ASSUME Careful, IInv, NEW w \in Workers, SelfInv(w), GetKeyRange(w)
    PROVE  SelfStep(w)
<1>1. /\ UNCHANGED <<meta, store, json, acked, commits, aborted>> /\ loc[w] \in Requests
  BY DEF GetKeyRange, stored, history, IInv, TypeOK
<1>2. PICK range \in {"rangeCurrent", "rangeNext"} : At(w, range)
  BY DEF GetKeyRange, AtLocked
<1> DEFINE v == IF range = "rangeCurrent" THEN loc[w].ver ELSE newVersion(loc[w].ver)
<1>3. PICK S \in KeyRange(KeysOf(v)) : Continue(w, [loc[w] EXCEPT !.keys = S])
  BY <1>2, Reliable DEF GetKeyRange, At
<1>4. S \subseteq PartKeys /\ \A key \in S : key.ver = v
  <2>1. S \subseteq KeysOf(v)
    BY <1>3 DEF KeyRange
  <2> QED
    BY <2>1 DEF KeysOf, IInv, TypeOK
<1> DEFINE l == [loc[w] EXCEPT !.keys = S]
<1>5. /\ l \in Requests /\ l.todo = loc[w].todo /\ l.up = loc[w].up /\ l.op = loc[w].op
      /\ l.ver = loc[w].ver /\ l.keys = S
  BY <1>1, <1>4 DEF Requests
<1>6. Continue(w, l)
  BY <1>3
<1> HIDE DEF l
<1>7. /\ \/ loc[w].op = "selfCopy" /\ range = "rangeCurrent"
         \/ loc[w].op = "selfFailed" /\ range = "rangeNext"
      /\ ToPurge(loc[w].todo, range) /\ Unread(meta, v)
  BY <1>2, SelfPoints, Zenon DEF Discards
<1> HIDE DEF v
<1>8. v = IF range = "rangeCurrent" THEN loc[w].ver ELSE newVersion(loc[w].ver)
  BY DEF v
<1>9. Whole' /\ loc[w].up = None /\ loc[w].todo # <<>>
  BY <1>1 DEF SelfInv, Whole
<1>10. /\ \A x \in Workers \ {w} : loc'[x] = loc[x]
       /\ loc'[w] = Idle \/ (loc'[w].up = None /\ loc'[w].todo # <<>> /\ SelfStage(w)')
  <2>1. \A key \in l.keys : key.ver = v
    BY <1>4, <1>5
  <2> QED
    BY <1>1, <1>5, <1>6, <1>7, <1>8, <1>9, <2>1, SelfDiscards, Zenon
<1> QED
  BY <1>1, <1>9, <1>10 DEF SelfStep

(* It deletes what it has listed, and not the object's parts. *)
LEMMA SelfDeletes ==
    ASSUME Careful, IInv, NEW w \in Workers, SelfInv(w), DeleteKeys(w)
    PROVE  SelfStep(w)
<1> DEFINE l == [loc[w] EXCEPT !.keys = {}]
<1>1. /\ UNCHANGED <<meta, json, acked, commits, aborted>> /\ At(w, "deleteKeys")
      /\ Continue(w, l) /\ store' = store \ loc[w].keys /\ loc[w] \in Requests
  BY Reliable DEF DeleteKeys, AtLocked, history, IInv, TypeOK
<1>2. /\ l \in Requests /\ l.todo = loc[w].todo /\ l.up = loc[w].up /\ l.op = loc[w].op
      /\ l.ver = loc[w].ver /\ l.keys = {}
  BY <1>1 DEF Requests
<1>3. Continue(w, l)
  BY <1>1
<1> HIDE DEF l
<1>4. PICK range \in {"rangeCurrent", "rangeNext"} :
        /\ \/ loc[w].op = "selfCopy" /\ range = "rangeCurrent"
           \/ loc[w].op = "selfFailed" /\ range = "rangeNext"
        /\ ToPurge(loc[w].todo, range)
        /\ Discards(w, IF range = "rangeCurrent" THEN loc[w].ver ELSE newVersion(loc[w].ver))
  BY <1>1, SelfPoints, Zenon
<1> DEFINE v == IF range = "rangeCurrent" THEN loc[w].ver ELSE newVersion(loc[w].ver)
<1>5. v = IF range = "rangeCurrent" THEN loc[w].ver ELSE newVersion(loc[w].ver)
  OBVIOUS
<1>6. Discards(w, v)
  BY <1>4
<1> HIDE DEF v
<1>7. Unread(meta, v) /\ \A key \in loc[w].keys : key.ver = v
  BY <1>1, <1>6 DEF Discards
<1>8. Whole /\ loc[w].up = None /\ loc[w].todo # <<>>
  BY DEF SelfInv
<1>9. Whole'
  <2> SUFFICES ASSUME meta # None, NEW p \in meta.parts
               PROVE  Key(meta.ver, p.num, p.tag) \in store'
    BY <1>1 DEF Whole
  <2>1. Key(meta.ver, p.num, p.tag).ver = meta.ver /\ meta.ver # v
    BY <1>7 DEF Key, Unread
  <2>2. Key(meta.ver, p.num, p.tag) \in store
    BY <1>8 DEF Whole
  <2> QED
    BY <1>1, <1>7, <2>1, <2>2
<1>10. /\ \A x \in Workers \ {w} : loc'[x] = loc[x]
       /\ loc'[w] = Idle \/ (loc'[w].up = None /\ loc'[w].todo # <<>> /\ SelfStage(w)')
  BY <1>1, <1>2, <1>3, <1>4, <1>5, <1>7, <1>8, SelfDiscards, Zenon
<1> QED
  BY <1>1, <1>9, <1>10 DEF SelfStep

(* It copies a part, or discards what it has copied. *)
LEMMA SelfCopiesPart ==
    ASSUME Careful, IInv, NEW w \in Workers, SelfInv(w), CopyPart(w)
    PROVE  SelfStep(w)
<1>1. UNCHANGED <<meta, json, acked, commits, aborted>> /\ At(w, "copyParts") /\ loc[w] \in Requests
      /\ loc \in [Workers -> Requests]
  BY DEF CopyPart, AtLocked, history, IInv, TypeOK
<1>2. /\ loc[w].op = "selfCopy" /\ ToCopy(loc[w].todo)
      /\ Version = loc[w].ver /\ Copied(w, loc[w].nums)
  BY <1>1, SelfPoints, Zenon
<1>3. Whole /\ loc[w].up = None /\ loc[w].todo # <<>>
  BY DEF SelfInv
<1>4. CASE Fail(w) /\ store' = store
  <2>1. Whole'
    BY <1>1, <1>3, <1>4 DEF Whole
  <2> QED
    BY <1>1, <1>2, <1>4, <2>1, SelfFails DEF SelfStep
<1>5. ASSUME NEW n \in loc[w].nums,
             store' = store \union {[ver |-> newVersion(loc[w].ver), num |-> n, tag |-> p.tag] :
                                      p \in {q \in Source(w) : q.num = n}},
             LET l == [loc[w] EXCEPT !.nums = @ \ {n}]
             IN  IF l.nums = {} THEN Continue(w, l) ELSE loc' = [loc EXCEPT ![w] = l]
      PROVE  SelfStep(w)
  <2> DEFINE l == [loc[w] EXCEPT !.nums = @ \ {n}]
  <2>1. /\ l \in Requests /\ l.todo = loc[w].todo /\ l.up = loc[w].up /\ l.op = loc[w].op
        /\ l.ver = loc[w].ver /\ l.keys = loc[w].keys /\ l.nums = loc[w].nums \ {n}
    BY <1>1, Zenon DEF Requests
  <2>2. IF l.nums = {} THEN Continue(w, l) ELSE loc' = [loc EXCEPT ![w] = l]
    BY <1>5
  <2> HIDE DEF l
  <2>3. Whole'
    BY <1>1, <1>3, <1>5 DEF Whole
  <2>4. PICK rest : rest = l.nums
    OBVIOUS
  <2>5. ASSUME NEW p \in meta.parts, p.num \notin rest
        PROVE  Key(newVersion(loc[w].ver), p.num, p.tag) \in store'
    <3>1. CASE p.num = n
      BY <1>2, <1>5, <3>1 DEF Copied, Key
    <3>2. CASE p.num # n
      BY <1>2, <1>5, <2>1, <2>4, <2>5, <3>2 DEF Copied
    <3> QED
      BY <3>1, <3>2
  <2>6. ASSUME loc'[w].op = "selfCopy", loc'[w].ver = loc[w].ver, loc'[w].keys = loc[w].keys
        PROVE  Copied(w, rest)' /\ Version' = loc'[w].ver
    <3>1. Source(w)' = meta'.parts /\ meta' # None
      BY <1>1, <1>2, <2>6, Zenon DEF Source, Copied
    <3>2. Version' = Version
      BY <1>1 DEF Version
    <3>3. \A p \in meta'.parts : p.num \notin rest =>
             Key(newVersion(loc'[w].ver), p.num, p.tag) \in store'
      BY <1>1, <2>5, <2>6, Zenon
    <3> QED
      BY <1>2, <2>6, <3>1, <3>2, <3>3 DEF Copied
  <2>7. CASE l.nums = {}
    <3>1. Continue(w, l)
      BY <2>2, <2>7
    <3>2. ToPut(Tail(loc[w].todo)) /\ Tail(loc[w].todo) # <<>>
      BY <1>2, Zenon DEF ToCopy, ToPut
    <3>3. /\ \A v \in Workers \ {w} : loc'[v] = loc[v]
          /\ loc'[w].todo = Tail(loc[w].todo) /\ loc'[w].op = "selfCopy" /\ loc'[w].up = None
          /\ loc'[w].keys = loc[w].keys /\ loc'[w].ver = loc[w].ver
      BY <1>2, <1>3, <2>1, <3>1, <3>2, SelfContinues
    <3>4. Copied(w, {})' /\ Version' = loc'[w].ver
      BY <2>4, <2>6, <2>7, <3>3 DEF Copied
    <3>5. SelfStage(w)'
      BY <3>2, <3>3, <3>4, Zenon DEF SelfStage
    <3> QED
      BY <1>1, <2>3, <3>2, <3>3, <3>5 DEF SelfStep
  <2>8. CASE l.nums # {}
    <3>1. loc' = [loc EXCEPT ![w] = l]
      BY <2>2, <2>8
    <3>2. loc'[w] = l /\ \A v \in Workers \ {w} : loc'[v] = loc[v]
      BY <1>1, <3>1
    <3>3. /\ loc'[w].todo = loc[w].todo /\ loc'[w].op = "selfCopy" /\ loc'[w].up = None
          /\ loc'[w].keys = loc[w].keys /\ loc'[w].ver = loc[w].ver /\ loc'[w].nums = rest
      BY <1>2, <1>3, <2>1, <2>4, <3>2
    <3>4. Copied(w, loc[w].nums)' /\ Version' = loc'[w].ver
      BY <2>6, <3>3 DEF Copied
    <3>5. SelfStage(w)'
      BY <1>2, <3>3, <3>4, Zenon DEF SelfStage
    <3> QED
      BY <1>1, <1>3, <2>3, <3>2, <3>3, <3>5 DEF SelfStep
  <2> QED
    BY <2>7, <2>8
<1> QED
  BY <1>4, <1>5, Zenon DEF CopyPart

(* It makes the copied parts the object's own. *)
LEMMA SelfPutsCopy ==
    ASSUME Careful, IInv, NEW w \in Workers, SelfInv(w), PutCopy(w)
    PROVE  SelfStep(w)
<1>1. UNCHANGED <<store, json, acked, commits, aborted>> /\ At(w, "putCopy") /\ loc[w] \in Requests
  BY Zenon DEF PutCopy, AtLocked, history, IInv, TypeOK
<1>2. /\ loc[w].op = "selfCopy" /\ ToPut(loc[w].todo)
      /\ Version = loc[w].ver /\ Copied(w, {})
  BY <1>1, SelfPoints, Zenon
<1>3. Whole /\ loc[w].up = None /\ loc[w].todo # <<>>
  BY DEF SelfInv
<1>4. CASE Fail(w) /\ meta' = meta
  <2>1. Whole'
    BY <1>1, <1>3, <1>4, Zenon DEF Whole
  <2> QED
    BY <1>1, <1>2, <1>4, <2>1, SelfFails DEF SelfStep
<1>5. CASE meta' = [ver |-> newVersion(loc[w].ver), parts |-> Source(w)] /\ Continue(w, loc[w])
  <2>1. /\ meta' = [ver |-> newVersion(loc[w].ver), parts |-> meta.parts] /\ meta # None
        /\ meta'.ver = newVersion(loc[w].ver) /\ meta'.parts = meta.parts
    BY <1>2, <1>5 DEF Copied
  <2>2. Whole'
    BY <1>1, <1>2, <2>1, Zenon DEF Whole, Copied
  <2>3. /\ Tail(loc[w].todo) # <<>> /\ Head(Tail(loc[w].todo)) = "rangeCurrent"
        /\ ToPurge(Tail(loc[w].todo), "rangeCurrent")
    BY <1>2 DEF ToPut
  <2>4. /\ \A v \in Workers \ {w} : loc'[v] = loc[v]
        /\ loc'[w].todo = Tail(loc[w].todo) /\ loc'[w].op = "selfCopy" /\ loc'[w].up = None
        /\ loc'[w].ver = loc[w].ver
    BY <1>1, <1>2, <1>3, <1>5, <2>3, SelfContinues
  <2>5. Unread(meta', loc'[w].ver)
    <3>1. newVersion(loc[w].ver) # loc[w].ver
      BY <1>1, NextVersion DEF Requests
    <3> QED
      BY <2>1, <2>4, <3>1 DEF Unread
  <2>6. Discards(w, loc[w].ver)'
    BY <2>3, <2>4, <2>5 DEF Discards, At
  <2>7. SelfStage(w)'
    BY <2>3, <2>4, <2>6, Zenon DEF SelfStage
  <2> QED
    BY <1>1, <2>1, <2>2, <2>3, <2>4, <2>7 DEF SelfStep
<1> QED
  BY <1>4, <1>5, Zenon DEF PutCopy

(* Nothing else happens while the object is copied to itself. *)
LEMMA SelfAlone ==
    ASSUME Careful, IInv, NEW w \in Workers, SelfInv(w), [Next]_vars
    PROVE  \/ SelfStep(w)
           \/ Restart
           \/ UNCHANGED vars
<1>1. loc[w].todo # <<>> /\ At(w, Head(loc[w].todo))
  BY DEF SelfInv, At
<1>2. loc[w].op \in SelfCopies
  BY <1>1, SelfPoints, Zenon
<1>3. ASSUME NEW u \in Uploads, NewMultipartUpload(u) PROVE FALSE
  BY <1>2, <1>3, Reliable DEF NewMultipartUpload, Alone
<1>4. ASSUME NEW v \in Workers, BeginUploadRequest(v) \/ BeginObjectRequest(v) PROVE FALSE
  BY <1>2, <1>4, Reliable DEF BeginUploadRequest, BeginObjectRequest, Alone, NoSelfCopy
<1>5. ASSUME NEW v \in Workers, Step(v) PROVE v = w /\ SelfStep(w)
  <2>1. ASSUME v # w PROVE FALSE
    <3>1. loc[v] = Idle
      BY <2>1 DEF SelfInv
    <3>2. \A step : ~At(v, step)
      BY <3>1 DEF At, Idle
    <3> QED
      BY <1>5, <3>2, Zenon DEF Step, CurrentVersion, GetKeyRange, DeleteKeys, StatFirst, CheckJson,
         PutPart, Validate, TakeJson, Commit, DropJson, AbortReturns, Lock, Unlock, PutSimple,
         DeleteObjectParts, DeleteObjectMeta, ReadSource, CopyPart, PutCopy, AtLocked
  <2>2. \A step : At(w, step) =>
           step \in {"source", "version", "copyParts", "putCopy", "rangeCurrent", "rangeNext",
                     "deleteKeys", "putObject"}
    BY SelfPoints, Zenon
  <2>3. ~(\/ StatFirst(w) \/ CheckJson(w) \/ PutPart(w) \/ Validate(w) \/ TakeJson(w) \/ Commit(w)
          \/ DropJson(w) \/ AbortReturns(w) \/ Lock(w) \/ Unlock(w)
          \/ DeleteObjectParts(w) \/ DeleteObjectMeta(w))
    <3>1. \A step \in {"statFirst", "checkJson", "putPart", "validate", "takeJson", "commit",
                       "dropJson", "return", "lock", "unlock", "deleteParts", "deleteMeta"} :
             ~At(w, step)
      BY <2>2
    <3> QED
      BY <3>1, Zenon DEF StatFirst, CheckJson, PutPart, Validate, TakeJson, Commit, DropJson,
         AbortReturns, Lock, Unlock, DeleteObjectParts, DeleteObjectMeta, AtLocked
  <2> QED
    BY <1>5, <2>1, <2>3, SelfVersion, SelfLists, SelfDeletes, SelfPutsSimple, SelfReads,
       SelfCopiesPart, SelfPutsCopy, Zenon DEF Step
<1> QED
  BY <1>3, <1>4, <1>5 DEF Next

(* So it goes on, or leaves the object readable and nothing in progress. *)
LEMMA SelfInductive ==
    ASSUME Careful, IInv, NEW w \in Workers, SelfInv(w), [Next]_vars
    PROVE  RInv' \/ SelfInv(w)'
<1>1. Tags /\ Whole /\ json = {} /\ \A v \in Workers \ {w} : loc[v] = Idle
  BY DEF SelfInv
<1>2. CASE SelfStep(w)
  <2>1. Tags'
    <3>1. CASE meta' = meta
      BY <1>1, <1>2, <3>1 DEF SelfStep, Tags
    <3>2. CASE meta # None /\ meta' = [ver |-> newVersion(loc[w].ver), parts |-> meta.parts]
      <4>1. meta'.parts = meta.parts
        BY <3>2
      <4> QED
        BY <1>1, <1>2, <3>2, <4>1 DEF SelfStep, Tags
    <3> QED
      BY <1>2, <3>1, <3>2 DEF SelfStep
  <2>2. json' = {} /\ Whole' /\ \A v \in Workers \ {w} : loc'[v] = Idle
    BY <1>1, <1>2 DEF SelfStep
  <2>3. CASE loc'[w] = Idle
    BY <2>1, <2>2, <2>3, AllIdle
  <2>4. CASE loc'[w].up = None /\ loc'[w].todo # <<>> /\ SelfStage(w)'
    BY <2>1, <2>2, <2>4 DEF SelfInv
  <2> QED
    BY <1>2, <2>3, <2>4 DEF SelfStep
<1>3. CASE Restart
  <2>1. /\ UNCHANGED <<meta, store, json, commits>> /\ \A v \in Workers : loc'[v] = Idle
    BY <1>3 DEF Restart, stored, history
  <2>2. Tags' /\ Whole' /\ json' = {}
    BY <1>1, <2>1 DEF Tags, Whole
  <2> QED
    BY <2>1, <2>2, AllIdle
<1>4. CASE UNCHANGED vars
  BY <1>4, Zenon DEF vars, SelfInv, SelfStage, Tags, Whole, Source, Version, Copied, Discards, At
<1> QED
  BY <1>2, <1>3, <1>4, SelfAlone

(* The programs that requests start with. *)
LEMMA ArrivalsReadable ==
    ASSUME Careful, IInv, IInv', RInv, NEW w \in Workers,
           BeginUploadRequest(w) \/ BeginObjectRequest(w)
    PROVE  RInv' \/ SelfInv(w)'
<1>0. /\ PutObjectPartHandler # <<>> /\ CompleteMultipartUploadHandler # <<>>
      /\ AbortMultipartUpload # <<>> /\ PutObject # <<>> /\ DeleteObject # <<>>
      /\ CopyObject # <<>>
  <2>1. Len(<<>>) = 0 /\ 0 # 10 /\ 0 # 9 /\ 0 # 7 /\ 0 # 4
    OBVIOUS
  <2> QED
    BY <2>1, Starts, Zenon
<1>1. /\ Free("part", Len(PutObjectPartHandler))
      /\ Free("complete", Len(CompleteMultipartUploadHandler))
      /\ Free("abort", Len(AbortMultipartUpload))
      /\ Free("put", Len(PutObject)) /\ Free("remove", Len(DeleteObject))
      /\ Free("copy", Len(CopyObject))
  BY Starts DEF Free
<1>2. CASE BeginUploadRequest(w)
  <2>1. PICK u \in Uploads :
          /\ Alone(u)
          /\ \/ \E n \in Parts : Begin(w, "part", PutObjectPartHandler, u, {n})
             \/ \E nums \in (SUBSET acked[u]) \ {{}} :
                  Begin(w, "complete", CompleteMultipartUploadHandler, u, nums)
             \/ Begin(w, "abort", AbortMultipartUpload, u, {})
    BY <1>2, Reliable, Zenon DEF BeginUploadRequest
  <2>2. u # None
    BY OptionsAssumption, SMTT(20)
  <2>3. CASE \E n \in Parts : Begin(w, "part", PutObjectPartHandler, u, {n})
    BY <1>0, <1>1, <2>1, <2>2, <2>3, Starts, BeginReadable, Zenon DEF UploadOps
  <2>4. CASE \E nums \in (SUBSET acked[u]) \ {{}} :
                  Begin(w, "complete", CompleteMultipartUploadHandler, u, nums)
    BY <1>0, <1>1, <2>1, <2>2, <2>4, Starts, BeginReadable, Zenon DEF UploadOps
  <2>5. CASE Begin(w, "abort", AbortMultipartUpload, u, {})
    BY <1>0, <1>1, <2>1, <2>2, <2>5, Starts, BeginReadable, Zenon DEF UploadOps
  <2> QED
    BY <2>1, <2>3, <2>4, <2>5, SMTT(20)
<1>3. CASE "put" \in Ops /\ Begin(w, "put", PutObject, None, {})
  BY <1>0, <1>1, <1>3, Starts, BeginReadable, Zenon DEF UploadOps
<1>4. CASE "remove" \in Ops /\ Begin(w, "remove", DeleteObject, None, {})
  BY <1>0, <1>1, <1>4, Starts, BeginReadable, Zenon DEF UploadOps
<1>5. CASE "copy" \in Ops /\ NoUploads /\ Begin(w, "copy", CopyObject, None, Parts)
  BY <1>0, <1>1, <1>5, Starts, BeginReadable, Zenon DEF UploadOps
<1>6. CASE /\ "selfCopy" \in Ops /\ json = {} /\ \A v \in Workers : loc[v] = Idle
           /\ Begin(w, "selfCopy", CopyToItself, None, {})
  BY <1>6, BeginToItself DEF RInv
<1> QED
  BY <1>2, <1>3, <1>4, <1>5, <1>6, Reliable DEF BeginObjectRequest

(* A restart finds no delete half done, and ends all requests. *)
LEMMA RestartReadable ==
    ASSUME Careful, IInv, RInv, Restart
    PROVE  RInv'
<1>1. /\ Crashes /\ UNCHANGED <<meta, store, json, commits, aborted>>
      /\ \A w \in Workers : loc'[w] = Idle
  BY DEF Restart, stored, history
<1>2. \A w \in Workers : Request(w)' /\ Stage(w)'
  BY <1>1, IdleRelies
<1>3. Idle.up = None /\ Idle.op = "idle"
  BY SMTT(20) DEF Idle
<1>4. Apart' /\ Tags'
  BY <1>1, <1>3, Zenon DEF RInv, Apart, Tags
<1>5. ASSUME NEW w \in Workers, At(w, "deleteMeta") PROVE FALSE
  <2>1. Request(w)
    BY DEF RInv
  <2>2. Kind(loc[w]) = "remove"
    BY <1>5, <2>1, Standing, Points
  <2>3. loc[w].op = "remove"
    BY <2>2, KindOp DEF IInv, TypeOK
  <2> QED
    BY <1>1, <2>1, <2>3 DEF Request, Careful
<1>6. CommittedReadable'
  BY <1>1, <1>5 DEF RInv, CommittedReadable
<1> QED
  BY <1>2, <1>4, <1>6 DEF RInv

-----------------------------------------------------------------------------
(* The server starts without an object and without requests. *)
LEMMA InitReadable == Init => RInv
<1> SUFFICES ASSUME Init PROVE RInv
  OBVIOUS
<1>1. /\ meta = None /\ json = {} /\ \A w \in Workers : loc[w] = Idle
  BY DEF Init
<1>2. /\ Idle.op = "idle" /\ Idle.todo = <<>> /\ Idle.up = None /\ Kind(Idle) = "idle"
      /\ Len(Idle.todo) = 0
  BY DEF Idle, Kind
<1>3. Follows("idle", <<>>) /\ ~Owns(Idle) /\ ~Deleting(Idle)
  BY <1>2 DEF Follows, Owns, Deleting
<1>4. \A w \in Workers : Request(w)
  BY <1>1, <1>2, <1>3, SMTT(20) DEF Request, UploadOps
<1>5. \A w \in Workers : Stage(w)
  BY <1>1, <1>2, <1>3, Zenon DEF Stage, At
<1>6. Apart /\ Tags /\ CommittedReadable
  BY <1>1, <1>2, Zenon DEF Apart, Tags, CommittedReadable
<1> QED
  BY <1>4, <1>5, <1>6 DEF RInv

(* Requests that rely on their locks and on one upload at a time, or one copy of *)
(* the object to itself.                                                    *)
OInv == RInv \/ \E w \in Workers : SelfInv(w)

(* Every step of every request, and a restart, keeps the object readable, and    *)
(* keeps what makes it so.                                                  *)
THEOREM ReadableInductive ==
    ASSUME Careful
    PROVE  IInv /\ OInv /\ [Next]_vars => OInv'
<1> SUFFICES ASSUME IInv, OInv, [Next]_vars PROVE OInv'
  OBVIOUS
<1>0. IInv'
  BY Inductive
<1>a. ASSUME NEW w \in Workers, SelfInv(w) PROVE OInv'
  BY <1>a, SelfInductive DEF OInv
<1> SUFFICES ASSUME RInv PROVE OInv'
  BY <1>a DEF OInv
<1>1. ASSUME NEW u \in Uploads, NewMultipartUpload(u) PROVE RInv'
  BY <1>1, NewMultipartUploadReadable
<1>2. ASSUME NEW w \in Workers, BeginUploadRequest(w) \/ BeginObjectRequest(w)
      PROVE  RInv' \/ SelfInv(w)'
  BY <1>0, <1>2, ArrivalsReadable
<1>3. ASSUME NEW w \in Workers, Step(w) PROVE RInv'
  <2>1. CASE CurrentVersion(w) \/ GetKeyRange(w) \/ DeleteKeys(w) \/ StatFirst(w) \/ CheckJson(w)
    BY <1>0, <2>1, CurrentVersionReadable, GetKeyRangeReadable, DeleteKeysReadable, ListingReadable
  <2>2. CASE PutPart(w) \/ Validate(w) \/ TakeJson(w) \/ Commit(w)
    BY <1>0, <2>2, PutPartReadable, ValidateReadable, TakeJsonReadable, CommitReadable
  <2>3. CASE DropJson(w) \/ AbortReturns(w) \/ Lock(w) \/ Unlock(w) \/ PutSimple(w)
    BY <1>0, <2>3, DropJsonReadable, AbortReturnsReadable, LockReadable, UnlockReadable,
       PutSimpleReadable
  <2>4. CASE DeleteObjectParts(w) \/ DeleteObjectMeta(w) \/ CopyPart(w) \/ PutCopy(w)
    BY <1>0, <2>4, DeleteObjectPartsReadable, DeleteObjectMetaReadable, CopyPartReadable,
       PutCopyReadable
  <2>5. ~ReadSource(w)
    BY NotToItself DEF RInv, ReadSource, AtLocked
  <2> QED
    BY <1>3, <2>1, <2>2, <2>3, <2>4, <2>5 DEF Step
<1>4. ASSUME Restart PROVE RInv'
  BY <1>4, RestartReadable
<1>5. ASSUME UNCHANGED vars PROVE RInv'
  <2>1. UNCHANGED <<meta, store, json, mutex, nsLock, loc, commits, aborted>>
    BY <1>5 DEF vars
  <2>2. ASSUME NEW v \in Workers PROVE Left(v)
    <3>1. Stage(v) /\ Version' = Version
      BY <2>1, SMTT(20) DEF RInv, Version
    <3>2. Deleting(loc[v]) => Unread(meta', Doomed(loc[v]))
      BY <2>1, <3>1, Zenon DEF Stage
    <3> QED
      BY <2>1, <3>1, <3>2 DEF Left
  <2>3. \A v \in Workers : Request(v)' /\ Stage(v)'
    BY <2>2, Bystander, SMTT(20) DEF RInv
  <2>4. Apart' /\ Tags' /\ CommittedReadable'
    BY <2>1, Zenon DEF RInv, Apart, Tags, CommittedReadable, At
  <2> QED
    BY <2>3, <2>4 DEF RInv
<1> QED
  BY <1>1, <1>2, <1>3, <1>4, <1>5 DEF Next, OInv

(* In both cases the object can be read. *)
LEMMA OReadable == OInv => CommittedReadable
<1>1. RInv => CommittedReadable
  BY DEF RInv
<1>2. ASSUME NEW w \in Workers, SelfInv(w) PROVE CommittedReadable
  BY <1>2 DEF SelfInv, Whole, CommittedReadable, Key
<1> QED
  BY <1>1, <1>2 DEF OInv

(* As long as clients work on one upload or on copies at a time, nothing else is  *)
(* done with the object while it is copied to itself without a lock, and deletes  *)
(* succeed, an object that GET finds can be read, however requests of the upload, *)
(* retries, aborts, puts, deletes and copies interleave, whichever writes fail,   *)
(* and, where objects are not deleted, wherever the server stops.              *)
THEOREM Readable ==
    ASSUME Careful
    PROVE  Spec => []CommittedReadable
<1>1. IInv /\ OInv /\ [Next]_vars => OInv'
  BY ReadableInductive
<1>2. Init => OInv
  BY InitReadable DEF OInv
<1> QED
  BY <1>1, <1>2, OReadable, Invariant, PTL DEF Spec
=============================================================================
