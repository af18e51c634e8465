------------------------ MODULE MultipartObjectProofs ------------------------
(***************************************************************************)
(* What clients can rely on, for every number of workers, uploads, parts and   *)
(* versions.  First, where nothing but uploads and copies changes the object,   *)
(* the parts of an open upload stay where Complete looks for them: the object's *)
(* version does not change while the upload is open.  Then, the requests of     *)
(* careful clients implement AtomicObject: what a GET finds changes as a whole, *)
(* in one step.                                                             *)
(***************************************************************************)
EXTENDS MultipartStageProofs, MultipartView

(* The etags that part keys can have. *)
Etags == Uploads \union (IF "copy" \in Ops THEN {CopyTag} ELSE {})
(* One CGetKeyRange returns the keys of all the parts a version can have. *)
Ample ==
    \A v \in Versions : \A S \in SUBSET [ver : {v}, num : Parts, tag : Etags] :
        Cardinality(S) <= RangeMax

(* A request works for an upload that was started; a part is written, and looked *)
(* for, under the version after the object's own, and is found there.           *)
Fixed(w) ==
    LET l == loc[w]
        k == Kind(l)
        n == Len(l.todo)
    IN  /\ l.up # None => Started(l.up)
        /\ k = "part" /\ n = 1 /\ l.up \in json => l.ver = Version
        /\ k = "complete" => l.nums \subseteq acked[l.up]
        /\ k = "complete" /\ n <= 4 /\ l.up \in json => l.ver = Version
        /\ Ample /\ k = "complete" /\ n = 3 /\ l.up \in json => Wanted(w) \subseteq l.keys

KInv ==
    /\ \A w \in Workers : Fixed(w)
    /\ AckedPartsKept
    /\ \A key \in store : key.tag \in Etags

(* What a step changes while an upload is open. *)
Frame ==
    /\ json' \subseteq json
    /\ json' # {} => Version' = Version /\ store \subseteq store'
    /\ \A u \in Uploads : acked[u] \subseteq acked'[u] /\ (Started(u) => Started(u)')

(* A request that does no step has what it read. *)
LEMMA StillFixed ==
    ASSUME IInv, NEW v \in Workers, Fixed(v), loc'[v] = loc[v], Frame
    PROVE  Fixed(v)'
<1>1. loc[v].up # None => loc[v].up \in Uploads
  BY DEF IInv, TypeOK, Requests
<1>2. Kind(loc[v]) = "complete" => loc[v].up \in Uploads
  BY OfKind
<1>3. loc[v].up # None => Started(loc[v].up)'
  BY <1>1 DEF Fixed, Frame, Started
<1>4. Kind(loc[v]) = "complete" => loc[v].nums \subseteq acked'[loc[v].up]
  BY <1>2 DEF Fixed, Frame
<1>5. loc[v].up \in json' => loc[v].up \in json /\ Version' = Version
  BY DEF Frame
<1>6. Wanted(v)' = Wanted(v)
  BY DEF Wanted
<1> QED
  BY <1>3, <1>4, <1>5, <1>6 DEF Fixed

(* A request that turns to something else has nothing to compare. *)
LEMMA TurnedFixed ==
    ASSUME IInv, NEW w \in Workers, Fixed(w), Turned(w), Frame,
           Kind(loc'[w]) \notin {"part", "complete"}
    PROVE  Fixed(w)'
<1>1. loc'[w].up # None => loc'[w].up = loc[w].up /\ loc[w].up \in Uploads
  BY DEF IInv, TypeOK, Requests, Turned
<1>2. loc'[w].up # None => Started(loc[w].up)'
  BY <1>1 DEF Fixed, Frame, Started
<1> QED
  BY <1>2 DEF Fixed

(* A request that goes on has read the version at the right step. *)
LEMMA AdvancedFixed ==
    ASSUME IInv, NEW w \in Workers, Request(w), Fixed(w), NEW l, NEW step, At(w, step),
           Advanced(w, l), Frame, l.nums = loc[w].nums,
           l.ver = IF step = "version" THEN Version ELSE loc[w].ver,
           step = "rangeNext" /\ Ample /\ Kind(loc[w]) = "complete" /\ loc[w].up \in json =>
              Wanted(w) \subseteq l.keys
    PROVE  Fixed(w)'
<1> DEFINE k == Kind(loc[w])
           n == Len(loc[w].todo)
<1>0. Turned(w) /\ Point(k, n, step) /\ n \in Nat \ {0}
  BY AdvancedTurned, Standing
<1>1. CASE loc'[w] = Idle
  <2>1. Kind(loc'[w]) \notin {"part", "complete"}
    BY <1>1 DEF Kind, Idle
  <2> QED
    BY <1>0, <2>1, TurnedFixed
<1>2. CASE loc'[w] # Idle
  <2>1. /\ loc'[w].up = loc[w].up /\ loc'[w].nums = loc[w].nums /\ loc'[w].keys = l.keys
        /\ loc'[w].ver = IF step = "version" THEN Version ELSE loc[w].ver
        /\ Kind(loc'[w]) = k /\ Len(loc'[w].todo) = n - 1
    BY <1>2 DEF Advanced
  <2>2. loc'[w].up # None => Started(loc[w].up)'
    BY <2>1, Zenon DEF Fixed, Frame, Started, IInv, TypeOK, Requests
  <2>3. loc'[w].up \in json' => loc[w].up \in json /\ Version' = Version
    BY <2>1 DEF Frame
  <2>4. k = "part" /\ n - 1 = 1 => step = "version"
    <3>1. \A m \in Nat \ {0} : m - 1 = 1 => m = 2
      OBVIOUS
    <3>2. \A s : Point("part", 2, s) => s = "version"
      BY DEF Point
    <3> QED
      BY <1>0, <3>1, <3>2, Zenon
  <2>5. k = "complete" => loc[w].nums \subseteq acked'[loc[w].up]
    <3>1. k = "complete" => loc[w].up \in Uploads
      BY OfKind
    <3> QED
      BY <3>1 DEF Fixed, Frame
  <2>6. k = "complete" /\ n - 1 <= 4 => step = "version" \/ n <= 4
    <3>1. \A m \in Nat \ {0} : m - 1 <= 4 => m <= 4 \/ m = 5
      OBVIOUS
    <3>2. \A s : Point("complete", 5, s) => s = "version"
      BY DEF Point
    <3> QED
      BY <1>0, <3>1, <3>2
  <2>7. k = "part" /\ n - 1 = 1 /\ loc'[w].up \in json' => loc'[w].ver = Version'
    BY <2>1, <2>3, <2>4
  <2>8. k = "complete" /\ n - 1 <= 4 /\ loc'[w].up \in json' => loc'[w].ver = Version'
    BY <2>1, <2>3, <2>6 DEF Fixed
  <2>9. Ample /\ k = "complete" /\ n - 1 = 3 /\ loc'[w].up \in json' =>
            Wanted(w)' \subseteq loc'[w].keys
    <3>1. \A m \in Nat \ {0} : m - 1 = 3 => m = 4
      OBVIOUS
    <3>2. \A s : Point("complete", 4, s) => s = "rangeNext"
      BY DEF Point
    <3>3. k = "complete" /\ n - 1 = 3 => step = "rangeNext"
      BY <1>0, <3>1, <3>2, Zenon
    <3>4. step = "rangeNext" => Wanted(w)' = Wanted(w)
      BY <2>1 DEF Wanted
    <3> QED
      BY <2>1, <2>3, <3>3, <3>4
  <2> HIDE DEF k, n
  <2> QED
    BY <2>1, <2>2, <2>5, <2>7, <2>8, <2>9 DEF Fixed
<1> QED
  BY <1>1, <1>2

(* So has one that fails. *)
LEMMA FailsFixed ==
    ASSUME IInv, NEW w \in Workers, Request(w), NEW step, At(w, step), Fixed(w), Fail(w), Frame
    PROVE  Turned(w) /\ Fixed(w)'
<1>1. Fallen(w) /\ Turned(w)
  BY NotToItself, Fails, FallenTurned
<1>2. Kind(loc'[w]) \notin {"part", "complete"}
  <2>1. CASE loc'[w] = Idle
    BY <2>1 DEF Kind, Idle
  <2>2. CASE loc'[w] # Idle
    BY <1>1, <2>2 DEF Fallen
  <2> QED
    BY <2>1, <2>2
<1> QED
  BY <1>1, <1>2, TurnedFixed

(* A step within the frame keeps the parts, if it adds those it acknowledges. *)
LEMMA FrameKept ==
    ASSUME IInv, KInv, NEW w \in Workers, Turned(w), Fixed(w)', Frame,
           \A u \in json' : \A n \in acked'[u] \ acked[u] : Key(newVersion(Version), n, u) \in store',
           \A key \in store' \ store : key.tag \in Etags
    PROVE  KInv'
<1>1. \A v \in Workers : Fixed(v)'
  BY StillFixed DEF KInv, Turned
<1>2. ASSUME NEW u \in json', NEW n \in Parts, n \in acked'[u]
      PROVE  Key(newVersion(Version'), n, u) \in store'
  <2>1. u \in json /\ u \in Uploads /\ Version' = Version /\ store \subseteq store'
    BY DEF Frame, IInv, TypeOK
  <2>2. CASE n \in acked[u]
    BY <2>1, <2>2 DEF KInv, AckedPartsKept, Key
  <2>3. CASE n \notin acked[u]
    BY <1>2, <2>1, <2>3
  <2> QED
    BY <2>2, <2>3
<1>3. AckedPartsKept'
  BY <1>2 DEF AckedPartsKept, Key
<1>4. \A key \in store' : key.tag \in Etags
  BY DEF KInv
<1> QED
  BY <1>1, <1>3, <1>4 DEF KInv

(* A step that leaves the store, the json keys and the acknowledgements. *)
LEMMA SameFrame ==
    ASSUME UNCHANGED <<meta, json, acked, commits, aborted>>, store \subseteq store'
    PROVE  Frame
BY DEF Frame, Version, Started

(* The keys of a version are parts under some etag. *)
LEMMA KeysFit ==
    ASSUME IInv, KInv, Ample, NEW v \in Versions
    PROVE  Cardinality(KeysOf(v)) <= RangeMax
<1>1. \A k \in KeysOf(v) :
          /\ k \in [ver : Versions, num : Parts, tag : Uploads \union {CopyTag}]
          /\ k.ver = v /\ k.tag \in Etags
  BY DEF KeysOf, IInv, TypeOK, PartKeys, KInv
<1>2. KeysOf(v) \in SUBSET [ver : {v}, num : Parts, tag : Etags]
  BY <1>1
<1> QED
  BY <1>2 DEF Ample

(* currentVersion reads the object's version. *)
LEMMA CurrentVersionKept ==
    ASSUME Careful, IInv, RInv, KInv, NEW w \in Workers, CurrentVersion(w)
    PROVE  KInv'
<1> DEFINE l == [loc[w] EXCEPT !.ver = Version]
<1>0. Request(w) /\ Fixed(w) /\ loc[w] \in Requests
  BY DEF RInv, KInv, IInv, TypeOK
<1>1. /\ At(w, "version") /\ Continue(w, l)
      /\ UNCHANGED <<meta, store, json, acked, commits, aborted>>
  BY Reliable DEF CurrentVersion, AtLocked, stored, history
<1>2. Version \in Versions
  BY BoundsAssumption DEF Version, IInv, TypeOK, Versions
<1>3. /\ l \in Requests /\ l.todo = loc[w].todo /\ l.up = loc[w].up /\ l.op = loc[w].op
      /\ l.nums = loc[w].nums /\ l.ver = Version
  BY <1>0, <1>2 DEF Requests
<1> HIDE DEF l
<1>4. Advanced(w, l) /\ Turned(w)
  BY <1>0, <1>1, <1>3, Continues, AdvancedTurned
<1>5. Frame
  BY <1>1, SameFrame
<1>6. Fixed(w)'
  BY <1>0, <1>1, <1>3, <1>4, <1>5, AdvancedFixed, SMTT(20)
<1> QED
  BY <1>1, <1>4, <1>5, <1>6, FrameKept

(* CGetKeyRange lists all keys of the upload, for a version has no more than it returns. *)
LEMMA GetKeyRangeKept ==
    ASSUME Careful, IInv, RInv, KInv, NEW w \in Workers, GetKeyRange(w)
    PROVE  KInv'
<1>0. Request(w) /\ Fixed(w) /\ loc[w] \in Requests
  BY DEF RInv, KInv, IInv, TypeOK
<1>1. UNCHANGED <<meta, store, json, acked, commits, aborted>>
  BY DEF GetKeyRange, stored, history
<1>2. PICK step \in {"rangeCurrent", "rangeNext"} : At(w, step)
  BY DEF GetKeyRange, AtLocked
<1> DEFINE v == IF step = "rangeCurrent" THEN loc[w].ver ELSE newVersion(loc[w].ver)
<1>3. PICK S \in KeyRange(KeysOf(v)) : Continue(w, [loc[w] EXCEPT !.keys = S])
  BY <1>2, Reliable, Zenon DEF GetKeyRange, At
<1> DEFINE l == [loc[w] EXCEPT !.keys = S]
<1>4. /\ l \in Requests /\ l.todo = loc[w].todo /\ l.up = loc[w].up /\ l.op = loc[w].op
      /\ l.ver = loc[w].ver /\ l.nums = loc[w].nums /\ l.keys = S
  <2>1. S \subseteq PartKeys
    BY <1>3 DEF KeyRange, KeysOf, IInv, TypeOK
  <2> QED
    BY <1>0, <2>1 DEF Requests
<1>5. Continue(w, l)
  BY <1>3
<1> HIDE DEF l, v
<1>6. Advanced(w, l) /\ Turned(w)
  BY <1>0, <1>2, <1>4, <1>5, Continues, AdvancedTurned
<1>7. Frame
  BY <1>1, SameFrame
<1>8. ASSUME step = "rangeNext", Ample, Kind(loc[w]) = "complete", loc[w].up \in json
      PROVE  Wanted(w) \subseteq l.keys
  <2>1. v = newVersion(loc[w].ver)
    BY <1>8 DEF v
  <2>2. S = KeysOf(v)
    <3>1. v \in Versions
      BY <1>0, <2>1, NewVersionType DEF Requests
    <3> QED
      BY <1>3, <1>8, <3>1, KeysFit DEF KeyRange
  <2>3. loc[w].ver = Version /\ loc[w].nums \subseteq acked[loc[w].up]
    <3>1. Point("complete", Len(loc[w].todo), "rangeNext")
      BY <1>0, <1>2, <1>8, Standing
    <3>2. \A n : Point("complete", n, "rangeNext") => n = 4
      BY Points
    <3>3. Len(loc[w].todo) <= 4
      <4>1. 4 <= 4
        OBVIOUS
      <4> QED
        BY <3>1, <3>2, <4>1
    <3> QED
      BY <1>0, <1>8, <3>3 DEF Fixed
  <2>4. loc[w].nums \subseteq Parts
    BY <1>0 DEF Requests
  <2>5. Wanted(w) \subseteq store
    BY <1>8, <2>3, <2>4 DEF Wanted, KInv, AckedPartsKept
  <2>6. \A key \in Wanted(w) : key.ver = v
    BY <2>1 DEF Wanted
  <2> QED
    BY <1>4, <2>2, <2>5, <2>6 DEF KeysOf
<1>9. step # "version"
  BY <1>2
<1>10. Fixed(w)'
  BY <1>0, <1>2, <1>4, <1>6, <1>7, <1>8, <1>9, AdvancedFixed
<1> QED
  BY <1>1, <1>6, <1>7, <1>10, FrameKept

(* A request that goes on to its next step, or fails, keeps the parts, if the step *)
(* adds those it acknowledges and neither reads a version nor lists the new one.   *)
LEMMA StepKept ==
    ASSUME IInv, RInv, KInv, NEW w \in Workers, NEW step, At(w, step),
           step \notin {"version", "rangeNext"},
           NEW l \in Requests, l.todo = loc[w].todo, l.up = loc[w].up, l.op = loc[w].op,
           l.ver = loc[w].ver, l.nums = loc[w].nums, Fail(w) \/ Continue(w, l), Frame,
           \A u \in json' : \A n \in acked'[u] \ acked[u] : Key(newVersion(Version), n, u) \in store',
           \A key \in store' \ store : key.tag \in Etags
    PROVE  KInv'
<1>1. Request(w) /\ Fixed(w)
  BY DEF RInv, KInv
<1>2. CASE Fail(w)
  <2>1. Turned(w) /\ Fixed(w)'
    BY <1>1, <1>2, FailsFixed
  <2> QED
    BY <2>1, FrameKept
<1>3. CASE Continue(w, l)
  <2>1. Advanced(w, l)
    BY <1>1, <1>3, Continues
  <2>2. Turned(w)
    BY <2>1, AdvancedTurned
  <2>3. step # "version" /\ step # "rangeNext"
    OBVIOUS
  <2>4. Fixed(w)'
    BY <1>1, <2>1, <2>3, AdvancedFixed
  <2> QED
    BY <2>2, <2>4, FrameKept
<1> QED
  BY <1>2, <1>3

(* The steps that change neither the store nor the history. *)
LEMMA ReadingKept ==
    ASSUME Careful, IInv, RInv, KInv, NEW w \in Workers,
           StatFirst(w) \/ CheckJson(w) \/ Validate(w) \/ AbortReturns(w) \/ Lock(w) \/ Unlock(w)
    PROVE  KInv'
<1>0. loc[w] \in Requests
  BY DEF IInv, TypeOK
<1>1. UNCHANGED <<meta, store, json, acked, commits, aborted>>
  BY DEF StatFirst, CheckJson, Validate, AbortReturns, Lock, Unlock, stored, history
<1>2. Frame
  BY <1>1, SameFrame
<1>3. CASE StatFirst(w) \/ CheckJson(w) \/ AbortReturns(w) \/ Lock(w) \/ Unlock(w)
  <2>1. PICK step \in {"statFirst", "checkJson", "return", "lock", "unlock"} : At(w, step)
    BY <1>3, Zenon DEF StatFirst, CheckJson, AbortReturns, Lock, Unlock, AtLocked
  <2>2. Fail(w) \/ Continue(w, loc[w])
    BY <1>3 DEF StatFirst, CheckJson, AbortReturns, Lock, Unlock
  <2>3. step \notin {"version", "rangeNext"}
    BY <2>1
  <2> QED
    BY <1>0, <1>1, <1>2, <2>1, <2>2, <2>3, StepKept
<1>4. CASE Validate(w)
  <2> DEFINE l == [loc[w] EXCEPT !.keys = {}]
  <2>1. /\ l \in Requests /\ l.todo = loc[w].todo /\ l.up = loc[w].up /\ l.op = loc[w].op
        /\ l.ver = loc[w].ver /\ l.nums = loc[w].nums
    BY <1>0 DEF Requests
  <2>2. At(w, "validate") /\ (Fail(w) \/ Continue(w, l))
    BY <1>4 DEF Validate
  <2> HIDE DEF l
  <2> QED
    BY <1>1, <1>2, <2>1, <2>2, StepKept, Zenon
<1> QED
  BY <1>3, <1>4

(* A part is acknowledged once it is stored where Complete looks for it. *)
LEMMA PutPartKept ==
    ASSUME Careful, IInv, RInv, KInv, NEW w \in Workers, PutPart(w)
    PROVE  KInv'
<1>1. UNCHANGED <<meta, json, commits, aborted>> /\ At(w, "putPart")
  BY DEF PutPart, AtLocked
<1>2. Request(w) /\ Fixed(w) /\ loc[w] \in Requests
  BY DEF RInv, KInv, IInv, TypeOK
<1>3. Kind(loc[w]) = "part" /\ Len(loc[w].todo) = 1
  BY <1>1, <1>2, Standing, Points, Zenon
<1>4. loc[w].up \in Uploads
  BY <1>3, OfKind
<1>5. CASE UNCHANGED <<store, acked>> /\ Fail(w)
  <2>1. Frame
    BY <1>1, <1>5, SameFrame
  <2> QED
    BY <1>1, <1>2, <1>5, <2>1, StepKept
<1>6. CASE /\ store' = store \union Wanted(w)
           /\ acked' = [acked EXCEPT ![loc[w].up] = @ \union loc[w].nums]
           /\ Continue(w, loc[w])
  <2>1. /\ acked'[loc[w].up] = acked[loc[w].up] \union loc[w].nums
        /\ \A u \in Uploads \ {loc[w].up} : acked'[u] = acked[u]
    BY <1>4, <1>6 DEF IInv, TypeOK
  <2>2. \A u \in Uploads : acked[u] \subseteq acked'[u] /\ (Started(u) => Started(u)')
    BY <1>1, <2>1 DEF Started
  <2>3. Version' = Version /\ store \subseteq store'
    BY <1>1, <1>6 DEF Version
  <2>4. Frame
    BY <1>1, <2>2, <2>3 DEF Frame
  <2>5. ASSUME NEW u \in json', NEW n \in acked'[u] \ acked[u]
        PROVE  Key(newVersion(Version), n, u) \in store'
    <3>1. u \in Uploads /\ u \in json
      BY <1>1 DEF IInv, TypeOK
    <3>2. u = loc[w].up /\ n \in loc[w].nums
      BY <2>1, <3>1
    <3>3. loc[w].ver = Version
      BY <1>2, <1>3, <3>1, <3>2 DEF Fixed
    <3> QED
      BY <1>6, <3>2, <3>3 DEF Wanted, Key
  <2>6. \A key \in store' \ store : key.tag \in Etags
    BY <1>4, <1>6 DEF Wanted, Etags
  <2> QED
    BY <1>1, <1>2, <1>6, <2>4, <2>5, <2>6, StepKept
<1> QED
  BY <1>5, <1>6 DEF PutPart

(* A Complete takes the json key, an abort drops it: the upload is closed. *)
LEMMA TakeJsonKept ==
    ASSUME Careful, IInv, RInv, KInv, NEW w \in Workers, TakeJson(w)
    PROVE  KInv'
<1>1. /\ UNCHANGED <<meta, store, acked, commits, aborted>> /\ At(w, "takeJson")
      /\ json' \subseteq json /\ \A u \in json \ json' : u = loc[w].up
      /\ Fail(w) \/ Continue(w, loc[w])
  BY DEF TakeJson, AtLocked, history
<1>2. Request(w) /\ loc[w] \in Requests /\ RequestInv(w)
  BY DEF RInv, IInv, TypeOK
<1>3. Kind(loc[w]) = "complete"
  BY <1>1, <1>2, Standing, Points, Zenon
<1>4. acked[loc[w].up] # {}
  BY <1>2, <1>3, KindOp DEF RequestInv
<1>5. \A u \in Uploads : Started(u) => Started(u)'
  BY <1>1, <1>4 DEF Started
<1>6. Frame
  BY <1>1, <1>5 DEF Frame, Version
<1> QED
  BY <1>1, <1>2, <1>6, StepKept

(* Abort and Complete drop the upload's json when they end it: its parts are no  *)
(* longer promised to anybody.                                               *)
LEMMA DropJsonKept ==
    ASSUME Careful, IInv, RInv, KInv, NEW w \in Workers, DropJson(w)
    PROVE  KInv'
<1>1. /\ UNCHANGED <<meta, store, acked, commits>> /\ At(w, "dropJson")
      /\ Continue(w, loc[w])
      /\ json' = json \ {loc[w].up} /\ aborted' = aborted \union {loc[w].up}
  BY Reliable DEF DropJson, AtLocked
<1>2. loc[w] \in Requests
  BY DEF IInv, TypeOK
<1>3. \A u \in Uploads : Started(u) => Started(u)'
  BY <1>1 DEF Started
<1>4. Frame
  BY <1>1, <1>3 DEF Frame, Version
<1> QED
  BY <1>1, <1>2, <1>4, StepKept

(* Keys are deleted only while no upload is open. *)
LEMMA DeleteKeysKept ==
    ASSUME Careful, IInv, RInv, KInv, NEW w \in Workers, DeleteKeys(w)
    PROVE  KInv'
<1> DEFINE l == [loc[w] EXCEPT !.keys = {}]
<1>0. Request(w) /\ loc[w] \in Requests
  BY DEF RInv, IInv, TypeOK
<1>1. /\ UNCHANGED <<meta, json, acked, commits, aborted>> /\ At(w, "deleteKeys")
      /\ Continue(w, l) /\ store' \subseteq store
  BY Reliable DEF DeleteKeys, AtLocked, history
<1>2. /\ l \in Requests /\ l.todo = loc[w].todo /\ l.up = loc[w].up /\ l.op = loc[w].op
      /\ l.ver = loc[w].ver /\ l.nums = loc[w].nums
  BY <1>0 DEF Requests
<1>3. Continue(w, l)
  BY <1>1
<1> HIDE DEF l
<1>4. json = {}
  BY <1>0, <1>1, DeleteStep, DeletesClosed
<1>5. Frame
  BY <1>1, <1>4 DEF Frame, Started
<1> QED
  BY <1>1, <1>2, <1>3, <1>4, <1>5, StepKept

(* A commit ends the upload: none is open when the version changes. *)
LEMMA CommitKept ==
    ASSUME Careful, IInv, RInv, KInv, NEW w \in Workers, Commit(w)
    PROVE  KInv'
<1>1. UNCHANGED <<store, json, acked, aborted>> /\ At(w, "commit")
  BY DEF Commit
<1>2. Request(w) /\ Fixed(w) /\ loc[w] \in Requests
  BY DEF RInv, KInv, IInv, TypeOK
<1>3. Kind(loc[w]) = "complete"
  BY <1>1, <1>2, Standing, Points, Zenon
<1>4. CASE Fail(w) /\ UNCHANGED <<meta, commits>>
  <2>1. Frame
    BY <1>1, <1>4, SameFrame
  <2> QED
    BY <1>1, <1>2, <1>4, <2>1, StepKept
<1>5. CASE /\ commits' = [commits EXCEPT ![loc[w].up] = @ + 1]
           /\ Goto(w, "complete", IF loc[w].ver = 0 THEN <<>> ELSE deletePartsCurrent)
  <2>1. json = {}
    <3>1. json \subseteq {loc[w].up}
      BY <1>3, UploadExcludes
    <3>2. loc[w].up \notin json
      BY <1>1, Reliable DEF IInv, Taken
    <3> QED
      BY <3>1, <3>2
  <2>2. \A u \in Uploads : commits[u] > 0 => commits'[u] > 0
    <3>1. commits \in [Uploads -> Nat] /\ loc[w].up \in Uploads
      BY <1>3, OfKind DEF IInv, TypeOK
    <3>2. commits' = [commits EXCEPT ![loc[w].up] = commits[loc[w].up] + 1]
      BY <1>5
    <3> HIDE <1>5
    <3>3. /\ commits'[loc[w].up] = commits[loc[w].up] + 1
          /\ \A u \in Uploads \ {loc[w].up} : commits'[u] = commits[u]
      BY <3>1, <3>2
    <3>4. \A m \in Nat : m > 0 => m + 1 > 0
      OBVIOUS
    <3> QED
      BY <3>1, <3>3, <3>4
  <2>3. \A u \in Uploads : Started(u) => Started(u)'
    BY <1>1, <2>2 DEF Started
  <2>4. Frame
    BY <1>1, <2>1, <2>3 DEF Frame
  <2>5. Turned(w) /\ (loc'[w] # Idle => Kind(loc'[w]) = "purge")
    BY <1>5, Purges
  <2>6. Kind(loc'[w]) \notin {"part", "complete"}
    <3>1. Kind(Idle) \notin {"part", "complete"}
      BY DEF Kind, Idle
    <3> QED
      BY <2>5, <3>1
  <2>7. Fixed(w)'
    BY <1>2, <2>4, <2>5, <2>6, TurnedFixed
  <2> QED
    BY <1>1, <2>1, <2>4, <2>5, <2>7, FrameKept
<1> QED
  BY <1>4, <1>5, Zenon DEF Commit

(* A copy writes parts under its own etag, while no upload is open. *)
LEMMA CopyPartKept ==
    ASSUME Careful, IInv, RInv, KInv, NEW w \in Workers, CopyPart(w)
    PROVE  KInv'
<1>1. UNCHANGED <<meta, json, acked, commits, aborted>> /\ At(w, "copyParts")
  BY DEF CopyPart, AtLocked, history
<1>2. Request(w) /\ Fixed(w) /\ loc \in [Workers -> Requests] /\ loc[w] \in Requests
  BY DEF RInv, KInv, IInv, TypeOK
<1>3. Kind(loc[w]) = "copy" /\ Len(loc[w].todo) = 7
  BY <1>1, <1>2, Standing, Points, Zenon
<1>4. CASE Fail(w) /\ store' = store
  <2>1. Frame
    BY <1>1, <1>4, SameFrame
  <2> QED
    BY <1>1, <1>2, <1>4, <2>1, StepKept
<1>5. ASSUME NEW p \in loc[w].nums,
             store' = store \union {[ver |-> newVersion(loc[w].ver), num |-> p, tag |-> CopyTag]},
             LET l == [loc[w] EXCEPT !.nums = @ \ {p}]
             IN  IF l.nums = {} THEN Continue(w, l) ELSE loc' = [loc EXCEPT ![w] = l]
      PROVE  KInv'
  <2> DEFINE l == [loc[w] EXCEPT !.nums = @ \ {p}]
  <2>1. l \in Requests /\ l.todo = loc[w].todo /\ l.up = loc[w].up /\ l.op = loc[w].op
    BY <1>2, Zenon DEF Requests
  <2>2. Continue(w, l) \/ loc' = [loc EXCEPT ![w] = l]
    BY <1>5
  <2> HIDE DEF l
  <2>3. Frame
    BY <1>1, <1>5, SameFrame
  <2>4. Turned(w) /\ Kind(loc'[w]) = "copy"
    <3>1. CASE Continue(w, l)
      <4>1. Advanced(w, l)
        BY <1>1, <1>2, <2>1, <3>1, Continues
      <4>2. Len(loc[w].todo) # 1
        BY <1>3
      <4>3. Kind(loc'[w]) = "copy"
        BY <1>3, <4>1, <4>2 DEF Advanced
      <4> QED
        BY <4>1, <4>3, AdvancedTurned
    <3>2. CASE loc' = [loc EXCEPT ![w] = l]
      <4>1. loc'[w] = l /\ \A v \in Workers \ {w} : loc'[v] = loc[v]
        BY <1>2, <3>2
      <4>2. Kind(loc'[w]) = "copy"
        BY <1>3, <2>1, <4>1 DEF Kind
      <4> QED
        BY <2>1, <4>1, <4>2 DEF Turned
    <3> QED
      BY <2>2, <3>1, <3>2
  <2>5. Fixed(w)'
    BY <1>2, <2>3, <2>4, TurnedFixed
  <2>6. CopyTag \in Etags
    <3>1. loc[w].op = "copy"
      BY <1>2, <1>3, KindOp
    <3> QED
      BY <1>2, <3>1 DEF Request, Etags
  <2>7. \A key \in store' \ store : key.tag \in Etags
    BY <1>5, <2>6
  <2> QED
    BY <1>1, <2>3, <2>4, <2>5, <2>7, FrameKept
<1>6. loc[w].op = "copy" /\ loc[w].nums \subseteq Parts
  BY <1>2, <1>3, KindOp DEF Requests
<1>7. ASSUME NEW n \in loc[w].nums
      PROVE  {[ver |-> newVersion(loc[w].ver), num |-> n, tag |-> p.tag] :
                p \in {q \in Source(w) : q.num = n}}
                = {[ver |-> newVersion(loc[w].ver), num |-> n, tag |-> CopyTag]}
  BY <1>6, CopySource
<1> QED
  BY <1>4, <1>5, <1>7, Zenon DEF CopyPart

(* A copy changes the object's version only while no upload is open. *)
LEMMA PutCopyKept ==
    ASSUME Careful, IInv, RInv, KInv, NEW w \in Workers, PutCopy(w)
    PROVE  KInv'
<1>1. /\ UNCHANGED <<store, json, acked, commits, aborted>> /\ At(w, "putCopy")
      /\ Fail(w) \/ Continue(w, loc[w])
  BY DEF PutCopy, AtLocked, history
<1>2. Request(w) /\ loc[w] \in Requests
  BY DEF RInv, IInv, TypeOK
<1>3. Kind(loc[w]) = "copy"
  BY <1>1, <1>2, Standing, Points
<1>4. json = {}
  <2>1. loc[w].op = "copy"
    BY <1>2, <1>3, KindOp
  <2> QED
    BY <2>1 DEF RInv, Apart
<1>5. Frame
  BY <1>1, <1>4 DEF Frame, Started
<1> QED
  BY <1>1, <1>2, <1>5, StepKept

(* The steps of puts and deletes, where there are none. *)
LEMMA NoObjectSteps ==
    ASSUME IInv, RInv, Ops \subseteq {"copy"}, NEW w \in Workers,
           PutSimple(w) \/ DeleteObjectParts(w) \/ DeleteObjectMeta(w)
    PROVE  FALSE
<1>1. PICK step \in {"putObject", "deleteParts", "deleteMeta"} : At(w, step)
  BY DEF PutSimple, DeleteObjectParts, DeleteObjectMeta, AtLocked
<1>2. Request(w) /\ loc[w] \in Requests
  BY DEF RInv, IInv, TypeOK
<1>3. Point(Kind(loc[w]), Len(loc[w].todo), step)
  BY <1>1, <1>2, Standing
<1>4. Kind(loc[w]) \in {"put", "remove"}
  <2>1. \A k, n : \A s \in {"putObject", "deleteParts", "deleteMeta"} :
            Point(k, n, s) => k \in {"put", "remove"}
    BY Points
  <2> QED
    BY <1>1, <1>3, <2>1
<1>5. loc[w].op \in {"put", "remove"}
  BY <1>2, <1>4, KindOp
<1> QED
  BY <1>2, <1>5 DEF Request

(* A new upload has no part yet, and nobody works for it. *)
LEMMA NewMultipartUploadKept ==
    ASSUME Careful, IInv, RInv, KInv, NEW u \in Uploads, NewMultipartUpload(u)
    PROVE  KInv'
<1>1. /\ UNCHANGED <<meta, store, loc, acked, commits, aborted>> /\ json' = json \union {u}
      /\ ~Started(u) /\ acked[u] = {}
  BY DEF NewMultipartUpload, Started, history
<1>2. ASSUME NEW v \in Workers PROVE Fixed(v)'
  <2>1. Fixed(v)
    BY DEF KInv
  <2>2. u # None
    BY OptionsAssumption
  <2>3. loc[v].up # u
    BY <1>1, <2>1, <2>2 DEF Fixed
  <2>4. loc[v].up # None => Started(loc[v].up)'
    BY <1>1, <2>1 DEF Fixed, Started
  <2>5. Wanted(v)' = Wanted(v) /\ Version' = Version
    BY <1>1 DEF Wanted, Version
  <2>6. loc[v].up \in json' => loc[v].up \in json
    BY <1>1, <2>3
  <2> QED
    BY <1>1, <2>1, <2>4, <2>5, <2>6 DEF Fixed
<1>3. AckedPartsKept'
  BY <1>1 DEF KInv, AckedPartsKept, Version
<1> QED
  BY <1>1, <1>2, <1>3 DEF KInv

(* A request begins by reading: a part before it is written, a Complete before it *)
(* looks for its parts, which are acknowledged.                                *)
LEMMA BeginKept ==
    ASSUME IInv, KInv, NEW w \in Workers, NEW o, NEW t, NEW u, NEW nums,
           Begin(w, o, t, u, nums), u # None => Started(u),
           o \in {"part", "complete"} => Len(t) \in {9, 10},
           o = "complete" => nums \subseteq acked[u]
    PROVE  KInv'
<1> DEFINE l == [op |-> o, todo |-> t, up |-> u, nums |-> nums, ver |-> 0, keys |-> {}]
<1>0. loc \in [Workers -> Requests]
  BY DEF IInv, TypeOK
<1>1. /\ loc' = [loc EXCEPT ![w] = l]
      /\ UNCHANGED <<meta, store, json, acked, commits, aborted>>
  BY DEF Begin, stored, history
<1>2. /\ l.op = o /\ l.todo = t /\ l.up = u /\ l.nums = nums
      /\ Kind(l) \in {"part", "complete"} => Kind(l) = o
  BY Zenon DEF Kind
<1> HIDE DEF l
<1>3. loc'[w] = l /\ \A v \in Workers \ {w} : loc'[v] = loc[v]
  BY <1>0, <1>1
<1>4. Frame
  BY <1>1, SameFrame
<1>5. Fixed(w)'
  <2>1. \A n \in {9, 10} : n # 1 /\ n # 3 /\ ~(n <= 4)
    OBVIOUS
  <2>2. Kind(l) \in {"part", "complete"} =>
            Len(l.todo) # 1 /\ Len(l.todo) # 3 /\ ~(Len(l.todo) <= 4)
    BY <1>2, <2>1, Zenon
  <2>3. u # None => Started(u)'
    BY <1>1 DEF Started
  <2>4. Kind(l) = "complete" => l.nums \subseteq acked'[l.up]
    BY <1>1, <1>2
  <2> QED
    BY <1>2, <1>3, <2>2, <2>3, <2>4 DEF Fixed
<1>6. \A v \in Workers : Fixed(v)'
  BY <1>3, <1>4, <1>5, StillFixed DEF KInv
<1> QED
  BY <1>1, <1>6 DEF KInv, AckedPartsKept, Version

(* A request that arrives has read nothing yet. *)
LEMMA ArrivalsKept ==
    ASSUME IInv, KInv, NEW w \in Workers, BeginUploadRequest(w) \/ BeginObjectRequest(w)
    PROVE  KInv'
<1>0. Len(PutObjectPartHandler) = 10 /\ Len(CompleteMultipartUploadHandler) = 9
  BY Starts
<1>1. CASE BeginUploadRequest(w)
  <2>1. PICK u \in Uploads :
          /\ Started(u)
          /\ \/ \E n \in Parts : Begin(w, "part", PutObjectPartHandler, u, {n})
             \/ \E nums \in (SUBSET acked[u]) \ {{}} :
                  Begin(w, "complete", CompleteMultipartUploadHandler, u, nums)
             \/ Begin(w, "abort", AbortMultipartUpload, u, {})
    BY <1>1, Zenon DEF BeginUploadRequest
  <2>2. CASE \E n \in Parts : Begin(w, "part", PutObjectPartHandler, u, {n})
    BY <1>0, <2>1, <2>2, BeginKept
  <2>3. CASE \E nums \in (SUBSET acked[u]) \ {{}} :
                  Begin(w, "complete", CompleteMultipartUploadHandler, u, nums)
    BY <1>0, <2>1, <2>3, BeginKept
  <2>4. CASE Begin(w, "abort", AbortMultipartUpload, u, {})
    BY <2>1, <2>4, BeginKept
  <2> QED
    BY <2>1, <2>2, <2>3, <2>4
<1>2. CASE BeginObjectRequest(w)
  BY <1>2, BeginKept DEF BeginObjectRequest
<1> QED
  BY <1>1, <1>2

(* After a restart nothing is under way, and the store is as it was. *)
LEMMA IdleFixed ==
    ASSUME NEW w \in Workers, loc[w] = Idle
    PROVE  Fixed(w)
<1>1. Idle.up = None /\ Kind(Idle) = "idle"
  BY Zenon DEF Idle, Kind
<1> QED
  BY <1>1 DEF Fixed

(* A restart forgets the requests, and with them all they have read. *)
LEMMA RestartKept ==
    ASSUME KInv, Restart
    PROVE  KInv'
<1>1. UNCHANGED <<meta, store, json, acked>> /\ \A w \in Workers : loc'[w] = Idle
  BY DEF Restart, stored, history
<1>2. \A w \in Workers : Fixed(w)'
  <2>1. Idle.up = None /\ Kind(Idle) = "idle"
    BY DEF Idle, Kind
  <2> QED
    BY <1>1, <2>1 DEF Fixed
<1> QED
  BY <1>1, <1>2 DEF KInv, AckedPartsKept, Version

(* Nothing is stored and nobody is at work when the server starts. *)
LEMMA InitKept == Init => KInv
<1> SUFFICES ASSUME Init PROVE KInv
  OBVIOUS
<1>1. json = {} /\ store = {} /\ \A w \in Workers : loc[w] = Idle
  BY DEF Init
<1>2. \A w \in Workers : Fixed(w)
  BY <1>1, IdleFixed
<1> QED
  BY <1>1, <1>2 DEF KInv, AckedPartsKept

(* Every step of every request keeps the parts of an open upload in place, and    *)
(* what its requests have read true.                                          *)
THEOREM KeptInductive ==
    ASSUME Careful, Ops \subseteq {"copy"}
    PROVE  IInv /\ RInv /\ KInv /\ [Next]_vars => KInv'
<1> SUFFICES ASSUME IInv, RInv, KInv, [Next]_vars PROVE KInv'
  OBVIOUS
<1>1. ASSUME NEW u \in Uploads, NewMultipartUpload(u) PROVE KInv'
  BY <1>1, NewMultipartUploadKept
<1>2. ASSUME NEW w \in Workers, BeginUploadRequest(w) \/ BeginObjectRequest(w) PROVE KInv'
  BY <1>2, ArrivalsKept
<1>3. ASSUME NEW w \in Workers, Step(w) PROVE KInv'
  <2>1. CASE CurrentVersion(w) \/ GetKeyRange(w) \/ DeleteKeys(w)
    BY <2>1, CurrentVersionKept, GetKeyRangeKept, DeleteKeysKept
  <2>2. CASE \/ StatFirst(w) \/ CheckJson(w) \/ Validate(w) \/ AbortReturns(w)
             \/ Lock(w) \/ Unlock(w)
    BY <2>2, ReadingKept
  <2>3. CASE PutPart(w) \/ TakeJson(w) \/ Commit(w) \/ DropJson(w)
    BY <2>3, PutPartKept, TakeJsonKept, CommitKept, DropJsonKept
  <2>4. CASE PutSimple(w) \/ DeleteObjectParts(w) \/ DeleteObjectMeta(w)
    BY <2>4, NoObjectSteps
  <2>5. CASE CopyPart(w) \/ PutCopy(w)
    BY <2>5, CopyPartKept, PutCopyKept
  <2>6. ~ReadSource(w)
    BY NotToItself DEF RInv, ReadSource, AtLocked
  <2> QED
    BY <1>3, <2>1, <2>2, <2>3, <2>4, <2>5, <2>6 DEF Step
<1>4. CASE Restart
  BY <1>4, RestartKept, Zenon
<1>5. CASE UNCHANGED vars
  BY <1>5 DEF vars, KInv, Fixed, Started, Wanted, AckedPartsKept, Version
<1> QED
  BY <1>1, <1>2, <1>3, <1>4, <1>5 DEF Next

(* Where no object is copied to itself, requests rely on their locks. *)
LEMMA LockedInductive ==
    ASSUME Careful, Ops \subseteq {"copy"}
    PROVE  IInv /\ RInv /\ [Next]_vars => RInv'
<1>1. IInv /\ RInv /\ [Next]_vars => OInv'
  BY ReadableInductive DEF OInv
<1>2. ASSUME NEW w \in Workers, SelfInv(w)' PROVE FALSE
  BY <1>2 DEF SelfInv
<1> QED
  BY <1>1, <1>2 DEF OInv

(* As long as clients work on one upload, or on copies, at a time, deletes succeed *)
(* and nobody puts or deletes the object directly, the parts an upload has had     *)
(* acknowledged stay under the version that Complete will look for, whichever      *)
(* writes fail and wherever the server stops.                                 *)
THEOREM PartsKept ==
    ASSUME Careful, Ops \subseteq {"copy"}
    PROVE  Spec => []AckedPartsKept
<1>1. KInv => AckedPartsKept
  BY DEF KInv
<1>2. IInv /\ RInv /\ [Next]_vars => RInv'
  BY LockedInductive
<1>3. IInv /\ RInv /\ KInv /\ [Next]_vars => KInv'
  BY KeptInductive
<1> QED
  BY <1>1, <1>2, <1>3, InitReadable, InitKept, Invariant, PTL DEF Spec

(* If moreover one CGetKeyRange can return all part keys of a version, a Complete   *)
(* of an open upload finds every part it names among the keys it has listed:      *)
(* it never answers InvalidPart for a part that was acknowledged.                *)
THEOREM PartsAccepted ==
    ASSUME Careful, Ops \subseteq {"copy"}, Ample
    PROVE  Spec => []AckedPartsAccepted
<1>1. IInv /\ RInv /\ KInv => AckedPartsAccepted
  <2> SUFFICES ASSUME IInv, RInv, KInv, NEW w \in Workers, At(w, "validate"), loc[w].up \in json
               PROVE  Wanted(w) \subseteq loc[w].keys
    BY DEF AckedPartsAccepted
  <2>1. Request(w) /\ Fixed(w)
    BY DEF RInv, KInv
  <2>2. Kind(loc[w]) = "complete" /\ Len(loc[w].todo) = 3
    BY <2>1, Standing, Points, Zenon
  <2> QED
    BY <2>1, <2>2 DEF Fixed
<1>2. IInv /\ RInv /\ [Next]_vars => RInv'
  BY LockedInductive
<1>3. IInv /\ RInv /\ KInv /\ [Next]_vars => KInv'
  BY KeptInductive
<1> QED
  BY <1>1, <1>2, <1>3, InitReadable, InitKept, Invariant, PTL DEF Spec

-----------------------------------------------------------------------------
(* An upload's request is for an upload that was started, a Complete names parts  *)
(* that were acknowledged, and the request of a part names one.               *)
Given(w) ==
    /\ loc[w].up # None => Started(loc[w].up)
    /\ Kind(loc[w]) = "complete" => loc[w].nums # {} /\ loc[w].nums \subseteq acked[loc[w].up]
    /\ Kind(loc[w]) = "part" => \E n \in Parts : loc[w].nums = {n}

GInv == \A w \in Workers : Given(w)

(* What is seen of an upload stays. *)
Grows == \A u \in Uploads : acked[u] \subseteq acked'[u] /\ (Started(u) => Started(u)')

(* One request has gone on, with the upload and the parts it was given. *)
Onward(w) ==
    /\ \A v \in Workers \ {w} : loc'[v] = loc[v]
    /\ loc'[w].up \in {loc[w].up, None}
    /\ Kind(loc'[w]) \in {"part", "complete"} =>
          Kind(loc'[w]) = Kind(loc[w]) /\ loc'[w].nums = loc[w].nums /\ loc'[w].up = loc[w].up
    /\ At(w, "deleteMeta")' => At(w, "deleteParts")

(* A delete is between its two steps. *)
Half == \E w \in Workers : At(w, "deleteMeta")

(* What is seen of the uploads, and of the object, which is whole. *)
Phases == [u \in Uploads |-> Phase(u)]
Shows == IF meta = None \/ Half THEN None ELSE meta.parts
Seen == <<Visible, Phases, acked>>

(* The step is one of AtomicObject, or is not seen. *)
Simulates == Atomic!Next \/ Seen' = Seen

(* What is given to a request stays. *)
LEMMA OnwardGiven ==
    ASSUME IInv, GInv, NEW w \in Workers, Onward(w), Grows
    PROVE  GInv'
<1> SUFFICES ASSUME NEW v \in Workers PROVE Given(v)'
  BY DEF GInv
<1>1. Given(v) /\ (loc[v].up # None => loc[v].up \in Uploads)
  BY DEF GInv, IInv, TypeOK, Requests
<1>2. /\ loc'[v].up \in {loc[v].up, None}
      /\ Kind(loc'[v]) \in {"part", "complete"} =>
            Kind(loc'[v]) = Kind(loc[v]) /\ loc'[v].nums = loc[v].nums /\ loc'[v].up = loc[v].up
  BY DEF Onward
<1>3. loc'[v].up # None => Started(loc[v].up)'
  <2>1. loc'[v].up # None =>
            loc'[v].up = loc[v].up /\ loc[v].up \in Uploads /\ Started(loc[v].up)
    BY <1>1, <1>2 DEF Given
  <2> QED
    BY <2>1, Zenon DEF Grows, Started
<1>4. Kind(loc'[v]) = "complete" => loc'[v].nums # {} /\ loc'[v].nums \subseteq acked'[loc'[v].up]
  <2>1. Kind(loc[v]) = "complete" => loc[v].up \in Uploads
    BY OfKind
  <2> QED
    BY <1>1, <1>2, <2>1 DEF Given, Grows
<1>5. Kind(loc'[v]) = "part" => \E n \in Parts : loc'[v].nums = {n}
  BY <1>1, <1>2 DEF Given
<1> QED
  BY <1>3, <1>4, <1>5 DEF Given

(* Nobody comes to delete the metadata but after the parts. *)
LEMMA DeleteOrder ==
    ASSUME IInv, NEW w \in Workers, Request(w), NEW step, At(w, step), NEW l, Advanced(w, l),
           IInv', At(w, "deleteMeta")'
    PROVE  step = "deleteParts"
<1> DEFINE k == Kind(loc[w])
           n == Len(loc[w].todo)
<1>1. Point(k, n, step) /\ n \in Nat \ {0}
  BY Standing
<1>2. loc'[w] # Idle
  BY DEF At, Idle
<1>3. /\ Kind(loc'[w]) = k /\ Len(loc'[w].todo) = n - 1
      /\ Follows(k, loc'[w].todo) /\ loc'[w].todo \in Seq(Steps)
  BY <1>2 DEF Advanced, IInv, TypeOK, Requests
<1>4. Point(k, n - 1, "deleteMeta")
  BY <1>3, TailFollows, Zenon DEF At
<1> HIDE DEF k, n
<1>5. k = "remove" /\ n - 1 = 2
  BY <1>4, Points, Zenon
<1>6. n = 3
  BY <1>1, <1>5
<1>7. \A s : Point("remove", 3, s) => s = "deleteParts"
  BY DEF Point
<1> QED
  BY <1>1, <1>5, <1>6, <1>7

(* A request goes on with what it was given. *)
LEMMA GoesOnward ==
    ASSUME IInv, IInv', RInv, NEW w \in Workers, NEW step, At(w, step),
           NEW l \in Requests, l.todo = loc[w].todo, l.up = loc[w].up, l.op = loc[w].op,
           l.nums = loc[w].nums, Fail(w) \/ Continue(w, l)
    PROVE  Onward(w)
<1>0. Request(w) /\ Idle.up = None /\ Kind(Idle) \notin {"part", "complete"} /\ Idle.todo = <<>>
  BY DEF RInv, Idle, Kind
<1>1. CASE Continue(w, l)
  <2>1. Advanced(w, l)
    BY <1>0, <1>1, Continues
  <2>2. At(w, "deleteMeta")' => At(w, "deleteParts")
    <3>1. At(w, "deleteMeta")' => step = "deleteParts"
      BY <1>0, <2>1, DeleteOrder, Zenon
    <3> QED
      BY <3>1, Zenon DEF At
  <2>3. CASE loc'[w] = Idle
    <3>1. \A v \in Workers \ {w} : loc'[v] = loc[v]
      BY <2>1, Zenon DEF Advanced
    <3>2. loc'[w].up = None /\ Kind(loc'[w]) \notin {"part", "complete"}
      BY <1>0, <2>3, Zenon
    <3> QED
      BY <2>2, <3>1, <3>2, Zenon DEF Onward
  <2>4. CASE loc'[w] # Idle
    BY <2>1, <2>2, <2>4, Zenon DEF Advanced, Onward
  <2> QED
    BY <2>3, <2>4
<1>2. CASE Fail(w)
  <2>1. Fallen(w) /\ Turned(w)
    BY <1>0, <1>2, NotToItself, Fails, FallenTurned
  <2>2. CASE loc'[w] = Idle
    BY <1>0, <2>1, <2>2, Zenon DEF Fallen, Turned, Onward, At
  <2>3. CASE loc'[w] # Idle
    <3>1. /\ Kind(loc'[w]) = loc'[w].op /\ Follows(Kind(loc'[w]), loc'[w].todo)
          /\ loc'[w].todo # <<>>
          /\ \/ loc'[w].op = "abort" /\ Len(loc'[w].todo) = 7
             \/ loc'[w].op = "copyFailed" /\ Len(loc'[w].todo) = 5
             \/ loc'[w].op \in {"put", "remove"} /\ Len(loc'[w].todo) = 1
      BY <2>1, <2>3 DEF Fallen
    <3>2. At(w, "deleteMeta")' => Point(Kind(loc'[w]), Len(loc'[w].todo), "deleteMeta")
      <4>1. loc'[w].todo \in Seq(Steps)
        BY DEF IInv, TypeOK, Requests
      <4> QED
        BY <3>1, <4>1, TailFollows, Zenon DEF At
    <3>3. ~At(w, "deleteMeta")'
      <4>1. At(w, "deleteMeta")' => Kind(loc'[w]) = "remove" /\ Len(loc'[w].todo) = 2
        BY <3>2, Points, Zenon
      <4>2. loc'[w].op = "remove" => Len(loc'[w].todo) = 1
        BY <3>1, Zenon
      <4>3. 1 # 2
        OBVIOUS
      <4> QED
        BY <3>1, <4>1, <4>2, <4>3, Zenon
    <3>4. Kind(loc'[w]) \notin {"part", "complete"}
      BY <3>1
    <3> QED
      BY <2>1, <3>3, <3>4, Zenon DEF Turned, Onward
  <2> QED
    BY <2>2, <2>3
<1> QED
  BY <1>1, <1>2

(* Every part that the metadata names is there, so that all of them are seen. *)
LEMMA AllShown ==
    /\ CommittedReadable => Visible = Shows
    /\ CommittedReadable' => Visible' = Shows'
<1>2. ASSUME CommittedReadable PROVE Visible = Shows
  <2>1. CASE meta = None \/ Half
    BY <2>1, Zenon DEF Visible, Shows, Half
  <2>2. CASE ~(meta = None \/ Half)
    <3>1. \A p \in meta.parts : Shown(p) = p
      BY <1>2, <2>2, Zenon DEF CommittedReadable, Half, Shown
    <3>2. {Shown(p) : p \in meta.parts} = meta.parts
      BY <3>1, Zenon
    <3> QED
      BY <2>2, <3>2, Zenon DEF Visible, Shows, Half
  <2> QED
    BY <2>1, <2>2
<1>3. ASSUME CommittedReadable' PROVE Visible' = Shows'
  <2>1. CASE meta' = None \/ Half'
    BY <2>1, Zenon DEF Visible, Shows, Half
  <2>2. CASE ~(meta' = None \/ Half')
    <3>1. \A p \in meta'.parts : Shown(p)' = p
      BY <1>3, <2>2, Zenon DEF CommittedReadable, Half, Shown
    <3>2. {Shown(p)' : p \in meta'.parts} = meta'.parts
      BY <3>1, Zenon
    <3> QED
      BY <2>2, <3>2, Zenon DEF Visible, Shows, Half, Shown
  <2> QED
    BY <2>1, <2>2
<1> QED
  BY <1>2, <1>3

(* A step of which nothing is seen. *)
LEMMA Unseen ==
    ASSUME RInv, CommittedReadable', UNCHANGED <<meta, acked, commits, aborted>>, Half' <=> Half,
           \A u \in Uploads : Started(u)' <=> Started(u)
    PROVE  Seen' = Seen
<1>1. Visible' = Visible
  <2>1. Shows' = Shows
    BY DEF Shows
  <2> QED
    BY <2>1, AllShown DEF RInv
<1>2. \A u \in Uploads : Phase(u)' = Phase(u)
  BY DEF Phase
<1>3. Phases' = Phases
  BY <1>2, Zenon DEF Phases
<1> QED
  BY <1>1, <1>3 DEF Seen

(* A request goes on, and nothing is seen of it. *)
LEMMA OnwardUnseen ==
    ASSUME IInv, RInv, CommittedReadable', GInv, NEW w \in Workers, Onward(w),
           NEW step, At(w, step), step \notin {"deleteParts", "deleteMeta"},
           UNCHANGED <<meta, acked, commits, aborted>>,
           \A u \in Uploads : Started(u)' <=> Started(u)
    PROVE  GInv' /\ Seen' = Seen
<1>1. ~At(w, "deleteParts") /\ ~At(w, "deleteMeta")
  BY DEF At
<1>2. Half' <=> Half
  BY <1>1, Zenon DEF Half, Onward, At
<1>3. GInv'
  BY OnwardGiven DEF Grows
<1> QED
  BY <1>2, <1>3, Unseen

(* The steps that read, that delete keys nobody reads, or that write a part of a   *)
(* copy: nothing is seen of them.                                            *)
LEMMA ReadingUnseen ==
    ASSUME Careful, IInv, IInv', RInv, CommittedReadable', GInv, NEW w \in Workers,
           StatFirst(w) \/ CheckJson(w) \/ Validate(w) \/ AbortReturns(w) \/ Lock(w) \/ Unlock(w)
    PROVE  GInv' /\ Seen' = Seen
<1>0. loc[w] \in Requests
  BY DEF IInv, TypeOK
<1>1. UNCHANGED <<meta, json, acked, commits, aborted>>
  BY Zenon DEF StatFirst, CheckJson, Validate, AbortReturns, Lock, Unlock, stored, history
<1>2. \A u \in Uploads : Started(u)' <=> Started(u)
  BY <1>1 DEF Started
<1>3. PICK step \in {"statFirst", "checkJson", "validate", "return", "lock", "unlock"} : At(w, step)
  BY Zenon DEF StatFirst, CheckJson, Validate, AbortReturns, Lock, Unlock, AtLocked
<1>4. step \notin {"deleteParts", "deleteMeta"}
  BY <1>3
<1>5. CASE StatFirst(w) \/ CheckJson(w) \/ AbortReturns(w) \/ Lock(w) \/ Unlock(w)
  <2>1. Fail(w) \/ Continue(w, loc[w])
    BY <1>5, Zenon DEF StatFirst, CheckJson, AbortReturns, Lock, Unlock
  <2>2. Onward(w)
    BY <1>0, <1>3, <2>1, GoesOnward, Zenon
  <2> QED
    BY <1>1, <1>2, <1>3, <1>4, <2>2, OnwardUnseen
<1>6. CASE Validate(w)
  <2> DEFINE l == [loc[w] EXCEPT !.keys = {}]
  <2>1. /\ l \in Requests /\ l.todo = loc[w].todo /\ l.up = loc[w].up /\ l.op = loc[w].op
        /\ l.nums = loc[w].nums
    BY <1>0 DEF Requests
  <2>2. Fail(w) \/ Continue(w, l)
    BY <1>6, Zenon DEF Validate
  <2> HIDE DEF l
  <2>3. Onward(w)
    BY <1>3, <2>1, <2>2, GoesOnward
  <2> QED
    BY <1>1, <1>2, <1>3, <1>4, <2>3, OnwardUnseen
<1> QED
  BY <1>5, <1>6

(* Reading the version, listing keys and deleting them, show a client nothing:    *)
(* the keys deleted are not of a version that it can name.                       *)
LEMMA ListingUnseen ==
    ASSUME Careful, IInv, IInv', RInv, CommittedReadable', GInv, NEW w \in Workers,
           CurrentVersion(w) \/ GetKeyRange(w) \/ DeleteKeys(w)
    PROVE  GInv' /\ Seen' = Seen
<1>0. loc[w] \in Requests
  BY DEF IInv, TypeOK
<1>1. UNCHANGED <<meta, json, acked, commits, aborted>>
  BY DEF CurrentVersion, GetKeyRange, DeleteKeys, stored, history
<1>2. \A u \in Uploads : Started(u)' <=> Started(u)
  BY <1>1 DEF Started
<1>3. PICK step \in {"version", "rangeCurrent", "rangeNext", "deleteKeys"} : At(w, step)
  BY Zenon DEF CurrentVersion, GetKeyRange, DeleteKeys, AtLocked
<1>4. step \notin {"deleteParts", "deleteMeta"}
  BY <1>3
<1>5. ASSUME NEW l \in Requests, l.todo = loc[w].todo, l.up = loc[w].up, l.op = loc[w].op,
             l.nums = loc[w].nums, Continue(w, l)
      PROVE  GInv' /\ Seen' = Seen
  <2>1. Onward(w)
    BY <1>3, <1>5, GoesOnward
  <2> QED
    BY <1>1, <1>2, <1>3, <1>4, <2>1, OnwardUnseen, Zenon
<1>6. CASE CurrentVersion(w)
  <2>1. Version \in Versions
    BY BoundsAssumption DEF Version, IInv, TypeOK, Versions
  <2> DEFINE l == [loc[w] EXCEPT !.ver = Version]
  <2>2. /\ l \in Requests /\ l.todo = loc[w].todo /\ l.up = loc[w].up /\ l.op = loc[w].op
        /\ l.nums = loc[w].nums
    BY <1>0, <2>1 DEF Requests
  <2>3. Continue(w, l)
    BY <1>6, Reliable, Zenon DEF CurrentVersion
  <2> HIDE DEF l
  <2> QED
    BY <1>5, <2>2, <2>3
<1>7. CASE GetKeyRange(w)
  <2>0. PICK v : v = IF At(w, "rangeCurrent") THEN loc[w].ver ELSE newVersion(loc[w].ver)
    OBVIOUS
  <2>1. PICK S \in KeyRange(KeysOf(v)) : Continue(w, [loc[w] EXCEPT !.keys = S])
    BY <1>7, <2>0, Reliable, Zenon DEF GetKeyRange
  <2>2. S \subseteq PartKeys
    BY <2>1 DEF KeyRange, KeysOf, IInv, TypeOK
  <2> DEFINE l == [loc[w] EXCEPT !.keys = S]
  <2>3. /\ l \in Requests /\ l.todo = loc[w].todo /\ l.up = loc[w].up /\ l.op = loc[w].op
        /\ l.nums = loc[w].nums
    BY <1>0, <2>2 DEF Requests
  <2>4. Continue(w, l)
    BY <2>1
  <2> HIDE DEF l
  <2> QED
    BY <1>5, <2>3, <2>4
<1>8. CASE DeleteKeys(w)
  <2> DEFINE l == [loc[w] EXCEPT !.keys = {}]
  <2>1. /\ l \in Requests /\ l.todo = loc[w].todo /\ l.up = loc[w].up /\ l.op = loc[w].op
        /\ l.nums = loc[w].nums
    BY <1>0 DEF Requests
  <2>2. Continue(w, l)
    BY <1>8, Reliable DEF DeleteKeys
  <2> HIDE DEF l
  <2> QED
    BY <1>5, <2>1, <2>2
<1> QED
  BY <1>6, <1>7, <1>8

(* Copying a part under the key of the new version shows a client nothing: the     *)
(* metadata does not name that version yet.                                    *)
LEMMA CopyPartUnseen ==
    ASSUME Careful, IInv, IInv', RInv, CommittedReadable', GInv, NEW w \in Workers, CopyPart(w)
    PROVE  GInv' /\ Seen' = Seen
<1>0. Request(w) /\ loc \in [Workers -> Requests] /\ loc[w] \in Requests
  BY DEF RInv, IInv, TypeOK
<1>1. UNCHANGED <<meta, json, acked, commits, aborted>> /\ At(w, "copyParts")
  BY DEF CopyPart, AtLocked, history
<1>2. \A u \in Uploads : Started(u)' <=> Started(u)
  BY <1>1 DEF Started
<1>3. Kind(loc[w]) = "copy"
  BY <1>0, <1>1, Standing, Points, Zenon
<1>4. CASE Fail(w)
  <2>1. Onward(w)
    BY <1>0, <1>1, <1>4, GoesOnward
  <2> QED
    BY <1>1, <1>2, <2>1, OnwardUnseen
<1>5. ASSUME NEW p \in loc[w].nums,
             LET l == [loc[w] EXCEPT !.nums = @ \ {p}]
             IN  IF l.nums = {} THEN Continue(w, l) ELSE loc' = [loc EXCEPT ![w] = l]
      PROVE  GInv' /\ Seen' = Seen
  <2> DEFINE l == [loc[w] EXCEPT !.nums = @ \ {p}]
  <2>1. l \in Requests /\ l.todo = loc[w].todo /\ l.up = loc[w].up /\ l.op = loc[w].op
    BY <1>0, Zenon DEF Requests
  <2>2. Continue(w, l) \/ loc' = [loc EXCEPT ![w] = l]
    BY <1>5
  <2> HIDE DEF l
  <2>3. /\ \A v \in Workers \ {w} : loc'[v] = loc[v]
        /\ loc'[w].up \in {loc[w].up, None} /\ Kind(loc'[w]) \notin {"part", "complete"}
        /\ ~At(w, "deleteMeta")'
    <3>1. CASE Continue(w, l)
      <4>1. Advanced(w, l)
        BY <1>0, <1>1, <2>1, <3>1, Continues
      <4>2. "copyParts" # "deleteParts"
        OBVIOUS
      <4>3. ~At(w, "deleteMeta")'
        BY <1>0, <1>1, <4>1, <4>2, DeleteOrder, Zenon
      <4>4. Idle.up = None /\ Kind(Idle) = "idle"
        BY DEF Idle, Kind
      <4>5. CASE loc'[w] = Idle
        BY <4>1, <4>3, <4>4, <4>5, Zenon DEF Advanced
      <4>6. CASE loc'[w] # Idle
        BY <1>3, <4>1, <4>3, <4>6, Zenon DEF Advanced
      <4> QED
        BY <4>5, <4>6
    <3>2. CASE loc' = [loc EXCEPT ![w] = l]
      <4>1. loc'[w] = l /\ \A v \in Workers \ {w} : loc'[v] = loc[v]
        BY <1>0, <3>2
      <4>2. Kind(l) = "copy"
        BY <1>3, <2>1, Zenon DEF Kind
      <4> QED
        BY <1>1, <2>1, <4>1, <4>2 DEF At
    <3> QED
      BY <2>2, <3>1, <3>2
  <2>4. Onward(w)
    BY <2>3 DEF Onward
  <2> QED
    BY <1>1, <1>2, <2>4, OnwardUnseen
<1> QED
  BY <1>4, <1>5, Zenon DEF CopyPart

(* Complete takes the json key of an upload that has parts. *)
LEMMA TakeJsonUnseen ==
    ASSUME Careful, IInv, IInv', RInv, CommittedReadable', GInv, NEW w \in Workers, TakeJson(w)
    PROVE  GInv' /\ Seen' = Seen
<1>1. /\ UNCHANGED <<meta, acked, commits, aborted>> /\ At(w, "takeJson")
      /\ json' \subseteq json /\ \A u \in json \ json' : u = loc[w].up
      /\ Fail(w) \/ Continue(w, loc[w])
  BY DEF TakeJson, AtLocked, history
<1>2. Request(w) /\ loc[w] \in Requests /\ RequestInv(w)
  BY DEF RInv, IInv, TypeOK
<1>3. Kind(loc[w]) = "complete"
  BY <1>1, <1>2, Standing, Points, Zenon
<1>4. acked[loc[w].up] # {}
  BY <1>2, <1>3, KindOp, Zenon DEF RequestInv
<1>5. \A u \in Uploads : Started(u)' <=> Started(u)
  BY <1>1, <1>4 DEF Started
<1>6. Onward(w)
  BY <1>1, <1>2, GoesOnward
<1> QED
  BY <1>1, <1>5, <1>6, OnwardUnseen

(* What one step changes for one upload. *)
LEMMA PhasesMove ==
    ASSUME NEW u \in Uploads, NEW p, Phase(u)' = p, \A v \in Uploads \ {u} : Phase(v)' = Phase(v)
    PROVE  Phases' = [Phases EXCEPT ![u] = p]
BY Zenon DEF Phases

(* A delete between its two steps has both locks. *)
LEMMA HalfLocks ==
    ASSUME IInv, RInv, NEW v \in Workers, At(v, "deleteMeta")
    PROVE  mutex = v /\ nsLock = v /\ loc[v].op = "remove"
<1>1. Request(v) /\ RequestInv(v) /\ loc[v] \in Requests
  BY Zenon DEF RInv, IInv, TypeOK
<1>2. mutex = v
  BY <1>1 DEF RequestInv, Holding, At
<1>3. Kind(loc[v]) = "remove"
  BY <1>1, Standing, Points, Zenon
<1>4. loc[v].op = "remove"
  BY <1>1, <1>3, KindOp, Zenon
<1>5. "deleteMeta" # "lock"
  OBVIOUS
<1> QED
  BY <1>1, <1>2, <1>4, <1>5, HasLock

(* A new upload opens an upload of the atomic object. *)
LEMMA NewMultipartUploadSimulates ==
    ASSUME IInv, RInv, CommittedReadable', GInv, NEW u \in Uploads, NewMultipartUpload(u)
    PROVE  GInv' /\ Simulates
<1>1. /\ UNCHANGED <<meta, loc, acked, commits, aborted>> /\ json' = json \union {u}
      /\ ~Started(u)
  BY DEF NewMultipartUpload, history
<1>2. Visible' = Visible
  <2>1. Shows' = Shows
    BY <1>1, Zenon DEF Shows, Half, At
  <2> QED
    BY <2>1, AllShown DEF RInv
<1>3. commits[u] = 0 /\ u \notin aborted
  BY <1>1 DEF Started, IInv, TypeOK
<1>4. Phase(u) = "new" /\ Phase(u)' = "open"
  BY <1>1, <1>3, ZenonT(30) DEF Phase, Started
<1>5. \A v \in Uploads \ {u} : Phase(v)' = Phase(v)
  BY <1>1 DEF Phase, Started
<1>6. Phases' = [Phases EXCEPT ![u] = "open"]
  BY <1>4, <1>5, PhasesMove
<1>7. Phases[u] = "new"
  BY <1>4 DEF Phases
<1>8. Atomic!NewMultipartUpload(u)
  BY <1>1, <1>2, <1>6, <1>7, Zenon DEF Atomic!NewMultipartUpload, Atomic!Become, Phases
<1>9. GInv'
  <2>1. \A v \in Uploads : Started(v) => Started(v)'
    BY <1>1 DEF Started
  <2> SUFFICES ASSUME NEW w \in Workers PROVE Given(w)'
    BY DEF GInv
  <2>2. Given(w) /\ loc'[w] = loc[w] /\ acked' = acked
    BY <1>1 DEF GInv
  <2>3. loc[w].up # None => Started(loc[w].up)'
    BY <1>1, <2>2 DEF Given, Started
  <2> QED
    BY <2>2, <2>3 DEF Given
<1> QED
  BY <1>8, <1>9 DEF Simulates, Atomic!Next

(* The store of a part acknowledges it to the client; the upload keeps its phase,  *)
(* and the object stays as it was.                                            *)
LEMMA PutPartSimulates ==
    ASSUME Careful, IInv, IInv', RInv, CommittedReadable', GInv, NEW w \in Workers, PutPart(w)
    PROVE  GInv' /\ Simulates
<1>1. UNCHANGED <<meta, json, commits, aborted>> /\ At(w, "putPart")
      /\ (Fail(w) \/ Continue(w, loc[w]))
  BY DEF PutPart, AtLocked
<1>2. Request(w) /\ Given(w) /\ loc[w] \in Requests
  BY DEF RInv, GInv, IInv, TypeOK
<1>3. Kind(loc[w]) = "part"
  BY <1>1, <1>2, Standing, Points, Zenon
<1>4. PICK u \in Uploads : u = loc[w].up /\ u # None /\ Started(u)
  BY <1>2, <1>3, OfKind DEF Given
<1>5. PICK n \in Parts : loc[w].nums = {n}
  BY <1>2, <1>3 DEF Given
<1>6. Onward(w)
  BY <1>1, <1>2, GoesOnward
<1>7. CASE acked' = acked
  <2>1. \A v \in Uploads : Started(v)' <=> Started(v)
    BY <1>1, <1>7 DEF Started
  <2> QED
    BY <1>1, <1>6, <1>7, <2>1, OnwardUnseen, Zenon DEF Simulates
<1>8. CASE acked' = [acked EXCEPT ![loc[w].up] = @ \union loc[w].nums]
  <2>1. /\ acked'[u] = acked[u] \union {n} /\ \A v \in Uploads \ {u} : acked'[v] = acked[v]
        /\ acked' = [acked EXCEPT ![u] = acked[u] \union {n}]
    BY <1>4, <1>5, <1>8, Zenon DEF IInv, TypeOK
  <2>2. Started(u)' /\ \A v \in Uploads \ {u} : Started(v)' <=> Started(v)
    BY <1>1, <1>4, <2>1, Zenon DEF Started
  <2>3. \A v \in Uploads : Started(v)' <=> Started(v)
    BY <1>4, <2>2
  <2>4. GInv'
    <3>1. Grows
      BY <2>1, <2>3 DEF Grows
    <3> QED
      BY <1>6, <3>1, OnwardGiven
  <2>5. \A v \in Uploads : Phase(v)' = Phase(v)
    BY <1>1, <2>3 DEF Phase
  <2>6. Phases' = Phases
    BY <2>5, Zenon DEF Phases
  <2>7. Phases[u] # "new"
    BY <1>4 DEF Phases, Phase
  <2>8. Visible' = Visible
    <3>1. ~At(w, "deleteParts") /\ ~At(w, "deleteMeta")
      BY <1>1 DEF At
    <3>2. Half' <=> Half
      BY <1>6, <3>1, Zenon DEF Half, Onward, At
    <3>3. Shows' = Shows
      BY <1>1, <3>2 DEF Shows
    <3> QED
      BY <3>3, AllShown DEF RInv
  <2>9. Atomic!PutObjectPart(u, n)
    BY <2>1, <2>6, <2>7, <2>8 DEF Atomic!PutObjectPart, Phases
  <2> QED
    BY <1>4, <2>4, <2>9, Zenon DEF Simulates, Atomic!Next
<1> QED
  BY <1>7, <1>8, Zenon DEF PutPart

(* The parts of a complete object are entries that the metadata can have. *)
LEMMA PiecesType ==
    ASSUME NEW N \in SUBSET Parts, NEW u \in Uploads
    PROVE  {[num |-> n, tag |-> u] : n \in N}
              \in SUBSET [num : Parts, tag : Uploads \union {CopyTag}]
OBVIOUS

(* The commit of a Complete is the step at which the object changes. *)
LEMMA CommitSimulates ==
    ASSUME Careful, IInv, IInv', RInv, CommittedReadable', GInv, NEW w \in Workers, Commit(w)
    PROVE  GInv' /\ Simulates
<1>1. UNCHANGED <<json, acked, aborted>> /\ At(w, "commit")
  BY Zenon DEF Commit
<1>2. /\ Request(w) /\ Given(w) /\ loc[w] \in Requests /\ RequestInv(w)
  BY DEF RInv, GInv, IInv, TypeOK
<1>3. Kind(loc[w]) = "complete"
  BY <1>1, <1>2, Standing, Points, Zenon
<1>4. PICK u \in Uploads : u = loc[w].up /\ u # None /\ Started(u)
  BY <1>2, <1>3, OfKind DEF Given
<1>5. CASE Fail(w) /\ UNCHANGED <<meta, commits>>
  <2>1. \A v \in Uploads : Started(v)' <=> Started(v)
    BY <1>1, <1>5 DEF Started
  <2>2. Onward(w)
    BY <1>1, <1>2, <1>5, GoesOnward, Zenon
  <2> QED
    BY <1>1, <1>5, <2>1, <2>2, OnwardUnseen, Zenon DEF Simulates
<1>6. CASE /\ meta' = [ver |-> newVersion(loc[w].ver),
                       parts |-> {[num |-> n, tag |-> loc[w].up] : n \in loc[w].nums}]
           /\ commits' = [commits EXCEPT ![loc[w].up] = @ + 1]
           /\ Goto(w, "complete", IF loc[w].ver = 0 THEN <<>> ELSE deletePartsCurrent)
  <2>1. /\ \A v \in Workers \ {w} : loc'[v] = loc[v]
        /\ loc'[w].up \in {loc[w].up, None}
        /\ Kind(loc'[w]) \notin {"part", "complete"} /\ ~At(w, "deleteMeta")'
    <3>1. /\ Turned(w) /\ \A v \in Workers \ {w} : loc'[v] = loc[v]
          /\ loc'[w] # Idle => Kind(loc'[w]) = "purge" /\ Follows("purge", loc'[w].todo)
      BY <1>6, Purges
    <3>2. Kind(Idle) = "idle" /\ Idle.todo = <<>>
      BY DEF Idle, Kind
    <3>3. ~At(w, "deleteMeta")'
      <4>1. CASE loc'[w] = Idle
        BY <3>2, <4>1 DEF At
      <4>2. CASE loc'[w] # Idle
        <5>1. loc'[w].todo \in Seq(Steps)
          BY DEF IInv, TypeOK, Requests
        <5>2. At(w, "deleteMeta")' => Point("purge", Len(loc'[w].todo), "deleteMeta")
          BY <3>1, <4>2, <5>1, TailFollows, Zenon DEF At
        <5> QED
          BY <5>2, Points, Zenon
      <4> QED
        BY <4>1, <4>2
    <3> QED
      BY <3>1, <3>2, <3>3, Zenon DEF Turned
  <2>2. Onward(w)
    BY <2>1 DEF Onward
  <2>3. ~Half /\ ~Half'
    <3>1. mutex = w
      BY <1>1, <1>2, Zenon DEF RequestInv, Holding, At
    <3>2. ~At(w, "deleteMeta")
      BY <1>1 DEF At
    <3>3. ~Half
      BY <3>1, <3>2, HalfLocks, Zenon DEF Half
    <3> QED
      BY <2>1, <3>3, Zenon DEF Half, At
  <2>4. /\ commits'[u] # 0 /\ commits'[u] > 0
        /\ \A v \in Uploads \ {u} : commits'[v] = commits[v]
    <3>1. commits \in [Uploads -> Nat]
      BY DEF IInv, TypeOK
    <3>2. commits' = [commits EXCEPT ![u] = commits[u] + 1]
      BY <1>4, <1>6, Zenon
    <3>3. commits'[u] = commits[u] + 1 /\ \A v \in Uploads \ {u} : commits'[v] = commits[v]
      BY <1>4, <3>1, <3>2
    <3>4. \A m \in Nat : m + 1 # 0 /\ m + 1 > 0
      OBVIOUS
    <3> QED
      BY <1>4, <3>1, <3>3, <3>4
  <2>5. commits[u] = 0 /\ u \notin aborted
    BY <1>1, <1>2, <1>4, Reliable, Zenon DEF IInv, Taken, RequestInv
  <2> DEFINE N == loc[w].nums
  <2>6. N # {} /\ N \subseteq acked[u] /\ N \in SUBSET Parts
    BY <1>2, <1>3, <1>4, Zenon DEF Given, Requests
  <2>7. meta' # None /\ meta'.parts = Atomic!Pieces(N, u)
    <3>1. meta'.parts = Atomic!Pieces(N, u)
      BY <1>4, <1>6, Zenon DEF Atomic!Pieces
    <3>2. newVersion(loc[w].ver) \in Versions
      BY <1>2, NewVersionType, Zenon DEF Requests
    <3>3. meta' \in [ver : Versions, parts : SUBSET [num : Parts, tag : Uploads \union {CopyTag}]]
      <4> DEFINE P == {[num |-> n, tag |-> u] : n \in N}
      <4>1. meta' = [ver |-> newVersion(loc[w].ver), parts |-> P]
        BY <1>4, <1>6, Zenon
      <4>2. P \in SUBSET [num : Parts, tag : Uploads \union {CopyTag}]
        BY <2>6, PiecesType, Zenon
      <4> HIDE DEF P
      <4> QED
        BY <4>1, <4>2, <3>2, Zenon
    <3> QED
      BY <3>1, <3>3, NoneAssumption
  <2>8. Visible' = Atomic!Pieces(N, u)
    <3>1. Shows' = meta'.parts
      BY <2>3, <2>7, Zenon DEF Shows
    <3> QED
      BY <2>7, <3>1, AllShown, Zenon DEF RInv
  <2> HIDE DEF N
  <2>9. Phase(u) = "open" /\ Phase(u)' = "committed"
    BY <1>4, <2>4, <2>5 DEF Phase
  <2>10. \A v \in Uploads \ {u} : Started(v)' <=> Started(v)
    BY <1>1, <2>4 DEF Started
  <2>11. \A v \in Uploads \ {u} : Phase(v)' = Phase(v)
    BY <1>1, <2>4, <2>10 DEF Phase
  <2>12. Phases' = [Phases EXCEPT ![u] = "committed"] /\ Phases[u] = "open"
    <3>1. Phases' = [Phases EXCEPT ![u] = "committed"]
      BY <1>4, <2>9, <2>11, PhasesMove
    <3> QED
      BY <1>4, <2>9, <3>1 DEF Phases
  <2>13. Atomic!CompleteMultipartUpload(u, N)
    BY <1>1, <2>6, <2>8, <2>12
    DEF Atomic!CompleteMultipartUpload, Atomic!Become, Phases
  <2>14. GInv'
    <3>1. Grows
      BY <1>1, <2>4, <2>10 DEF Grows, Started
    <3> QED
      BY <2>2, <3>1, OnwardGiven
  <2> QED
    BY <1>4, <2>6, <2>13, <2>14, Zenon DEF Simulates, Atomic!Next
<1> QED
  BY <1>5, <1>6, Zenon DEF Commit

(* An abort is seen when it drops the json key of an upload that is still open. *)
LEMMA DropJsonSimulates ==
    ASSUME Careful, IInv, IInv', RInv, CommittedReadable', GInv, NEW w \in Workers, DropJson(w)
    PROVE  GInv' /\ Simulates
<1>1. /\ UNCHANGED <<meta, acked, commits>> /\ At(w, "dropJson")
      /\ Continue(w, loc[w])
      /\ json' = json \ {loc[w].up} /\ aborted' = aborted \union {loc[w].up}
  BY Reliable DEF DropJson, AtLocked
<1>2. Request(w) /\ Given(w) /\ loc[w] \in Requests
  BY DEF RInv, GInv, IInv, TypeOK
<1>3. Kind(loc[w]) = "abort"
  BY <1>1, <1>2, Standing, Points, Zenon
<1>4. PICK u \in Uploads : u = loc[w].up /\ u # None /\ Started(u)
  BY <1>2, <1>3, OfKind DEF Given
<1>5. Onward(w)
  BY <1>1, <1>2, GoesOnward
<1>6. Started(u)' /\ \A v \in Uploads \ {u} : Started(v)' <=> Started(v)
  BY <1>1, <1>4, ZenonT(30) DEF Started
<1>7. GInv'
  <2>1. Grows
    BY <1>1, <1>6 DEF Grows
  <2> QED
    BY <1>5, <2>1, OnwardGiven
<1>8. Visible' = Visible
  <2>1. ~At(w, "deleteParts") /\ ~At(w, "deleteMeta")
    BY <1>1 DEF At
  <2>2. Half' <=> Half
    BY <1>5, <2>1, Zenon DEF Half, Onward, At
  <2>3. Shows' = Shows
    BY <1>1, <2>2, Zenon DEF Shows
  <2> QED
    BY <2>3, AllShown DEF RInv
<1>9. \A v \in Uploads \ {u} : Phase(v)' = Phase(v)
  BY <1>1, <1>4, <1>6 DEF Phase
<1>10. CASE Phase(u) = "open"
  <2>1. commits[u] = 0
    BY <1>10 DEF Phase
  <2>2. Phase(u)' = "aborted"
    BY <1>1, <1>4, <2>1 DEF Phase
  <2>3. Phases' = [Phases EXCEPT ![u] = "aborted"]
    BY <1>9, <2>2, PhasesMove
  <2>4. Phases[u] = "open"
    BY <1>10 DEF Phases
  <2>5. Atomic!AbortMultipartUpload(u)
    BY <1>1, <1>8, <2>3, <2>4 DEF Atomic!AbortMultipartUpload, Atomic!Become, Phases
  <2> QED
    BY <1>7, <2>5 DEF Simulates, Atomic!Next
<1>11. CASE Phase(u) # "open"
  <2>1. Phase(u)' = Phase(u)
    BY <1>1, <1>4, <1>11 DEF Phase
  <2>2. Phases' = Phases
    BY <1>9, <2>1, Zenon DEF Phases
  <2> QED
    BY <1>1, <1>7, <1>8, <2>2, Zenon DEF Simulates, Seen
<1> QED
  BY <1>10, <1>11

(* A put or a copy replaces the object as it writes the metadata. *)
LEMMA WriteSimulates ==
    ASSUME Careful, IInv, IInv', RInv, CommittedReadable', GInv, NEW w \in Workers,
           PutSimple(w) \/ PutCopy(w)
    PROVE  GInv' /\ Simulates
<1>1. UNCHANGED <<json, acked, commits, aborted>> /\ (Fail(w) \/ Continue(w, loc[w]))
  BY Zenon DEF PutSimple, PutCopy, history
<1>2. PICK step \in {"putObject", "putCopy"} : At(w, step)
  BY Zenon DEF PutSimple, PutCopy, AtLocked
<1>3. Request(w) /\ loc[w] \in Requests
  BY DEF RInv, IInv, TypeOK
<1>4. Onward(w) /\ step \notin {"deleteParts", "deleteMeta", "lock"}
  <2>1. Onward(w)
    BY <1>1, <1>2, <1>3, GoesOnward
  <2> QED
    BY <1>2, <2>1
<1>5. \A u \in Uploads : Started(u)' <=> Started(u)
  BY <1>1 DEF Started
<1>6. CASE meta' = meta
  BY <1>1, <1>2, <1>4, <1>5, <1>6, OnwardUnseen DEF Simulates
<1>7. CASE \E P \in {{}, Atomic!Pieces(Parts, CopyTag)} :
              /\ meta' = [ver |-> newVersion(loc[w].ver), parts |-> P]
              /\ \/ P = {} /\ "put" \in Ops
                 \/ P = Atomic!Pieces(Parts, CopyTag) /\ "copy" \in Ops
  <2>1. PICK P \in {{}, Atomic!Pieces(Parts, CopyTag)} :
              /\ meta' = [ver |-> newVersion(loc[w].ver), parts |-> P]
              /\ \/ P = {} /\ "put" \in Ops
                 \/ P = Atomic!Pieces(Parts, CopyTag) /\ "copy" \in Ops
    BY <1>7
  <2>2. ~Half'
    <3>1. loc[w].op \in {"put", "copy"}
      <4>1. Point(Kind(loc[w]), Len(loc[w].todo), step)
        BY <1>2, <1>3, Standing
      <4>2. Kind(loc[w]) \in {"put", "copy"}
        <5>1. CASE step = "putObject"
          BY <4>1, <5>1, Points, Zenon
        <5>2. CASE step = "putCopy"
          BY <4>1, <5>2, Points, Zenon
        <5> QED
          BY <1>2, <5>1, <5>2
      <4> QED
        BY <1>3, <4>2, KindOp
    <3>2. nsLock = w
      BY <1>2, <1>3, <1>4, <3>1, HasLock, Zenon
    <3>3. ~At(w, "deleteMeta") /\ ~At(w, "deleteParts")
      BY <1>2 DEF At
    <3>4. \A v \in Workers : ~At(v, "deleteMeta")
      BY <3>2, <3>3, HalfLocks, Zenon
    <3> QED
      BY <1>4, <3>3, <3>4, Zenon DEF Half, Onward, At
  <2>3. meta' # None /\ meta'.parts = P
    <3>1. newVersion(loc[w].ver) \in Versions
      BY <1>3, NewVersionType DEF Requests
    <3>2. P \in SUBSET [num : Parts, tag : Uploads \union {CopyTag}]
      BY <2>1 DEF Atomic!Pieces
    <3>3. meta' \in [ver : Versions, parts : SUBSET [num : Parts, tag : Uploads \union {CopyTag}]]
      BY <2>1, <3>1, <3>2
    <3> QED
      BY <2>1, <3>3, NoneAssumption, Zenon
  <2>4. Visible' = P
    <3>1. Shows' = P
      BY <2>2, <2>3 DEF Shows
    <3> QED
      BY <3>1, AllShown, Zenon DEF RInv
  <2>5. Phases' = Phases
    <3>1. \A u \in Uploads : Phase(u)' = Phase(u)
      BY <1>1, <1>5 DEF Phase
    <3> QED
      BY <3>1, Zenon DEF Phases
  <2>6. Atomic!Write
    BY <1>1, <2>1, <2>4, <2>5 DEF Atomic!Write, Phases
  <2>7. GInv'
    BY <1>1, <1>4, <1>5, OnwardGiven, Zenon DEF Grows
  <2> QED
    BY <2>6, <2>7 DEF Simulates, Atomic!Next
<1>8. CASE PutSimple(w)
  <2>1. Kind(loc[w]) = "put"
    BY <1>3, <1>8, Standing, Points, Zenon DEF PutSimple, AtLocked
  <2>2. "put" \in Ops
    BY <1>3, <2>1, KindOp, Zenon DEF Request
  <2> QED
    BY <1>6, <1>7, <1>8, <2>2, Zenon DEF PutSimple
<1>9. CASE PutCopy(w)
  <2>1. Kind(loc[w]) = "copy"
    BY <1>3, <1>9, Standing, Points, Zenon DEF PutCopy, AtLocked
  <2>2. "copy" \in Ops
    BY <1>3, <2>1, KindOp, Zenon DEF Request
  <2>3. Source(w) = Atomic!Pieces(Parts, CopyTag)
    <3>1. loc[w].op = "copy"
      BY <1>3, <2>1, KindOp, Zenon
    <3> QED
      BY <3>1, CopySource, Zenon DEF Atomic!Pieces
  <2> QED
    BY <1>6, <1>7, <1>9, <2>2, <2>3, Zenon DEF PutCopy
<1> QED
  BY <1>8, <1>9, Zenon

(* A delete is seen at its first step, which takes the parts away. *)
LEMMA DeleteSimulates ==
    ASSUME Careful, IInv, IInv', RInv, CommittedReadable', GInv, NEW w \in Workers,
           DeleteObjectParts(w) \/ DeleteObjectMeta(w)
    PROVE  GInv' /\ Simulates
<1>1. UNCHANGED <<json, acked, commits, aborted>> /\ (Fail(w) \/ Continue(w, loc[w]))
  BY Zenon DEF DeleteObjectParts, DeleteObjectMeta, history
<1>2. PICK step \in {"deleteParts", "deleteMeta"} : At(w, step)
  BY Zenon DEF DeleteObjectParts, DeleteObjectMeta, AtLocked
<1>3. Request(w) /\ loc[w] \in Requests
  BY DEF RInv, IInv, TypeOK
<1>4. Onward(w)
  BY <1>1, <1>2, <1>3, GoesOnward
<1>5. \A u \in Uploads : Started(u)' <=> Started(u)
  BY <1>1 DEF Started
<1>6. GInv'
  BY <1>1, <1>4, <1>5, OnwardGiven DEF Grows
<1>7. Phases' = Phases
  <2>1. \A u \in Uploads : Phase(u)' = Phase(u)
    BY <1>1, <1>5 DEF Phase
  <2> QED
    BY <2>1, Zenon DEF Phases
<1>8. Visible' = None
  <2>1. CASE DeleteObjectMeta(w)
    <3>1. meta' = None
      BY <2>1, Reliable DEF DeleteObjectMeta
    <3> QED
      BY <3>1 DEF Visible
  <2>2. CASE DeleteObjectParts(w) /\ meta' = None
    BY <2>2 DEF Visible
  <2>3. CASE DeleteObjectParts(w) /\ meta' # None
    <3>1. At(w, "deleteParts") /\ Continue(w, loc[w])
      BY <2>3, Reliable DEF DeleteObjectParts, AtLocked
    <3>2. Kind(loc[w]) = "remove" /\ Len(loc[w].todo) = 3 /\ Advanced(w, loc[w])
      <4>1. Kind(loc[w]) = "remove" /\ Len(loc[w].todo) = 3
        BY <1>3, <3>1, Standing, Points, Zenon
      <4> QED
        BY <1>3, <3>1, <4>1, Continues
    <3>3. /\ loc'[w].todo # <<>> /\ Len(loc'[w].todo) = 2 /\ Follows("remove", loc'[w].todo)
          /\ loc'[w].todo \in Seq(Steps)
      BY <3>2 DEF Advanced, IInv, TypeOK, Requests
    <3>4. Point("remove", 2, Head(loc'[w].todo))
      BY <3>3, TailFollows, Zenon
    <3>5. \A s : Point("remove", 2, s) => s = "deleteMeta"
      BY DEF Point
    <3>6. At(w, "deleteMeta")'
      BY <3>3, <3>4, <3>5, Zenon DEF At
    <3> QED
      BY <3>6, Zenon DEF Visible
  <2> QED
    BY <2>1, <2>2, <2>3
<1>9. "remove" \in Ops
  <2>1. Point(Kind(loc[w]), Len(loc[w].todo), step)
    BY <1>2, <1>3, Standing, Zenon
  <2>2. Kind(loc[w]) = "remove"
    BY <1>2, <2>1, Points, Zenon
  <2> QED
    BY <1>3, <2>2, KindOp, Zenon DEF Request
<1>10. Atomic!Write
  BY <1>1, <1>7, <1>8, <1>9, Zenon DEF Atomic!Write, Phases
<1> QED
  BY <1>6, <1>10, Zenon DEF Simulates, Atomic!Next

(* A request arrives: it is not seen before its steps. *)
LEMMA BeginUnseen ==
    ASSUME IInv, IInv', RInv, CommittedReadable', GInv, NEW w \in Workers, NEW o, NEW t, NEW u, NEW nums,
           Begin(w, o, t, u, nums),
           ToRead(t) \/ (Follows(o, t) /\ (o = "remove" => Len(t) # 2)),
           u # None => Started(u),
           o = "complete" => nums # {} /\ nums \subseteq acked[u],
           o = "part" => \E n \in Parts : nums = {n}
    PROVE  GInv' /\ Seen' = Seen
<1> DEFINE l == [op |-> o, todo |-> t, up |-> u, nums |-> nums, ver |-> 0, keys |-> {}]
<1>0. loc \in [Workers -> Requests]
  BY Zenon DEF IInv, TypeOK
<1>1. /\ loc' = [loc EXCEPT ![w] = l] /\ loc[w] = Idle
      /\ UNCHANGED <<meta, json, acked, commits, aborted>>
  BY DEF Begin, stored, history
<1>2. /\ l.op = o /\ l.todo = t /\ l.up = u /\ l.nums = nums
      /\ Kind(l) \in {"part", "complete"} => Kind(l) = o
  BY Zenon DEF Kind
<1> HIDE DEF l
<1>3. loc'[w] = l /\ \A v \in Workers \ {w} : loc'[v] = loc[v]
  BY <1>0, <1>1, Zenon
<1>4. \A v \in Uploads : Started(v)' <=> Started(v)
  BY <1>1, Zenon DEF Started
<1>5. ASSUME NEW v \in Workers PROVE Given(v)'
  <2>1. CASE v = w
    <3>1. u # None => Started(u)'
      BY <1>1, Zenon DEF Started
    <3>2. loc'[w].up # None => Started(loc[w].up)'
      BY <1>2, <1>3, <3>1, Zenon DEF Started
    <3> QED
      BY <1>1, <1>2, <1>3, <2>1, <3>2, Zenon DEF Given
  <2>2. CASE v # w
    <3>1. Given(v) /\ loc'[v] = loc[v] /\ acked' = acked
      BY <1>1, <1>3, <2>2, Zenon DEF GInv
    <3>2. loc[v].up # None => Started(loc[v].up)
      BY <3>1, Zenon DEF Given
    <3>3. \A x : Started(x) => Started(x)'
      BY <1>1, Zenon DEF Started
    <3>4. loc[v].up # None => Started(loc[v].up)'
      BY <3>1, <3>2, <3>3, Zenon DEF Started
    <3> QED
      BY <3>1, <3>4, Zenon DEF Given
  <2> QED
    BY <2>1, <2>2, Zenon
<1>6. Half' <=> Half
  <2>1. ~At(w, "deleteMeta")
    <3>1. Idle.todo = <<>>
      BY Zenon DEF Idle
    <3> QED
      BY <1>1, <3>1, Zenon DEF At
  <2>2. ~At(w, "deleteMeta")'
    <3>1. loc'[w].todo = t /\ t \in Seq(Steps)
      BY <1>2, <1>3 DEF IInv, TypeOK, Requests
    <3>2. CASE ToRead(t)
      BY <3>1, <3>2 DEF ToRead, At
    <3>3. CASE Follows(o, t) /\ (o = "remove" => Len(t) # 2)
      <4>1. At(w, "deleteMeta")' => Point(o, Len(t), "deleteMeta")
        BY <3>1, <3>3, TailFollows, Zenon DEF At
      <4>2. At(w, "deleteMeta")' => o = "remove" /\ Len(t) = 2
        BY <4>1, Points, Zenon
      <4> QED
        BY <3>3, <4>2, Zenon
    <3> QED
      BY <3>2, <3>3
  <2> QED
    BY <1>3, <2>1, <2>2, ZenonT(30) DEF Half, At
<1> QED
  BY <1>1, <1>4, <1>5, <1>6, Unseen, Zenon DEF GInv

(* The requests that arrive, with what they are given. *)
LEMMA ArrivalsUnseen ==
    ASSUME IInv, IInv', RInv, CommittedReadable', GInv, NEW w \in Workers,
           BeginUploadRequest(w) \/ BeginObjectRequest(w)
    PROVE  GInv' /\ Seen' = Seen
<1>1. CASE BeginUploadRequest(w)
  <2>1. PICK u \in Uploads :
          /\ Started(u)
          /\ \/ \E n \in Parts : Begin(w, "part", PutObjectPartHandler, u, {n})
             \/ \E nums \in (SUBSET acked[u]) \ {{}} :
                  Begin(w, "complete", CompleteMultipartUploadHandler, u, nums)
             \/ Begin(w, "abort", AbortMultipartUpload, u, {})
    BY <1>1, Zenon DEF BeginUploadRequest
  <2>2. ASSUME NEW n \in Parts, Begin(w, "part", PutObjectPartHandler, u, {n})
        PROVE  GInv' /\ Seen' = Seen
    BY <2>1, <2>2, Starts, BeginUnseen, Zenon
  <2>3. ASSUME NEW nums \in (SUBSET acked[u]) \ {{}},
               Begin(w, "complete", CompleteMultipartUploadHandler, u, nums)
        PROVE  GInv' /\ Seen' = Seen
    <3>1. nums # {} /\ nums \subseteq acked[u]
      OBVIOUS
    <3> QED
      BY <2>1, <2>3, <3>1, Starts, BeginUnseen, Zenon
  <2>4. CASE Begin(w, "abort", AbortMultipartUpload, u, {})
    BY <2>1, <2>4, Starts, BeginUnseen, Zenon
  <2> QED
    BY <2>1, <2>2, <2>3, <2>4, Zenon
<1>2. CASE BeginObjectRequest(w)
  <2>1. CASE Begin(w, "put", PutObject, None, {})
    BY <2>1, Starts, BeginUnseen, Zenon
  <2>2. CASE Begin(w, "remove", DeleteObject, None, {})
    <3>1. \A n : n = 4 => n # 2
      OBVIOUS
    <3>2. Len(DeleteObject) # 2
      BY <3>1, Starts, Zenon
    <3> QED
      BY <2>2, <3>2, Starts, BeginUnseen, Zenon
  <2>3. CASE Begin(w, "copy", CopyObject, None, Parts)
    BY <2>3, Starts, BeginUnseen, Zenon
  <2>4. CASE Begin(w, "selfCopy", CopyToItself, None, {})
    BY <2>4, SelfStarts, BeginUnseen, Zenon
  <2> QED
    BY <1>2, <2>1, <2>2, <2>3, <2>4 DEF BeginObjectRequest
<1> QED
  BY <1>1, <1>2

(* No delete is half done when the server restarts. *)
LEMMA RestartUnseen ==
    ASSUME Careful, IInv, RInv, CommittedReadable', GInv, Restart
    PROVE  GInv' /\ Seen' = Seen
<1>1. /\ Crashes /\ UNCHANGED <<meta, json, acked, commits, aborted>>
      /\ \A w \in Workers : loc'[w] = Idle
  BY DEF Restart, stored, history
<1>2. Idle.up = None /\ Kind(Idle) = "idle" /\ Idle.todo = <<>>
  BY DEF Idle, Kind
<1>3. GInv'
  BY <1>1, <1>2, Zenon DEF GInv, Given
<1>4. ~Half
  <2>1. \A w \in Workers : Request(w)
    BY DEF RInv
  <2> QED
    BY <1>1, <2>1, HalfLocks DEF Half, Request, Careful
<1>5. ~Half'
  BY <1>1, <1>2, Zenon DEF Half, At
<1>6. \A u \in Uploads : Started(u)' <=> Started(u)
  BY <1>1 DEF Started
<1> QED
  BY <1>1, <1>3, <1>4, <1>5, <1>6, Unseen

(* A copy of the object to itself does not delete the object. *)
LEMMA SelfHeads ==
    ASSUME NEW t, t # <<>>,
           \/ ToRead(t) \/ ToBegin(t) \/ ToCopy(t) \/ ToPut(t) \/ ToPurge(t, "rangeCurrent")
           \/ ToPurge(t, "rangeNext") \/ ToBeginSimple(t) \/ ToPutSimple(t)
    PROVE  Head(t) # "deleteMeta"
<1>1. ASSUME NEW range \in {"rangeCurrent", "rangeNext"}, ToPurge(t, range)
      PROVE  Head(t) # "deleteMeta"
  BY <1>1 DEF ToPurge
<1> QED
  BY <1>1 DEF ToRead, ToBegin, ToCopy, ToPut, ToBeginSimple, ToPutSimple

(* While the object is copied to itself, the same contents are seen. *)
LEMMA SelfUnseen ==
    ASSUME Careful, IInv, IInv', GInv, CommittedReadable', NEW w \in Workers, SelfInv(w), [Next]_vars
    PROVE  GInv' /\ Seen' = Seen
<1>0. Idle.up = None /\ Kind(Idle) = "idle" /\ Idle.todo = <<>>
  BY DEF Idle, Kind
<1>1. ~Half
  <2>1. ~At(w, "deleteMeta")
    <3> SUFFICES ASSUME At(w, "deleteMeta") PROVE FALSE
      OBVIOUS
    <3>1. "deleteMeta" \in {"source", "version", "copyParts", "putCopy", "rangeCurrent", "rangeNext",
                           "deleteKeys", "putObject"}
      BY SelfPoints, Zenon
    <3> QED
      BY <3>1
  <2> QED
    BY <1>0, <2>1 DEF SelfInv, Half, At
<1>2. /\ UNCHANGED <<json, acked, commits, aborted>>
      /\ \/ meta' = meta
         \/ meta # None /\ meta' = [ver |-> newVersion(loc[w].ver), parts |-> meta.parts]
      /\ \A v \in Workers :
            \/ loc'[v] = Idle \/ loc'[v] = loc[v]
            \/ v = w /\ loc'[w].up = None /\ loc'[w].todo # <<>> /\ SelfStage(w)'
  <2>1. CASE SelfStep(w)
    BY <2>1, Zenon DEF SelfStep
  <2>2. CASE Restart
    BY <2>2 DEF Restart, stored, history
  <2>3. CASE UNCHANGED vars
    BY <2>3 DEF vars
  <2> QED
    BY <2>1, <2>2, <2>3, SelfAlone, Zenon
<1>3. ASSUME loc'[w].todo # <<>>, SelfStage(w)'
      PROVE  ~At(w, "deleteMeta")' /\ Kind(loc'[w]) \notin {"part", "complete"}
  <2>1. /\ loc'[w].op \in {"selfCopy", "selfFailed", "selfPut"}
        /\ LET t == loc'[w].todo
           IN  \/ ToRead(t) \/ ToBegin(t) \/ ToCopy(t) \/ ToPut(t) \/ ToPurge(t, "rangeCurrent")
               \/ ToPurge(t, "rangeNext") \/ ToBeginSimple(t) \/ ToPutSimple(t)
    BY <1>3, Zenon DEF SelfStage
  <2>2. Head(loc'[w].todo) # "deleteMeta"
    BY <1>3, <2>1, SelfHeads
  <2> QED
    BY <2>1, <2>2, Zenon DEF At, Kind
<1>4. ~Half'
  BY <1>0, <1>1, <1>2, <1>3 DEF Half, At
<1>5. Visible = Shows /\ Visible' = Shows'
  <2>1. CommittedReadable
    BY OReadable DEF OInv
  <2> QED
    BY <2>1, AllShown
<1>6. Shows' = Shows
  <2>1. CASE meta' = meta
    BY <1>1, <1>4, <2>1 DEF Shows
  <2>2. CASE meta # None /\ meta' = [ver |-> newVersion(loc[w].ver), parts |-> meta.parts]
    <3>1. /\ newVersion(loc[w].ver) \in Versions
          /\ meta.parts \in SUBSET [num : Parts, tag : Uploads \union {CopyTag}]
      BY <2>2, NewVersionType DEF IInv, TypeOK, Requests
    <3>2. meta' \in [ver : Versions, parts : SUBSET [num : Parts, tag : Uploads \union {CopyTag}]]
      BY <2>2, <3>1, Zenon
    <3>3. meta' # None /\ meta'.parts = meta.parts
      BY <2>2, <3>2, NoneAssumption, Zenon
    <3> QED
      BY <1>1, <1>4, <2>2, <3>3 DEF Shows
  <2> QED
    BY <1>2, <2>1, <2>2
<1>7. \A x : Started(x)' <=> Started(x)
  BY <1>2, Zenon DEF Started
<1>8. Phases' = Phases
  <2>1. \A u \in Uploads : Phase(u)' = Phase(u)
    BY <1>2, <1>7, Zenon DEF Phase
  <2> QED
    BY <2>1, Zenon DEF Phases
<1>9. ASSUME NEW v \in Workers PROVE Given(v)'
  <2>1. CASE loc'[v] = Idle
    BY <1>0, <2>1, Zenon DEF Given
  <2>2. CASE loc'[v] = loc[v]
    <3>1. Given(v)
      BY DEF GInv
    <3>2. loc[v].up # None => Started(loc[v].up)'
      BY <1>2, <2>2, <3>1, Zenon DEF Given, Started
    <3> QED
      BY <1>2, <2>2, <3>1, <3>2, Zenon DEF Given
  <2>3. CASE v = w /\ loc'[w].up = None /\ loc'[w].todo # <<>> /\ SelfStage(w)'
    BY <1>3, <2>3, Zenon DEF Given
  <2> QED
    BY <1>2, <2>1, <2>2, <2>3, Zenon
<1> QED
  BY <1>2, <1>5, <1>6, <1>8, <1>9 DEF GInv, Seen

(* Every step is a step of AtomicObject, or is not seen. *)
LEMMA StepSimulates ==
    ASSUME Careful, IInv, OInv, GInv, [Next]_vars
    PROVE  GInv' /\ Simulates
<1>0. IInv' /\ CommittedReadable'
  <2>1. IInv' /\ OInv'
    BY Inductive, ReadableInductive
  <2>2. RInv' => CommittedReadable'
    BY DEF RInv
  <2>3. ASSUME NEW w \in Workers, SelfInv(w)' PROVE CommittedReadable'
    BY <2>3 DEF SelfInv, Whole, CommittedReadable, Key
  <2> QED
    BY <2>1, <2>2, <2>3 DEF OInv
<1>a. ASSUME NEW w \in Workers, SelfInv(w) PROVE GInv' /\ Simulates
  BY <1>0, <1>a, SelfUnseen DEF Simulates
<1> SUFFICES ASSUME RInv PROVE GInv' /\ Simulates
  BY <1>a DEF OInv
<1>1. ASSUME NEW u \in Uploads, NewMultipartUpload(u) PROVE GInv' /\ Simulates
  BY <1>0, <1>1, NewMultipartUploadSimulates
<1>2. ASSUME NEW w \in Workers, BeginUploadRequest(w) \/ BeginObjectRequest(w)
      PROVE  GInv' /\ Simulates
  BY <1>0, <1>2, ArrivalsUnseen DEF Simulates
<1>3. ASSUME NEW w \in Workers, Step(w) PROVE GInv' /\ Simulates
  <2>1. CASE CurrentVersion(w) \/ GetKeyRange(w) \/ DeleteKeys(w)
    BY <1>0, <2>1, ListingUnseen DEF Simulates
  <2>2. CASE StatFirst(w) \/ CheckJson(w) \/ Validate(w) \/ AbortReturns(w) \/ Lock(w) \/ Unlock(w)
    BY <1>0, <2>2, ReadingUnseen DEF Simulates
  <2>3. CASE CopyPart(w) \/ TakeJson(w)
    BY <1>0, <2>3, CopyPartUnseen, TakeJsonUnseen DEF Simulates
  <2>4. CASE PutPart(w) \/ Commit(w) \/ DropJson(w)
    BY <1>0, <2>4, PutPartSimulates, CommitSimulates, DropJsonSimulates
  <2>5. CASE PutSimple(w) \/ PutCopy(w) \/ DeleteObjectParts(w) \/ DeleteObjectMeta(w)
    BY <1>0, <2>5, WriteSimulates, DeleteSimulates
  <2>6. ~ReadSource(w)
    BY NotToItself DEF RInv, ReadSource, AtLocked
  <2> QED
    BY <1>3, <2>1, <2>2, <2>3, <2>4, <2>5, <2>6 DEF Step
<1>4. CASE Restart
  BY <1>0, <1>4, RestartUnseen DEF Simulates
<1>5. CASE UNCHANGED vars
  <2>1. UNCHANGED <<meta, store, json, loc, acked, commits, aborted>>
    BY <1>5 DEF vars
  <2>2. GInv'
    BY <2>1 DEF GInv, Given, Started
  <2>3. (Half' <=> Half) /\ \A u \in Uploads : Started(u)' <=> Started(u)
    BY <2>1 DEF Half, At, Started
  <2> QED
    BY <1>0, <2>1, <2>2, <2>3, Unseen DEF Simulates
<1> QED
  BY <1>1, <1>2, <1>3, <1>4, <1>5 DEF Next

(* Under the same conditions the keys of the store implement one object that is   *)
(* replaced in single steps by whole contents: at a commit by the parts that were *)
(* acknowledged for its upload, and at a put, a copy or a delete.  An upload is    *)
(* committed at most once, and never after an abort.  A copy of the object to      *)
(* itself, which must run alone for it takes no lock, is not seen at all: its      *)
(* contents are the object's own.                                             *)
THEOREM AtomicRefinement ==
    ASSUME Careful
    PROVE  Spec => ImplementsAtomicObject
<1>1. Init => Atomic!Init
  <2> SUFFICES ASSUME Init PROVE Atomic!Init
    OBVIOUS
  <2>1. Visible = None /\ acked = [u \in Uploads |-> {}]
    BY DEF Init, Visible
  <2>2. \A u \in Uploads : Phase(u) = "new"
    BY DEF Init, Phase, Started
  <2> QED
    BY <2>1, <2>2, Zenon DEF Atomic!Init
<1>2. Init => GInv
  <2> SUFFICES ASSUME Init PROVE GInv
    OBVIOUS
  <2>1. \A w \in Workers : loc[w].up = None /\ Kind(loc[w]) = "idle"
    BY DEF Init, Idle, Kind
  <2> QED
    BY <2>1 DEF GInv, Given
<1>3. IInv /\ OInv /\ GInv /\ [Next]_vars => OInv' /\ GInv' /\ [Atomic!Next]_Seen
  BY ReadableInductive, StepSimulates DEF Simulates
<1>4. Init => OInv
  BY InitReadable DEF OInv
<1> QED
  BY <1>1, <1>2, <1>3, <1>4, Invariant, PTL
  DEF Spec, ImplementsAtomicObject, Atomic!Spec, Atomic!vars, Seen, Phases
=============================================================================
