---------------------------- MODULE BucketsProofs ----------------------------
(***************************************************************************)
(* Proofs about module Buckets, for any keys, clients, requests and page      *)
(* size: its types; that DeleteBucket deletes nothing that was in the bucket   *)
(* before its emptiness check, if the check could read the range and no key is   *)
(* hidden; and that a listing whose ranges were all read is complete, if it       *)
(* asks for more keys than a page holds and no key is a prefix of another.       *)
(***************************************************************************)
EXTENDS Buckets, TLAPS, FiniteSetTheorems, WellFoundedInduction

-----------------------------------------------------------------------------
(***************************************************************************)
(* Finite sets of numbers, and the keys of a range.                        *)
(***************************************************************************)

(* A set of natural numbers has a least element: what the next key of a listing  *)
(* in order rests on.                                                       *)
LEMMA LeastNat ==
    ASSUME NEW S, S \subseteq Nat, S # {}
    PROVE  \E m \in S : \A k \in S : m <= k
<1>. DEFINE R == OpToRel(<, Nat)
<1>1. IsWellFoundedOn(R, Nat)
  BY NatLessThanWellFounded
<1>2. \A x \in Nat, y \in Nat : y < x => <<y, x>> \in R
  BY DEF OpToRel
<1>. HIDE DEF R
<1>3. PICK m \in S : \A y \in S : ~ (<<y, m>> \in R)
  BY <1>1, WFMin, Zenon
<1>4. ASSUME NEW k \in S PROVE m <= k
  <2>1. m \in Nat /\ k \in Nat
    OBVIOUS
  <2>2. ~ (k < m)
    <3>1. ~ (<<k, m>> \in R)
      BY <1>3
    <3>. QED  BY <3>1, <2>1, <1>2, Zenon
  <2>. QED  BY <2>1, <2>2
<1>. QED  BY <1>4

(* A set of keys has a greatest element. *)
LEMMA GreatestKey ==
    ASSUME NEW S, S \subseteq Keys, S # {}
    PROVE  \E m \in S : \A k \in S : k <= m
<1>. DEFINE T == {K - k : k \in S}
<1>1. T \subseteq Nat /\ T # {}
  <2>1. \A k \in S : K - k \in Nat
    BY KAssumption DEF Keys
  <2>2. PICK s \in S : TRUE
    OBVIOUS
  <2>3. K - s \in T
    OBVIOUS
  <2>. QED  BY <2>1, <2>3
<1>2. PICK t \in T : \A u \in T : t <= u
  <2>. HIDE DEF T
  <2>. QED  BY <1>1, LeastNat, Zenon
<1>3. PICK m \in S : t = K - m
  OBVIOUS
<1>4. ASSUME NEW k \in S PROVE k <= m
  <2>1. K - k \in T
    OBVIOUS
  <2>2. K - m <= K - k
    BY <2>1, <1>2, <1>3
  <2>. QED  BY <2>2, KAssumption DEF Keys
<1>. QED  BY <1>4

(* A set of keys, and so every part of one, is finite. *)
LEMMA KeysFinite ==
    ASSUME NEW S, S \subseteq Keys
    PROVE  IsFiniteSet(S) /\ Cardinality(S) \in Nat
<1>1. IsFiniteSet(1..K)
  BY KAssumption, FS_Interval
<1>2. IsFiniteSet(S)
  BY <1>1, FS_Subset, Zenon DEF Keys
<1>. QED  BY <1>2, FS_CardinalityType

(* The keys of S before k. *)
Before(S, k) == {j \in S : j < k}

(* The first n elements of S, as KeyRange takes them from what is stored. *)
First(S, n) == {k \in S : Cardinality(Before(S, k)) < n}

(* CGetKeyRange answers with at most the number of keys it was asked for. *)
LEMMA FirstBound ==
    ASSUME NEW S, S \subseteq Keys, NEW n \in Nat
    PROVE  Cardinality(First(S, n)) <= n
<1>. DEFINE F == First(S, n)
<1>. SUFFICES Cardinality(F) <= n
  OBVIOUS
<1>1. F \subseteq S /\ F \subseteq Keys
  BY DEF First
<1>2. CASE F = {}
  BY <1>2, FS_EmptySet
<1>3. CASE F # {}
  <2>1. PICK m \in F : \A k \in F : k <= m
    <3>. HIDE DEF F
    <3>. QED  BY <1>1, <1>3, GreatestKey
  <2>2. Cardinality(Before(S, m)) < n
    BY <2>1 DEF First
  <2>3. F \ {m} \subseteq Before(S, m)
    BY <1>1, <2>1, KAssumption DEF Before, Keys
  <2>4. /\ IsFiniteSet(F) /\ IsFiniteSet(Before(S, m))
        /\ Cardinality(F) \in Nat /\ Cardinality(Before(S, m)) \in Nat
    <3>1. Before(S, m) \subseteq Keys
      BY DEF Before
    <3>. HIDE DEF F
    <3>. QED  BY <1>1, <3>1, KeysFinite
  <2>. HIDE DEF F
  <2>5. Cardinality(F \ {m}) = Cardinality(F) - 1
    BY <2>1, <2>4, FS_RemoveElement, Zenon
  <2>6. Cardinality(F \ {m}) <= Cardinality(Before(S, m))
    BY <2>3, <2>4, FS_Subset
  <2>. QED  BY <2>2, <2>4, <2>5, <2>6
<1>. QED
  <2>. HIDE DEF F
  <2>. QED  BY <1>2, <1>3

(* A key that is not among the first n comes after all of them, and then there  *)
(* are n of them: fewer keys than asked for means that there are no more.       *)
LEMMA FirstRest ==
    ASSUME NEW S, S \subseteq Keys, NEW n \in Nat, NEW k \in S, k \notin First(S, n)
    PROVE  /\ \A j \in First(S, n) : j < k
           /\ ~ (Cardinality(First(S, n)) < n)
<1>. DEFINE F == First(S, n)
            T == S \ F
<1>1. F \subseteq Keys /\ T \subseteq Keys /\ T \subseteq Nat /\ k \in T
  <2>1. \A i \in S : i \in Nat
    BY KAssumption DEF Keys
  <2>. QED  BY <2>1 DEF First
<1>2. \A i \in S : i \in Nat /\ Before(S, i) \subseteq Keys
  <2>1. \A i \in S : i \in Nat
    BY KAssumption DEF Keys
  <2>. QED  BY <2>1 DEF Before
<1>3. \A i \in S : IsFiniteSet(Before(S, i)) /\ Cardinality(Before(S, i)) \in Nat
  BY <1>2, KeysFinite
<1>4. \A i \in T : Cardinality(Before(S, i)) >= n
  BY <1>3 DEF First
<1>5. ASSUME NEW i \in T, NEW j \in F PROVE j < i
  <2>1. i \in S /\ j \in S
    BY DEF First
  <2>2. CASE i <= j
    <3>1. Before(S, i) \subseteq Before(S, j)
      BY <2>1, <2>2, <1>2 DEF Before
    <3>2. Cardinality(Before(S, i)) <= Cardinality(Before(S, j))
      BY <2>1, <3>1, <1>3, FS_Subset
    <3>3. Cardinality(Before(S, j)) < n
      BY DEF First
    <3>4. FALSE
      BY <2>1, <3>2, <3>3, <1>3, <1>4
    <3>. QED  BY <3>4
  <2>. QED  BY <2>1, <2>2, <1>2
<1>6. PICK i \in T : \A t \in T : i <= t
  <2>. HIDE DEF F, T
  <2>. QED  BY <1>1, LeastNat, Zenon
<1>7. Before(S, i) \subseteq F
  BY <1>2, <1>6 DEF Before
<1>8. Cardinality(Before(S, i)) <= Cardinality(F)
  <2>1. IsFiniteSet(F)
    <3>. HIDE DEF F
    <3>. QED  BY <1>1, KeysFinite
  <2>. HIDE DEF F
  <2>. QED  BY <2>1, <1>7, FS_Subset
<1>9. Cardinality(F) \in Nat
  <2>. HIDE DEF F
  <2>. QED  BY <1>1, KeysFinite
<1>10. i \in S /\ Cardinality(Before(S, i)) >= n
  BY <1>4
<1>. QED
  <2>. HIDE DEF T
  <2>1. ~ (Cardinality(F) < n)
    BY <1>3, <1>8, <1>9, <1>10
  <2>. QED  BY <2>1, <1>1, <1>5
(* GetRange's keys, for the lemmas above. *)
LEMMA KeyRangeFirst ==
    ASSUME NEW from, NEW n
    PROVE  KeyRange(from, n) = First({k \in stored : k >= from}, n)
BY DEF KeyRange, First, Before

(* NextMarker is a position. *)
LEMMA NextMarkerType ==
    ASSUME NEW k \in Keys
    PROVE  NextMarker(k) \in Nat
<1>. DEFINE E == Extensions[k]
<1>1. E \subseteq Keys /\ k \in Nat
  BY KAssumption, ExtensionsAssumption DEF Keys
<1>2. CASE E = {}
  BY <1>1, <1>2 DEF NextMarker
<1>3. CASE E # {}
  <2>1. \E m \in E : \A j \in E : m >= j
    <3>. HIDE DEF E
    <3>1. PICK m \in E : \A j \in E : j <= m
      BY <1>1, <1>3, GreatestKey, Zenon
    <3>2. \A j \in E : j \in Nat
      BY <1>1, KAssumption DEF Keys
    <3>. QED  BY <3>1, <3>2
  <2>2. Max(E) \in E
    <3>. HIDE DEF E
    <3>. QED  BY <2>1 DEF Max
  <2>3. Max(E) \in Nat
    BY <1>1, <2>2, KAssumption DEF Keys
  <2>. QED  BY <1>3, <2>3 DEF NextMarker
<1>. QED  BY <1>2, <1>3

-----------------------------------------------------------------------------
(***************************************************************************)
(* Types.                                                                  *)
(***************************************************************************)

(* nRemainKeys when ListObjects begins with request r. *)
Limit(r) ==
    LET m == IF r.op = "delbucket" THEN 1 ELSE r.max
    IN  IF m > MaxKeyRange THEN MaxKeyRange ELSE m

(* What the place p of a goroutine says of its request r and its listing l: the  *)
(* keys of a range fit on the page, and a page that has used some of its room     *)
(* has a last key.                                                           *)
Local(p, r, l) ==
    /\ p # "idle" => r \in RequestType
    /\ p = "keys" => Cardinality(l.keys) <= l.remain
    /\ p \in {"range", "keys", "listed"} \/ (p = "lockBucket" /\ r.op = "delbucket")
         => l.remain = Limit(r) \/ l.from - 1 \in Keys
    /\ p \in {"range", "keys", "listed"} => r.op \in {"list", "delbucket"}
    /\ p \in {"walk", "visit", "erase", "drop"} => r.op = "delbucket"
    /\ p = "lockObject" => r.op \in {"put", "copy", "remove", "delbucket"}
    /\ p \in {"lockSource", "source", "stat"} => r.op = "copy"
    /\ p = "lockBucket" => r.op \in {"make", "put", "copy", "delbucket"}
    /\ r.op = "list" => p \in {"range", "keys", "listed", "return"}

IInv == TypeOK /\ \A c \in Clients : Local(pc[c], req[c], lst[c])

(* The invariant holds initially. *)
LEMMA InitInv == Init => IInv
<1>. SUFFICES ASSUME Init PROVE IInv
  OBVIOUS
<1>1. NoListing \in ListingType
  BY DEF NoListing, ListingType
<1>2. holds \in [Clients -> [Keys \union {BucketPath} -> NS!Modes]]
  BY DEF Init, NS!Init, NS!Modes
<1>3. TypeOK
  BY <1>1, <1>2, Zenon DEF Init, TypeOK, PCs
<1>4. \A c \in Clients : Local(pc[c], req[c], lst[c])
  BY DEF Init, Local, NoRequest
<1>. QED  BY <1>3, <1>4 DEF IInv

(* A step of one goroutine: what is to be shown of its own place, request and     *)
(* listing, the others keeping theirs.                                        *)
LEMMA Frame ==
    ASSUME IInv, NEW c \in Clients,
           bucket' \in BOOLEAN, stored' \in SUBSET Keys,
           holds' \in [Clients -> [Keys \union {BucketPath} -> NS!Modes]],
           NEW p \in PCs, pc' = [pc EXCEPT ![c] = p],
           NEW r \in RequestType \union {NoRequest}, req' = [req EXCEPT ![c] = r],
           served' \in [Clients -> Nat], ok' \in [Clients -> BOOLEAN],
           NEW l \in ListingType, lst' = [lst EXCEPT ![c] = l],
           names' \in [Clients -> SUBSET Keys],
           since' \in [Clients -> SUBSET stored'],
           Local(p, r, l)
    PROVE  IInv'
<1>1. TypeOK'
  BY Zenon DEF IInv, TypeOK
<1>2. ASSUME NEW d \in Clients PROVE Local(pc'[d], req'[d], lst'[d])
  <2>1. CASE d = c
    BY <2>1 DEF IInv, TypeOK
  <2>2. CASE d # c
    BY <2>2 DEF IInv, TypeOK
  <2>. QED  BY <2>1, <2>2
<1>3. \A d \in Clients : Local(pc[d], req[d], lst[d])'
  BY <1>2 DEF Local, Limit
<1>. QED  BY <1>1, <1>3 DEF IInv

(* Locks keep their type. *)
LEMMA HoldsType ==
    ASSUME TypeOK, NEW c \in Clients, NEW S, NEW m \in NS!Modes, NS!Become(c, S, m)
    PROVE  holds' \in [Clients -> [Keys \union {BucketPath} -> NS!Modes]]
BY DEF TypeOK, NS!Become

(* What the goroutine of a step has before it. *)
LEMMA Own ==
    ASSUME IInv, NEW c \in Clients
    PROVE  /\ pc[c] \in PCs /\ req[c] \in RequestType \union {NoRequest}
           /\ lst[c] \in ListingType /\ names[c] \in SUBSET Keys
           /\ since[c] \in SUBSET stored /\ ok[c] \in BOOLEAN
           /\ req' = req => req' = [req EXCEPT ![c] = req[c]]
           /\ lst' = lst => lst' = [lst EXCEPT ![c] = lst[c]]
           /\ pc' = pc => pc' = [pc EXCEPT ![c] = pc[c]]
           /\ Local(pc[c], req[c], lst[c])
BY DEF IInv, TypeOK

(* The variables that a step leaves alone keep their types. *)
LEMMA Kept ==
    ASSUME IInv
    PROVE  /\ bucket' = bucket => bucket' \in BOOLEAN
           /\ stored' = stored => stored' \in SUBSET Keys
           /\ holds' = holds => holds' \in [Clients -> [Keys \union {BucketPath} -> NS!Modes]]
           /\ served' = served => served' \in [Clients -> Nat]
           /\ ok' = ok => ok' \in [Clients -> BOOLEAN]
           /\ names' = names => names' \in [Clients -> SUBSET Keys]
           /\ since' = since /\ stored \subseteq stored' => since' \in [Clients -> SUBSET stored']
BY Zenon DEF IInv, TypeOK

(* A request begins. *)
LEMMA BeginStep ==
    ASSUME IInv, NEW c \in Clients, NEW r \in Requests[c], Begin(c, r)
    PROVE  IInv'
<1>. DEFINE l == [from |-> 1, remain |-> Limit(r), keys |-> {}, done |-> FALSE,
                  found |-> {}, dirs |-> {}, earlier |-> {}, lost |-> FALSE]
            p == pc'[c]
<1>1. r \in RequestType
  BY RequestsAssumption
<1>2. r.op \in Ops /\ r.max \in Nat
  BY <1>1 DEF RequestType
<1>3. Limit(r) \in Nat
  BY <1>2, RangeAssumption DEF Limit
<1>4. l \in ListingType
  BY <1>3 DEF ListingType
<1>5. req' = [req EXCEPT ![c] = r] /\ req'[c] = r
  BY DEF Begin, IInv, TypeOK
<1>6. lst' = [lst EXCEPT ![c] = l]
  <2>1. (IF MaxKeys(c) > MaxKeyRange THEN MaxKeyRange ELSE MaxKeys(c))' = Limit(r)
    BY <1>5 DEF MaxKeys, Limit
  <2>2. Page(c, 1, {}, {}, FALSE)' = l
    BY <2>1, Zenon DEF Page
  <2>. QED  BY <2>2, Zenon DEF Begin
<1>7. /\ p \in PCs /\ pc' = [pc EXCEPT ![c] = p]
      /\ p \in {"lockBucket", "lockSource", "source", "lockObject", "range", "listed"}
      /\ p = "lockBucket" => r.op \in {"make", "put", "delbucket"}
      /\ p = "lockObject" => r.op = "remove"
      /\ p \in {"lockSource", "source"} => r.op = "copy"
      /\ p \in {"range", "listed"} <=> r.op = "list"
  <2>. DEFINE q == CASE r.op \in {"make", "delbucket", "put"} -> "lockBucket"
               [] r.op = "copy" -> IF CopiesToItself(r) THEN "source" ELSE "lockSource"
               [] r.op = "remove" -> "lockObject"
               [] r.op = "list" -> IF r.max > 0 THEN "range" ELSE "listed"
  <2>1. pc' = [pc EXCEPT ![c] = q]
    BY DEF Begin, Go
  <2>2. p = q
    BY <2>1, Zenon DEF IInv, TypeOK
  <2>3. /\ r.op \in {"make", "delbucket", "put"} => q = "lockBucket"
        /\ r.op = "copy" => q \in {"lockSource", "source"}
        /\ r.op = "remove" => q = "lockObject"
        /\ r.op = "list" => q \in {"range", "listed"}
    OBVIOUS
  <2>. HIDE DEF q
  <2>4. pc' = [pc EXCEPT ![c] = p]
    BY <2>1, <2>2, Zenon
  <2>. QED  BY <2>2, <2>3, <2>4, <1>2 DEF Ops, PCs
<1>8. since' \in [Clients -> SUBSET stored']
  BY DEF Begin, IInv, TypeOK
<1>9. served' \in [Clients -> Nat]
  BY DEF Begin, IInv, TypeOK
<1>10. Local(p, r, l)
  <2>. HIDE DEF p
  <2>. QED  BY <1>1, <1>2, <1>7 DEF Local, Ops
<1>11. UNCHANGED <<bucket, stored, holds, ok, names>>
  BY DEF Begin
<1>. HIDE DEF l, p
<1>. QED  BY <1>1, <1>4, <1>5, <1>6, <1>7, <1>8, <1>9, <1>10, <1>11, Kept, Frame, Zenon

(* A step that only moves the goroutine, among other things. *)
LEMMA MoveStep ==
    ASSUME IInv, NEW c \in Clients, pc[c] # "idle", NEW p \in PCs, Go(c, p),
           UNCHANGED <<req, served, lst>>,
           bucket' \in BOOLEAN, stored' \in SUBSET Keys,
           holds' \in [Clients -> [Keys \union {BucketPath} -> NS!Modes]],
           ok' \in [Clients -> BOOLEAN], names' \in [Clients -> SUBSET Keys],
           since' \in [Clients -> SUBSET stored'],
           req[c] \in RequestType => Local(p, req[c], lst[c])
    PROVE  IInv'
<1>1. Local(p, req[c], lst[c])
  BY Own DEF Local
<1>2. pc' = [pc EXCEPT ![c] = p]
  BY DEF Go
<1>3. served' \in [Clients -> Nat]
  BY Kept
<1>4. req[c] \in RequestType \union {NoRequest} /\ lst[c] \in ListingType
  BY Own
<1>5. req' = [req EXCEPT ![c] = req[c]] /\ lst' = [lst EXCEPT ![c] = lst[c]]
  BY Own
<1>. QED  BY <1>1, <1>2, <1>3, <1>4, <1>5, Frame, Zenon

(* A request that comes to its end. *)
LEMMA FinishStep ==
    ASSUME IInv, NEW c \in Clients, pc[c] # "idle", NEW e \in BOOLEAN, Finish(c, e),
           UNCHANGED <<req, served, lst>>,
           bucket' \in BOOLEAN, stored' \in SUBSET Keys,
           holds' \in [Clients -> [Keys \union {BucketPath} -> NS!Modes]],
           names' \in [Clients -> SUBSET Keys],
           since' \in [Clients -> SUBSET stored']
    PROVE  IInv'
<1>1. ok' \in [Clients -> BOOLEAN]
  BY DEF Finish, IInv, TypeOK
<1>2. Go(c, "return") /\ "return" \in PCs
  BY DEF Finish, PCs
<1>3. Local("return", req[c], lst[c])
  BY Own DEF Local
<1>. QED  BY <1>1, <1>2, <1>3, MoveStep, Zenon

(* k is deleted. *)
LEMMA RemoveType ==
    ASSUME IInv, NEW k, Remove(k)
    PROVE  stored' \in SUBSET Keys /\ since' \in [Clients -> SUBSET stored']
BY DEF Remove, IInv, TypeOK

(* DeleteBucket's loop over the names. *)
LEMMA NextNameStep ==
    ASSUME IInv, NEW c \in Clients, pc[c] # "idle", req[c].op = "delbucket",
           NEW left \in SUBSET Keys, NextName(c, left),
           UNCHANGED <<req, served, lst>>,
           bucket' \in BOOLEAN, stored' \in SUBSET Keys,
           holds' \in [Clients -> [Keys \union {BucketPath} -> NS!Modes]],
           ok' \in [Clients -> BOOLEAN],
           since' \in [Clients -> SUBSET stored']
    PROVE  IInv'
<1>1. names' \in [Clients -> SUBSET Keys]
  BY DEF NextName, IInv, TypeOK
<1>2. PICK p \in {"lockObject", "drop"} : Go(c, p)
  BY DEF NextName
<1>3. Local(p, req[c], lst[c])
  BY Own DEF Local
<1>4. p \in PCs
  BY DEF PCs
<1>. QED  BY <1>1, <1>2, <1>3, <1>4, MoveStep, Zenon

(* The steps of buckets and objects. *)
LEMMA StoreStep ==
    ASSUME IInv, NEW c \in Clients,
           \/ MakeBucket(c) \/ GetBucketInfo(c) \/ GetObjectNInfo(c) \/ StatBucketDir(c)
           \/ PutObject(c) \/ DeleteObject(c)
    PROVE  IInv'
<1>1. CASE MakeBucket(c)
  <2>1. pc[c] # "idle" /\ UNCHANGED <<stored, holds, req, served, lst, names, since>>
    BY <1>1 DEF MakeBucket
  <2>2. bucket' \in BOOLEAN
    BY <1>1, Zenon DEF MakeBucket, IInv, TypeOK
  <2>3. \E e \in BOOLEAN : Finish(c, e)
    BY <1>1, Zenon DEF MakeBucket
  <2>. QED  BY <2>1, <2>2, <2>3, Kept, FinishStep, Zenon
<1>2. CASE GetBucketInfo(c)
  <2>1. pc[c] = "info" /\ UNCHANGED <<bucket, stored, req, served, lst, names, since>>
    BY <1>2 DEF GetBucketInfo
  <2>2. holds' \in [Clients -> [Keys \union {BucketPath} -> NS!Modes]]
    <3>1. "none" \in NS!Modes
      BY DEF NS!Modes
    <3>2. NS!Become(c, {BucketPath}, "none")
      BY <1>2 DEF GetBucketInfo, NS!Drop
    <3>. QED  BY <3>1, <3>2, HoldsType, Zenon DEF IInv
  <2>3. CASE Finish(c, FALSE)
    BY <2>1, <2>2, <2>3, Kept, FinishStep, Zenon
  <2>4. CASE Go(c, IF req[c].op = "put" THEN "lockObject" ELSE "put") /\ ok' = ok
    <3>1. PICK p \in {"lockObject", "put"} : Go(c, p) /\ (p = "lockObject" => req[c].op = "put")
      BY <2>4
    <3>2. p \in PCs
      BY DEF PCs
    <3>3. Local(p, req[c], lst[c])
      BY <2>1, <3>1, Own DEF Local
    <3>. QED  BY <2>1, <2>2, <2>4, <3>1, <3>2, <3>3, Kept, MoveStep, Zenon
  <2>. QED  BY <1>2, <2>3, <2>4, Zenon DEF GetBucketInfo
<1>3. CASE StatBucketDir(c)
  <2>1. pc[c] = "stat" /\ UNCHANGED <<bucket, stored, holds, req, served, lst, names, since>>
    BY <1>3 DEF StatBucketDir
  <2>2. CASE \E e \in BOOLEAN : Finish(c, e)
    BY <2>1, <2>2, Kept, FinishStep, Zenon
  <2>3. CASE Go(c, "lockBucket") /\ ok' = ok
    <3>1. "lockBucket" \in PCs
      BY DEF PCs
    <3>2. Local("lockBucket", req[c], lst[c])
      BY <2>1, Own DEF Local
    <3>. QED  BY <2>1, <2>3, <3>1, <3>2, Kept, MoveStep, Zenon
  <2>. QED  BY <1>3, <2>2, <2>3, Zenon DEF StatBucketDir
<1>4. CASE PutObject(c)
  <2>1. pc[c] = "put" /\ UNCHANGED <<bucket, holds, req, served, lst, names, since>>
    BY <1>4 DEF PutObject
  <2>2. PICK e \in BOOLEAN : Finish(c, e)
    BY <1>4, Zenon DEF PutObject
  <2>3. req[c].key \in Keys
    BY <2>1, Own DEF Local, RequestType
  <2>4. stored' \in SUBSET Keys /\ stored \subseteq stored'
    BY <1>4, <2>3, Zenon DEF PutObject, IInv, TypeOK
  <2>. QED  BY <2>1, <2>2, <2>4, Kept, FinishStep, Zenon
<1>5. CASE DeleteObject(c)
  <2>1. pc[c] # "idle" /\ UNCHANGED <<bucket, holds, req, served, lst, names>>
    BY <1>5 DEF DeleteObject
  <2>2. PICK e \in BOOLEAN : Finish(c, e)
    BY <1>5, Zenon DEF DeleteObject
  <2>3. CASE Remove(req[c].key)
    BY <2>1, <2>2, <2>3, RemoveType, Kept, FinishStep, Zenon
  <2>4. CASE UNCHANGED <<stored, since>>
    BY <2>1, <2>2, <2>4, Kept, FinishStep, Zenon
  <2>. QED  BY <1>5, <2>3, <2>4, Zenon DEF DeleteObject
<1>6. CASE GetObjectNInfo(c)
  <2>1. pc[c] = "source" /\ UNCHANGED <<bucket, stored, holds, req, served, lst, names, since>>
    BY <1>6 DEF GetObjectNInfo
  <2>2. CASE Finish(c, FALSE)
    BY <2>1, <2>2, Kept, FinishStep, Zenon
  <2>3. CASE Go(c, IF CopiesToItself(req[c]) THEN "stat" ELSE "lockObject") /\ ok' = ok
    <3>1. PICK p \in {"stat", "lockObject"} : Go(c, p)
      BY <2>3
    <3>2. p \in PCs
      BY DEF PCs
    <3>3. Local(p, req[c], lst[c])
      BY <2>1, <3>1, Own DEF Local
    <3>. QED  BY <2>1, <2>3, <3>1, <3>2, <3>3, Kept, MoveStep, Zenon
  <2>. QED  BY <1>6, <2>2, <2>3, Zenon DEF GetObjectNInfo
<1>. QED  BY <1>1, <1>2, <1>3, <1>4, <1>5, <1>6

(* The steps of locks, and the end of a request. *)
LEMMA LockStep ==
    ASSUME IInv, NEW c \in Clients,
           \/ AcquireBucket(c) \/ AcquireSource(c) \/ AcquireObject(c) \/ TimeOut(c)
           \/ Return(c)
    PROVE  IInv'
<1>1. CASE AcquireBucket(c)
  <2>1. pc[c] = "lockBucket" /\ UNCHANGED <<bucket, stored, req, served, ok, lst, names>>
    BY <1>1 DEF AcquireBucket
  <2>2. holds' \in [Clients -> [Keys \union {BucketPath} -> NS!Modes]]
    <3>1. BucketMode(c) \in NS!Modes
      BY DEF NS!Modes, BucketMode
    <3>2. NS!Become(c, {BucketPath}, BucketMode(c))
      BY <1>1 DEF AcquireBucket, NS!Take
    <3>. QED  BY <3>1, <3>2, HoldsType, Zenon DEF IInv
  <2>3. since' \in [Clients -> SUBSET stored']
    BY <1>1 DEF AcquireBucket, IInv, TypeOK
  <2>4. PICK p \in {"make", "range", "info"} :
               Go(c, p) /\ (p = "range" => req[c].op = "delbucket")
    <3>. DEFINE q == CASE req[c].op = "make" -> "make"
                       [] req[c].op = "delbucket" -> "range"
                       [] OTHER -> "info"
    <3>1. q \in {"make", "range", "info"} /\ (q = "range" => req[c].op = "delbucket")
      OBVIOUS
    <3>2. Go(c, q)
      BY <1>1 DEF AcquireBucket
    <3>. HIDE DEF q
    <3>. QED  BY <3>1, <3>2
  <2>5. p \in PCs
    BY DEF PCs
  <2>6. Local(p, req[c], lst[c])
    BY <2>1, <2>4, Own DEF Local
  <2>. QED  BY <2>1, <2>2, <2>3, <2>4, <2>5, <2>6, Kept, MoveStep, Zenon
<1>2. CASE AcquireObject(c)
  <2>1. pc[c] = "lockObject" /\ UNCHANGED <<bucket, stored, req, served, ok, lst, names, since>>
    BY <1>2 DEF AcquireObject
  <2>2. holds' \in [Clients -> [Keys \union {BucketPath} -> NS!Modes]]
    <3>1. "write" \in NS!Modes
      BY DEF NS!Modes
    <3>2. PICK k \in Keys : NS!Become(c, {k}, "write")
      BY <1>2, Zenon DEF AcquireObject, NS!Take
    <3>. QED  BY <3>1, <3>2, HoldsType, Zenon DEF IInv
  <2>3. req[c].op \in {"put", "copy", "remove", "delbucket"}
    BY <2>1, Own DEF Local
  <2>4. PICK p \in {"put", "stat", "remove", "erase"} :
               /\ Go(c, p)
               /\ p = "stat" => req[c].op = "copy"
               /\ p = "erase" => req[c].op = "delbucket"
    <3>. DEFINE q == CASE req[c].op = "put" -> "put"
                       [] req[c].op = "copy" -> "stat"
                       [] req[c].op = "remove" -> "remove"
                       [] OTHER -> "erase"
    <3>1. /\ q \in {"put", "stat", "remove", "erase"}
          /\ q = "stat" => req[c].op = "copy"
          /\ q = "erase" => req[c].op = "delbucket"
      BY <2>3
    <3>2. Go(c, q)
      BY <1>2 DEF AcquireObject
    <3>. HIDE DEF q
    <3>. QED  BY <3>1, <3>2
  <2>5. p \in PCs
    BY DEF PCs
  <2>6. Local(p, req[c], lst[c])
    BY <2>1, <2>3, <2>4, Own DEF Local
  <2>. QED  BY <2>1, <2>2, <2>4, <2>5, <2>6, Kept, MoveStep, Zenon
<1>3. CASE TimeOut(c)
  <2>1. /\ pc[c] \in {"lockBucket", "lockSource", "lockObject"}
        /\ UNCHANGED <<bucket, stored, holds, req, served, lst, since>>
    BY <1>3 DEF TimeOut
  <2>2. CASE pc[c] = "lockObject" /\ req[c].op = "delbucket"
    <3>1. PICK k \in names[c] : NextName(c, names[c] \ {k})
      BY <1>3, <2>2 DEF TimeOut
    <3>2. ok' \in [Clients -> BOOLEAN]
      BY <1>3, <2>2, Zenon DEF TimeOut, IInv, TypeOK
    <3>3. names[c] \ {k} \in SUBSET Keys
      BY Own
    <3>. QED  BY <2>1, <2>2, <3>1, <3>2, <3>3, Kept, NextNameStep, Zenon
  <2>3. CASE ~ (pc[c] = "lockObject" /\ req[c].op = "delbucket")
    <3>1. Finish(c, FALSE) /\ names' = names
      BY <1>3, <2>3, Zenon DEF TimeOut
    <3>. QED  BY <2>1, <3>1, Kept, FinishStep, Zenon
  <2>. QED  BY <2>2, <2>3
<1>4. CASE Return(c)
  <2>1. UNCHANGED <<bucket, stored, served>>
    BY <1>4 DEF Return
  <2>2. holds' \in [Clients -> [Keys \union {BucketPath} -> NS!Modes]]
    <3>1. "none" \in NS!Modes
      BY DEF NS!Modes
    <3>2. NS!Become(c, Keys \union {BucketPath}, "none")
      BY <1>4 DEF Return
    <3>. QED  BY <3>1, <3>2, HoldsType, Zenon DEF IInv
  <2>3. pc' = [pc EXCEPT ![c] = "idle"] /\ "idle" \in PCs
    BY <1>4 DEF Return, Go, PCs
  <2>4. req' = [req EXCEPT ![c] = NoRequest] /\ lst' = [lst EXCEPT ![c] = NoListing]
    BY <1>4 DEF Return
  <2>5. /\ ok' \in [Clients -> BOOLEAN] /\ names' \in [Clients -> SUBSET Keys]
        /\ since' \in [Clients -> SUBSET stored']
    BY <1>4 DEF Return, IInv, TypeOK
  <2>6. NoListing \in ListingType
    BY DEF NoListing, ListingType
  <2>7. Local("idle", NoRequest, NoListing)
    BY DEF Local, NoRequest
  <2>. QED  BY <2>1, <2>2, <2>3, <2>4, <2>5, <2>6, <2>7, Kept, Frame, Zenon
<1>5. CASE AcquireSource(c)
  <2>1. /\ pc[c] = "lockSource" /\ Go(c, "source") /\ "source" \in PCs
        /\ UNCHANGED <<bucket, stored, req, served, ok, lst, names, since>>
    BY <1>5 DEF AcquireSource, PCs
  <2>2. holds' \in [Clients -> [Keys \union {BucketPath} -> NS!Modes]]
    <3>1. "read" \in NS!Modes
      BY DEF NS!Modes
    <3>2. NS!Become(c, {req[c].src}, "read")
      BY <1>5 DEF AcquireSource, NS!Take
    <3>. QED  BY <3>1, <3>2, HoldsType, Zenon DEF IInv
  <2>3. Local("source", req[c], lst[c])
    BY <2>1, Own DEF Local
  <2>. QED  BY <2>1, <2>2, <2>3, Kept, MoveStep, Zenon
<1>. QED  BY <1>1, <1>2, <1>3, <1>4, <1>5

(* DeleteBucket after the emptiness check. *)
LEMMA DeleteStep ==
    ASSUME IInv, NEW c \in Clients,
           Walk(c) \/ Visit(c) \/ WalkEnds(c) \/ Erase(c) \/ DropBucket(c)
    PROVE  IInv'
<1>1. CASE Walk(c) \/ Visit(c)
  <2>1. /\ pc[c] \in {"walk", "visit"} /\ pc' = [pc EXCEPT ![c] = "visit"]
        /\ UNCHANGED <<bucket, stored, holds, req, served, ok, since>>
    BY <1>1, Own DEF Walk, Visit, Go
  <2>2. PICK ks \in SUBSET Keys : lst' = [lst EXCEPT ![c].keys = ks]
    <3>1. CASE Walk(c)
      BY <3>1, Zenon DEF Walk, IInv, TypeOK
    <3>2. CASE Visit(c)
      <4>1. PICK k : lst' = [lst EXCEPT ![c].keys = lst[c].keys \ {k}]
        BY <3>2, Zenon DEF Visit, IInv, TypeOK
      <4>2. lst[c].keys \ {k} \in SUBSET Keys
        BY Own DEF ListingType
      <4>. QED  BY <4>1, <4>2, Zenon
    <3>. QED  BY <1>1, <3>1, <3>2
  <2>. DEFINE l == [lst[c] EXCEPT !.keys = ks]
  <2>3. l \in ListingType
    BY <2>2, Own, Zenon DEF ListingType
  <2>4. lst' = [lst EXCEPT ![c] = l]
    BY <2>2, Own DEF IInv, TypeOK, ListingType
  <2>5. names' \in [Clients -> SUBSET Keys]
    BY <1>1 DEF Walk, Visit, IInv, TypeOK, ListingType
  <2>6. Local("visit", req[c], l)
    BY <2>1, Own, Zenon DEF Local
  <2>7. "visit" \in PCs /\ req[c] \in RequestType \union {NoRequest}
    BY Own DEF PCs
  <2>8. req' = [req EXCEPT ![c] = req[c]]
    BY <2>1, Own, Zenon
  <2>. HIDE DEF l
  <2>. QED  BY <2>1, <2>3, <2>4, <2>5, <2>6, <2>7, <2>8, Kept, Frame, Zenon
<1>2. CASE WalkEnds(c)
  <2>1. /\ pc[c] \in {"walk", "visit"} /\ NextName(c, names[c])
        /\ UNCHANGED <<bucket, stored, holds, req, served, ok, lst, since>>
    BY <1>2 DEF WalkEnds
  <2>2. req[c].op = "delbucket" /\ names[c] \in SUBSET Keys
    BY <2>1, Own DEF Local
  <2>. QED  BY <2>1, <2>2, Kept, NextNameStep, Zenon
<1>3. CASE Erase(c)
  <2>1. pc[c] = "erase" /\ UNCHANGED <<bucket, req, served, lst>>
    BY <1>3 DEF Erase
  <2>2. PICK k \in names[c] :
          /\ NS!Drop(c, {k}) /\ NextName(c, names[c] \ {k})
          /\ \/ Remove(k) /\ ok' \in {ok, [ok EXCEPT ![c] = FALSE]}
             \/ UNCHANGED <<stored, since>> /\ ok' = [ok EXCEPT ![c] = FALSE]
    BY <1>3, Zenon DEF Erase
  <2>3. holds' \in [Clients -> [Keys \union {BucketPath} -> NS!Modes]]
    <3>1. "none" \in NS!Modes
      BY DEF NS!Modes
    <3>2. NS!Become(c, {k}, "none")
      BY <2>2 DEF NS!Drop
    <3>. QED  BY <3>1, <3>2, HoldsType, Zenon DEF IInv
  <2>4. ok' \in [Clients -> BOOLEAN]
    BY <2>2, Zenon DEF IInv, TypeOK
  <2>5. req[c].op = "delbucket" /\ names[c] \ {k} \in SUBSET Keys
    BY <2>1, Own DEF Local
  <2>6. stored' \in SUBSET Keys /\ since' \in [Clients -> SUBSET stored']
    BY <2>2, RemoveType, Kept
  <2>. QED  BY <2>1, <2>2, <2>3, <2>4, <2>5, <2>6, Kept, NextNameStep, Zenon
<1>4. CASE DropBucket(c)
  <2>1. pc[c] = "drop" /\ UNCHANGED <<stored, holds, req, served, lst, names, since>>
    BY <1>4 DEF DropBucket
  <2>2. PICK e \in BOOLEAN : Finish(c, e)
    BY <1>4, Zenon DEF DropBucket
  <2>3. bucket' \in BOOLEAN
    BY <1>4, Zenon DEF DropBucket, IInv, TypeOK
  <2>. QED  BY <2>1, <2>2, <2>3, Kept, FinishStep, Zenon
<1>. QED  BY <1>1, <1>2, <1>3, <1>4

(* A range of keys was read: its keys are stored, and fit on the page. *)
LEMMA RangeFacts ==
    ASSUME IInv, NEW c \in Clients
    PROVE  LET ks == KeyRange(lst[c].from, lst[c].remain)
           IN  /\ ks \in SUBSET stored /\ ks \in SUBSET Keys
               /\ Cardinality(ks) <= lst[c].remain
<1>. DEFINE S == {k \in stored : k >= lst[c].from}
<1>1. S \subseteq stored /\ S \subseteq Keys
  BY DEF IInv, TypeOK
<1>2. lst[c].remain \in Nat
  BY Own DEF ListingType
<1>3. KeyRange(lst[c].from, lst[c].remain) = First(S, lst[c].remain)
  BY KeyRangeFirst
<1>4. First(S, lst[c].remain) \subseteq S
  BY DEF First
<1>. HIDE DEF S
<1>5. Cardinality(First(S, lst[c].remain)) <= lst[c].remain
  BY <1>1, <1>2, FirstBound
<1>. QED  BY <1>1, <1>3, <1>4, <1>5

(* The next key k of a range takes at most one place of the page. *)
LEMMA AccountType ==
    ASSUME IInv, NEW c \in Clients, pc[c] = "keys", NEW k \in lst[c].keys
    PROVE  LET l == Account(c, lst[c], k)
           IN  /\ l \in ListingType
               /\ l.keys = lst[c].keys \ {k} /\ l.from = k + 1
               /\ l.done = lst[c].done /\ l.earlier = lst[c].earlier /\ l.lost = lst[c].lost
               /\ Cardinality(l.keys) <= l.remain
<1>. DEFINE o == lst[c]
            more == [o EXCEPT !.from = k + 1, !.keys = @ \ {k}]
<1>1. o \in ListingType /\ k \in Keys /\ Cardinality(o.keys) <= o.remain
  BY Own DEF ListingType, Local
<1>2. IsFiniteSet(o.keys) /\ Cardinality(o.keys) \in Nat /\ o.remain \in Nat
  <2>1. o.keys \subseteq Keys /\ o.remain \in Nat
    BY <1>1 DEF ListingType
  <2>. HIDE DEF o
  <2>. QED  BY <2>1, KeysFinite
<1>3. Cardinality(o.keys \ {k}) = Cardinality(o.keys) - 1
  BY <1>2, FS_RemoveElement, Zenon
<1>4. Cardinality(o.keys \ {k}) \in Nat
  <2>1. o.keys \ {k} \subseteq Keys
    BY <1>1 DEF ListingType
  <2>. HIDE DEF o
  <2>. QED  BY <2>1, KeysFinite
<1>5. /\ o.remain - 1 \in Nat
      /\ Cardinality(o.keys \ {k}) <= o.remain - 1
      /\ Cardinality(o.keys \ {k}) <= o.remain
  <2>. HIDE DEF o
  <2>. QED  BY <1>1, <1>2, <1>3, <1>4
<1>6. k \in Nat /\ Dir[k] \in Nat
  BY <1>1, KAssumption, DirAssumption DEF Keys
<1>. HIDE DEF o
<1>7. /\ more \in ListingType
      /\ more.keys = o.keys \ {k} /\ more.from = k + 1 /\ more.remain = o.remain
      /\ more.done = o.done /\ more.earlier = o.earlier /\ more.lost = o.lost
      /\ more.found = o.found /\ more.dirs = o.dirs
  <2>1. o.keys \ {k} \in SUBSET Keys /\ k + 1 \in Nat
    BY <1>1, <1>6 DEF ListingType
  <2>2. more \in ListingType
    BY <1>1, <2>1, Zenon DEF ListingType
  <2>3. more.keys = o.keys \ {k} /\ more.from = k + 1
    BY <1>1 DEF ListingType
  <2>4. /\ more.remain = o.remain /\ more.done = o.done /\ more.earlier = o.earlier /\ more.lost = o.lost
        /\ more.found = o.found /\ more.dirs = o.dirs
    BY <1>1 DEF ListingType
  <2>. QED  BY <2>2, <2>3, <2>4
<1>. HIDE DEF more
<1>8. ASSUME NEW F \in SUBSET Keys, NEW D \in SUBSET Nat,
             NEW l, l = [more EXCEPT !.remain = @ - 1, !.found = F, !.dirs = D]
      PROVE  /\ l \in ListingType
             /\ l.keys = o.keys \ {k} /\ l.from = k + 1
             /\ l.done = o.done /\ l.earlier = o.earlier /\ l.lost = o.lost
             /\ l.remain = o.remain - 1
  BY <1>5, <1>7, <1>8, Zenon DEF ListingType
<1>. DEFINE dir == ~Recursive(c) /\ Dir[k] # 0
            F == IF k \in Hidden \/ dir THEN more.found ELSE more.found \union {k}
            D == IF k \in Hidden \/ ~dir THEN more.dirs ELSE more.dirs \union {Dir[k]}
<1>9. F \in SUBSET Keys /\ D \in SUBSET Nat
  BY <1>1, <1>6, <1>7 DEF ListingType
<1>10. \/ Account(c, o, k) = more
       \/ Account(c, o, k) = [more EXCEPT !.remain = @ - 1, !.found = F, !.dirs = D]
  BY DEF Account, more
<1>. HIDE DEF F, D
<1>11. CASE Account(c, o, k) = more
  BY <1>5, <1>7, <1>11, Zenon DEF o
<1>12. CASE Account(c, o, k) = [more EXCEPT !.remain = @ - 1, !.found = F, !.dirs = D]
  <2>. DEFINE l == Account(c, o, k)
  <2>1. l = [more EXCEPT !.remain = @ - 1, !.found = F, !.dirs = D]
    BY <1>12
  <2>. HIDE DEF l
  <2>2. /\ l \in ListingType
        /\ l.keys = o.keys \ {k} /\ l.from = k + 1
        /\ l.done = o.done /\ l.earlier = o.earlier /\ l.lost = o.lost
        /\ l.remain = o.remain - 1
    BY <1>8, <1>9, <2>1, Zenon
  <2>3. Cardinality(l.keys) <= l.remain
    BY <1>5, <2>2
  <2>. QED  BY <2>2, <2>3 DEF l, o
<1>. QED  BY <1>10, <1>11, <1>12

(* The steps of a listing. *)
LEMMA ListStep ==
    ASSUME IInv, NEW c \in Clients,
           GetRange(c) \/ ListKey(c) \/ ListFails(c) \/ Listed(c)
    PROVE  IInv'
<1>1. CASE GetRange(c)
  <2>. DEFINE ks == KeyRange(lst[c].from, lst[c].remain)
  <2>1. pc[c] = "range" /\ UNCHANGED <<bucket, stored, holds, req, served, ok, names, since>>
    BY <1>1 DEF GetRange
  <2>2. ks \in SUBSET Keys /\ Cardinality(ks) <= lst[c].remain
    BY RangeFacts
  <2>. HIDE DEF ks
  <2>3. PICK S \in {ks, {}}, b \in BOOLEAN, x \in BOOLEAN, p \in {"listed", "keys"} :
          /\ lst' = [lst EXCEPT ![c].keys = S, ![c].done = b, ![c].lost = x]
          /\ pc' = [pc EXCEPT ![c] = p]
    <3>1. lst[c] \in ListingType /\ lst[c].lost \in BOOLEAN
      BY Own DEF ListingType
    <3>2. CASE /\ lst' = [lst EXCEPT ![c].keys = ks,
                                     ![c].done = Cardinality(ks) < lst[c].remain]
               /\ Go(c, IF \A k \in stored : k < lst[c].from THEN "listed" ELSE "keys")
      <4>0. (Cardinality(ks) < lst[c].remain) \in BOOLEAN
        OBVIOUS
      <4>1. PICK b \in BOOLEAN : lst' = [lst EXCEPT ![c].keys = ks, ![c].done = b]
        BY <3>2, <4>0, Zenon
      <4>2. lst' = [lst EXCEPT ![c].keys = ks, ![c].done = b, ![c].lost = lst[c].lost]
        BY <3>1, <4>1, Zenon DEF IInv, TypeOK, ListingType
      <4>3. \E p \in {"listed", "keys"} : pc' = [pc EXCEPT ![c] = p]
        BY <3>2, Zenon DEF Go
      <4>. QED  BY <3>1, <4>2, <4>3, Zenon
    <3>3. CASE /\ lst' = [lst EXCEPT ![c].keys = {}, ![c].done = TRUE, ![c].lost = TRUE]
               /\ Go(c, "listed")
      BY <3>3, Zenon DEF Go
    <3>. QED  BY <1>1, <3>2, <3>3, Zenon DEF GetRange, ks
  <2>. DEFINE l == [lst[c] EXCEPT !.keys = S, !.done = b, !.lost = x]
  <2>4. lst' = [lst EXCEPT ![c] = l]
    BY <2>3, Own, Zenon DEF IInv, TypeOK, ListingType
  <2>5. S \in SUBSET Keys /\ Cardinality(S) <= lst[c].remain
    <3>1. Cardinality({}) = 0 /\ lst[c].remain \in Nat
      BY FS_EmptySet, Own DEF ListingType
    <3>. QED  BY <2>2, <2>3, <3>1
  <2>6. /\ l \in ListingType
        /\ l.keys = S /\ l.remain = lst[c].remain /\ l.from = lst[c].from
    BY <2>5, Own, Zenon DEF ListingType
  <2>. HIDE DEF l
  <2>7. Local(p, req[c], l)
    BY <2>1, <2>5, <2>6, Own DEF Local
  <2>8. p \in PCs /\ req[c] \in RequestType \union {NoRequest}
    BY Own DEF PCs
  <2>9. req' = [req EXCEPT ![c] = req[c]]
    BY <2>1, Own
  <2>. QED  BY <2>1, <2>3, <2>4, <2>6, <2>7, <2>8, <2>9, Kept, Frame, Zenon
<1>2. CASE ListKey(c)
  <2>1. pc[c] = "keys" /\ UNCHANGED <<bucket, stored, holds, req, served, ok, names, since>>
    BY <1>2 DEF ListKey
  <2>2. PICK k \in lst[c].keys :
          /\ lst' = [lst EXCEPT ![c] = Account(c, lst[c], k)]
          /\ \E p \in {"keys", "range", "listed"} : pc' = [pc EXCEPT ![c] = p]
    BY <1>2, Zenon DEF ListKey, Go
  <2>3. PICK p \in {"keys", "range", "listed"} : pc' = [pc EXCEPT ![c] = p]
    BY <2>2, Zenon
  <2>. DEFINE l == Account(c, lst[c], k)
  <2>4. l \in ListingType /\ l.from = k + 1 /\ Cardinality(l.keys) <= l.remain
    BY <2>1, AccountType
  <2>5. lst' = [lst EXCEPT ![c] = l]
    BY <2>2
  <2>. HIDE DEF l
  <2>6. k \in Keys /\ l.from - 1 \in Keys
    BY <2>4, Own, KAssumption DEF ListingType, Keys
  <2>7. Local(p, req[c], l)
    BY <2>1, <2>4, <2>6, Own DEF Local
  <2>8. p \in PCs /\ req[c] \in RequestType \union {NoRequest}
    BY Own DEF PCs
  <2>9. req' = [req EXCEPT ![c] = req[c]]
    BY <2>1, Own
  <2>. QED  BY <2>1, <2>3, <2>4, <2>5, <2>7, <2>8, <2>9, Kept, Frame, Zenon
<1>3. CASE ListFails(c)
  <2>1. pc[c] # "idle" /\ UNCHANGED <<bucket, stored, holds, req, served, lst, names, since>>
    BY <1>3 DEF ListFails
  <2>2. Finish(c, FALSE)
    BY <1>3, Zenon DEF ListFails
  <2>. QED  BY <2>1, <2>2, Kept, FinishStep, Zenon
<1>4. CASE Listed(c)
  <2>1. pc[c] = "listed" /\ UNCHANGED <<bucket, stored, holds, req, served, names, since>>
    BY <1>4 DEF Listed
  <2>2. CASE req[c].op = "delbucket" /\ Go(c, "walk") /\ UNCHANGED <<ok, lst>>
    <3>1. "walk" \in PCs /\ Local("walk", req[c], lst[c])
      BY <2>1, <2>2, Own DEF Local, PCs
    <3>. QED  BY <2>1, <2>2, <3>1, Kept, MoveStep, Zenon
  <2>3. CASE lst' = lst /\ \E e \in BOOLEAN : Finish(c, e)
    BY <2>1, <2>3, Kept, FinishStep, Zenon
  <2>4. CASE /\ req[c].op # "delbucket" /\ IsTruncated(c)
             /\ lst' = [lst EXCEPT ![c] = NextPage(c)]
             /\ Go(c, "range") /\ ok' = ok
    <3>. DEFINE l == NextPage(c)
    <3>1. req[c] \in RequestType /\ req[c].op = "list" /\ req[c].max \in Nat
      BY <2>1, <2>4, Own, Zenon DEF Local, RequestType
    <3>2. Limit(req[c]) = MaxKeyRange /\ lst[c].remain # Limit(req[c])
      BY <2>4, <3>1, Own, RangeAssumption DEF IsTruncated, MaxKeys, Limit, ListingType
    <3>3. lst[c].from - 1 \in Keys
      BY <2>1, <3>2, Own DEF Local
    <3>4. NextMarker(lst[c].from - 1) \in Nat
      BY <3>3, NextMarkerType
    <3>5. l \in ListingType /\ l.remain = Limit(req[c])
      <4>1. (IF MaxKeys(c) > MaxKeyRange THEN MaxKeyRange ELSE MaxKeys(c)) = Limit(req[c])
        BY <3>1 DEF MaxKeys, Limit
      <4>2. Limit(req[c]) \in Nat
        BY <3>2, RangeAssumption
      <4>3. /\ lst[c].found \in SUBSET Keys /\ lst[c].earlier \union lst[c].dirs \in SUBSET Nat
            /\ lst[c].lost \in BOOLEAN
        BY Own DEF ListingType
      <4>. QED  BY <3>4, <4>1, <4>2, <4>3 DEF NextPage, Page, ListingType
    <3>6. lst' = [lst EXCEPT ![c] = l]
      BY <2>4
    <3>. HIDE DEF l
    <3>7. Local("range", req[c], l)
      BY <3>1, <3>5 DEF Local
    <3>8. pc' = [pc EXCEPT ![c] = "range"] /\ "range" \in PCs
      BY <2>4 DEF Go, PCs
    <3>9. req' = [req EXCEPT ![c] = req[c]] /\ req[c] \in RequestType \union {NoRequest}
      BY <2>1, Own
    <3>. QED  BY <2>1, <2>4, <3>5, <3>6, <3>7, <3>8, <3>9, Kept, Frame, Zenon
  <2>. QED  BY <1>4, <2>2, <2>3, <2>4, Zenon DEF Listed
<1>. QED  BY <1>1, <1>2, <1>3, <1>4

(* Every step keeps the invariant. *)
LEMMA NextInv == IInv /\ [Next]_vars => IInv'
<1>. SUFFICES ASSUME IInv, [Next]_vars PROVE IInv'
  OBVIOUS
<1>1. CASE UNCHANGED vars
  BY <1>1, Zenon DEF vars, IInv, TypeOK, Local, Limit
<1>2. CASE \E c \in Clients : Step(c)
  BY <1>2, LockStep, StoreStep, ListStep, DeleteStep DEF Step
<1>3. CASE \E c \in Clients : \E r \in Requests[c] : Begin(c, r)
  BY <1>3, BeginStep
<1>. QED  BY <1>1, <1>2, <1>3 DEF Next

(* The strengthened invariant of all behaviours. *)
THEOREM Invariant == Spec => []IInv
BY InitInv, NextInv, PTL DEF Spec

(* Types: in particular nRemainKeys never becomes negative, and a listing that   *)
(* follows NextMarker has a last key to increment.                             *)
THEOREM TypeCorrect == Spec => []TypeOK
<1>1. IInv => TypeOK
  BY DEF IInv
<1>. QED  BY <1>1, Invariant, PTL

-----------------------------------------------------------------------------
(***************************************************************************)
(* DeleteBucket.                                                           *)
(***************************************************************************)

(* A step of c leaves the other goroutines where they are; keys that exist since  *)
(* one of them began can only become fewer.                                    *)
Apart(c) ==
    \A d \in Clients \ {c} :
        /\ pc'[d] = pc[d] /\ req'[d] = req[d] /\ lst'[d] = lst[d] /\ ok'[d] = ok[d]
        /\ since'[d] \subseteq since[d]

(* Every step of a goroutine is of that kind. *)
LEMMA StepApart == ASSUME IInv, NEW c \in Clients, Step(c) PROVE Apart(c)
<1>. USE DEF IInv, TypeOK, Apart, Go, Finish, NextName, Remove
<1>1. CASE AcquireBucket(c)
  BY <1>1 DEF AcquireBucket
<1>2. CASE AcquireObject(c)
  BY <1>2 DEF AcquireObject
<1>3. CASE TimeOut(c)
  BY <1>3 DEF TimeOut
<1>4. CASE Return(c)
  BY <1>4 DEF Return
<1>5. CASE MakeBucket(c)
  BY <1>5, Zenon DEF MakeBucket
<1>6. CASE GetBucketInfo(c)
  BY <1>6 DEF GetBucketInfo
<1>7. CASE StatBucketDir(c)
  BY <1>7 DEF StatBucketDir
<1>8. CASE PutObject(c)
  BY <1>8 DEF PutObject
<1>9. CASE DeleteObject(c)
  BY <1>9 DEF DeleteObject
<1>10. CASE GetRange(c)
  BY <1>10 DEF GetRange
<1>11. CASE ListKey(c)
  BY <1>11 DEF ListKey
<1>12. CASE ListFails(c)
  BY <1>12 DEF ListFails
<1>13. CASE Listed(c)
  BY <1>13 DEF Listed
<1>14. CASE Walk(c)
  BY <1>14 DEF Walk
<1>15. CASE Visit(c)
  BY <1>15 DEF Visit
<1>16. CASE WalkEnds(c)
  BY <1>16 DEF WalkEnds
<1>17. CASE Erase(c)
  BY <1>17 DEF Erase
<1>18. CASE DropBucket(c)
  BY <1>18 DEF DropBucket
<1>19. CASE AcquireSource(c)
  BY <1>19 DEF AcquireSource
<1>20. CASE GetObjectNInfo(c)
  BY <1>20 DEF GetObjectNInfo
<1>. QED
  BY Zenon, <1>1, <1>2, <1>3, <1>4, <1>5, <1>6, <1>7, <1>8, <1>9, <1>10, <1>11, <1>12, <1>13,
     <1>14, <1>15, <1>16, <1>17, <1>18, <1>19, <1>20 DEF Step

(* So is the start of a request. *)
LEMMA BeginApart ==
    ASSUME IInv, NEW c \in Clients, NEW r \in Requests[c], Begin(c, r)
    PROVE  Apart(c)
BY DEF IInv, TypeOK, Apart, Begin, Go

(* DeleteBucket that could read the range, and found nothing on the page or is    *)
(* past it, has seen that nothing is left of what was in the bucket.             *)
Emptied(p, r, l, s) ==
    r.op = "delbucket" /\ ~l.lost =>
        /\ p \in {"lockBucket", "range"} => l.found # {} \/ l.from = 1
        /\ p = "listed" /\ l.found = {} => s = {}
        /\ p \in {"walk", "visit", "lockObject", "erase", "drop"} => s = {}

DInv == \A c \in Clients : Emptied(pc[c], req[c], lst[c], since[c])

(* The emptiness check, if no key is hidden: an answer without keys means that    *)
(* nothing is stored, and every other answer makes an object of the page.        *)
LEMMA CheckStep ==
    ASSUME Hidden = {}, IInv, DInv, NEW c \in Clients,
           GetRange(c) \/ ListKey(c) \/ ListFails(c) \/ Listed(c)
    PROVE  Emptied(pc'[c], req'[c], lst'[c], since'[c])
<1>. SUFFICES ASSUME req[c].op = "delbucket"
              PROVE  Emptied(pc'[c], req'[c], lst'[c], since'[c])
  BY Zenon DEF GetRange, ListKey, ListFails, Listed, Emptied
<1>0. Emptied(pc[c], req[c], lst[c], since[c])
  BY DEF DInv
<1>1. CASE GetRange(c)
  <2>1. pc[c] = "range" /\ req' = req /\ since' = since
    BY <1>1 DEF GetRange
  <2>2. CASE /\ lst' = [lst EXCEPT ![c].keys = {}, ![c].done = TRUE, ![c].lost = TRUE]
             /\ Go(c, "listed")
    <3>1. lst'[c].lost
      BY <2>2, Own DEF IInv, TypeOK, ListingType
    <3>. QED  BY <3>1 DEF Emptied
  <2>3. CASE /\ \E S, b : lst' = [lst EXCEPT ![c].keys = S, ![c].done = b]
             /\ Go(c, IF \A k \in stored : k < lst[c].from THEN "listed" ELSE "keys")
    <3>1. /\ pc'[c] \in {"listed", "keys"}
          /\ pc'[c] = "listed" => \A k \in stored : k < lst[c].from
      BY <2>3 DEF Go, IInv, TypeOK
    <3>2. lst'[c].found = lst[c].found /\ lst'[c].lost = lst[c].lost
      BY <2>3, Own DEF IInv, TypeOK, ListingType
    <3>3. CASE pc'[c] = "listed" /\ lst'[c].found = {} /\ ~lst'[c].lost
      <4>1. lst[c].from = 1
        BY <2>1, <3>2, <3>3, <1>0 DEF Emptied
      <4>2. \A k \in stored : FALSE
        BY <3>1, <3>3, <4>1, KAssumption DEF IInv, TypeOK, Keys
      <4>3. since'[c] = {}
        BY <2>1, <4>2, Own
      <4>. QED  BY <3>3, <4>3 DEF Emptied
    <3>4. CASE ~ (pc'[c] = "listed" /\ lst'[c].found = {} /\ ~lst'[c].lost)
      BY <3>1, <3>4 DEF Emptied
    <3>. QED  BY <3>3, <3>4
  <2>. QED  BY <1>1, <2>2, <2>3, Zenon DEF GetRange
<1>2. CASE ListKey(c)
  <2>1. PICK k \in lst[c].keys :
          /\ lst' = [lst EXCEPT ![c] = Account(c, lst[c], k)]
          /\ pc'[c] \in {"keys", "range", "listed"}
    BY <1>2, Zenon DEF ListKey, Go, IInv, TypeOK
  <2>2. lst'[c] = Account(c, lst[c], k)
    BY <2>1 DEF IInv, TypeOK
  <2>3. k \in Account(c, lst[c], k).found
    BY Own DEF Account, Matches, Recursive, ListingType
  <2>. QED  BY <2>1, <2>2, <2>3 DEF Emptied
<1>3. CASE ListFails(c)
  BY <1>3 DEF ListFails, Finish, Go, Emptied, IInv, TypeOK
<1>4. CASE Listed(c)
  BY <1>4, <1>0, Zenon DEF Listed, Finish, Go, Emptied, IInv, TypeOK
<1>. QED  BY <1>1, <1>2, <1>3, <1>4

(* The other steps. *)
LEMMA EmptiedStep ==
    ASSUME Hidden = {}, IInv, DInv, NEW c \in Clients, Step(c)
    PROVE  Emptied(pc'[c], req'[c], lst'[c], since'[c])
<1>0. Emptied(pc[c], req[c], lst[c], since[c]) /\ Local(pc[c], req[c], lst[c])
  BY DEF DInv, IInv
<1>. USE DEF IInv, TypeOK, Emptied, Go, Finish, NextName
<1>1. CASE AcquireBucket(c)
  BY <1>1, <1>0 DEF AcquireBucket
<1>2. CASE AcquireObject(c)
  BY <1>2, <1>0 DEF AcquireObject
<1>3. CASE TimeOut(c)
  BY <1>3, <1>0 DEF TimeOut
<1>4. CASE Return(c)
  BY <1>4, Zenon DEF Return, NoRequest
<1>5. CASE MakeBucket(c)
  BY <1>5, Zenon DEF MakeBucket
<1>6. CASE GetBucketInfo(c)
  BY <1>6 DEF GetBucketInfo
<1>7. CASE StatBucketDir(c)
  BY <1>7, <1>0 DEF StatBucketDir, Local
<1>8. CASE PutObject(c)
  BY <1>8 DEF PutObject
<1>9. CASE DeleteObject(c)
  BY <1>9 DEF DeleteObject
<1>10. CASE GetRange(c) \/ ListKey(c) \/ ListFails(c) \/ Listed(c)
  BY <1>10, CheckStep, Zenon
<1>11. CASE Walk(c)
  BY <1>11, <1>0 DEF Walk
<1>12. CASE Visit(c)
  BY <1>12, <1>0 DEF Visit
<1>13. CASE WalkEnds(c)
  BY <1>13, <1>0 DEF WalkEnds
<1>14. CASE Erase(c)
  <2>1. req' = req /\ lst' = lst /\ pc[c] = "erase"
    BY <1>14 DEF Erase
  <2>2. pc'[c] \in {"lockObject", "drop"}
    BY <1>14 DEF Erase
  <2>3. since[c] = {} => since'[c] = {}
    <3>1. CASE since' = since
      BY <3>1
    <3>2. CASE \E k \in names[c] : Remove(k)
      BY <3>2 DEF Remove
    <3>. QED  BY <1>14, <3>1, <3>2 DEF Erase
  <2>. QED  BY <1>0, <2>1, <2>2, <2>3
<1>15. CASE DropBucket(c)
  BY <1>15 DEF DropBucket
<1>16. CASE AcquireSource(c)
  BY <1>16, <1>0 DEF AcquireSource, Local
<1>17. CASE GetObjectNInfo(c)
  BY <1>17, <1>0 DEF GetObjectNInfo, Local
<1>. QED
  BY Zenon, <1>1, <1>2, <1>3, <1>4, <1>5, <1>6, <1>7, <1>8, <1>9, <1>10, <1>11, <1>12, <1>13,
     <1>14, <1>15, <1>16, <1>17 DEF Step

(* Every step keeps what DeleteBucket knows. *)
LEMMA NextEmptied == ASSUME Hidden = {}, IInv, DInv, [Next]_vars PROVE DInv'
<1>1. CASE UNCHANGED vars
  BY <1>1 DEF vars, DInv, Emptied
<1>2. ASSUME NEW c \in Clients, Step(c) \/ \E r \in Requests[c] : Begin(c, r)
      PROVE  DInv'
  <2>1. Apart(c)
    BY <1>2, StepApart, BeginApart
  <2>2. Emptied(pc'[c], req'[c], lst'[c], since'[c])
    <3>1. CASE Step(c)
      BY <3>1, EmptiedStep
    <3>2. ASSUME NEW r \in Requests[c], Begin(c, r)
          PROVE  Emptied(pc'[c], req'[c], lst'[c], since'[c])
      <4>1. lst'[c].from = 1
        BY <3>2 DEF Begin, Page, IInv, TypeOK
      <4>2. /\ pc'[c] \in {"lockBucket", "lockSource", "source", "lockObject", "range", "listed"}
            /\ (req'[c].op = "delbucket" => pc'[c] = "lockBucket")
        <5>1. r.op \in Ops /\ req'[c] = r
          <6>1. r \in RequestType
            BY RequestsAssumption
          <6>2. r.op \in Ops
            BY <6>1 DEF RequestType
          <6>. QED  BY <3>2, <6>2 DEF Begin, IInv, TypeOK
        <5>. QED  BY <3>2, <5>1 DEF Begin, Go, Ops, IInv, TypeOK
      <4>. QED  BY <4>1, <4>2 DEF Emptied
    <3>. QED  BY <1>2, <3>1, <3>2
  <2>3. ASSUME NEW d \in Clients \ {c}
        PROVE  Emptied(pc'[d], req'[d], lst'[d], since'[d])
    <3>1. Emptied(pc[d], req[d], lst[d], since[d])
      BY DEF DInv
    <3>2. /\ pc'[d] = pc[d] /\ req'[d] = req[d] /\ lst'[d] = lst[d]
          /\ since'[d] \subseteq since[d]
      BY <2>1 DEF Apart
    <3>. QED  BY <3>1, <3>2 DEF Emptied
  <2>4. \A d \in Clients : Emptied(pc'[d], req'[d], lst'[d], since'[d])
    BY <2>2, <2>3
  <2>. QED  BY <2>4 DEF DInv, Emptied
<1>. QED  BY <1>1, <1>2 DEF Next

(* Where no key is hidden, DeleteBucket deletes no object that was in the bucket  *)
(* when it locked it, unless the store failed to answer its emptiness check: it    *)
(* goes on after an answer only when each of them is gone, and deletes what        *)
(* PutObject and CopyObject have put since.                                    *)
THEOREM EmptyFirst ==
    ASSUME Hidden = {}
    PROVE  Spec => DeletesOnlyNew
<1>1. Init => DInv
  BY DEF Init, DInv, Emptied, NoRequest
<1>2. IInv /\ DInv /\ [Next]_vars => DInv'
  BY NextEmptied
<1>. DEFINE Safe == \A c \in Clients : pc[c] = "erase" /\ pc'[c] # "erase" /\ ~lst[c].lost
                       => (stored \ stored') \intersect since[c] = {}
<1>3. IInv /\ DInv => Safe
  BY DEF IInv, DInv, Local, Emptied
<1>4. IInv /\ DInv => [Safe]_vars
  BY <1>3
<1>5. Spec => [](IInv /\ DInv)
  BY <1>1, <1>2, Invariant, PTL DEF Spec
<1>. QED  BY <1>4, <1>5, PTL DEF DeletesOnlyNew

-----------------------------------------------------------------------------
(***************************************************************************)
(* ListObjects.                                                            *)
(***************************************************************************)

(* What request r asks for of the keys s, and whether listing l has it. *)
Asked(r, s) == (s \intersect r.pattern) \ Hidden
Shown(r, l, k) == k \in l.found \/ (r.delim /\ Dir[k] \in l.dirs \union l.earlier)

(* Unless a range was lost, every key asked for is listed, or still to come: in    *)
(* the range that was read, after it if there is more, or on the next page if      *)
(* this one is full.                                                         *)
Coming(p, r, l, s, o) ==
    r.op = "list" =>
        /\ r.max > MaxKeyRange
        /\ ~l.lost => \A k \in Asked(r, s) :
             /\ p = "range" => Shown(r, l, k) \/ k >= l.from
             /\ p = "keys" => \/ Shown(r, l, k) \/ k \in l.keys
                              \/ (~l.done /\ \A j \in l.keys : j < k)
             /\ p = "listed" => Shown(r, l, k) \/ (~(l.remain > 0) /\ k >= l.from)
             /\ p = "return" /\ o => Shown(r, l, k)

LInv == \A c \in Clients : Coming(pc[c], req[c], lst[c], since[c], ok[c])

(* A listing asks for more keys than a page holds. *)
LongListings ==
    \A c \in Clients : \A r \in Requests[c] : r.op = "list" => r.max > MaxKeyRange

(* A range of keys: what is asked for is in it, or after it. *)
LEMMA RangeComing ==
    ASSUME IInv, LInv, NEW c \in Clients, GetRange(c), req[c].op = "list"
    PROVE  Coming(pc'[c], req'[c], lst'[c], since'[c], ok'[c])
<1>. DEFINE from == lst[c].from
            n == lst[c].remain
            S == {k \in stored : k >= from}
            ks == First(S, n)
<1>1. Coming("range", req[c], lst[c], since[c], ok[c])
  BY DEF LInv, GetRange
<1>2. req' = req /\ since' = since /\ ok' = ok /\ req[c].max > MaxKeyRange
  BY <1>1 DEF GetRange, Coming
<1>3. lst[c] \in ListingType /\ from \in Nat /\ n \in Nat
  BY Own DEF ListingType
<1>4. KeyRange(from, n) = ks
  BY KeyRangeFirst
<1>. SUFFICES ASSUME ~lst'[c].lost
              PROVE  Coming(pc'[c], req'[c], lst'[c], since'[c], ok'[c])
  BY <1>2 DEF Coming
<1>. HIDE DEF ks
<1>5. /\ lst'[c] = [lst[c] EXCEPT !.keys = ks, !.done = Cardinality(ks) < n]
      /\ pc'[c] = IF \A k \in stored : k < from THEN "listed" ELSE "keys"
  <2>1. CASE lst' = [lst EXCEPT ![c].keys = {}, ![c].done = TRUE, ![c].lost = TRUE]
    BY <2>1, <1>3 DEF IInv, TypeOK, ListingType
  <2>2. CASE /\ lst' = [lst EXCEPT ![c].keys = ks, ![c].done = Cardinality(ks) < n]
             /\ Go(c, IF \A k \in stored : k < from THEN "listed" ELSE "keys")
    BY <2>2 DEF Go, IInv, TypeOK
  <2>. QED  BY <1>4, <2>1, <2>2, Zenon DEF GetRange
<1>6. /\ lst'[c].found = lst[c].found /\ lst'[c].dirs = lst[c].dirs
      /\ lst'[c].earlier = lst[c].earlier /\ ~lst[c].lost
      /\ lst'[c].keys = ks /\ lst'[c].done = (Cardinality(ks) < n)
  BY <1>3, <1>5 DEF ListingType
<1>7. S \subseteq Keys
  BY DEF IInv, TypeOK
<1>8. ASSUME NEW k \in Asked(req[c], since[c])
      PROVE  /\ pc'[c] = "keys" => \/ Shown(req[c], lst'[c], k) \/ k \in lst'[c].keys
                                   \/ (~lst'[c].done /\ \A j \in lst'[c].keys : j < k)
             /\ pc'[c] = "listed" => Shown(req[c], lst'[c], k)
  <2>1. k \in stored /\ k \in Nat
    <3>1. since[c] \subseteq stored /\ stored \subseteq Keys
      BY DEF IInv, TypeOK
    <3>2. k \in stored /\ k \in Keys
      BY <3>1 DEF Asked
    <3>. QED  BY <3>2, KAssumption DEF Keys
  <2>2. CASE Shown(req[c], lst[c], k)
    BY <2>2, <1>6 DEF Shown
  <2>3. CASE ~Shown(req[c], lst[c], k)
    <3>1. k >= from
      BY <2>3, <1>1, <1>6 DEF Coming
    <3>2. pc'[c] # "listed"
      BY <2>1, <3>1, <1>5, <1>3
    <3>3. k \in S
      BY <2>1, <3>1
    <3>. HIDE DEF S
    <3>4. CASE k \in ks
      BY <3>2, <3>4, <1>6
    <3>5. CASE k \notin ks
      <4>1. ~ (Cardinality(ks) < n) /\ \A j \in ks : j < k
        BY <3>3, <3>5, <1>3, <1>7, FirstRest DEF ks
      <4>. QED  BY <3>2, <4>1, <1>6, Zenon
    <3>. QED  BY <3>4, <3>5
  <2>. QED  BY <2>2, <2>3
<1>9. pc'[c] \in {"listed", "keys"}
  BY <1>5
<1>. QED  BY <1>2, <1>8, <1>9 DEF Coming

(* One key of the range: if it is asked for, it is listed now, itself or by its   *)
(* prefix, and nothing that was listed is lost.                                *)
LEMMA AccountShows ==
    ASSUME IInv, NEW c \in Clients, req[c].op = "list", NEW k \in lst[c].keys
    PROVE  LET l == Account(c, lst[c], k)
           IN  /\ k \in req[c].pattern \ Hidden => Shown(req[c], l, k)
               /\ \A j : Shown(req[c], lst[c], j) => Shown(req[c], l, j)
<1>. DEFINE o == lst[c]
            r == req[c]
            dir == r.delim /\ Dir[k] # 0
            more == [o EXCEPT !.from = k + 1, !.keys = @ \ {k}]
            F == IF k \in Hidden \/ dir THEN more.found ELSE more.found \union {k}
            D == IF k \in Hidden \/ ~dir THEN more.dirs ELSE more.dirs \union {Dir[k]}
            l == Account(c, o, k)
<1>1. o \in ListingType
  BY Own
<1>2. r \in RequestType /\ r.delim \in BOOLEAN
  BY Own DEF RequestType, NoRequest
<1>3. /\ more.found = o.found /\ more.dirs = o.dirs /\ more.earlier = o.earlier
      /\ more \in [from : {k + 1}, remain : Nat, keys : {o.keys \ {k}}, done : BOOLEAN,
                   found : SUBSET Keys, dirs : SUBSET Nat, earlier : SUBSET Nat, lost : BOOLEAN]
  BY <1>1, Zenon DEF ListingType
<1>4. IF k \notin r.pattern \/ (k \notin Hidden /\ dir /\ Dir[k] \in o.dirs)
        THEN l = more
        ELSE l = [more EXCEPT !.remain = @ - 1, !.found = F, !.dirs = D]
  BY <1>2 DEF Account, Matches, Recursive
<1>. HIDE DEF more, l
<1>5. CASE k \notin r.pattern \/ (k \notin Hidden /\ dir /\ Dir[k] \in o.dirs)
  <2>1. l.found = o.found /\ l.dirs = o.dirs /\ l.earlier = o.earlier
    BY <1>3, <1>4, <1>5
  <2>. QED  BY <1>5, <2>1 DEF Shown, l
<1>6. CASE ~ (k \notin r.pattern \/ (k \notin Hidden /\ dir /\ Dir[k] \in o.dirs))
  <2>1. l.found = F /\ l.dirs = D /\ l.earlier = o.earlier
    <3>1. l = [more EXCEPT !.remain = @ - 1, !.found = F, !.dirs = D]
      BY <1>4, <1>6
    <3>. HIDE DEF F, D
    <3>. QED  BY <1>3, <3>1
  <2>2. o.found \subseteq F /\ o.dirs \subseteq D
    BY <1>3
  <2>3. k \notin Hidden => k \in F \/ (r.delim /\ Dir[k] \in D)
    BY <1>2
  <2>. HIDE DEF F, D
  <2>. QED  BY <2>1, <2>2, <2>3 DEF Shown, l
<1>. QED  BY <1>5, <1>6

(* The next key of the range is dealt with. *)
LEMMA KeyComing ==
    ASSUME IInv, LInv, NEW c \in Clients, ListKey(c), req[c].op = "list"
    PROVE  Coming(pc'[c], req'[c], lst'[c], since'[c], ok'[c])
<1>1. Coming("keys", req[c], lst[c], since[c], ok[c]) /\ pc[c] = "keys"
  BY DEF LInv, ListKey
<1>2. PICK k \in lst[c].keys :
        /\ \A j \in lst[c].keys : k <= j
        /\ LET l == Account(c, lst[c], k)
           IN  /\ lst' = [lst EXCEPT ![c] = l]
               /\ Go(c, IF l.keys # {} THEN "keys"
                        ELSE IF ~l.done /\ l.remain > 0 THEN "range" ELSE "listed")
  BY Zenon DEF ListKey
<1>. DEFINE l == Account(c, lst[c], k)
<1>3. /\ lst'[c] = l
      /\ pc'[c] = IF l.keys # {} THEN "keys"
                  ELSE IF ~l.done /\ l.remain > 0 THEN "range" ELSE "listed"
  BY <1>2 DEF Go, IInv, TypeOK
<1>4. /\ l.keys = lst[c].keys \ {k} /\ l.from = k + 1 /\ l.done = lst[c].done
      /\ l \in ListingType /\ l.lost = lst[c].lost
  BY <1>1, AccountType
<1>5. /\ k \in req[c].pattern \ Hidden => Shown(req[c], l, k)
      /\ \A j : Shown(req[c], lst[c], j) => Shown(req[c], l, j)
  BY AccountShows
<1>. HIDE DEF l
<1>6. req' = req /\ since' = since /\ ok' = ok
  BY DEF ListKey
<1>7. k \in Nat /\ \A j \in lst[c].keys : j \in Nat
  BY Own, KAssumption DEF ListingType, Keys
<1>8. ASSUME ~l.lost, NEW j \in Asked(req[c], since[c])
      PROVE  /\ pc'[c] = "range" => Shown(req[c], l, j) \/ j >= l.from
             /\ pc'[c] = "keys" => \/ Shown(req[c], l, j) \/ j \in l.keys
                                   \/ (~l.done /\ \A i \in l.keys : i < j)
             /\ pc'[c] = "listed" => Shown(req[c], l, j) \/ (~(l.remain > 0) /\ j >= l.from)
  <2>1. j \in Nat
    <3>1. since[c] \subseteq stored /\ stored \subseteq Keys
      BY DEF IInv, TypeOK
    <3>2. j \in Keys
      BY <3>1 DEF Asked
    <3>. QED  BY <3>2, KAssumption DEF Keys
  <2>2. CASE Shown(req[c], lst[c], j) \/ j = k
    <3>1. Shown(req[c], l, j)
      BY <2>2, <1>5 DEF Asked
    <3>. QED  BY <3>1, Zenon
  <2>3. CASE j \in lst[c].keys /\ j # k
    <3>1. j \in l.keys
      BY <2>3, <1>4
    <3>. QED  BY <3>1, <1>3
  <2>4. CASE ~lst[c].done /\ \A i \in lst[c].keys : i < j
    <3>1. ~l.done /\ \A i \in l.keys : i < j
      BY <2>4, <1>4
    <3>2. j >= l.from
      <4>1. k < j
        BY <2>4
      <4>. QED  BY <4>1, <2>1, <1>4, <1>7
    <3>. QED  BY <3>1, <3>2, <1>3
  <2>. QED  BY <2>2, <2>3, <2>4, <1>1, <1>4, <1>8 DEF Coming
<1>9. pc'[c] # "return" /\ req[c].max > MaxKeyRange
  BY <1>1, <1>3 DEF Coming
<1>. QED  BY <1>3, <1>6, <1>8, <1>9 DEF Coming

(* A page ends: IsTruncated is set unless everything is listed, and NextMarker     *)
(* leaves nothing out.                                                        *)
LEMMA PageComing ==
    ASSUME IInv, LInv, \A k \in Keys : Extensions[k] = {},
           NEW c \in Clients, Listed(c), req[c].op = "list"
    PROVE  Coming(pc'[c], req'[c], lst'[c], since'[c], ok'[c])
<1>1. Coming("listed", req[c], lst[c], since[c], ok[c]) /\ pc[c] = "listed"
  BY DEF LInv, Listed
<1>2. req' = req /\ since' = since
  BY DEF Listed
<1>3. req[c].max > MaxKeyRange /\ req[c].max \in Nat
  BY <1>1, Own DEF Coming, RequestType, NoRequest
<1>4. IsTruncated(c) <=> ~ (lst[c].remain > 0)
  BY <1>3, RangeAssumption DEF IsTruncated, MaxKeys
<1>5. CASE IsTruncated(c)
  <2>. DEFINE l == NextPage(c)
  <2>1. lst'[c] = l /\ pc'[c] = "range"
    BY <1>5, Zenon DEF Listed, Go, IInv, TypeOK
  <2>2. lst[c].remain \in Nat /\ lst[c].from \in Nat
    BY Own DEF ListingType
  <2>3. lst[c].from - 1 \in Keys
    <3>1. Limit(req[c]) = MaxKeyRange
      BY <1>3, RangeAssumption DEF Limit
    <3>2. lst[c].remain # Limit(req[c])
      BY <1>4, <1>5, <2>2, <3>1, RangeAssumption
    <3>. QED  BY <3>2, <1>1, Own DEF Local
  <2>4. NextMarker(lst[c].from - 1) = lst[c].from
    BY <2>2, <2>3 DEF NextMarker
  <2>5. /\ l.from = lst[c].from /\ l.found = lst[c].found
        /\ l.dirs = {} /\ l.earlier = lst[c].earlier \union lst[c].dirs
        /\ l.lost = lst[c].lost
    BY <2>4 DEF NextPage, Page
  <2>. HIDE DEF l
  <2>6. ASSUME ~l.lost, NEW k \in Asked(req[c], since[c])
        PROVE  Shown(req[c], l, k) \/ k >= l.from
    BY <1>1, <2>5, <2>6 DEF Coming, Shown
  <2>. QED  BY <1>2, <1>3, <2>1, <2>6 DEF Coming
<1>6. CASE ~IsTruncated(c)
  <2>1. lst' = lst /\ pc'[c] = "return"
    BY <1>6, Zenon DEF Listed, Finish, Go, IInv, TypeOK
  <2>2. ~lst[c].lost => \A k \in Asked(req[c], since[c]) : Shown(req[c], lst[c], k)
    BY <1>1, <1>4, <1>6 DEF Coming
  <2>. QED  BY <1>2, <1>3, <2>1, <2>2 DEF Coming
<1>. QED  BY <1>5, <1>6

(* The steps of a listing, and of every other request. *)
LEMMA ComingStep ==
    ASSUME IInv, LInv, \A k \in Keys : Extensions[k] = {},
           NEW c \in Clients, Step(c)
    PROVE  Coming(pc'[c], req'[c], lst'[c], since'[c], ok'[c])
<1>1. CASE Return(c)
  BY <1>1, Zenon DEF Return, Coming, NoRequest, IInv, TypeOK
<1>2. CASE req[c].op # "list" /\ ~Return(c)
  <2>1. req' = req
    BY <1>2, Zenon DEF Step, AcquireBucket, AcquireSource, AcquireObject, TimeOut, MakeBucket,
      GetBucketInfo, GetObjectNInfo, StatBucketDir, PutObject, DeleteObject, GetRange, ListKey, ListFails, Listed, Walk, Visit,
      WalkEnds, Erase, DropBucket
  <2>. QED  BY <1>2, <2>1 DEF Coming
<1>3. CASE req[c].op = "list" /\ ~Return(c)
  <2>1. pc[c] \in {"range", "keys", "listed", "return"}
    BY <1>3, Own DEF Local
  <2>2. GetRange(c) \/ ListKey(c) \/ ListFails(c) \/ Listed(c)
    BY <1>3, <2>1, Zenon DEF Step, AcquireBucket, AcquireSource, AcquireObject, TimeOut, MakeBucket,
      GetBucketInfo, GetObjectNInfo, StatBucketDir, PutObject, DeleteObject, Walk, Visit, WalkEnds, Erase, DropBucket
  <2>3. CASE ListFails(c)
    <3>1. /\ req' = req /\ ok'[c] = FALSE /\ pc'[c] = "return"
          /\ since' = since
      BY <2>3, Zenon DEF ListFails, Finish, Go, IInv, TypeOK
    <3>2. req[c].max > MaxKeyRange
      BY <1>3 DEF LInv, Coming
    <3>. QED  BY <3>1, <3>2 DEF Coming
  <2>. QED  BY <1>3, <2>2, <2>3, RangeComing, KeyComing, PageComing
<1>. QED  BY <1>1, <1>2, <1>3

(* A listing begins before the first key. *)
LEMMA BeginComing ==
    ASSUME IInv, LongListings, NEW c \in Clients, NEW r \in Requests[c], Begin(c, r)
    PROVE  Coming(pc'[c], req'[c], lst'[c], since'[c], ok'[c])
<1>. SUFFICES ASSUME r.op = "list"
              PROVE  Coming(pc'[c], req'[c], lst'[c], since'[c], ok'[c])
  BY Zenon DEF Begin, Coming, IInv, TypeOK
<1>1. r \in RequestType /\ r.max \in Nat
  BY RequestsAssumption DEF RequestType
<1>2. r.max > MaxKeyRange
  BY DEF LongListings
<1>3. pc'[c] = "range"
  <2>1. r.max > 0
    BY <1>1, <1>2, RangeAssumption
  <2>. QED  BY <2>1 DEF Begin, Go, IInv, TypeOK
<1>4. lst'[c].from = 1 /\ req'[c] = r
  BY DEF Begin, Page, IInv, TypeOK
<1>5. since'[c] \subseteq Keys
  BY DEF Begin, IInv, TypeOK
<1>6. \A k \in Asked(r, since'[c]) : k >= 1
  BY <1>5, KAssumption DEF Asked, Keys
<1>. QED  BY <1>2, <1>3, <1>4, <1>6 DEF Coming

(* Every step keeps what a listing has to come. *)
LEMMA NextComing ==
    ASSUME LongListings, \A k \in Keys : Extensions[k] = {}, IInv, LInv, [Next]_vars
    PROVE  LInv'
<1>1. CASE UNCHANGED vars
  <2>1. \A d \in Clients : Coming(pc'[d], req'[d], lst'[d], since'[d], ok'[d])
    BY <1>1 DEF vars, LInv
  <2>. QED  BY <2>1 DEF LInv, Coming, Shown, Asked
<1>2. ASSUME NEW c \in Clients, Step(c) \/ \E r \in Requests[c] : Begin(c, r)
      PROVE  LInv'
  <2>1. Apart(c)
    BY <1>2, StepApart, BeginApart, Zenon
  <2>2. Coming(pc'[c], req'[c], lst'[c], since'[c], ok'[c])
    BY <1>2, ComingStep, BeginComing, Zenon
  <2>3. ASSUME NEW d \in Clients \ {c}
        PROVE  Coming(pc'[d], req'[d], lst'[d], since'[d], ok'[d])
    <3>1. Coming(pc[d], req[d], lst[d], since[d], ok[d])
      BY DEF LInv
    <3>2. /\ pc'[d] = pc[d] /\ req'[d] = req[d] /\ lst'[d] = lst[d] /\ ok'[d] = ok[d]
          /\ since'[d] \subseteq since[d]
      BY <2>1, Zenon DEF Apart
    <3>3. Asked(req[d], since'[d]) \subseteq Asked(req[d], since[d])
      BY <3>2 DEF Asked
    <3>. QED  BY <3>1, <3>2, <3>3 DEF Coming
  <2>4. \A d \in Clients : Coming(pc'[d], req'[d], lst'[d], since'[d], ok'[d])
    BY <2>2, <2>3
  <2>. QED  BY <2>4, Zenon DEF LInv, Coming, Shown, Asked
<1>. QED  BY <1>1, <1>2 DEF Next

(* Where no key is a prefix of another, and a listing asks for more keys than a   *)
(* page holds, the pages that ListObjects returns hold every visible object that  *)
(* exists all the while, however many keys, pages, prefixes and hidden parts       *)
(* there are and whatever is put and deleted meanwhile, if the store answered for  *)
(* each range.                                                               *)
THEOREM Complete ==
    ASSUME LongListings, \A k \in Keys : Extensions[k] = {}
    PROVE  Spec => []ListingComplete
<1>1. Init => LInv
  <2>1. Init => \A c \in Clients : req[c].op # "list"
    BY DEF Init, NoRequest
  <2>. QED  BY <2>1, Zenon DEF LInv, Coming
<1>2. IInv /\ LInv /\ [Next]_vars => LInv'
  BY NextComing
<1>3. LInv => ListingComplete
  BY DEF LInv, ListingComplete, Coming, Asked, Shown
<1>. QED  BY <1>1, <1>2, <1>3, Invariant, PTL DEF Spec
=============================================================================
