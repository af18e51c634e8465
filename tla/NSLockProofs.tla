---------------------------- MODULE NSLockProofs ----------------------------
(***************************************************************************)
(* Proofs about NSLock, for any finite set of clients and any set of paths. *)
(***************************************************************************)
EXTENDS NSLock, FiniteSetTheorems, WellFoundedInduction, TLAPS

(* Adding a client to a set of clients adds one to its cardinality. *)
LEMMA CardAdd ==
    ASSUME NEW S \in SUBSET Clients, NEW c \in Clients, c \notin S
    PROVE  /\ Cardinality(S) \in Nat
           /\ Cardinality(S \union {c}) = Cardinality(S) + 1
BY ClientsAssumption, FS_Subset, FS_CardinalityType, FS_AddElement

(* Removing a member subtracts one, and leaves nothing of a singleton only. *)
LEMMA CardRemove ==
    ASSUME NEW S \in SUBSET Clients, NEW c \in S
    PROVE  /\ Cardinality(S) \in Nat
           /\ Cardinality(S \ {c}) = Cardinality(S) - 1
           /\ Cardinality(S) = 1 <=> S \ {c} = {}
           /\ Cardinality(S) > 0
<1>1. IsFiniteSet(S) /\ IsFiniteSet(S \ {c})
  BY ClientsAssumption, FS_Subset, FS_RemoveElement
<1>2. Cardinality(S) \in Nat /\ Cardinality(S \ {c}) \in Nat
  BY <1>1, FS_CardinalityType
<1>3. Cardinality(S \ {c}) = Cardinality(S) - 1
  BY <1>1, FS_RemoveElement
<1>4. Cardinality(S \ {c}) = 0 <=> S \ {c} = {}
  BY <1>1, FS_EmptySet
<1> QED
  BY <1>2, <1>3, <1>4

(* A set of clients is empty exactly when its cardinality is 0. *)
LEMMA CardEmpty ==
    ASSUME NEW S \in SUBSET Clients
    PROVE  Cardinality(S) \in Nat /\ (Cardinality(S) = 0 <=> S = {})
BY ClientsAssumption, FS_Subset, FS_CardinalityType, FS_EmptySet

(* The facts about a resource carry over a step that leaves its users, its  *)
(* holders, its map entry and the locks' state alone.                        *)
LEMMA EntryFrame ==
    ASSUME NEW r \in Resources, Entry(r),
           Users(r)' = Users(r), Holders(r)' = Holders(r), lockMap'[r] = lockMap[r],
           lockMap[r] # NoLock => /\ ref'[lockMap[r]] = ref[lockMap[r]]
                                  /\ mutex'[lockMap[r]] = mutex[lockMap[r]],
           \A d \in Clients : d \in Holders(r) => readLock'[d] = readLock[d]
    PROVE  Entry(r)'
<1>1. CASE lockMap[r] = NoLock
  BY <1>1 DEF Entry
<1>2. CASE lockMap[r] # NoLock
  <2>1. (lockMap[r] = NoLock <=> Users(r) = {})'
    BY <1>2 DEF Entry
  <2>2. (ref[lockMap[r]] = Cardinality(Users(r)) /\ mutex[lockMap[r]].n = Cardinality(Holders(r)))'
    BY <1>2 DEF Entry
  <2>3. Holders(r) \subseteq Clients
    BY DEF Holders
  <2>4. (IF mutex[lockMap[r]].write
           THEN \E c \in Clients : Holders(r) = {c} /\ ~readLock[c]
           ELSE \A c \in Holders(r) : readLock[c])'
    <3>1. CASE mutex[lockMap[r]].write
      <4>1. PICK c \in Clients : Holders(r) = {c} /\ ~readLock[c]
        BY <1>2, <3>1 DEF Entry
      <4> QED
        BY <1>2, <3>1, <4>1
    <3>2. CASE ~mutex[lockMap[r]].write
      BY <1>2, <3>2, <2>3 DEF Entry
    <3> QED
      BY <3>1, <3>2
  <2> QED
    BY <2>1, <2>2, <2>4 DEF Entry
<1> QED
  BY <1>1, <1>2

(* newNSLock establishes the inductive invariant. *)
LEMMA InitInv == Init => IInv
<1> SUFFICES ASSUME Init PROVE IInv
  OBVIOUS
<1>1. TypeOK
  BY ResourcesAssumption DEF Init, TypeOK, Free, PCs
<1>2. \A c \in Clients : Shape(c)
  BY DEF Init, Shape
<1>3. OneLockPerResource /\ Distinct
  BY DEF Init, OneLockPerResource, Distinct
<1>4. \A r \in Resources : Entry(r)
  BY DEF Init, Entry, Users, Uses
<1> QED
  BY <1>1, <1>2, <1>3, <1>4 DEF IInv

(* Starting a GetLock or GetRLock changes nothing that is shared. *)
LEMMA NewNSLockInv ==
    ASSUME IInv, NEW c \in Clients, NEW S \in SUBSET Resources, NEW rd \in BOOLEAN,
           NewNSLock(c, S, rd)
    PROVE  IInv'
<1> USE DEF IInv, NewNSLock
<1>1. TypeOK'
  BY DEF TypeOK, PCs
<1>2. \A d \in Clients : Shape(d)'
  BY DEF TypeOK, PCs, Shape
<1>3. OneLockPerResource' /\ Distinct'
  BY DEF TypeOK, OneLockPerResource, Distinct
<1>4. \A r \in Resources : Users(r)' = Users(r) /\ Holders(r)' = Holders(r)
  BY DEF TypeOK, Users, Uses, Holders
<1>5. \A d \in Clients, r \in Resources : d \in Holders(r) => readLock'[d] = readLock[d]
  BY DEF TypeOK, Shape, Holders
<1>6. \A r \in Resources : Entry(r)'
  BY <1>4, <1>5, EntryFrame
<1> QED
  BY <1>1, <1>2, <1>3, <1>6

(* lock() creates an entry nobody reaches yet, or adds one reference to the *)
(* entry it finds.                                                           *)
LEMMA LookUpInv ==
    ASSUME IInv, NEW c \in Clients, NEW r \in Resources, LookUp(c, r)
    PROVE  IInv'
<1> USE DEF IInv, LookUp
<1>0. r \in todo[c] /\ r \notin held[c] /\ pc[c] = "lock" /\ nsLk[c] = NoLock
  BY DEF First, Shape
<1>1. TypeOK'
  <2>1. CASE lockMap[r] = NoLock
    <3>1. PICK l \in LockObjs : /\ lockMap' = [lockMap EXCEPT ![r] = l]
                                /\ ref' = [ref EXCEPT ![l] = 1]
                                /\ mutex' = [mutex EXCEPT ![l] = Free]
                                /\ nsLk' = [nsLk EXCEPT ![c] = l]
      BY <2>1, Zenon
    <3>2. Free \in [write : BOOLEAN, n : Nat]
      BY DEF Free
    <3> QED
      BY <3>1, <3>2 DEF TypeOK, PCs
  <2>2. CASE lockMap[r] # NoLock
    <3>1. lockMap[r] \in LockObjs /\ ref[lockMap[r]] + 1 \in Nat
      BY <2>2 DEF TypeOK
    <3>2. ref' \in [LockObjs -> Nat]
      BY <2>2, <3>1 DEF TypeOK
    <3> QED
      BY <2>2, <3>1, <3>2 DEF TypeOK, PCs
  <2> QED
    BY <2>1, <2>2
<1>2. nsLk'[c] \in LockObjs /\ nsLk'[c] = lockMap'[r]
  BY DEF TypeOK
<1>3. \A d \in Clients : Shape(d)'
  BY <1>0, <1>2, NoLockAssumption DEF TypeOK, PCs, Shape
<1>4. \A s \in Resources : s # r => lockMap'[s] = lockMap[s]
  BY DEF TypeOK
<1>5. OneLockPerResource'
  BY <1>2, <1>4, NoLockAssumption DEF TypeOK, OneLockPerResource, Unreachable
<1>6. Distinct'
  BY <1>2, <1>4, NoLockAssumption DEF TypeOK, Distinct, Unreachable
<1>7. c \notin Users(r) /\ Users(r)' = Users(r) \union {c}
  BY <1>0 DEF TypeOK, Users, Uses
<1>8. \A s \in Resources : /\ Holders(s)' = Holders(s)
                           /\ s # r => Users(s)' = Users(s)
  BY <1>0 DEF TypeOK, Users, Uses, Holders
<1>9. Holders(r) \subseteq Users(r) /\ Users(r) \in SUBSET Clients
  BY DEF Users, Uses, Holders
<1>10. Entry(r)'
  <2>1. CASE lockMap[r] = NoLock
    <3>1. Users(r) = {} /\ Holders(r) = {}
      BY <2>1, <1>9 DEF Entry
    <3>2. ref'[lockMap'[r]] = 1 /\ mutex'[lockMap'[r]] = Free
      BY <2>1, <1>2, NoLockAssumption DEF TypeOK
    <3>3. Cardinality({}) = 0 /\ Cardinality({c}) = 1
      BY FS_EmptySet, FS_Singleton, Zenon
    <3>4. Users(r)' = {c} /\ Holders(r)' = {} /\ lockMap'[r] # NoLock
      BY <1>2, <1>7, <1>8, <3>1, NoLockAssumption
    <3>5. mutex'[lockMap'[r]].n = 0 /\ ~mutex'[lockMap'[r]].write
      BY <3>2 DEF Free
    <3> QED
      BY <3>2, <3>3, <3>4, <3>5 DEF Entry
  <2>2. CASE lockMap[r] # NoLock
    <3>1. lockMap' = lockMap /\ mutex' = mutex /\ ref'[lockMap[r]] = ref[lockMap[r]] + 1
      BY <2>2 DEF TypeOK
    <3>2. Cardinality(Users(r) \union {c}) = Cardinality(Users(r)) + 1
      BY <1>7, <1>9, CardAdd
    <3> QED
      BY <2>2, <3>1, <3>2, <1>2, <1>7, <1>8 DEF Entry
  <2> QED
    BY <2>1, <2>2
<1>11. ASSUME NEW s \in Resources, s # r PROVE Entry(s)'
  <2>1. Users(s)' = Users(s) /\ Holders(s)' = Holders(s) /\ lockMap'[s] = lockMap[s]
    BY <1>4, <1>8, <1>11
  <2>2. lockMap[s] # NoLock => ref'[lockMap[s]] = ref[lockMap[s]] /\ mutex'[lockMap[s]] = mutex[lockMap[s]]
    BY <1>11 DEF TypeOK, Unreachable, Distinct
  <2> QED
    BY <2>1, <2>2, EntryFrame
<1> QED
  BY <1>1, <1>3, <1>5, <1>6, <1>10, <1>11

(* A granted LRWMutex counts one holder more. *)
LEMMA AcquireInv ==
    ASSUME IInv, NEW c \in Clients, Acquire(c)
    PROVE  IInv'
<1> USE DEF IInv
<1>a. PICK r \in Resources, l \in LockObjs : path[c] = r /\ nsLk[c] = l
  BY DEF Acquire, Shape, TypeOK
<1>0. /\ pc[c] = "wait" /\ r \in todo[c] /\ r \notin held[c] /\ r \in Resources
      /\ l # NoLock /\ l = lockMap[r] /\ path[c] = r /\ nsLk[c] = l
  BY <1>a DEF Acquire, Shape, OneLockPerResource, TypeOK
<1>1. TypeOK'
  <2>1. mutex' \in [LockObjs -> [write : BOOLEAN, n : Nat]]
    BY <1>0 DEF Acquire, TypeOK
  <2> QED
    BY <2>1, <1>0 DEF Acquire, TypeOK, PCs
<1>2. \A d \in Clients : Shape(d)'
  BY <1>0 DEF Acquire, TypeOK, PCs, Shape
<1>3. OneLockPerResource' /\ Distinct'
  BY DEF Acquire, TypeOK, OneLockPerResource, Distinct
<1>4. \A s \in Resources : Users(s)' = Users(s)
  BY <1>0 DEF Acquire, TypeOK, Users, Uses
<1>5. c \notin Holders(r) /\ Holders(r)' = Holders(r) \union {c}
  BY <1>0 DEF Acquire, TypeOK, Holders
<1>6. \A s \in Resources : s # r => Holders(s)' = Holders(s)
  BY <1>0 DEF Acquire, TypeOK, Holders
<1>7. Entry(r)'
  <2>1. /\ lockMap' = lockMap /\ ref' = ref /\ readLock' = readLock
        /\ mutex'[l].n = mutex[l].n + 1 /\ mutex'[l].write = ~readLock[c]
    BY <1>0 DEF Acquire, TypeOK
  <2>2. Holders(r) \in SUBSET Clients /\ Cardinality(Holders(r)) \in Nat
    BY CardEmpty DEF Holders
  <2>3. Cardinality(Holders(r) \union {c}) = Cardinality(Holders(r)) + 1
    BY <1>5, <2>2, CardAdd
  <2>4. (ref[lockMap[r]] = Cardinality(Users(r)) /\ mutex[lockMap[r]].n = Cardinality(Holders(r)))'
    BY <1>0, <1>4, <1>5, <2>1, <2>3 DEF Entry
  <2>5. ~mutex[l].write /\ (readLock[c] \/ mutex[l].n = 0)
    BY <1>0 DEF Acquire, Grantable
  <2>6. CASE readLock[c]
    BY <2>1, <2>4, <2>5, <2>6, <1>0, <1>4, <1>5 DEF Entry, TypeOK
  <2>7. CASE ~readLock[c]
    <3>1. Holders(r) = {}
      BY <2>5, <2>7, <2>2, <1>0, CardEmpty DEF Entry
    <3>2. mutex'[l].write /\ Holders(r)' = {c}
      BY <3>1, <2>1, <2>7, <1>5, Zenon
    <3> QED
      BY <2>1, <2>4, <2>7, <3>2, <1>0, <1>4 DEF Entry
  <2> QED
    BY <2>6, <2>7
<1>8. ASSUME NEW s \in Resources, s # r PROVE Entry(s)'
  <2>1. lockMap[s] # NoLock => mutex'[lockMap[s]] = mutex[lockMap[s]]
    BY <1>0, <1>8 DEF Acquire, TypeOK, Distinct
  <2> QED
    BY <1>4, <1>6, <1>8, <2>1, EntryFrame DEF Acquire
<1> QED
  BY <1>1, <1>2, <1>3, <1>7, <1>8

(* A timeout changes nothing that is shared. *)
LEMMA TimeOutInv ==
    ASSUME IInv, NEW c \in Clients, TimeOut(c)
    PROVE  IInv'
<1> USE DEF IInv, TimeOut
<1>1. TypeOK' /\ \A d \in Clients : Shape(d)'
  BY DEF TypeOK, PCs, Shape
<1>2. OneLockPerResource' /\ Distinct'
  BY DEF OneLockPerResource, Distinct
<1>3. \A s \in Resources : Users(s)' = Users(s) /\ Holders(s)' = Holders(s)
  BY DEF TypeOK, Users, Uses, Holders
<1>4. \A s \in Resources : Entry(s)'
  BY <1>3, EntryFrame
<1> QED
  BY <1>1, <1>2, <1>4

(* Starting an Unlock or RUnlock changes nothing that is shared. *)
LEMMA UnlockInv ==
    ASSUME IInv, NEW c \in Clients, Unlock(c)
    PROVE  IInv'
<1> USE DEF IInv, Unlock
<1>1. TypeOK' /\ \A d \in Clients : Shape(d)'
  BY DEF TypeOK, PCs, Shape
<1>2. OneLockPerResource' /\ Distinct'
  BY DEF OneLockPerResource, Distinct
<1>3. \A s \in Resources : Users(s)' = Users(s) /\ Holders(s)' = Holders(s)
  BY DEF TypeOK, Users, Uses, Holders
<1>4. \A s \in Resources : Entry(s)'
  BY <1>3, EntryFrame
<1> QED
  BY <1>1, <1>2, <1>4

(* unlock() always finds the resource it is to unlock. *)
LEMMA FindInv ==
    ASSUME IInv, NEW c \in Clients, NEW r \in Resources, Find(c, r)
    PROVE  IInv'
<1> USE DEF IInv
<1>0. r \in held[c] /\ pc[c] = "find" /\ nsLk[c] = NoLock /\ todo[c] = held[c]
  BY DEF Find, First, Shape
<1>1. lockMap[r] # NoLock /\ lockMap[r] \in LockObjs
  BY <1>0, Zenon DEF Entry, Users, Uses, TypeOK
<1>2. /\ path' = [path EXCEPT ![c] = r] /\ nsLk' = [nsLk EXCEPT ![c] = lockMap[r]]
      /\ pc' = [pc EXCEPT ![c] = "release"]
      /\ UNCHANGED <<todo, lockMap, ref, mutex, readLock, held>>
  BY <1>1 DEF Find
<1>3. TypeOK' /\ \A d \in Clients : Shape(d)'
  BY <1>0, <1>1, <1>2 DEF TypeOK, PCs, Shape
<1>4. OneLockPerResource' /\ Distinct'
  BY <1>2 DEF TypeOK, OneLockPerResource, Distinct
<1>5. \A s \in Resources : Users(s)' = Users(s) /\ Holders(s)' = Holders(s)
  BY <1>0, <1>2 DEF TypeOK, Users, Uses, Holders
<1>6. \A s \in Resources : Entry(s)'
  BY <1>2, <1>5, EntryFrame
<1> QED
  BY <1>3, <1>4, <1>6

(* An unlocked LRWMutex counts one holder less. *)
LEMMA ReleaseInv ==
    ASSUME IInv, NEW c \in Clients, Release(c)
    PROVE  IInv'
<1> USE DEF IInv
<1>a. PICK r \in Resources, l \in LockObjs : path[c] = r /\ nsLk[c] = l
  BY DEF Release, Shape, TypeOK
<1>0. /\ pc[c] = "release" /\ r \in held[c] /\ todo[c] = held[c] /\ r \in Resources
      /\ l # NoLock /\ l = lockMap[r] /\ path[c] = r /\ nsLk[c] = l
  BY <1>a DEF Release, Shape, OneLockPerResource, TypeOK
<1>1. TypeOK'
  <2>a. c \in Holders(r) /\ Holders(r) \in SUBSET Clients
    BY <1>0 DEF Holders
  <2>b. Cardinality(Holders(r)) \in Nat /\ Cardinality(Holders(r)) > 0
    BY <2>a, CardRemove, Zenon
  <2>c. mutex[l].n = Cardinality(Holders(r))
    BY <1>0 DEF Entry
  <2>d. mutex[l].n - 1 \in Nat
    BY <2>b, <2>c
  <2>1. mutex' \in [LockObjs -> [write : BOOLEAN, n : Nat]]
    BY <1>0, <2>d DEF Release, TypeOK
  <2> QED
    BY <2>1, <1>0 DEF Release, TypeOK, PCs
<1>2. \A d \in Clients : Shape(d)'
  BY <1>0 DEF Release, TypeOK, PCs, Shape
<1>3. OneLockPerResource' /\ Distinct'
  BY DEF Release, TypeOK, OneLockPerResource, Distinct
<1>4. \A s \in Resources : Users(s)' = Users(s)
  BY <1>0 DEF Release, TypeOK, Users, Uses
<1>5. c \in Holders(r) /\ Holders(r)' = Holders(r) \ {c}
  BY <1>0 DEF Release, TypeOK, Holders
<1>6. \A s \in Resources : s # r => Holders(s)' = Holders(s)
  BY <1>0 DEF Release, TypeOK, Holders
<1>7. Entry(r)'
  <2>1. /\ lockMap' = lockMap /\ ref' = ref /\ readLock' = readLock
        /\ mutex'[l].n = mutex[l].n - 1 /\ ~mutex'[l].write
    BY <1>0 DEF Release, TypeOK
  <2>2. Holders(r) \in SUBSET Clients
    BY DEF Holders
  <2>3. Cardinality(Holders(r) \ {c}) = Cardinality(Holders(r)) - 1
    BY <1>5, <2>2, CardRemove
  <2>4. \A d \in Holders(r) \ {c} : readLock[d]
    BY <1>0, <1>5 DEF Entry
  <2> QED
    BY <2>1, <2>3, <2>4, <1>0, <1>4, <1>5 DEF Entry
<1>8. ASSUME NEW s \in Resources, s # r PROVE Entry(s)'
  <2>1. lockMap[s] # NoLock => mutex'[lockMap[s]] = mutex[lockMap[s]]
    BY <1>0, <1>8 DEF Release, TypeOK, Distinct
  <2> QED
    BY <1>4, <1>6, <1>8, <2>1, EntryFrame, Zenon DEF Release
<1> QED
  BY <1>1, <1>2, <1>3, <1>7, <1>8

(* A client that has a reference to give back finds it counted. *)
LEMMA RefPositive ==
    ASSUME IInv, NEW c \in Clients, pc[c] \in {"failed", "deref"}
    PROVE  ref[nsLk[c]] \in Nat /\ ref[nsLk[c]] > 0
<1> USE DEF IInv
<1>1. path[c] \in Resources /\ nsLk[c] \in LockObjs
  BY DEF Shape, TypeOK
<1>2. c \in Users(path[c]) /\ Users(path[c]) \in SUBSET Clients
  BY <1>1 DEF Users, Uses
<1>3. ref[nsLk[c]] = Cardinality(Users(path[c]))
  BY <1>1, NoLockAssumption DEF OneLockPerResource, Entry
<1>4. Cardinality(Users(path[c])) \in Nat /\ Cardinality(Users(path[c])) > 0
  BY <1>2, CardRemove, Zenon
<1> QED
  BY <1>3, <1>4

(* DropRef takes the client from the users of its path, and the entry from   *)
(* the map exactly when that was the last user.                              *)
LEMMA DropRefInv ==
    ASSUME IInv, NEW c \in Clients, NEW r \in Resources,
           path[c] = r, pc[c] \in {"failed", "deref"}, DropRef(c),
           TypeOK', UNCHANGED <<mutex, readLock, held, path>>,
           pc'[c] \in {"idle", "find"}, \A d \in Clients : d # c => pc'[d] = pc[d]
    PROVE  (OneLockPerResource /\ Distinct /\ \A s \in Resources : Entry(s))'
<1> USE DEF IInv
<1>a. PICK l \in LockObjs : nsLk[c] = l
  BY DEF Shape, TypeOK
<1>0. /\ r \notin held[c] /\ l # NoLock /\ l = lockMap[r] /\ nsLk[c] = l
      /\ c \in Users(r)
  BY <1>a, NoLockAssumption DEF Shape, OneLockPerResource, TypeOK, Users, Uses
<1>1. Users(r)' = Users(r) \ {c}
  BY <1>0 DEF TypeOK, Users, Uses
<1>2. \A s \in Resources : s # r => Users(s)' = Users(s)
  BY <1>0 DEF TypeOK, Users, Uses
<1>3. \A s \in Resources : Holders(s)' = Holders(s)
  BY DEF Holders
<1>4. Users(r) \in SUBSET Clients
  BY DEF Users
<1>5. /\ Cardinality(Users(r)) \in Nat
      /\ Cardinality(Users(r) \ {c}) = Cardinality(Users(r)) - 1
      /\ Cardinality(Users(r)) = 1 <=> Users(r) \ {c} = {}
  BY <1>0, <1>4, CardRemove
<1>6. ref[l] = Cardinality(Users(r)) /\ ref'[l] = ref[l] - 1
  BY <1>0 DEF Entry, DropRef, TypeOK
<1>7. lockMap' = IF ref[l] = 1 THEN [lockMap EXCEPT ![r] = NoLock] ELSE lockMap
  BY <1>0 DEF DropRef
<1>8. Entry(r)'
  <2>1. CASE ref[l] = 1
    BY <2>1, <1>1, <1>5, <1>6, <1>7 DEF Entry, TypeOK
  <2>2. CASE ref[l] # 1
    <3>1. Users(r)' # {} /\ lockMap'[r] = l /\ l # NoLock /\ ref'[l] = Cardinality(Users(r)')
      BY <2>2, <1>0, <1>1, <1>5, <1>6, <1>7
    <3>2. mutex'[l].n = Cardinality(Holders(r)')
      BY <1>0, <1>3 DEF Entry
    <3>3. IF mutex'[l].write
            THEN \E d \in Clients : Holders(r)' = {d} /\ ~readLock'[d]
            ELSE \A d \in Holders(r)' : readLock'[d]
      BY <1>0, <1>3 DEF Entry
    <3> QED
      BY <3>1, <3>2, <3>3 DEF Entry
  <2> QED
    BY <2>1, <2>2
<1>9. ASSUME NEW s \in Resources, s # r PROVE Entry(s)'
  <2>1. lockMap'[s] = lockMap[s]
    BY <1>7, <1>9 DEF TypeOK
  <2>2. lockMap[s] # NoLock => ref'[lockMap[s]] = ref[lockMap[s]]
    BY <1>0, <1>9 DEF DropRef, TypeOK, Distinct
  <2> QED
    BY <1>2, <1>3, <1>9, <2>1, <2>2, EntryFrame
<1>10. Distinct'
  BY <1>7 DEF TypeOK, Distinct
<1>11. ASSUME NEW d \in Clients, nsLk'[d] # NoLock
       PROVE  nsLk'[d] = lockMap'[path'[d]]
  <2>1. d # c /\ nsLk'[d] = nsLk[d]
    BY <1>11, <1>0 DEF DropRef, TypeOK
  <2>2. nsLk[d] = lockMap[path[d]] /\ path[d] \in Resources
    BY <2>1, <1>11 DEF OneLockPerResource, TypeOK
  <2>3. CASE path[d] # r \/ ref[l] # 1
    BY <2>1, <2>2, <2>3, <1>7 DEF TypeOK
  <2>4. CASE path[d] = r /\ ref[l] = 1
    <3>1. pc[d] \in {"wait", "failed", "release", "deref"}
      BY <2>1, <1>11 DEF Shape, TypeOK, PCs
    <3>2. d \in Users(r)
      BY <3>1, <2>4 DEF Shape, Users, Uses
    <3> QED
      BY <3>2, <2>1, <2>4, <1>5, <1>6
  <2> QED
    BY <2>3, <2>4
<1>12. OneLockPerResource'
  BY <1>11 DEF OneLockPerResource
<1> QED
  BY <1>8, <1>9, <1>10, <1>12

(* A lock() that timed out gives exactly its own reference back. *)
LEMMA GiveUpInv ==
    ASSUME IInv, NEW c \in Clients, GiveUp(c)
    PROVE  IInv'
<1> USE DEF IInv
<1>1. path[c] \in Resources /\ nsLk[c] \in LockObjs /\ pc[c] = "failed"
  BY DEF GiveUp, Shape, TypeOK
<1>2. TypeOK'
  BY <1>1, RefPositive DEF GiveUp, DropRef, TypeOK, PCs
<1>3. \A d \in Clients : Shape(d)'
  BY <1>1 DEF GiveUp, DropRef, TypeOK, PCs, Shape
<1>4. (OneLockPerResource /\ Distinct /\ \A s \in Resources : Entry(s))'
  <2>1. pc'[c] \in {"idle", "find"} /\ \A d \in Clients : d # c => pc'[d] = pc[d]
    BY DEF GiveUp, TypeOK
  <2> QED
    BY <1>1, <1>2, <2>1, DropRefInv DEF GiveUp
<1> QED
  BY <1>2, <1>3, <1>4

(* unlock() never meets the count 0 it logs as an error. *)
LEMMA DerefInv ==
    ASSUME IInv, NEW c \in Clients, Deref(c)
    PROVE  IInv'
<1> USE DEF IInv
<1>1. path[c] \in Resources /\ nsLk[c] \in LockObjs /\ pc[c] = "deref"
  BY DEF Deref, Shape, TypeOK
<1>2. ref[nsLk[c]] # 0
  BY <1>1, RefPositive
<1>3. DropRef(c)
  BY <1>2 DEF Deref
<1>4. TypeOK'
  BY <1>1, <1>3, RefPositive DEF Deref, DropRef, TypeOK, PCs
<1>5. \A d \in Clients : Shape(d)'
  BY <1>1, <1>3 DEF Deref, DropRef, TypeOK, PCs, Shape
<1>6. (OneLockPerResource /\ Distinct /\ \A s \in Resources : Entry(s))'
  <2>1. pc'[c] \in {"idle", "find"} /\ \A d \in Clients : d # c => pc'[d] = pc[d]
    BY DEF Deref, TypeOK
  <2> QED
    BY <1>1, <1>3, <1>4, <2>1, DropRefInv DEF Deref
<1> QED
  BY <1>4, <1>5, <1>6

-----------------------------------------------------------------------------
(* IInv is inductive: one lemma above per step of lock() and unlock(). *)
THEOREM Inductive == IInv /\ [Next]_vars => IInv'
<1> SUFFICES ASSUME IInv, [Next]_vars PROVE IInv'
  OBVIOUS
<1>1. CASE UNCHANGED vars
  <2> USE <1>1 DEF IInv, vars
  <2>1. TypeOK' /\ (\A c \in Clients : Shape(c)') /\ OneLockPerResource' /\ Distinct'
    BY DEF TypeOK, Shape, OneLockPerResource, Distinct
  <2>2. \A r \in Resources : Users(r)' = Users(r) /\ Holders(r)' = Holders(r)
    BY DEF Users, Uses, Holders
  <2>3. \A r \in Resources : Entry(r)'
    BY <2>2, EntryFrame
  <2> QED
    BY <2>1, <2>3
<1>2. CASE Next
  BY <1>2, NewNSLockInv, LookUpInv, AcquireInv, TimeOutInv, GiveUpInv, UnlockInv,
     FindInv, ReleaseInv, DerefInv DEF Next
<1> QED
  BY <1>1, <1>2

(* Every reachable state of the namespace lock satisfies IInv. *)
THEOREM Invariant == Spec => []IInv
BY InitInv, Inductive, PTL DEF Spec

(* The variables of lock() and unlock() always have their types. *)
THEOREM TypeCorrect == Spec => []TypeOK
<1>1. IInv => TypeOK
  BY DEF IInv
<1> QED
  BY <1>1, Invariant, PTL

(* The map neither leaks an entry nor drops one in use, and ref is exact. *)
THEOREM ReferencesExact == Spec => []RefCountExact
<1>1. IInv => RefCountExact
  BY DEF IInv, Entry, RefCountExact
<1> QED
  BY <1>1, Invariant, PTL

(* Nobody works on an nsLock that was dropped from the map and replaced. *)
THEOREM SingleLock == Spec => []OneLockPerResource
<1>1. IInv => OneLockPerResource
  BY DEF IInv
<1> QED
  BY <1>1, Invariant, PTL

(* unlock() never unlocks an LRWMutex that is not locked in its mode. *)
THEOREM NoUnlockPanic == Spec => []UnlockOfLocked
<1>1. ASSUME IInv, NEW c \in Clients, pc[c] = "release"
      PROVE  mutex[nsLk[c]].n > 0 /\ mutex[nsLk[c]].write = ~readLock[c]
  <2> USE DEF IInv
  <2>a. PICK r \in Resources, l \in LockObjs :
          path[c] = r /\ nsLk[c] = l /\ lockMap[r] = l /\ l # NoLock
    BY <1>1, NoLockAssumption DEF Shape, TypeOK, OneLockPerResource
  <2>1. c \in Holders(r) /\ Holders(r) \in SUBSET Clients
    BY <1>1, <2>a DEF Shape, Holders
  <2>2. Cardinality(Holders(r)) \in Nat /\ Cardinality(Holders(r)) > 0
    BY <2>1, CardRemove, Zenon
  <2>3. mutex[l].n > 0
    BY <1>1, <2>2, <2>a DEF Entry
  <2>4. mutex[l].write => ~readLock[c]
    BY <1>1, <2>1, <2>a DEF Entry
  <2>5. ~mutex[l].write => readLock[c]
    BY <1>1, <2>1, <2>a DEF Entry
  <2>6. mutex[l].write \in BOOLEAN /\ readLock[c] \in BOOLEAN
    BY <1>1 DEF TypeOK
  <2> QED
    BY <2>a, <2>3, <2>4, <2>5, <2>6
<1>2. IInv => UnlockOfLocked
  BY <1>1 DEF UnlockOfLocked
<1> QED
  BY <1>2, Invariant, PTL

(* Two clients hold the same path only if both hold it for reading. *)
THEOREM Exclusion == Spec => []MutualExclusion
<1>1. ASSUME IInv, NEW c \in Clients, NEW d \in Clients, c # d,
             NEW r \in held[c] \intersect held[d]
      PROVE  readLock[c] /\ readLock[d]
  <2> USE DEF IInv
  <2>1. r \in Resources
    BY <1>1 DEF TypeOK
  <2>2. c \in Holders(r) /\ d \in Holders(r)
    BY <1>1 DEF Holders
  <2>3. lockMap[r] # NoLock
    BY <1>1, <2>1, <2>2, Zenon DEF Entry, Users, Uses, Holders
  <2>4. ~mutex[lockMap[r]].write
    BY <1>1, <2>1, <2>2, <2>3 DEF Entry
  <2> QED
    BY <1>1, <2>1, <2>2, <2>3, <2>4 DEF Entry
<1>2. IInv => MutualExclusion
  BY <1>1 DEF MutualExclusion
<1> QED
  BY <1>2, Invariant, PTL

(* How client c holds resource r: the refinement mapping, at one point. *)
Mode(c, r) ==
    IF r \notin held[c] THEN "none" ELSE IF readLock[c] THEN "read" ELSE "write"

Holds == [c \in Clients |-> [r \in Resources |-> Mode(c, r)]]

(* Locking one LRWMutex is Take, unlocking one is Drop, and every other   *)
(* step leaves the mapping alone.                                            *)
LEMMA StepRefines ==
    ASSUME IInv, [Next]_vars
    PROVE  Abs!Next \/ Holds' = Holds
<1> USE DEF IInv
<1>1. ASSUME NEW c \in Clients, NEW S \in SUBSET Resources, NEW rd \in BOOLEAN,
             NewNSLock(c, S, rd)
      PROVE  Holds' = Holds
  <2>1. held[c] = {} /\ held' = held /\ \A d \in Clients : d # c => readLock'[d] = readLock[d]
    BY <1>1 DEF NewNSLock, Shape, TypeOK
  <2>2. \A d \in Clients, r \in Resources : Mode(d, r)' = Mode(d, r)
    BY <2>1 DEF Mode
  <2> QED
    BY <2>2 DEF Holds
<1>2. ASSUME UNCHANGED <<held, readLock>> PROVE Holds' = Holds
  BY <1>2 DEF Holds, Mode
<1>3. ASSUME NEW c \in Clients, Acquire(c) PROVE Abs!Next
  <2>a. PICK r \in Resources, l \in LockObjs :
          path[c] = r /\ nsLk[c] = l /\ lockMap[r] = l /\ l # NoLock
    BY <1>3, NoLockAssumption DEF Acquire, Shape, TypeOK, OneLockPerResource
  <2>1. r \notin held[c] /\ held' = [held EXCEPT ![c] = held[c] \union {r}] /\ readLock' = readLock
    BY <1>3, <2>a DEF Acquire, Shape
  <2>b. PICK m \in {"read", "write"} : m = IF readLock[c] THEN "read" ELSE "write"
    OBVIOUS
  <2>2. Holds[c][r] = "none"
    BY <2>1 DEF Holds, Mode
  <2>3. ASSUME NEW d \in Clients \ {c}
        PROVE  Holds[d][r] # "write" /\ (m = "write" => Holds[d][r] = "none")
    <3>1. ~mutex[l].write /\ (readLock[c] \/ mutex[l].n = 0)
      BY <1>3, <2>a DEF Acquire, Grantable
    <3>2. r \in held[d] => readLock[d]
      BY <3>1, <2>a, Zenon DEF Entry, Holders
    <3>3. Holders(r) \in SUBSET Clients /\ (mutex[l].n = 0 => Holders(r) = {})
      BY <2>a, CardEmpty, Zenon DEF Entry, Holders
    <3>4. mutex[l].n = 0 => r \notin held[d]
      BY <3>3 DEF Holders
    <3> QED
      BY <2>b, <3>1, <3>2, <3>4 DEF Holds, Mode
  <2>4. Holds' = [Holds EXCEPT ![c] = [q \in Resources |-> IF q \in {r} THEN m ELSE Holds[c][q]]]
    BY <2>1, <2>b, Zenon DEF Holds, Mode, TypeOK
  <2>5. Abs!Take(c, {r}, m)
    BY <2>2, <2>3, <2>4 DEF Abs!Take, Abs!Become, Abs!Compatible, Holds, Mode
  <2>6. m \in Abs!Modes \ {"none"}
    BY DEF Abs!Modes
  <2> QED
    BY <2>5, <2>6 DEF Abs!Next
<1>4. ASSUME NEW c \in Clients, Release(c) PROVE Abs!Next
  <2>a. PICK r \in Resources : path[c] = r /\ r \in held[c]
    BY <1>4 DEF Release, Shape, TypeOK
  <2>1. held' = [held EXCEPT ![c] = held[c] \ {r}] /\ readLock' = readLock
    BY <1>4, <2>a DEF Release
  <2>2. Holds[c][r] # "none"
    BY <2>a DEF Holds, Mode
  <2>3. Holds' = [Holds EXCEPT ![c] = [q \in Resources |-> IF q \in {r} THEN "none" ELSE Holds[c][q]]]
    BY <2>1, Zenon DEF Holds, Mode, TypeOK
  <2>4. Abs!Drop(c, {r})
    BY <2>2, <2>3 DEF Abs!Drop, Abs!Become, Holds, Mode
  <2> QED
    BY <2>4 DEF Abs!Next
<1> QED
  BY <1>1, <1>2, <1>3, <1>4
  DEF Next, vars, LookUp, TimeOut, GiveUp, Unlock, Find, Deref

(* The counted, lazily created locks of namespace-lock.go implement the      *)
(* readers-writer namespace.                                                 *)
THEOREM Refinement == Spec => ImplementsRWNamespace
<1>1. Init => Abs!Init
  BY DEF Init, Abs!Init
<1>2. IInv /\ [Next]_vars => [Abs!Next]_Holds
  BY StepRefines
<1> QED
  BY <1>1, <1>2, Invariant, PTL DEF Spec, ImplementsRWNamespace, Abs!Spec, Holds, Mode

-----------------------------------------------------------------------------
(* The loop of GetLock takes the sorted paths from below: what is locked comes   *)
(* before what is not, and the path that is waited for is the next one.         *)
Sorted(c) ==
    /\ pc[c] \in {"lock", "wait"} => \A r \in held[c], s \in todo[c] : r < s
    /\ pc[c] = "wait" => First(todo[c], path[c])

(* Every step of lock() and unlock() keeps the order. *)
LEMMA SortedStep ==
    ASSUME IInv, [Next]_vars, \A c \in Clients : Sorted(c)
    PROVE  \A c \in Clients : Sorted(c)'
<1> USE DEF IInv
<1>1. CASE UNCHANGED vars
  BY <1>1 DEF vars, Sorted, First
<1>2. ASSUME NEW c \in Clients, NEW S \in SUBSET Resources, NEW rd \in BOOLEAN,
             NewNSLock(c, S, rd)
      PROVE  \A d \in Clients : Sorted(d)'
  BY <1>2 DEF NewNSLock, Shape, TypeOK, Sorted, First
<1>3. ASSUME NEW c \in Clients, NEW r \in Resources, LookUp(c, r)
      PROVE  \A d \in Clients : Sorted(d)'
  BY <1>3 DEF LookUp, TypeOK, Sorted, First
<1>4. ASSUME NEW c \in Clients, Acquire(c)
      PROVE  \A d \in Clients : Sorted(d)'
  <2>1. ASSUME NEW d \in Clients, d # c PROVE Sorted(d)'
    BY <1>4, <2>1 DEF Acquire, TypeOK, Sorted, First
  <2>2. First(todo[c], path[c]) /\ \A r \in held[c], s \in todo[c] : r < s
    BY <1>4 DEF Acquire, Sorted
  <2>3. /\ held'[c] = held[c] \union {path[c]} /\ todo'[c] = todo[c] \ {path[c]}
        /\ pc'[c] # "wait" /\ todo[c] \subseteq Nat
    BY <1>4, ResourcesAssumption, Zenon DEF Acquire, TypeOK
  <2>4. \A r \in held'[c], s \in todo'[c] : r < s
    BY <2>2, <2>3 DEF First
  <2> QED
    BY <2>1, <2>3, <2>4 DEF Sorted
<1>5. ASSUME NEW c \in Clients, TimeOut(c) \/ GiveUp(c) \/ Unlock(c) \/ Release(c) \/ Deref(c)
      PROVE  \A d \in Clients : Sorted(d)'
  BY <1>5 DEF TimeOut, GiveUp, Unlock, Release, Deref, TypeOK, Sorted, First
<1>6. ASSUME NEW c \in Clients, NEW r \in Resources, Find(c, r)
      PROVE  \A d \in Clients : Sorted(d)'
  BY <1>6 DEF Find, TypeOK, Sorted, First
<1> QED
  BY <1>1, <1>2, <1>3, <1>4, <1>5, <1>6 DEF Next

(* Whoever blocks a waiting client waits, if it waits at all, for a later path. *)
LEMMA WaitsForLater ==
    ASSUME IInv, \A c \in Clients : Sorted(c), NEW c \in Clients, NEW d \in Clients,
           pc[d] = "wait", Blocks(d, c)
    PROVE  path[c] < path[d]
BY DEF IInv, Sorted, First, Blocks

(* No set of waiting clients is closed under being blocked: the one that waits   *)
(* for the last path is blocked by nobody in it.                                *)
LEMMA OrderBreaksCircles ==
    ASSUME IInv, \A c \in Clients : Sorted(c)
    PROVE  NoCircularWait
<1> SUFFICES ASSUME NEW D \in (SUBSET Clients) \ {{}},
                    \A c \in D : pc[c] = "wait" /\ \E d \in D : Blocks(d, c)
             PROVE  FALSE
  BY DEF NoCircularWait
<1> DEFINE After(c) == {d \in D : path[c] < path[d]}
           N == {Cardinality(After(c)) : c \in D}
<1>1. \A c \in D : path[c] \in Nat
  BY ResourcesAssumption, Zenon DEF IInv, TypeOK
<1>2. \A c \in D : IsFiniteSet(After(c)) /\ Cardinality(After(c)) \in Nat
  BY ClientsAssumption, FS_Subset, FS_CardinalityType
<1>3. N \subseteq Nat /\ N # {}
  BY <1>2, Zenon
<1>4. PICK m \in N : \A k \in N : ~(k < m)
  <2> DEFINE R == OpToRel(<, Nat)
  <2> HIDE DEF N
  <2>1. \A x, y \in Nat : y < x => <<y, x>> \in R
    BY DEF OpToRel
  <2>2. IsWellFoundedOn(R, Nat)
    BY NatLessThanWellFounded
  <2> HIDE DEF R
  <2>3. PICK x \in N : \A y \in N : ~(<<y, x>> \in R)
    BY <1>3, <2>2, WFMin, Zenon
  <2>4. x \in Nat /\ \A k \in N : k \in Nat
    BY <1>3
  <2> QED
    BY <2>1, <2>3, <2>4, Zenon
<1>5. PICK c \in D : m = Cardinality(After(c))
  BY <1>4
<1>6. PICK d \in D : Blocks(d, c) /\ pc[d] = "wait"
  OBVIOUS
<1>7. path[c] < path[d]
  BY <1>6, WaitsForLater
<1>8. After(d) \subseteq After(c) /\ d \in After(c) /\ d \notin After(d)
  BY <1>1, <1>7
<1>9. Cardinality(After(d)) < Cardinality(After(c))
  <2>1. After(d) # After(c)
    BY <1>8
  <2> HIDE DEF After
  <2> QED
    BY <1>2, <1>8, <2>1, FS_Subset
<1>10. ~(Cardinality(After(d)) < m)
  BY <1>4, Zenon
<1>11. Cardinality(After(c)) \in Nat /\ Cardinality(After(d)) \in Nat
  BY <1>2, Zenon
<1> HIDE DEF After, N
<1> QED
  BY <1>5, <1>9, <1>10, <1>11

(* Because NewNSLock sorts the paths, no circle of waiting goroutines arises, for *)
(* any number of goroutines and of paths per lock.                             *)
THEOREM NoCircle == Spec => []NoCircularWait
<1> DEFINE Ordered == \A c \in Clients : Sorted(c)
<1>1. Init => Ordered
  BY DEF Init, Sorted
<1>2. IInv /\ Ordered /\ [Next]_vars => Ordered'
  BY SortedStep
<1>3. IInv /\ Ordered => NoCircularWait
  BY OrderBreaksCircles
<1> HIDE DEF Ordered
<1> QED
  BY <1>1, <1>2, <1>3, Invariant, PTL DEF Spec
=============================================================================
