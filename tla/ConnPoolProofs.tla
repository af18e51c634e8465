-------------------------- MODULE ConnPoolProofs --------------------------
(***************************************************************************)
(* Proofs about ConnPool, for any pool size, any finite set of requests and  *)
(* any set of disciplined programs.                                         *)
(***************************************************************************)
EXTENDS ConnPool, FiniteSetTheorems, WellFoundedInduction, TLAPS

(* The slots that GetKineticConnection has marked. *)
Marked == {i \in Conns : inUsed[i]}

(* What a program owns after one more step. *)
LEMMA OwnsNext ==
    ASSUME NEW p \in Seq(Steps), NEW k \in Nat, k < Len(p),
           NEW acq \in Steps, NEW rel \in Steps
    PROVE  Owns(p, k + 1, acq, rel) <=>
             p[k + 1] = acq \/ (Owns(p, k, acq, rel) /\ p[k + 1] # rel)
<1>1. ASSUME Owns(p, k + 1, acq, rel), p[k + 1] # acq
      PROVE  Owns(p, k, acq, rel) /\ p[k + 1] # rel
  <2>1. PICK i \in 1..(k + 1) : p[i] = acq /\ \A j \in (i + 1)..(k + 1) : p[j] # rel
    BY <1>1 DEF Owns
  <2>2. i \in 1..k /\ k + 1 \in (i + 1)..(k + 1)
    BY <1>1, <2>1
  <2> QED
    BY <2>1, <2>2 DEF Owns
<1>2. ASSUME p[k + 1] = acq PROVE Owns(p, k + 1, acq, rel)
  <2>1. k + 1 \in 1..(k + 1) /\ \A j \in (k + 2)..(k + 1) : FALSE
    OBVIOUS
  <2> QED
    BY <1>2, <2>1 DEF Owns
<1>3. ASSUME Owns(p, k, acq, rel), p[k + 1] # rel PROVE Owns(p, k + 1, acq, rel)
  <2>1. PICK i \in 1..k : p[i] = acq /\ \A j \in (i + 1)..k : p[j] # rel
    BY <1>3 DEF Owns
  <2>2. \A j \in (i + 1)..(k + 1) : p[j] # rel
    BY <1>3, <2>1
  <2> QED
    BY <2>1, <2>2 DEF Owns
<1> QED
  BY <1>1, <1>2, <1>3

(* An active request runs a disciplined program. *)
LEMMA ActiveProgram ==
    ASSUME TypeOK, NEW g \in Requests, Active(g)
    PROVE  /\ prog[g] \in Programs
           /\ prog[g] \in Seq(Steps)
           /\ Disciplined(prog[g])
           /\ pos[g] \in Nat
           /\ pos[g] \in 0..(Len(prog[g]) - 1)
           /\ prog[g][pos[g] + 1] \in Steps
<1>1. prog[g] \in Programs \union {<<>>} /\ pos[g] \in Nat
  BY DEF TypeOK
<1>2. prog[g] # <<>>
  BY <1>1 DEF Active
<1>3. prog[g] \in Seq(Steps) /\ Disciplined(prog[g])
  BY <1>1, <1>2, ProgramsAssumption
<1>4. Len(prog[g]) \in Nat /\ pos[g] < Len(prog[g])
  BY <1>3 DEF Active
<1> QED
  BY <1>1, <1>2, <1>3, <1>4

(* A step of a request moves what its program owns along. *)
LEMMA Advanced ==
    ASSUME TypeOK, NEW g \in Requests, Active(g), Advance(g), prog' = prog
    PROVE  /\ pos'[g] = pos[g] + 1
           /\ pos'[g] <= Len(prog'[g])
           /\ \A acq, rel \in Steps :
                Owns(prog'[g], pos'[g], acq, rel) <=>
                  \/ prog[g][pos[g] + 1] = acq
                  \/ Owns(prog[g], pos[g], acq, rel) /\ prog[g][pos[g] + 1] # rel
<1>1. prog[g] \in Seq(Steps) /\ pos[g] \in Nat /\ pos[g] < Len(prog[g])
  BY ActiveProgram DEF Active
<1>2. pos'[g] = pos[g] + 1
  BY DEF Advance, TypeOK
<1>3. Len(prog[g]) \in Nat
  BY <1>1
<1> QED
  BY <1>1, <1>2, <1>3, OwnsNext

(* A request whose own state a step leaves alone keeps following its program. *)
LEMMA FollowsFrame ==
    ASSUME NEW h \in Requests, Follows(h),
           prog'[h] = prog[h], pos'[h] = pos[h], kc'[h] = kc[h],
           reader'[h] = reader[h], mutex' = h <=> mutex = h,
           h \in waiting' => h \in waiting
    PROVE  Follows(h)'
BY DEF Follows, Active

(* NewKineticObjectLayer establishes the inductive invariant. *)
LEMMA InitInv == Init => IInv
<1> SUFFICES ASSUME Init PROVE IInv
  OBVIOUS
<1>1. TypeOK
  BY DEF Init, TypeOK
<1>2. PoolExact
  <2>1. {i \in Conns : inUsed[i]} = {}
    BY DEF Init
  <2>2. Cardinality({i \in Conns : inUsed[i]}) = 0
    BY <2>1, FS_EmptySet
  <2>3. \A i \in Conns : Owners(i) = {}
    BY NoneAssumption, QueueAssumption DEF Init, Owners, Conns
  <2> QED
    BY <2>2, <2>3 DEF Init, PoolExact
<1>3. \A g \in Requests : Follows(g)
  BY NoneAssumption DEF Init, Follows, OwnsMutex, OwnsConn, OwnsReader, Owns, Flat
<1> QED
  BY <1>1, <1>2, <1>3 DEF Init, IInv, NoLostWakeup

(* A new request owns nothing yet. *)
LEMMA ArriveInv ==
    ASSUME IInv, NEW g \in Requests, NEW p \in Programs, Arrive(g, p)
    PROVE  IInv'
<1>1. TypeOK'
  BY DEF IInv, TypeOK, Arrive
<1>2. PoolExact' /\ NoLostWakeup'
  BY DEF IInv, PoolExact, NoLostWakeup, Owners, Arrive
<1>3. ASSUME NEW h \in Requests PROVE Follows(h)'
  <2>1. CASE h # g
    BY <2>1, FollowsFrame DEF IInv, TypeOK, Arrive
  <2>2. CASE h = g
    <3>1. Follows(g) /\ prog[g] = <<>> /\ pos[g] \in Nat
      BY DEF IInv, TypeOK, Arrive
    <3>2. pos[g] = 0 /\ ~Active(g)
      BY <3>1 DEF Follows, Active
    <3>3. prog'[g] = p /\ pos'[g] = 0
      BY <3>2 DEF IInv, TypeOK, Arrive
    <3>4. \A q, acq, rel : ~Owns(q, 0, acq, rel)
      BY DEF Owns
    <3>5. mutex # g /\ kc[g] = None /\ reader[g] = None /\ g \notin waiting
      BY <3>1, <3>2, <3>4 DEF Follows, OwnsMutex, OwnsConn, OwnsReader
    <3>6. 0 <= Len(p)
      BY ProgramsAssumption
    <3> QED
      BY <2>2, <3>3, <3>4, <3>5, <3>6
      DEF Follows, OwnsMutex, OwnsConn, OwnsReader, Arrive
  <2> QED
    BY <2>1, <2>2
<1> QED
  BY <1>1, <1>2, <1>3 DEF IInv

(* Locking kineticMutex, which nobody else has. *)
LEMMA LockInv ==
    ASSUME IInv, NEW g \in Requests, Lock(g)
    PROVE  IInv'
<1>0. TypeOK /\ Active(g) /\ Advance(g) /\ prog' = prog
      /\ prog[g][pos[g] + 1] = "lock" /\ g \notin waiting
  BY DEF IInv, Lock, At
<1>1. TypeOK'
  BY DEF IInv, TypeOK, Lock, Advance
<1>2. PoolExact' /\ NoLostWakeup'
  BY DEF IInv, PoolExact, NoLostWakeup, Owners, Lock
<1>3. ASSUME NEW h \in Requests PROVE Follows(h)'
  <2>1. CASE h # g
    <3>1. pos'[h] = pos[h] /\ (mutex' = h <=> mutex = h)
      BY <2>1, NoneAssumption DEF IInv, TypeOK, Lock, Advance
    <3> QED
      BY <3>1, FollowsFrame DEF IInv, Lock
  <2>2. CASE h = g
    BY <1>0, <2>2, Advanced
    DEF IInv, Follows, OwnsMutex, OwnsConn, OwnsReader, Lock, Steps
  <2> QED
    BY <2>1, <2>2
<1> QED
  BY <1>1, <1>2, <1>3 DEF IInv

(* Unlocking kineticMutex: by the discipline the request has it. *)
LEMMA UnlockInv ==
    ASSUME IInv, NEW g \in Requests, Unlock(g)
    PROVE  IInv'
<1>0. TypeOK /\ Active(g) /\ Advance(g) /\ prog' = prog
      /\ prog[g][pos[g] + 1] = "unlock" /\ g \notin waiting
  BY DEF IInv, Unlock, At
<1>1. TypeOK'
  BY DEF IInv, TypeOK, Unlock, Advance
<1>2. PoolExact' /\ NoLostWakeup'
  BY DEF IInv, PoolExact, NoLostWakeup, Owners, Unlock
<1>a. mutex = g
  BY <1>0, ActiveProgram DEF Disciplined, IInv, Follows
<1>3. ASSUME NEW h \in Requests PROVE Follows(h)'
  <2>1. CASE h # g
    <3>1. pos'[h] = pos[h] /\ (mutex' = h <=> mutex = h)
      BY <1>a, <2>1, NoneAssumption DEF IInv, TypeOK, Unlock, Advance
    <3> QED
      BY <3>1, FollowsFrame DEF IInv, Unlock
  <2>2. CASE h = g
    <3>1. mutex' # g
      BY NoneAssumption DEF Unlock
    <3> QED
      BY <1>0, <2>2, <3>1, Advanced
      DEF IInv, Follows, OwnsMutex, OwnsConn, OwnsReader, Unlock, Steps
  <2> QED
    BY <2>1, <2>2
<1> QED
  BY <1>1, <1>2, <1>3 DEF IInv

(* The slot loop fails only when the pool is exhausted: a counter below the   *)
(* limit means a free slot, and the loop stops at the first one.             *)
LEMMA Exhausted ==
    ASSUME IInv, ~ \E i \in Conns : Slot(i)
    PROVE  totalInUsed = maxQueue
<1>1. IsFiniteSet(Conns) /\ Cardinality(Conns) = maxQueue
  BY QueueAssumption, FS_Interval DEF Conns
<1>2. Marked \in SUBSET Conns /\ totalInUsed = Cardinality(Marked) /\ totalInUsed \in Nat
  BY DEF Marked, IInv, PoolExact, TypeOK
<1>3. totalInUsed <= maxQueue /\ (totalInUsed = maxQueue => Marked = Conns)
  BY <1>1, <1>2, FS_Subset
<1>4. SUFFICES ASSUME totalInUsed < maxQueue PROVE FALSE
  BY <1>2, <1>3, QueueAssumption
<1>5. Marked # Conns
  BY <1>1, <1>2, <1>4, QueueAssumption
<1>6. PICK i \in Conns : ~inUsed[i]
  BY <1>5 DEF Marked
<1>7. PICK i0 \in Conns : ~inUsed[i0] /\ \A j \in Conns : j < i0 => inUsed[j]
  <2> DEFINE Free == {j \in Conns : ~inUsed[j]}
  <2>1. Free \subseteq Nat /\ Free # {}
    BY <1>6, QueueAssumption DEF Conns
  <2>2. PICK i0 \in Free : \A j \in Free : i0 <= j
    <3>1. PICK i0 \in Free : \A j \in Free : ~(<<j, i0>> \in OpToRel(<, Nat))
      BY <2>1, WFMin, NatLessThanWellFounded, Zenon
    <3>2. \A j \in Free : ~(j < i0)
      BY <2>1, <3>1 DEF OpToRel
    <3> QED
      BY <2>1, <3>2
  <2>3. i0 \in Conns /\ ~inUsed[i0]
    BY <2>2
  <2>4. \A j \in Conns : j < i0 => inUsed[j]
    BY <2>1, <2>2, <2>3, QueueAssumption DEF Conns
  <2> QED
    BY <2>3, <2>4
<1>8. \A j \in 0..(i0 - 1) : j \in Conns /\ j < i0
  BY QueueAssumption DEF Conns
<1>9. Slot(i0)
  BY <1>4, <1>7, <1>8 DEF Slot
<1> QED
  BY <1>9

(* Going to sleep in cond.Wait(): only with the pool exhausted. *)
LEMMA WaitInv ==
    ASSUME IInv, NEW g \in Requests, Wait(g)
    PROVE  IInv'
<1>1. TypeOK'
  BY DEF IInv, TypeOK, Wait
<1>2. PoolExact'
  BY DEF IInv, PoolExact, Owners, Wait
<1>3. NoLostWakeup'
  BY Exhausted DEF IInv, Wait, NoLostWakeup
<1>4. ASSUME NEW h \in Requests PROVE Follows(h)'
  <2>1. CASE h # g
    BY <2>1, FollowsFrame DEF IInv, Wait
  <2>2. CASE h = g
    BY <2>2 DEF IInv, Follows, Wait, At, Active
  <2> QED
    BY <2>1, <2>2
<1> QED
  BY <1>1, <1>2, <1>3, <1>4 DEF IInv
(* Marking a free slot keeps the counter right. *)
LEMMA SlotTaken ==
    ASSUME IInv, NEW i \in Conns, Slot(i), TakeSlot(i)
    PROVE  totalInUsed' = Cardinality(Marked')
<1>1. IsFiniteSet(Conns)
  BY QueueAssumption, FS_Interval DEF Conns
<1>2. IsFiniteSet(Marked) /\ i \notin Marked
  BY <1>1, FS_Subset DEF Marked, Slot
<1>3. Marked' = Marked \union {i}
  BY DEF Marked, TakeSlot, IInv, TypeOK
<1>4. Cardinality(Marked') = Cardinality(Marked) + 1
  BY <1>2, <1>3, FS_AddElement
<1> QED
  BY <1>4 DEF Marked, TakeSlot, IInv, PoolExact

(* Clearing a marked slot does too, and the counter was not 0. *)
LEMMA SlotFreed ==
    ASSUME IInv, NEW i \in Conns, inUsed[i],
           inUsed' = [inUsed EXCEPT ![i] = FALSE], totalInUsed' = totalInUsed - 1
    PROVE  totalInUsed' \in Nat /\ totalInUsed' = Cardinality(Marked')
<1>1. IsFiniteSet(Conns)
  BY QueueAssumption, FS_Interval DEF Conns
<1>2. IsFiniteSet(Marked) /\ i \in Marked
  BY <1>1, FS_Subset DEF Marked
<1>3. Marked' = Marked \ {i}
  BY DEF Marked, IInv, TypeOK
<1>4. Cardinality(Marked') = Cardinality(Marked) - 1 /\ IsFiniteSet(Marked')
  BY <1>2, <1>3, FS_RemoveElement
<1>5. Cardinality(Marked') \in Nat
  BY <1>4, FS_CardinalityType
<1>6. totalInUsed = Cardinality(Marked)
  BY DEF Marked, IInv, PoolExact
<1> QED
  BY <1>4, <1>5, <1>6

(* GetKineticConnection for one store operation. *)
LEMMA GetKineticConnectionInv ==
    ASSUME IInv, NEW g \in Requests, NEW i \in Conns, GetKineticConnection(g, i)
    PROVE  IInv'
<1>0. TypeOK /\ Active(g) /\ Advance(g) /\ prog' = prog /\ TakeSlot(i) /\ Slot(i)
      /\ prog[g][pos[g] + 1] = "get" /\ g \notin waiting /\ Follows(g)
  BY DEF IInv, GetKineticConnection, At
<1>1. TypeOK'
  BY DEF IInv, TypeOK, GetKineticConnection, Advance, TakeSlot
<1>2. kc[g] = None
  BY <1>0, ActiveProgram DEF Disciplined, Follows
<1>3. kc' = [kc EXCEPT ![g] = i] /\ reader' = reader /\ mutex' = mutex /\ waiting' = waiting
  BY DEF GetKineticConnection
<1>4. PoolExact' /\ NoLostWakeup'
  <2>1. totalInUsed' = Cardinality(Marked')
    BY <1>0, SlotTaken
  <2>2. i \in Conns /\ None \notin Conns /\ Owners(i) = {} /\ inUsed'[i]
    BY <1>0, NoneAssumption, QueueAssumption DEF IInv, TypeOK, PoolExact, Conns, Slot, TakeSlot
  <2>3. \A j \in Conns : Owners(j)' = IF j = i THEN {g} ELSE Owners(j)
    BY <1>0, <1>2, <1>3, <2>2 DEF Owners, TypeOK
  <2>4. \A j \in Conns : j # i => inUsed'[j] = inUsed[j]
    BY <1>0 DEF TakeSlot, TypeOK
  <2>5. \A j \in Conns : inUsed'[j] <=> Owners(j)' # {}
    BY <2>2, <2>3, <2>4 DEF IInv, PoolExact
  <2>6. \A j \in Conns, c, d \in Requests :
            c \in Owners(j)' /\ d \in Owners(j)' => c = d
    BY <2>3 DEF IInv, PoolExact
  <2>7. \A c \in Requests : kc'[c] # None => kc'[c] # reader'[c]
    BY <1>0, <1>2, <1>3, <2>2 DEF IInv, PoolExact, Owners, TypeOK
  <2>8. waiting' = {}
    BY <1>0, <1>3, QueueAssumption DEF IInv, NoLostWakeup, Slot
  <2> QED
    BY <2>1, <2>5, <2>6, <2>7, <2>8 DEF PoolExact, NoLostWakeup, Marked
<1>5. ASSUME NEW h \in Requests PROVE Follows(h)'
  <2>1. CASE h # g
    <3>1. pos'[h] = pos[h] /\ kc'[h] = kc[h] /\ reader'[h] = reader[h]
      BY <1>0, <1>3, <2>1 DEF TypeOK, Advance
    <3> QED
      BY <1>0, <1>3, <3>1, FollowsFrame DEF IInv
  <2>2. CASE h = g
    <3>1. kc'[g] # None /\ reader'[g] = reader[g]
      BY <1>0, <1>3, NoneAssumption, QueueAssumption DEF TypeOK, Conns
    <3> QED
      BY <1>0, <1>3, <2>2, <3>1, Advanced
      DEF Follows, OwnsMutex, OwnsConn, OwnsReader, Steps
  <2> QED
    BY <2>1, <2>2
<1> QED
  BY <1>1, <1>4, <1>5 DEF IInv

(* GetKineticConnection for a reader. *)
LEMMA OpenReaderInv ==
    ASSUME IInv, NEW g \in Requests, NEW i \in Conns, OpenReader(g, i)
    PROVE  IInv'
<1>0. TypeOK /\ Active(g) /\ Advance(g) /\ prog' = prog /\ TakeSlot(i) /\ Slot(i)
      /\ prog[g][pos[g] + 1] = "open" /\ g \notin waiting /\ Follows(g)
  BY DEF IInv, OpenReader, At
<1>1. TypeOK'
  BY DEF IInv, TypeOK, OpenReader, Advance, TakeSlot
<1>2. reader[g] = None
  BY <1>0, ActiveProgram DEF Disciplined, Follows
<1>3. reader' = [reader EXCEPT ![g] = i] /\ kc' = kc /\ mutex' = mutex /\ waiting' = waiting
  BY DEF OpenReader
<1>4. PoolExact' /\ NoLostWakeup'
  <2>1. totalInUsed' = Cardinality(Marked')
    BY <1>0, SlotTaken
  <2>2. i \in Conns /\ None \notin Conns /\ Owners(i) = {} /\ inUsed'[i]
    BY <1>0, NoneAssumption, QueueAssumption DEF IInv, TypeOK, PoolExact, Conns, Slot, TakeSlot
  <2>3. \A j \in Conns : Owners(j)' = IF j = i THEN {g} ELSE Owners(j)
    BY <1>0, <1>2, <1>3, <2>2 DEF Owners, TypeOK
  <2>4. \A j \in Conns : j # i => inUsed'[j] = inUsed[j]
    BY <1>0 DEF TakeSlot, TypeOK
  <2>5. \A j \in Conns : inUsed'[j] <=> Owners(j)' # {}
    BY <2>2, <2>3, <2>4 DEF IInv, PoolExact
  <2>6. \A j \in Conns, c, d \in Requests :
            c \in Owners(j)' /\ d \in Owners(j)' => c = d
    BY <2>3 DEF IInv, PoolExact
  <2>7. \A c \in Requests : kc'[c] # None => kc'[c] # reader'[c]
    BY <1>0, <1>2, <1>3, <2>2 DEF IInv, PoolExact, Owners, TypeOK
  <2>8. waiting' = {}
    BY <1>0, <1>3, QueueAssumption DEF IInv, NoLostWakeup, Slot
  <2> QED
    BY <2>1, <2>5, <2>6, <2>7, <2>8 DEF PoolExact, NoLostWakeup, Marked
<1>5. ASSUME NEW h \in Requests PROVE Follows(h)'
  <2>1. CASE h # g
    <3>1. pos'[h] = pos[h] /\ kc'[h] = kc[h] /\ reader'[h] = reader[h]
      BY <1>0, <1>3, <2>1 DEF TypeOK, Advance
    <3> QED
      BY <1>0, <1>3, <3>1, FollowsFrame DEF IInv
  <2>2. CASE h = g
    <3>1. reader'[g] # None /\ kc'[g] = kc[g]
      BY <1>0, <1>3, NoneAssumption, QueueAssumption DEF TypeOK, Conns
    <3> QED
      BY <1>0, <1>3, <2>2, <3>1, Advanced
      DEF Follows, OwnsMutex, OwnsConn, OwnsReader, Steps
  <2> QED
    BY <2>1, <2>2
<1> QED
  BY <1>1, <1>4, <1>5 DEF IInv

(* ReleaseConnection after a store operation. *)
LEMMA ReleaseInv ==
    ASSUME IInv, NEW g \in Requests, Release(g)
    PROVE  IInv'
<1>0. TypeOK /\ Active(g) /\ Advance(g) /\ prog' = prog
      /\ prog[g][pos[g] + 1] = "release" /\ g \notin waiting /\ Follows(g)
  BY DEF IInv, Release, At
<1>1. PICK i \in Conns : kc[g] = i
  BY <1>0, ActiveProgram DEF Disciplined, Follows, TypeOK
<1>2. inUsed[i] /\ Owners(i) = {g} /\ reader[g] # i
  <2>1. g \in Owners(i) /\ kc[g] # None
    BY <1>1, NoneAssumption, QueueAssumption DEF Owners, Conns
  <2>2. Owners(i) \subseteq Requests
    BY DEF Owners
  <2> QED
    BY <1>1, <2>1, <2>2 DEF IInv, PoolExact, TypeOK
<1>3. /\ inUsed' = [inUsed EXCEPT ![i] = FALSE]
      /\ totalInUsed' = totalInUsed - 1
      /\ waiting' = {}
      /\ kc' = [kc EXCEPT ![g] = None] /\ reader' = reader /\ mutex' = mutex
  BY <1>1, <1>2 DEF Release, ReleaseConnection
<1>4. totalInUsed' \in Nat /\ totalInUsed' = Cardinality(Marked')
  BY <1>2, <1>3, SlotFreed
<1>5. TypeOK'
  BY <1>0, <1>3, <1>4 DEF TypeOK, Advance
<1>6. PoolExact' /\ NoLostWakeup'
  <2>1. None \notin Conns
    BY NoneAssumption, QueueAssumption DEF Conns
  <2>2. \A j \in Conns : Owners(j)' = IF j = i THEN {} ELSE Owners(j)
    BY <1>0, <1>1, <1>2, <1>3, <2>1 DEF Owners, TypeOK
  <2>3. \A j \in Conns : inUsed'[j] = IF j = i THEN FALSE ELSE inUsed[j]
    BY <1>0, <1>3 DEF TypeOK
  <2>4. \A j \in Conns : inUsed'[j] <=> Owners(j)' # {}
    BY <2>2, <2>3 DEF IInv, PoolExact
  <2>5. \A j \in Conns, c, d \in Requests :
            c \in Owners(j)' /\ d \in Owners(j)' => c = d
    BY <2>2 DEF IInv, PoolExact
  <2>6. \A c \in Requests : kc'[c] # None => kc'[c] # reader'[c]
    BY <1>0, <1>3 DEF IInv, PoolExact, TypeOK
  <2> QED
    BY <1>3, <1>4, <2>4, <2>5, <2>6 DEF PoolExact, NoLostWakeup, Marked
<1>7. ASSUME NEW h \in Requests PROVE Follows(h)'
  <2>1. CASE h # g
    <3>1. pos'[h] = pos[h] /\ kc'[h] = kc[h] /\ reader'[h] = reader[h] /\ h \notin waiting'
      BY <1>0, <1>3, <2>1 DEF TypeOK, Advance
    <3> QED
      BY <1>0, <1>3, <3>1, FollowsFrame DEF IInv
  <2>2. CASE h = g
    <3>1. kc'[g] = None /\ reader'[g] = reader[g] /\ g \notin waiting'
      BY <1>0, <1>3 DEF TypeOK
    <3> QED
      BY <1>0, <1>3, <2>2, <3>1, Advanced
      DEF Follows, OwnsMutex, OwnsConn, OwnsReader, Steps
  <2> QED
    BY <2>1, <2>2
<1> QED
  BY <1>5, <1>6, <1>7 DEF IInv

(* ReleaseConnection by the reader's Close. *)
LEMMA CloseReaderInv ==
    ASSUME IInv, NEW g \in Requests, CloseReader(g)
    PROVE  IInv'
<1>0. TypeOK /\ Active(g) /\ Advance(g) /\ prog' = prog
      /\ prog[g][pos[g] + 1] = "close" /\ g \notin waiting /\ Follows(g)
  BY DEF IInv, CloseReader, At
<1>1. PICK i \in Conns : reader[g] = i
  BY <1>0, ActiveProgram DEF Disciplined, Follows, TypeOK
<1>2. inUsed[i] /\ Owners(i) = {g} /\ kc[g] # i
  <2>1. g \in Owners(i) /\ reader[g] # None
    BY <1>1, NoneAssumption, QueueAssumption DEF Owners, Conns
  <2>2. Owners(i) \subseteq Requests
    BY DEF Owners
  <2> QED
    BY <1>1, <2>1, <2>2 DEF IInv, PoolExact, TypeOK
<1>3. /\ inUsed' = [inUsed EXCEPT ![i] = FALSE]
      /\ totalInUsed' = totalInUsed - 1
      /\ waiting' = {}
      /\ reader' = [reader EXCEPT ![g] = None] /\ kc' = kc /\ mutex' = mutex
  BY <1>1, <1>2 DEF CloseReader, ReleaseConnection
<1>4. totalInUsed' \in Nat /\ totalInUsed' = Cardinality(Marked')
  BY <1>2, <1>3, SlotFreed
<1>5. TypeOK'
  BY <1>0, <1>3, <1>4 DEF TypeOK, Advance
<1>6. PoolExact' /\ NoLostWakeup'
  <2>1. None \notin Conns
    BY NoneAssumption, QueueAssumption DEF Conns
  <2>2. \A j \in Conns : Owners(j)' = IF j = i THEN {} ELSE Owners(j)
    BY <1>0, <1>1, <1>2, <1>3, <2>1 DEF Owners, TypeOK
  <2>3. \A j \in Conns : inUsed'[j] = IF j = i THEN FALSE ELSE inUsed[j]
    BY <1>0, <1>3 DEF TypeOK
  <2>4. \A j \in Conns : inUsed'[j] <=> Owners(j)' # {}
    BY <2>2, <2>3 DEF IInv, PoolExact
  <2>5. \A j \in Conns, c, d \in Requests :
            c \in Owners(j)' /\ d \in Owners(j)' => c = d
    BY <2>2 DEF IInv, PoolExact
  <2>6. \A c \in Requests : kc'[c] # None => kc'[c] # reader'[c]
    BY <1>0, <1>3 DEF IInv, PoolExact, TypeOK
  <2> QED
    BY <1>3, <1>4, <2>4, <2>5, <2>6 DEF PoolExact, NoLostWakeup, Marked
<1>7. ASSUME NEW h \in Requests PROVE Follows(h)'
  <2>1. CASE h # g
    <3>1. pos'[h] = pos[h] /\ kc'[h] = kc[h] /\ reader'[h] = reader[h] /\ h \notin waiting'
      BY <1>0, <1>3, <2>1 DEF TypeOK, Advance
    <3> QED
      BY <1>0, <1>3, <3>1, FollowsFrame DEF IInv
  <2>2. CASE h = g
    <3>1. reader'[g] = None /\ kc'[g] = kc[g] /\ g \notin waiting'
      BY <1>0, <1>3 DEF TypeOK
    <3> QED
      BY <1>0, <1>3, <2>2, <3>1, Advanced
      DEF Follows, OwnsMutex, OwnsConn, OwnsReader, Steps
  <2> QED
    BY <2>1, <2>2
<1> QED
  BY <1>5, <1>6, <1>7 DEF IInv
(* Every step of every request keeps the inductive invariant. *)
THEOREM Inductive == IInv /\ [Next]_vars => IInv'
<1> SUFFICES ASSUME IInv, [Next]_vars PROVE IInv'
  OBVIOUS
<1>1. CASE UNCHANGED vars
  BY <1>1 DEF vars, IInv, TypeOK, PoolExact, Owners, NoLostWakeup, Follows, Active
<1>2. ASSUME NEW g \in Requests, Step(g) PROVE IInv'
  BY <1>2, LockInv, UnlockInv, GetKineticConnectionInv, OpenReaderInv, WaitInv,
     ReleaseInv, CloseReaderInv DEF Step
<1>3. ASSUME NEW g \in Requests, NEW p \in Programs, Arrive(g, p) PROVE IInv'
  BY <1>3, ArriveInv
<1> QED
  BY <1>1, <1>2, <1>3 DEF Next

(* The inductive invariant holds throughout. *)
THEOREM Invariant == Spec => []IInv
BY InitInv, Inductive, PTL DEF Spec

(* Every variable keeps its type: in particular totalInUsed is never         *)
(* negative, so ReleaseConnection never panics.                              *)
THEOREM TypeCorrect == Spec => []TypeOK
<1>1. IInv => TypeOK
  BY DEF IInv
<1> QED
  BY <1>1, Invariant, PTL

(* inUsed and totalInUsed agree with who has which connection, and no        *)
(* connection is with two requests.                                          *)
THEOREM BooksExact == Spec => []PoolExact
<1>1. IInv => PoolExact
  BY DEF IInv
<1> QED
  BY <1>1, Invariant, PTL

(* No request sleeps in GetKineticConnection while a connection is free. *)
THEOREM WakeupsKept == Spec => []NoLostWakeup
<1>1. IInv => NoLostWakeup
  BY DEF IInv
<1> QED
  BY <1>1, Invariant, PTL

(* If nobody can go on, the pool is full of the readers of copies.  While a   *)
(* connection is free, the owner of kineticMutex can go on, because it never  *)
(* asks for the mutex again; when none is free, every one of them is with a   *)
(* request that must be asking for something more, which by the discipline    *)
(* the owner of a store operation's connection never does.                   *)
LEMMA Standstill == IInv => StandstillOnlyByReaders
<1> SUFFICES ASSUME IInv, NEW a \in Requests, Active(a), \A g \in Requests : ~Able(g),
                    NEW i \in Conns
             PROVE  \E g \in Copiers : Active(g) /\ reader[g] = i
  BY DEF StandstillOnlyByReaders
<1>0. TypeOK /\ PoolExact /\ NoLostWakeup /\ \A g \in Requests : Follows(g)
  BY DEF IInv
<1>a. None \notin Conns /\ None \notin Requests
  BY NoneAssumption, QueueAssumption DEF Conns
<1>1. \A g \in Requests : Active(g) =>
        \/ g \in waiting
        \/ prog[g][pos[g] + 1] = "lock" /\ mutex # None
        \/ prog[g][pos[g] + 1] \in {"get", "open"} /\ ~(totalInUsed < maxQueue)
  BY DEF Able
<1>2. \A g \in Requests :
        g \in waiting => prog[g][pos[g] + 1] \in {"get", "open"}
  BY <1>0 DEF Follows
<1>3. ASSUME NEW g \in Requests, mutex = g \/ kc[g] # None \/ reader[g] # None
      PROVE  Active(g)
  <2>1. SUFFICES ASSUME ~Active(g) PROVE FALSE
    OBVIOUS
  <2>2. pos[g] \in Nat /\ prog[g] \in Programs \union {<<>>} /\ Follows(g)
    BY <1>0 DEF TypeOK
  <2>3. Len(prog[g]) \in Nat
    <3>1. CASE prog[g] = <<>>
      BY <3>1
    <3>2. CASE prog[g] \in Programs
      BY <3>2, ProgramsAssumption
    <3> QED
      BY <2>2, <3>1, <3>2
  <2>4. pos[g] = Len(prog[g])
    BY <2>1, <2>2, <2>3 DEF Active, Follows
  <2>5. CASE prog[g] = <<>>
    BY <1>3, <2>2, <2>4, <2>5 DEF Follows, OwnsMutex, OwnsConn, OwnsReader, Owns
  <2>6. CASE prog[g] \in Programs
    BY <1>3, <2>2, <2>4, <2>6, ProgramsAssumption DEF Follows, Disciplined
  <2> QED
    BY <2>2, <2>5, <2>6
<1>4. ~(totalInUsed < maxQueue)
  <2>1. SUFFICES ASSUME totalInUsed < maxQueue PROVE FALSE
    OBVIOUS
  <2>2. waiting = {}
    BY <1>0, <2>1, QueueAssumption DEF NoLostWakeup
  <2>3. mutex \in Requests
    BY <1>0, <1>1, <2>1, <2>2 DEF TypeOK
  <2>4. PICK h \in Requests : mutex = h
    BY <2>3
  <2>5. Active(h) /\ prog[h][pos[h] + 1] = "lock"
    BY <1>1, <1>3, <2>1, <2>2, <2>4
  <2> QED
    BY <1>0, <2>4, <2>5, ActiveProgram DEF Disciplined, Follows
<1>5. inUsed[i]
  <2>1. IsFiniteSet(Conns) /\ Cardinality(Conns) = maxQueue
    BY QueueAssumption, FS_Interval DEF Conns
  <2>2. Marked \in SUBSET Conns /\ totalInUsed = Cardinality(Marked) /\ totalInUsed \in Nat
    BY <1>0 DEF Marked, PoolExact, TypeOK
  <2>3. Cardinality(Marked) <= Cardinality(Conns)
    BY <2>1, <2>2, FS_Subset
  <2>4. Cardinality(Marked) = Cardinality(Conns)
    BY <1>4, <2>1, <2>2, <2>3, QueueAssumption
  <2>5. Marked = Conns
    BY <2>1, <2>2, <2>4, FS_Subset
  <2> QED
    BY <2>5 DEF Marked
<1>6. PICK g \in Requests : kc[g] = i \/ reader[g] = i
  BY <1>0, <1>5 DEF PoolExact, Owners
<1>7. Active(g) /\ prog[g][pos[g] + 1] \in {"lock", "get", "open"}
  BY <1>1, <1>2, <1>3, <1>6, <1>a
<1>8. Follows(g) /\ Disciplined(prog[g]) /\ pos[g] \in 0..(Len(prog[g]) - 1)
  BY <1>0, <1>7, ActiveProgram
<1>9. kc[g] = None
  BY <1>7, <1>8 DEF Disciplined, Follows
<1>10. reader[g] = i
  BY <1>6, <1>9, <1>a
<1>11. ~Flat(prog[g])
  BY <1>7, <1>8, <1>10, <1>a DEF Flat, Follows
<1> QED
  BY <1>7, <1>8, <1>10, <1>11 DEF Follows

(* A standstill needs as many copies as there are connections. *)
LEMMA EnoughConnections == IInv => NoDeadlock
<1> SUFFICES ASSUME IInv, Cardinality(Copiers) < maxQueue, NEW a \in Requests, Active(a),
                    \A g \in Requests : ~Able(g)
             PROVE  FALSE
  BY DEF NoDeadlock
<1>1. \A i \in Conns : \E g \in Copiers : reader[g] = i
  BY Standstill DEF StandstillOnlyByReaders
<1> DEFINE f == [i \in Conns |-> CHOOSE g \in Copiers : reader[g] = i]
<1>2. \A i \in Conns : f[i] \in Copiers /\ reader[f[i]] = i
  BY <1>1
<1>3. f \in Injection(Conns, Copiers)
  BY <1>2 DEF Injection, IsInjective
<1>4. IsFiniteSet(Copiers) /\ Cardinality(Copiers) \in Nat
  BY RequestsAssumption, FS_Subset, FS_CardinalityType
<1>5. Cardinality(Conns) <= Cardinality(Copiers)
  <2> HIDE DEF f
  <2> QED
    BY <1>3, <1>4, FS_Injection
<1>6. Cardinality(Conns) = maxQueue
  BY QueueAssumption, FS_Interval DEF Conns
<1> QED
  BY <1>4, <1>5, <1>6, QueueAssumption

(* The only standstill is a pool full of the readers of copies. *)
THEOREM StandstillExplained == Spec => []StandstillOnlyByReaders
BY Invariant, Standstill, PTL

(* With fewer copies than connections somebody can always go on. *)
THEOREM DeadlockFree == Spec => []NoDeadlock
BY Invariant, EnoughConnections, PTL
=============================================================================
