--------------------------- MODULE DRWMutexProofs ---------------------------
(***************************************************************************)
(* Proofs about DRWMutex, for any clients, any finite set of lock servers,   *)
(* any names and any number of rounds.                                      *)
(***************************************************************************)
EXTENDS DRWMutex, FiniteSetTheorems, TLAPS

(* The number of lock servers is a number. *)
LEMMA NType == N \in Nat
BY LockersAssumption, FS_CardinalityType DEF N

(* dquorum and dquorumReads: a quorum of writers meets every other quorum. *)
LEMMA QuorumsMeet ==
    ASSUME NEW c \in Writers, NEW d, NEW A \in SUBSET Lockers, NEW B \in SUBSET Lockers,
           QuorumMet(c, A), QuorumMet(d, B)
    PROVE  \E s \in Lockers : s \in A /\ s \in B
<1>1. IsFiniteSet(A) /\ IsFiniteSet(B) /\ IsFiniteSet(A \union B)
  BY LockersAssumption, FS_Subset, FS_Union
<1>2. Cardinality(A \union B) <= N
  BY LockersAssumption, FS_Subset DEF N
<1>3. Cardinality(A \union B) = Cardinality(A) + Cardinality(B) - Cardinality(A \intersect B)
  BY <1>1, FS_Union
<1>4. Cardinality(A) + Cardinality(B) > N
  <2> DEFINE a == Cardinality(A) b == Cardinality(B)
  <2>1. a \in Nat /\ b \in Nat
    BY <1>1, FS_CardinalityType
  <2>2. a >= N \div 2 + 1 /\ (b >= N \div 2 + 1 \/ b >= (N + 1) \div 2)
    BY DEF QuorumMet, Quorum
  <2> HIDE DEF a, b
  <2>3. a + b > N
    BY <2>1, <2>2, NType
  <2> QED
    BY <2>3 DEF a, b
<1>5. A \intersect B # {}
  <2> SUFFICES ASSUME A \intersect B = {} PROVE FALSE
    OBVIOUS
  <2>1. Cardinality(A \intersect B) = 0
    BY FS_EmptySet
  <2>2. Cardinality(A) \in Nat /\ Cardinality(B) \in Nat
    BY <1>1, FS_CardinalityType
  <2> QED
    BY <1>2, <1>3, <1>4, <2>1, <2>2, NType
<1> QED
  BY <1>5

(* A client wants at least its first name. *)
LEMMA WantedFacts ==
    ASSUME NEW c \in Clients
    PROVE  /\ Wanted(c) \subseteq Resources
           /\ Names[c][1] \in Wanted(c)
           /\ 1 \in DOMAIN Names[c]
           /\ c \notin Writers => Wanted(c) = {Names[c][1]}
<1>1. Names[c] \in Seq(Resources) /\ Names[c] # <<>>
  BY NamesAssumption
<1>2. 1 \in DOMAIN Names[c] /\ \A i \in DOMAIN Names[c] : Names[c][i] \in Resources
  BY <1>1
<1> QED
  BY <1>2 DEF Wanted

(* Entries are counted with numbers. *)
LEMMA EntriesType ==
    ASSUME TypeOK, NEW c \in Clients, NEW s \in Lockers
    PROVE  Entries(c, s) \in Nat
<1>1. Names[c][1] \in Resources
  BY WantedFacts
<1> QED
  BY <1>1 DEF Entries, TypeOK

(* No two clients that won conflicting locks: their quorums meet in a server  *)
(* that has an entry of both.                                                *)
LEMMA WinnersDisjoint ==
    ASSUME IInv, NEW c \in Clients, NEW d \in Clients, c # d, c \in Writers,
           pc[c] \in {"won", "held"}, pc[d] \in {"won", "held"}
    PROVE  Wanted(c) \intersect Wanted(d) = {}
<1> SUFFICES ASSUME NEW r \in Wanted(c), r \in Wanted(d) PROVE FALSE
  OBVIOUS
<1>0. r \in Resources
  BY WantedFacts
<1>1. QuorumMet(c, locks[c]) /\ QuorumMet(d, locks[d])
  BY DEF IInv, Shape
<1>2. locks[c] \in SUBSET Lockers /\ locks[d] \in SUBSET Lockers
  BY DEF IInv, TypeOK
<1>3. PICK s \in Lockers : s \in locks[c] /\ s \in locks[d]
  BY <1>1, <1>2, QuorumsMeet
<1>4. Claims(c, s) >= 1 /\ Claims(d, s) >= 1
  <2>1. release[c][s] \in Nat /\ release[d][s] \in Nat
    BY DEF IInv, TypeOK
  <2> QED
    BY <1>3, <2>1 DEF Claims
<1>5. Entries(c, s) >= 1 /\ Entries(d, s) >= 1
  <2>1. Claims(c, s) <= Entries(c, s) /\ Claims(d, s) <= Entries(d, s)
    BY DEF IInv, ClaimsBacked
  <2>2. Claims(c, s) \in Int /\ Claims(d, s) \in Int /\ Entries(c, s) \in Int /\ Entries(d, s) \in Int
    BY EntriesType DEF IInv, TypeOK, Claims
  <2> QED
    BY <1>4, <2>1, <2>2
<1>6. wlock[s][r] = c
  BY <1>5 DEF Entries
<1>7. CASE d \in Writers
  <2>1. wlock[s][r] = d
    BY <1>5, <1>7 DEF Entries
  <2> QED
    BY <1>6, <2>1
<1>8. CASE d \notin Writers
  <2>1. r = Names[d][1]
    BY <1>8, WantedFacts
  <2>2. rlock[s][r][d] >= 1
    BY <1>5, <1>8, <2>1 DEF Entries
  <2>3. rlock[s][r][d] = 0
    BY <1>0, <1>6, NoneAssumption DEF IInv, OneKind
  <2> QED
    BY <2>2, <2>3
<1> QED
  BY <1>7, <1>8

(* Nothing is locked at the start. *)
LEMMA InitInv == Init => IInv
<1> SUFFICES ASSUME Init PROVE IInv
  OBVIOUS
<1>1. TypeOK
  BY DEF Init, TypeOK, PCs
<1>2. \A c \in Clients : Shape(c)
  BY DEF Init, Shape
<1>3. OneKind
  BY WritersAssumption, NoneAssumption DEF Init, OneKind
<1>4. ClaimsBacked
  <2> SUFFICES ASSUME NEW c \in Clients, NEW s \in Lockers PROVE Claims(c, s) <= Entries(c, s)
    BY DEF ClaimsBacked
  <2>1. Claims(c, s) = 0
    BY DEF Init, Claims
  <2> QED
    BY <1>1, <2>1, EntriesType
<1> QED
  BY <1>1, <1>2, <1>3, <1>4 DEF IInv

(* What localLocker.Lock and RLock do to the lock map once they may: c has one *)
(* entry more, nobody has one less, and the map stays of one kind.            *)
LEMMA TakeEffect ==
    ASSUME TypeOK, OneKind, NEW c \in Clients, NEW s \in Lockers,
           CanTakeLock(c, s), TakeLock(c, s)
    PROVE  /\ wlock' \in [Lockers -> [Resources -> Clients \union {None}]]
           /\ rlock' \in [Lockers -> [Resources -> [Clients -> Nat]]]
           /\ OneKind'
           /\ Entries(c, s)' = Entries(c, s) + 1
           /\ \A d \in Clients, t \in Lockers :
                d # c \/ t # s => Entries(d, t)' = Entries(d, t)
<1>0. /\ Wanted(c) \subseteq Resources /\ Names[c][1] \in Wanted(c)
      /\ \A d \in Clients : Wanted(d) \subseteq Resources /\ Names[d][1] \in Wanted(d)
  BY WantedFacts
<1>f. \A r \in Wanted(c) : wlock[s][r] = None
  BY DEF CanTakeLock
<1>1. CASE c \in Writers
  <2>1. wlock' = [wlock EXCEPT ![s] = [r \in Resources |-> IF r \in Wanted(c) THEN c ELSE wlock[s][r]]]
        /\ rlock' = rlock
    BY <1>1 DEF TakeLock
  <2>2. wlock' \in [Lockers -> [Resources -> Clients \union {None}]]
    BY <2>1 DEF TypeOK
  <2>3. \A t \in Lockers, r \in Resources :
          wlock'[t][r] = IF t = s /\ r \in Wanted(c) THEN c ELSE wlock[t][r]
    BY <2>1 DEF TypeOK
  <2>4. \A r \in Wanted(c), d \in Clients : rlock[s][r][d] = 0
    BY <1>1 DEF CanTakeLock
  <2>5. OneKind'
    <3> SUFFICES ASSUME NEW t \in Lockers, NEW r \in Resources
                 PROVE  /\ wlock'[t][r] # None => \A d \in Clients : rlock'[t][r][d] = 0
                        /\ \A d \in Writers : wlock'[t][r] = d
                             => r \in Wanted(d) /\ \A q \in Wanted(d) : wlock'[t][q] = d
      BY DEF OneKind, Wanted
    <3>1. wlock'[t][r] # None => \A d \in Clients : rlock'[t][r][d] = 0
      BY <2>1, <2>3, <2>4 DEF OneKind
    <3>2. ASSUME NEW d \in Writers, wlock'[t][r] = d
          PROVE  r \in Wanted(d) /\ \A q \in Wanted(d) : wlock'[t][q] = d
      <4>0. d \in Clients /\ d # None
        BY WritersAssumption, NoneAssumption
      <4>1. CASE d = c /\ t = s /\ r \in Wanted(c)
        BY <1>0, <2>3, <4>1
      <4>2. CASE ~(t = s /\ r \in Wanted(c))
        <5>1. wlock[t][r] = d
          BY <2>3, <3>2, <4>2
        <5>2. r \in Wanted(d) /\ \A q \in Wanted(d) : wlock[t][q] = d
          BY <5>1 DEF OneKind
        <5>3. \A q \in Wanted(d) : ~(t = s /\ q \in Wanted(c))
          BY <4>0, <5>2, <1>f
        <5> QED
          BY <1>0, <2>3, <4>0, <5>2, <5>3
      <4> QED
        BY <2>3, <3>2, <4>1, <4>2
    <3> QED
      BY <3>1, <3>2
  <2>6. Entries(c, s)' = Entries(c, s) + 1
    <3>1. Entries(c, s) = 0
      BY <1>0, <1>1, <1>f, NoneAssumption DEF Entries
    <3>2. Entries(c, s)' = 1
      BY <1>0, <1>1, <2>3 DEF Entries, Wanted
    <3> QED
      BY <3>1, <3>2
  <2>7. ASSUME NEW d \in Clients, NEW t \in Lockers, d # c \/ t # s
        PROVE  Entries(d, t)' = Entries(d, t)
    <3>1. CASE d \notin Writers
      BY <2>1, <3>1 DEF Entries
    <3>2. CASE d \in Writers /\ t # s
      <4>1. \A r \in Wanted(d) : wlock'[t][r] = wlock[t][r]
        BY <1>0, <2>3, <3>2
      <4> QED
        BY <3>2, <4>1 DEF Entries, Wanted
    <3>3. CASE d \in Writers /\ t = s /\ Wanted(c) \intersect Wanted(d) = {}
      <4>1. \A r \in Wanted(d) : wlock'[t][r] = wlock[t][r]
        BY <1>0, <2>3, <3>3
      <4> QED
        BY <3>3, <4>1 DEF Entries, Wanted
    <3>4. ASSUME d \in Writers, t = s, NEW r \in Wanted(c), r \in Wanted(d)
          PROVE  Entries(d, t)' = Entries(d, t)
      <4>1. wlock[t][r] # d /\ wlock'[t][r] # d
        BY <1>0, <1>f, <2>3, <2>7, <3>4, NoneAssumption
      <4>2. Entries(d, t) = 0 /\ Entries(d, t)' = 0
        BY <3>4, <4>1 DEF Entries, Wanted
      <4> QED
        BY <4>2
    <3> QED
      BY <3>1, <3>2, <3>3, <3>4
  <2> QED
    BY <2>1, <2>2, <2>5, <2>6, <2>7 DEF TypeOK
<1>2. CASE c \notin Writers
  <2>1. rlock' = [rlock EXCEPT ![s][Names[c][1]][c] = @ + 1] /\ wlock' = wlock
    BY <1>2 DEF TakeLock
  <2>2. rlock' \in [Lockers -> [Resources -> [Clients -> Nat]]]
    BY <1>0, <2>1 DEF TypeOK
  <2>3. \A t \in Lockers, r \in Resources, d \in Clients :
          rlock'[t][r][d] = IF t = s /\ r = Names[c][1] /\ d = c
                              THEN rlock[t][r][d] + 1 ELSE rlock[t][r][d]
    BY <1>0, <2>1 DEF TypeOK
  <2>4. OneKind'
    <3>1. \A t \in Lockers, r \in Resources :
            wlock[t][r] # None => \A d \in Clients : rlock'[t][r][d] = 0
      BY <1>0, <1>f, <2>3 DEF OneKind
    <3> QED
      BY <2>1, <3>1 DEF OneKind, Wanted
  <2>5. \A d \in Clients : Names[d][1] \in Resources
    BY <1>0
  <2>6. Entries(c, s)' = Entries(c, s) + 1
    BY <1>0, <1>2, <2>3, <2>5 DEF Entries
  <2>7. ASSUME NEW d \in Clients, NEW t \in Lockers, d # c \/ t # s
        PROVE  Entries(d, t)' = Entries(d, t)
    BY <2>1, <2>3, <2>5, <2>7 DEF Entries, Wanted
  <2> QED
    BY <2>1, <2>2, <2>4, <2>6, <2>7 DEF TypeOK
<1> QED
  BY <1>1, <1>2

(* What a release does to the lock map of a server that has an entry of c: it  *)
(* takes away one entry of c and nothing of anybody else.                      *)
LEMMA ReleaseEffect ==
    ASSUME TypeOK, OneKind, NEW c \in Clients, NEW s \in Lockers, Entries(c, s) >= 1,
           IF c \in Writers THEN RunUnlock(c, s) ELSE RunRUnlock(c, s)
    PROVE  /\ wlock' \in [Lockers -> [Resources -> Clients \union {None}]]
           /\ rlock' \in [Lockers -> [Resources -> [Clients -> Nat]]]
           /\ OneKind'
           /\ Entries(c, s)' = Entries(c, s) - 1
           /\ \A d \in Clients, t \in Lockers :
                d # c \/ t # s => Entries(d, t)' = Entries(d, t)
<1>0. /\ Wanted(c) \subseteq Resources /\ Names[c][1] \in Wanted(c)
      /\ \A d \in Clients : Wanted(d) \subseteq Resources /\ Names[d][1] \in Wanted(d)
  BY WantedFacts
<1>1. CASE c \in Writers
  <2>1. \A r \in Wanted(c) : wlock[s][r] = c
    BY <1>1 DEF Entries
  <2>2. OwnedPrefix(c, s) = Wanted(c)
    <3>1. Names[c] \in Seq(Resources)
      BY NamesAssumption
    <3>2. \A j \in DOMAIN Names[c] : \A k \in 1..j : k \in DOMAIN Names[c]
      BY <3>1
    <3>3. \A j \in DOMAIN Names[c] : Names[c][j] \in Wanted(c)
      BY <1>1 DEF Wanted
    <3> QED
      BY <1>1, <2>1, <3>2, <3>3 DEF OwnedPrefix, Wanted
  <2>3. wlock' = [wlock EXCEPT ![s] = [r \in Resources |-> IF r \in Wanted(c) THEN None ELSE wlock[s][r]]]
        /\ rlock' = rlock
    BY <1>1, <2>1, <2>2, NoneAssumption DEF RunUnlock
  <2>4. wlock' \in [Lockers -> [Resources -> Clients \union {None}]]
    BY <2>3 DEF TypeOK
  <2>5. \A t \in Lockers, r \in Resources :
          wlock'[t][r] = IF t = s /\ r \in Wanted(c) THEN None ELSE wlock[t][r]
    BY <2>3 DEF TypeOK
  <2>6. ASSUME NEW d \in Writers, d # c, \A q \in Wanted(d) : wlock[s][q] = d
        PROVE  Wanted(c) \intersect Wanted(d) = {}
    BY <2>1, <2>6
  <2>7. OneKind'
    <3> SUFFICES ASSUME NEW t \in Lockers, NEW r \in Resources
                 PROVE  /\ wlock'[t][r] # None => \A d \in Clients : rlock'[t][r][d] = 0
                        /\ \A d \in Writers : wlock'[t][r] = d
                             => r \in Wanted(d) /\ \A q \in Wanted(d) : wlock'[t][q] = d
      BY DEF OneKind, Wanted
    <3>1. wlock'[t][r] # None => \A d \in Clients : rlock'[t][r][d] = 0
      BY <2>3, <2>5 DEF OneKind
    <3>2. ASSUME NEW d \in Writers, wlock'[t][r] = d
          PROVE  r \in Wanted(d) /\ \A q \in Wanted(d) : wlock'[t][q] = d
      <4>0. d \in Clients /\ d # None
        BY WritersAssumption, NoneAssumption
      <4>1. ~(t = s /\ r \in Wanted(c)) /\ wlock[t][r] = d
        BY <2>5, <3>2, <4>0
      <4>2. r \in Wanted(d) /\ \A q \in Wanted(d) : wlock[t][q] = d
        BY <4>1 DEF OneKind
      <4>3. \A q \in Wanted(d) : ~(t = s /\ q \in Wanted(c))
        BY <2>1, <4>1, <4>2
      <4> QED
        BY <1>0, <2>5, <4>0, <4>2, <4>3
    <3> QED
      BY <3>1, <3>2
  <2>8. Entries(c, s)' = Entries(c, s) - 1
    <3>1. Entries(c, s) = 1
      BY <1>1, <2>1 DEF Entries
    <3>2. Entries(c, s)' = 0
      BY <1>0, <1>1, <2>5, NoneAssumption DEF Entries, Wanted
    <3> QED
      BY <3>1, <3>2
  <2>9. ASSUME NEW d \in Clients, NEW t \in Lockers, d # c \/ t # s
        PROVE  Entries(d, t)' = Entries(d, t)
    <3>1. CASE d \notin Writers
      BY <2>3, <3>1 DEF Entries
    <3>2. CASE d \in Writers /\ (t # s \/ Wanted(c) \intersect Wanted(d) = {})
      <4>1. \A r \in Wanted(d) : wlock'[t][r] = wlock[t][r]
        BY <1>0, <2>5, <3>2
      <4> QED
        BY <3>2, <4>1 DEF Entries, Wanted
    <3>3. ASSUME d \in Writers, t = s, NEW r \in Wanted(c), r \in Wanted(d)
          PROVE  Entries(d, t)' = Entries(d, t)
      <4>1. wlock[t][r] # d /\ wlock'[t][r] # d
        BY <1>0, <2>1, <2>5, <2>9, <3>3, NoneAssumption
      <4>2. Entries(d, t) = 0 /\ Entries(d, t)' = 0
        BY <3>3, <4>1 DEF Entries, Wanted
      <4> QED
        BY <4>2
    <3> QED
      BY <3>1, <3>2, <3>3
  <2> QED
    BY <2>3, <2>4, <2>7, <2>8, <2>9 DEF TypeOK
<1>2. CASE c \notin Writers
  <2>0. Names[c][1] \in Resources /\ rlock[s][Names[c][1]][c] >= 1
    BY <1>0, <1>2 DEF Entries
  <2>1. wlock[s][Names[c][1]] = None
    BY <2>0 DEF OneKind
  <2>2. rlock' = [rlock EXCEPT ![s][Names[c][1]][c] = @ - 1] /\ wlock' = wlock
    BY <1>2, <2>0, <2>1 DEF RunRUnlock, TypeOK
  <2>3. rlock' \in [Lockers -> [Resources -> [Clients -> Nat]]]
    BY <2>0, <2>2 DEF TypeOK
  <2>4. \A t \in Lockers, r \in Resources, d \in Clients :
          rlock'[t][r][d] = IF t = s /\ r = Names[c][1] /\ d = c
                              THEN rlock[t][r][d] - 1 ELSE rlock[t][r][d]
    BY <2>0, <2>2 DEF TypeOK
  <2>5. OneKind'
    <3>1. \A t \in Lockers, r \in Resources :
            wlock[t][r] # None => \A d \in Clients : rlock'[t][r][d] = 0
      BY <2>1, <2>4 DEF OneKind
    <3> QED
      BY <2>2, <3>1 DEF OneKind, Wanted
  <2>6. \A d \in Clients : Names[d][1] \in Resources
    BY <1>0
  <2>7. Entries(c, s)' = Entries(c, s) - 1
    BY <1>2, <2>4, <2>6 DEF Entries
  <2>8. ASSUME NEW d \in Clients, NEW t \in Lockers, d # c \/ t # s
        PROVE  Entries(d, t)' = Entries(d, t)
    BY <2>2, <2>4, <2>6, <2>8 DEF Entries, Wanted
  <2> QED
    BY <2>2, <2>3, <2>5, <2>7, <2>8 DEF TypeOK
<1> QED
  BY <1>1, <1>2

(* What the variables of the clients are, apart from the lock maps. *)
ClientTypes ==
    /\ pc \in [Clients -> PCs] /\ attempts \in [Clients -> Nat]
    /\ sent \in [Clients -> SUBSET Lockers] /\ ch \in [Clients -> SUBSET Lockers]
    /\ locks \in [Clients -> SUBSET Lockers]
    /\ release \in [Clients -> [Lockers -> Nat]]

(* The end of lock()'s loop: what is marked stays marked or is released, what  *)
(* waits in the channel is marked or released, so no claim appears or is lost. *)
LEMMA DecideEffect ==
    ASSUME TypeOK, \A d \in Clients : Shape(d), NEW c \in Clients, NEW S \in SUBSET Lockers,
           locks[c] \subseteq S, S \subseteq locks[c] \union ch[c],
           NEW T \in SUBSET sent[c], sent' = [sent EXCEPT ![c] = T],
           attempts' = attempts, Decide(c, S)
    PROVE  /\ ClientTypes'
           /\ \A d \in Clients : Shape(d)'
           /\ \A d \in Clients, t \in Lockers : Claims(d, t)' = Claims(d, t)
<1> DEFINE R == IF QuorumMet(c, S) THEN ch[c] \ S ELSE ch[c] \union S
<1>1. /\ pc' = [pc EXCEPT ![c] = IF QuorumMet(c, S) THEN "won" ELSE "lost"]
      /\ ch' = [ch EXCEPT ![c] = {}]
      /\ locks' = [locks EXCEPT ![c] = IF QuorumMet(c, S) THEN S ELSE {}]
  BY DEF Decide
<1>2. release' = [release EXCEPT ![c] =
                    [s \in Lockers |-> IF s \in R THEN release[c][s] + 1 ELSE release[c][s]]]
  BY DEF Decide, SendRelease
<1>3. /\ pc \in [Clients -> PCs] /\ attempts \in [Clients -> Nat]
      /\ sent \in [Clients -> SUBSET Lockers] /\ ch \in [Clients -> SUBSET Lockers]
      /\ locks \in [Clients -> SUBSET Lockers]
      /\ release \in [Clients -> [Lockers -> Nat]]
  BY DEF TypeOK
<1>4. ClientTypes'
  <2>1. pc' \in [Clients -> PCs]
    BY <1>1, <1>3 DEF PCs
  <2>2. release' \in [Clients -> [Lockers -> Nat]]
    BY <1>2, <1>3
  <2>3. sent' \in [Clients -> SUBSET Lockers] /\ ch' \in [Clients -> SUBSET Lockers]
        /\ locks' \in [Clients -> SUBSET Lockers]
    BY <1>1, <1>3
  <2> QED
    BY <1>3, <2>1, <2>2, <2>3 DEF ClientTypes
<1>5. Shape(c)'
  <2>1. /\ sent'[c] = T /\ ch'[c] = {}
        /\ QuorumMet(c, S) => pc'[c] = "won" /\ locks'[c] = S
        /\ ~QuorumMet(c, S) => pc'[c] = "lost" /\ locks'[c] = {}
    BY <1>1, <1>3
  <2>2. T \intersect S = {}
    BY DEF Shape
  <2> QED
    BY <2>1, <2>2 DEF Shape, QuorumMet, Quorum
<1>6. ASSUME NEW d \in Clients, d # c PROVE Shape(d)'
  <2>1. pc'[d] = pc[d] /\ sent'[d] = sent[d] /\ ch'[d] = ch[d] /\ locks'[d] = locks[d]
    BY <1>1, <1>3, <1>6
  <2> QED
    BY <2>1 DEF Shape, QuorumMet, Quorum
<1>7. ASSUME NEW d \in Clients, NEW t \in Lockers PROVE Claims(d, t)' = Claims(d, t)
  <2>1. CASE d # c
    BY <1>1, <1>2, <1>3, <2>1 DEF Claims
  <2>2. CASE d = c
    <3>1. PICK k \in Nat : k = release[c][t]
      BY <1>3
    <3>2. release'[c][t] = IF t \in R THEN k + 1 ELSE k
      BY <1>2, <1>3, <3>1
    <3>3. ch'[c] = {} /\ locks'[c] = IF QuorumMet(c, S) THEN S ELSE {}
      BY <1>1, <1>3
    <3>4. ~(t \in ch[c] /\ t \in locks[c])
      BY DEF Shape
    <3>5. Claims(c, t) = k + IF t \in ch[c] \union locks[c] THEN 1 ELSE 0
      BY <3>1, <3>4 DEF Claims
    <3>6. Claims(c, t)' = k + IF t \in ch[c] \union locks[c] THEN 1 ELSE 0
      BY <3>2, <3>3 DEF Claims
    <3> QED
      BY <2>2, <3>5, <3>6
  <2> QED
    BY <2>1, <2>2
<1> QED
  BY <1>4, <1>5, <1>6, <1>7

(* An answer without a grant leaves the claims alone. *)
LEMMA MissEffect ==
    ASSUME TypeOK, \A d \in Clients : Shape(d), NEW c \in Clients, NEW s \in Lockers,
           s \in sent[c], Miss(c, s)
    PROVE  /\ ClientTypes'
           /\ \A d \in Clients : Shape(d)'
           /\ \A d \in Clients, t \in Lockers : Claims(d, t)' = Claims(d, t)
<1>1. sent' = [sent EXCEPT ![c] = sent[c] \ {s}] /\ attempts' = attempts
  BY DEF Miss
<1>2. CASE Decide(c, locks[c])
  <2>1. locks[c] \in SUBSET Lockers /\ sent[c] \ {s} \in SUBSET sent[c]
    BY DEF TypeOK
  <2> QED
    BY <1>1, <1>2, <2>1, DecideEffect
<1>3. CASE UNCHANGED <<pc, ch, locks, release>>
  <2>1. ClientTypes'
    BY <1>1, <1>3 DEF ClientTypes, TypeOK
  <2>2. ASSUME NEW d \in Clients PROVE Shape(d)'
    <3>1. sent'[d] \subseteq sent[d]
      BY <1>1 DEF TypeOK
    <3> QED
      BY <1>3, <3>1 DEF Shape, QuorumMet, Quorum
  <2>3. \A d \in Clients, t \in Lockers : Claims(d, t)' = Claims(d, t)
    BY <1>3 DEF Claims
  <2> QED
    BY <2>1, <2>2, <2>3
<1> QED
  BY <1>2, <1>3 DEF Miss

(* A step that leaves the lock maps alone keeps the invariant if it keeps the  *)
(* shape of the clients and adds no claim.                                     *)
LEMMA ClientStep ==
    ASSUME IInv, UNCHANGED servers, ClientTypes', stray' \in [Clients -> [Lockers -> Nat]],
           \A d \in Clients : Shape(d)',
           \A d \in Clients, t \in Lockers : Claims(d, t)' = Claims(d, t)
    PROVE  IInv'
<1>1. TypeOK'
  BY DEF IInv, TypeOK, ClientTypes, servers
<1>2. OneKind'
  <2>1. OneKind /\ wlock' = wlock /\ rlock' = rlock
    BY DEF IInv, servers
  <2> QED
    BY <2>1, SMTT(30) DEF OneKind, Wanted
<1>3. ClaimsBacked'
  <2>1. \A d \in Clients, t \in Lockers : Entries(d, t)' = Entries(d, t)
    BY DEF Entries, Wanted, servers
  <2> QED
    BY <2>1 DEF IInv, ClaimsBacked
<1> QED
  BY <1>1, <1>2, <1>3 DEF IInv

(* A step in which a server takes the lock for c keeps the invariant if it      *)
(* adds at most one claim, of c on that server.                                *)
LEMMA TakeStep ==
    ASSUME IInv, NEW c \in Clients, NEW s \in Lockers, CanTakeLock(c, s), TakeLock(c, s),
           ClientTypes', stray' \in [Clients -> [Lockers -> Nat]],
           \A d \in Clients : Shape(d)',
           \A d \in Clients, t \in Lockers :
             Claims(d, t)' = Claims(d, t) \/ (d = c /\ t = s /\ Claims(d, t)' = Claims(d, t) + 1)
    PROVE  IInv'
<1>1. TypeOK /\ OneKind
  BY DEF IInv
<1>2. /\ wlock' \in [Lockers -> [Resources -> Clients \union {None}]]
      /\ rlock' \in [Lockers -> [Resources -> [Clients -> Nat]]]
      /\ OneKind'
      /\ Entries(c, s)' = Entries(c, s) + 1
      /\ \A d \in Clients, t \in Lockers : d # c \/ t # s => Entries(d, t)' = Entries(d, t)
  BY <1>1, TakeEffect
<1>3. TypeOK'
  BY <1>2 DEF TypeOK, ClientTypes
<1>4. ASSUME NEW d \in Clients, NEW t \in Lockers PROVE Claims(d, t)' <= Entries(d, t)'
  <2>1. Claims(d, t) <= Entries(d, t)
    BY DEF IInv, ClaimsBacked
  <2>2. Claims(d, t) \in Int /\ Entries(d, t) \in Int
    BY <1>1, EntriesType DEF TypeOK, Claims
  <2>3. Claims(d, t)' = Claims(d, t) \/ (d = c /\ t = s /\ Claims(d, t)' = Claims(d, t) + 1)
    OBVIOUS
  <2>4. Entries(d, t)' = IF d = c /\ t = s THEN Entries(d, t) + 1 ELSE Entries(d, t)
    BY <1>2
  <2> QED
    BY <2>1, <2>2, <2>3, <2>4
<1>5. ClaimsBacked'
  BY <1>4 DEF ClaimsBacked
<1> QED
  BY <1>2, <1>3, <1>5 DEF IInv

(* GetLock and the next round of lockBlocking. *)
LEMMA BroadcastStep ==
    ASSUME IInv, NEW c \in Clients, pc[c] \in {"idle", "lost"}, sent[c] = {}, Broadcast(c),
           UNCHANGED <<wlock, rlock, ch, locks, release, stray>>
    PROVE  IInv'
<1>1. ClientTypes'
  BY DEF IInv, TypeOK, ClientTypes, Broadcast, PCs
<1>2. stray' \in [Clients -> [Lockers -> Nat]]
  BY DEF IInv, TypeOK
<1>3. ASSUME NEW d \in Clients PROVE Shape(d)'
  <2>1. CASE d = c
    <3>1. ch[c] = {} /\ locks[c] = {}
      BY DEF IInv, Shape
    <3>2. pc'[c] = "trying"
      BY DEF IInv, TypeOK, Broadcast
    <3> QED
      BY <2>1, <3>1, <3>2 DEF Shape
  <2>2. CASE d # c
    <3>1. pc'[d] = pc[d] /\ sent'[d] = sent[d]
      BY <2>2 DEF IInv, TypeOK, Broadcast
    <3> QED
      BY <3>1 DEF IInv, Shape, QuorumMet, Quorum
  <2> QED
    BY <2>1, <2>2
<1>4. \A d \in Clients, t \in Lockers : Claims(d, t)' = Claims(d, t)
  BY DEF Claims
<1> QED
  BY <1>1, <1>2, <1>3, <1>4, ClientStep DEF servers

(* A grant, whether its answer is counted, released at once, or lost. *)
LEMMA GrantStep ==
    ASSUME IInv, NEW c \in Clients, NEW s \in Lockers, Grant(c, s)
    PROVE  IInv'
<1>0. /\ TypeOK /\ (\A d \in Clients : Shape(d))
      /\ s \in sent[c] /\ CanTakeLock(c, s) /\ TakeLock(c, s) /\ stray' = stray
  BY DEF IInv, Grant
<1>1. stray' \in [Clients -> [Lockers -> Nat]]
  BY <1>0 DEF TypeOK
<1>2. CASE Miss(c, s)
  <2>1. /\ ClientTypes' /\ \A d \in Clients : Shape(d)'
        /\ \A d \in Clients, t \in Lockers : Claims(d, t)' = Claims(d, t)
    BY <1>0, <1>2, MissEffect
  <2> QED
    BY <1>0, <1>1, <2>1, TakeStep
<1>3. CASE pc[c] = "trying" /\ UNCHANGED <<pc, attempts, locks, release>>
           /\ sent' = [sent EXCEPT ![c] = sent[c] \ {s}]
           /\ ch' = [ch EXCEPT ![c] = ch[c] \union {s}]
  <2>1. ClientTypes'
    BY <1>0, <1>3 DEF ClientTypes, TypeOK
  <2>2. ASSUME NEW d \in Clients PROVE Shape(d)'
    <3>1. d # c => sent'[d] = sent[d] /\ ch'[d] = ch[d]
      BY <1>0, <1>3 DEF TypeOK
    <3>2. sent'[c] = sent[c] \ {s} /\ ch'[c] = ch[c] \union {s}
      BY <1>0, <1>3 DEF TypeOK
    <3>3. d # c => Shape(d)'
      BY <1>0, <1>3, <3>1 DEF Shape, QuorumMet, Quorum
    <3>4. Shape(c)'
      BY <1>0, <1>3, <3>2 DEF Shape, QuorumMet, Quorum
    <3> QED
      BY <3>3, <3>4
  <2>3. ASSUME NEW d \in Clients, NEW t \in Lockers
        PROVE  Claims(d, t)' = Claims(d, t) \/ (d = c /\ t = s /\ Claims(d, t)' = Claims(d, t) + 1)
    <3>1. s \notin ch[c]
      BY <1>0 DEF Shape
    <3>2. release[d][t] \in Nat
      BY <1>0 DEF TypeOK
    <3>3. t \in ch'[d] <=> t \in ch[d] \/ (d = c /\ t = s)
      BY <1>0, <1>3 DEF TypeOK
    <3> QED
      BY <1>3, <3>1, <3>2, <3>3 DEF Claims
  <2> QED
    BY <1>0, <1>1, <2>1, <2>2, <2>3, TakeStep
<1>4. CASE pc[c] # "trying" /\ UNCHANGED <<pc, attempts, locks, ch>>
           /\ sent' = [sent EXCEPT ![c] = sent[c] \ {s}] /\ SendRelease(c, {s})
  <2>0. release' \in [Clients -> [Lockers -> Nat]]
        /\ \A d \in Clients, t \in Lockers :
             release'[d][t] = IF d = c /\ t = s THEN release[d][t] + 1 ELSE release[d][t]
    BY <1>0, <1>4 DEF SendRelease, TypeOK
  <2>1. ClientTypes'
    BY <1>0, <1>4, <2>0 DEF ClientTypes, TypeOK
  <2>2. ASSUME NEW d \in Clients PROVE Shape(d)'
    <3>1. sent'[d] \subseteq sent[d]
      BY <1>0, <1>4 DEF TypeOK
    <3> QED
      BY <1>0, <1>4, <3>1 DEF Shape, QuorumMet, Quorum
  <2>3. ASSUME NEW d \in Clients, NEW t \in Lockers
        PROVE  Claims(d, t)' = Claims(d, t) \/ (d = c /\ t = s /\ Claims(d, t)' = Claims(d, t) + 1)
    <3>1. release[d][t] \in Nat
      BY <1>0 DEF TypeOK
    <3> QED
      BY <1>4, <2>0, <3>1 DEF Claims
  <2> QED
    BY <1>0, <1>1, <2>1, <2>2, <2>3, TakeStep
<1> QED
  BY <1>2, <1>3, <1>4 DEF Grant

(* A refusal, a failed call, a late lock request. *)
LEMMA MissStep ==
    ASSUME IInv, NEW c \in Clients, NEW s \in Lockers,
           Refuse(c, s) \/ CallFails(c, s)
    PROVE  IInv'
<1>1. s \in sent[c] /\ Miss(c, s) /\ wlock' = wlock /\ rlock' = rlock
  BY DEF Refuse, CallFails
<1>2. stray' \in [Clients -> [Lockers -> Nat]]
  <2>1. stray \in [Clients -> [Lockers -> Nat]]
    BY DEF IInv, TypeOK
  <2>2. stray' = stray \/ stray' = [stray EXCEPT ![c][s] = @ + 1]
    BY DEF Refuse, CallFails
  <2> QED
    BY <2>1, <2>2
<1>3. TypeOK /\ \A d \in Clients : Shape(d)
  BY DEF IInv
<1>4. /\ ClientTypes' /\ \A d \in Clients : Shape(d)'
      /\ \A d \in Clients, t \in Lockers : Claims(d, t)' = Claims(d, t)
  BY <1>1, <1>3, MissEffect
<1> QED
  BY <1>1, <1>2, <1>4, ClientStep DEF servers

(* A lock request whose caller gave up. *)
LEMMA StrayStep ==
    ASSUME IInv, NEW c \in Clients, NEW s \in Lockers, RunStray(c, s)
    PROVE  IInv'
<1>1. UNCHANGED <<pc, attempts, sent, ch, locks, release>>
  BY DEF RunStray
<1>2. stray' \in [Clients -> [Lockers -> Nat]]
  BY DEF RunStray, IInv, TypeOK
<1>3. ClientTypes'
  BY <1>1 DEF IInv, TypeOK, ClientTypes
<1>4. \A d \in Clients : Shape(d)'
  BY <1>1 DEF IInv, Shape, QuorumMet, Quorum
<1>5. \A d \in Clients, t \in Lockers : Claims(d, t)' = Claims(d, t)
  BY <1>1 DEF Claims
<1>6. CASE CanTakeLock(c, s) /\ TakeLock(c, s)
  BY <1>2, <1>3, <1>4, <1>5, <1>6, TakeStep
<1>7. CASE UNCHANGED servers
  BY <1>2, <1>3, <1>4, <1>5, <1>7, ClientStep
<1> QED
  BY <1>6, <1>7 DEF RunStray

(* The loop counts a grant, or ends. *)
LEMMA LoopStep ==
    ASSUME IInv, NEW c \in Clients, TimeOut(c) \/ \E s \in Lockers : Collect(c, s)
    PROVE  IInv'
<1>0. TypeOK /\ \A d \in Clients : Shape(d)
  BY DEF IInv
<1>1. UNCHANGED <<wlock, rlock, attempts, sent, stray>> /\ pc[c] = "trying"
  BY DEF TimeOut, Collect
<1>2. stray' \in [Clients -> [Lockers -> Nat]] /\ UNCHANGED servers
  BY <1>0, <1>1 DEF TypeOK, servers
<1>3. ASSUME NEW S \in SUBSET Lockers, Decide(c, S),
             locks[c] \subseteq S, S \subseteq locks[c] \union ch[c]
      PROVE  IInv'
  <2>1. sent[c] \in SUBSET sent[c] /\ sent' = [sent EXCEPT ![c] = sent[c]]
    BY <1>0, <1>1 DEF TypeOK
  <2>2. /\ ClientTypes' /\ \A d \in Clients : Shape(d)'
        /\ \A d \in Clients, t \in Lockers : Claims(d, t)' = Claims(d, t)
    BY <1>0, <1>1, <1>3, <2>1, DecideEffect
  <2> QED
    BY <1>2, <2>2, ClientStep
<1>4. ASSUME NEW s \in Lockers, s \in ch[c], UNCHANGED <<pc, release>>,
             ch' = [ch EXCEPT ![c] = ch[c] \ {s}],
             locks' = [locks EXCEPT ![c] = locks[c] \union {s}]
      PROVE  IInv'
  <2>1. ClientTypes'
    BY <1>0, <1>1, <1>4 DEF TypeOK, ClientTypes
  <2>2. ch'[c] = ch[c] \ {s} /\ locks'[c] = locks[c] \union {s}
    BY <1>0, <1>4 DEF TypeOK
  <2>3. \A d \in Clients : d # c => ch'[d] = ch[d] /\ locks'[d] = locks[d]
    BY <1>0, <1>4 DEF TypeOK
  <2>4. ASSUME NEW d \in Clients PROVE Shape(d)'
    <3>1. d # c => Shape(d)'
      BY <1>0, <1>1, <1>4, <2>3 DEF Shape, QuorumMet, Quorum
    <3>2. Shape(c)'
      BY <1>0, <1>1, <1>4, <2>2 DEF Shape
    <3> QED
      BY <3>1, <3>2
  <2>5. ASSUME NEW d \in Clients, NEW t \in Lockers PROVE Claims(d, t)' = Claims(d, t)
    <3>1. s \notin locks[c] /\ release[d][t] \in Nat
      BY <1>0, <1>4 DEF Shape, TypeOK
    <3>2. CASE d # c
      BY <1>4, <2>3, <3>2 DEF Claims
    <3>3. CASE d = c
      BY <1>4, <2>2, <3>1, <3>3 DEF Claims
    <3> QED
      BY <3>2, <3>3
  <2> QED
    BY <1>2, <2>1, <2>4, <2>5, ClientStep
<1>5. CASE TimeOut(c)
  <2>1. locks[c] \in SUBSET Lockers /\ Decide(c, locks[c])
    BY <1>0, <1>5 DEF TypeOK, TimeOut
  <2> QED
    BY <1>3, <2>1
<1>6. ASSUME NEW s \in Lockers, Collect(c, s) PROVE IInv'
  <2>1. s \in ch[c] /\ locks[c] \union {s} \in SUBSET Lockers
    BY <1>0, <1>6 DEF TypeOK, Collect
  <2>2. CASE Decide(c, locks[c] \union {s})
    BY <1>3, <2>1, <2>2
  <2>3. CASE ~(sent[c] = {} /\ ch[c] = {s})
    BY <1>4, <1>6, <2>1, <2>3 DEF Collect
  <2> QED
    BY <1>6, <2>2, <2>3 DEF Collect
<1> QED
  BY <1>5, <1>6

(* GetLock returns, with the lock or without. *)
LEMMA ReturnStep ==
    ASSUME IInv, NEW c \in Clients, Held(c) \/ GiveUp(c)
    PROVE  IInv'
<1>0. TypeOK /\ \A d \in Clients : Shape(d)
  BY DEF IInv
<1>1. /\ UNCHANGED <<wlock, rlock, attempts, sent, ch, locks, release, stray>> /\ sent[c] = {}
      /\ \/ pc[c] = "won" /\ pc' = [pc EXCEPT ![c] = "held"]
         \/ pc[c] = "lost" /\ pc' = [pc EXCEPT ![c] = "done"]
  BY DEF Held, GiveUp
<1>2. stray' \in [Clients -> [Lockers -> Nat]] /\ UNCHANGED servers
  BY <1>0, <1>1 DEF TypeOK, servers
<1>3. ClientTypes'
  BY <1>0, <1>1 DEF TypeOK, ClientTypes, PCs
<1>4. \A d \in Clients, t \in Lockers : Claims(d, t)' = Claims(d, t)
  BY <1>1 DEF Claims
<1>5. ASSUME NEW d \in Clients PROVE Shape(d)'
  <2>1. d # c => pc'[d] = pc[d]
    BY <1>0, <1>1 DEF TypeOK
  <2>2. \/ pc[c] = "won" /\ pc'[c] = "held"
        \/ pc[c] = "lost" /\ pc'[c] = "done"
    BY <1>0, <1>1 DEF TypeOK
  <2>3. d # c => Shape(d)'
    BY <1>0, <1>1, <2>1 DEF Shape, QuorumMet, Quorum
  <2>4. Shape(c)'
    BY <1>0, <1>1, <2>2 DEF Shape, QuorumMet, Quorum
  <2> QED
    BY <2>3, <2>4
<1> QED
  BY <1>2, <1>3, <1>4, <1>5, ClientStep

(* Unlock turns every mark into a release. *)
LEMMA UnlockStep ==
    ASSUME IInv, NEW c \in Clients, Unlock(c)
    PROVE  IInv'
<1>0. TypeOK /\ \A d \in Clients : Shape(d)
  BY DEF IInv
<1>1. /\ UNCHANGED <<wlock, rlock, attempts, sent, ch, stray>> /\ pc[c] = "held"
      /\ pc' = [pc EXCEPT ![c] = "done"] /\ locks' = [locks EXCEPT ![c] = {}]
  BY DEF Unlock
<1>2. stray' \in [Clients -> [Lockers -> Nat]] /\ UNCHANGED servers
  BY <1>0, <1>1 DEF TypeOK, servers
<1>3. /\ release' \in [Clients -> [Lockers -> Nat]]
      /\ \A d \in Clients, t \in Lockers :
           release'[d][t] = IF d = c /\ t \in locks[c] THEN release[d][t] + 1 ELSE release[d][t]
  BY <1>0 DEF Unlock, SendRelease, TypeOK
<1>4. ClientTypes'
  BY <1>0, <1>1, <1>3 DEF TypeOK, ClientTypes, PCs
<1>5. pc'[c] = "done" /\ locks'[c] = {}
      /\ \A d \in Clients : d # c => pc'[d] = pc[d] /\ locks'[d] = locks[d]
  BY <1>0, <1>1 DEF TypeOK
<1>6. ASSUME NEW d \in Clients PROVE Shape(d)'
  <2>1. d # c => Shape(d)'
    BY <1>0, <1>1, <1>5 DEF Shape, QuorumMet, Quorum
  <2>2. Shape(c)'
    BY <1>0, <1>1, <1>5 DEF Shape
  <2> QED
    BY <2>1, <2>2
<1>7. ASSUME NEW d \in Clients, NEW t \in Lockers PROVE Claims(d, t)' = Claims(d, t)
  <2>1. release[d][t] \in Nat
    BY <1>0 DEF TypeOK
  <2>2. CASE d # c
    BY <1>1, <1>3, <1>5, <2>2 DEF Claims
  <2>3. CASE d = c
    BY <1>1, <1>3, <1>5, <2>1, <2>3 DEF Claims
  <2> QED
    BY <2>2, <2>3
<1> QED
  BY <1>2, <1>4, <1>6, <1>7, ClientStep

(* A release takes away one entry and the claim that it was. *)
LEMMA ReleaseStep ==
    ASSUME IInv, NEW c \in Clients, NEW s \in Lockers, RunRelease(c, s)
    PROVE  IInv'
<1>0. TypeOK /\ OneKind /\ \A d \in Clients : Shape(d)
  BY DEF IInv
<1>1. /\ UNCHANGED <<pc, attempts, sent, ch, locks, stray>>
      /\ release[c][s] > 0
      /\ release' = [release EXCEPT ![c][s] = @ - 1]
  BY DEF RunRelease
<1>2. \A d \in Clients, t \in Lockers :
        /\ Claims(d, t) \in Int /\ Entries(d, t) \in Int
        /\ Claims(d, t) <= Entries(d, t) /\ release[d][t] <= Claims(d, t)
  BY <1>0, EntriesType DEF IInv, ClaimsBacked, TypeOK, Claims
<1>3. Entries(c, s) >= 1
  <2>1. release[c][s] \in Nat
    BY <1>0 DEF TypeOK
  <2> QED
    BY <1>1, <1>2, <2>1
<1>4. /\ wlock' \in [Lockers -> [Resources -> Clients \union {None}]]
      /\ rlock' \in [Lockers -> [Resources -> [Clients -> Nat]]]
      /\ OneKind'
      /\ Entries(c, s)' = Entries(c, s) - 1
      /\ \A d \in Clients, t \in Lockers : d # c \/ t # s => Entries(d, t)' = Entries(d, t)
  <2>1. IF c \in Writers THEN RunUnlock(c, s) ELSE RunRUnlock(c, s)
    BY DEF RunRelease
  <2> QED
    BY <1>0, <1>3, <2>1, ReleaseEffect
<1>5. /\ release' \in [Clients -> [Lockers -> Nat]]
      /\ \A d \in Clients, t \in Lockers :
           release'[d][t] = IF d = c /\ t = s THEN release[d][t] - 1 ELSE release[d][t]
  BY <1>0, <1>1 DEF TypeOK
<1>6. TypeOK'
  BY <1>0, <1>1, <1>4, <1>5 DEF TypeOK
<1>7. \A d \in Clients : Shape(d)'
  BY <1>0, <1>1 DEF Shape, QuorumMet, Quorum
<1>8. ASSUME NEW d \in Clients, NEW t \in Lockers PROVE Claims(d, t)' <= Entries(d, t)'
  <2>1. release[d][t] \in Nat
    BY <1>0 DEF TypeOK
  <2>2. Claims(d, t)' = IF d = c /\ t = s THEN Claims(d, t) - 1 ELSE Claims(d, t)
    BY <1>1, <1>5, <2>1 DEF Claims
  <2>3. Entries(d, t)' = IF d = c /\ t = s THEN Entries(d, t) - 1 ELSE Entries(d, t)
    BY <1>4
  <2> QED
    BY <1>2, <2>2, <2>3
<1> QED
  BY <1>4, <1>6, <1>7, <1>8 DEF IInv, ClaimsBacked

(* Every step keeps the invariant. *)
LEMMA NextInv == IInv /\ [Next]_vars => IInv'
<1> SUFFICES ASSUME IInv, [Next]_vars PROVE IInv'
  OBVIOUS
<1>1. ASSUME NEW c \in Clients, GetLock(c) \/ Retry(c) PROVE IInv'
  <2>1. sent[c] = {} /\ pc[c] \in {"idle", "lost"}
    BY <1>1 DEF GetLock, Retry, IInv, Shape
  <2> QED
    BY <1>1, <2>1, BroadcastStep DEF GetLock, Retry
<1>2. CASE UNCHANGED vars
  <2>1. ClientTypes' /\ stray' \in [Clients -> [Lockers -> Nat]] /\ UNCHANGED servers
    BY <1>2 DEF vars, servers, IInv, TypeOK, ClientTypes
  <2>2. \A d \in Clients : Shape(d)'
    BY <1>2 DEF vars, IInv, Shape, QuorumMet, Quorum
  <2>3. \A d \in Clients, t \in Lockers : Claims(d, t)' = Claims(d, t)
    BY <1>2 DEF vars, Claims
  <2> QED
    BY <2>1, <2>2, <2>3, ClientStep
<1>3. ASSUME NEW c \in Clients, TimeOut(c) \/ Held(c) \/ GiveUp(c) \/ Unlock(c) PROVE IInv'
  BY <1>3, LoopStep, ReturnStep, UnlockStep
<1>4. ASSUME NEW c \in Clients, NEW s \in Lockers,
             Grant(c, s) \/ Refuse(c, s) \/ CallFails(c, s) \/ Collect(c, s)
      PROVE  IInv'
  BY <1>4, GrantStep, MissStep, LoopStep
<1>5. ASSUME NEW c \in Clients, NEW s \in Lockers, RunRelease(c, s) \/ RunStray(c, s)
      PROVE  IInv'
  BY <1>5, ReleaseStep, StrayStep
<1> QED
  BY <1>1, <1>2, <1>3, <1>4, <1>5 DEF Next

(* The inductive invariant holds: each entry that a client counts, or will     *)
(* release, is there at the server.                                           *)
THEOREM Invariant == Spec => []IInv
<1> QED
  BY InitInv, NextInv, PTL DEF Spec

(* The variables of drwmutex.go and local-locker.go keep their types; above     *)
(* all no count of read entries or pending releases goes below zero.           *)
THEOREM TypeCorrect == Spec => []TypeOK
<1>1. IInv => TypeOK
  BY DEF IInv
<1> QED
  BY <1>1, Invariant, PTL

(* The distributed lock excludes: two callers that GetLock or GetRLock          *)
(* returned true to, one of them a writer, hold no name in common.             *)
THEOREM MutualExclusion == Spec => []Exclusive
<1>1. IInv => Exclusive
  BY WinnersDisjoint DEF Exclusive
<1> QED
  BY <1>1, Invariant, PTL

(* A held lock keeps its quorum of entries whatever is lost, late or released. *)
THEOREM QuorumKept == Spec => []Backed
<1>1. ASSUME IInv, NEW c \in Clients, pc[c] \in {"won", "held"}
      PROVE  QuorumMet(c, {s \in Lockers : Entries(c, s) > 0})
  <2> DEFINE E == {s \in Lockers : Entries(c, s) > 0}
  <2>1. TypeOK /\ QuorumMet(c, locks[c]) /\ locks[c] \in SUBSET Lockers
    BY <1>1 DEF IInv, Shape, TypeOK
  <2>2. ASSUME NEW s \in locks[c] PROVE s \in E
    <3>1. s \in Lockers /\ release[c][s] \in Nat
      BY <2>1 DEF TypeOK
    <3>2. Claims(c, s) >= 1 /\ Claims(c, s) \in Int
      BY <3>1 DEF Claims
    <3>3. Claims(c, s) <= Entries(c, s)
      BY <1>1, <3>1 DEF IInv, ClaimsBacked
    <3>4. Entries(c, s) \in Nat
      BY <2>1, <3>1, EntriesType
    <3> QED
      BY <3>1, <3>2, <3>3, <3>4
  <2>3. E \in SUBSET Lockers /\ locks[c] \subseteq E
    BY <2>2
  <2> HIDE DEF E
  <2>4. IsFiniteSet(E) /\ IsFiniteSet(locks[c])
    BY <2>1, <2>3, LockersAssumption, FS_Subset
  <2>5. Cardinality(locks[c]) <= Cardinality(E)
    BY <2>3, <2>4, FS_Subset
  <2>6. Cardinality(locks[c]) \in Nat /\ Cardinality(E) \in Nat
    BY <2>4, FS_CardinalityType
  <2>7. Quorum(c) \in Int
    BY NType DEF Quorum
  <2>8. QuorumMet(c, E)
    BY <2>1, <2>5, <2>6, <2>7 DEF QuorumMet
  <2> QED
    BY <2>8 DEF E
<1>2. IInv => Backed
  BY <1>1 DEF Backed
<1> QED
  BY <1>2, Invariant, PTL

(* How client c holds resource r: the refinement mapping, at one point. *)
Mode(c, r) ==
    IF pc[c] # "held" \/ r \notin Wanted(c) THEN "none"
    ELSE IF c \in Writers THEN "write" ELSE "read"

Holds == [c \in Clients |-> [r \in Resources |-> Mode(c, r)]]

(* The return of a successful lock() takes all its names at once, Unlock drops   *)
(* them, and nothing else is visible.                                          *)
LEMMA StepRefines ==
    ASSUME IInv, IInv', [Next]_vars
    PROVE  Abs!Next \/ Holds' = Holds
<1>0. pc \in [Clients -> PCs]
  BY DEF IInv, TypeOK
<1>1. ASSUME \A d \in Clients : pc'[d] = "held" <=> pc[d] = "held" PROVE Holds' = Holds
  <2>1. \A d \in Clients, r \in Resources : Mode(d, r)' = Mode(d, r)
    BY <1>1 DEF Mode, Wanted
  <2> QED
    BY <2>1 DEF Holds
<1>2. ASSUME NEW c \in Clients, Held(c) PROVE Abs!Next
  <2> DEFINE S == Wanted(c)
             m == IF c \in Writers THEN "write" ELSE "read"
  <2>1. pc[c] = "won" /\ pc'[c] = "held" /\ \A d \in Clients : d # c => pc'[d] = pc[d]
    BY <1>0, <1>2 DEF Held
  <2>2. S \in SUBSET Resources
    BY WantedFacts
  <2>3. \A r \in S : Holds[c][r] = "none"
    BY <2>1, <2>2 DEF Holds, Mode
  <2>4. ASSUME NEW d \in Clients \ {c}, NEW r \in S
        PROVE  Holds[d][r] # "write" /\ (m = "write" => Holds[d][r] = "none")
    <3>1. pc[d] = "held" /\ c \in Writers => Wanted(c) \intersect Wanted(d) = {}
      BY <2>1, WinnersDisjoint
    <3>2. pc[d] = "held" /\ d \in Writers => Wanted(d) \intersect Wanted(c) = {}
      BY <2>1, WinnersDisjoint
    <3> QED
      BY <2>2, <3>1, <3>2 DEF Holds, Mode
  <2>5. Holds' = [Holds EXCEPT ![c] = [r \in Resources |-> IF r \in S THEN m ELSE Holds[c][r]]]
    <3>1. \A d \in Clients, r \in Resources :
            Mode(d, r)' = IF d = c /\ r \in S THEN m ELSE Mode(d, r)
      BY <2>1 DEF Mode, Wanted
    <3> QED
      BY <3>1 DEF Holds
  <2>6. m \in Abs!Modes \ {"none"}
    BY DEF Abs!Modes
  <2> HIDE DEF S, m
  <2>7. Abs!Take(c, S, m)
    BY <2>3, <2>4, <2>5 DEF Abs!Take, Abs!Become, Abs!Compatible, Holds, Mode
  <2> QED
    BY <2>2, <2>6, <2>7 DEF Abs!Next
<1>3. ASSUME NEW c \in Clients, Unlock(c) PROVE Abs!Next
  <2> DEFINE S == Wanted(c)
  <2>1. pc[c] = "held" /\ pc'[c] = "done" /\ \A d \in Clients : d # c => pc'[d] = pc[d]
    BY <1>0, <1>3 DEF Unlock
  <2>2. S \in SUBSET Resources
    BY WantedFacts
  <2>3. \A r \in S : Holds[c][r] # "none"
    BY <2>1, <2>2 DEF Holds, Mode
  <2>4. Holds' = [Holds EXCEPT ![c] = [r \in Resources |-> IF r \in S THEN "none" ELSE Holds[c][r]]]
    <3>1. \A d \in Clients, r \in Resources :
            Mode(d, r)' = IF d = c /\ r \in S THEN "none" ELSE Mode(d, r)
      BY <2>1 DEF Mode, Wanted
    <3> QED
      BY <3>1 DEF Holds
  <2> HIDE DEF S
  <2>5. Abs!Drop(c, S)
    BY <2>3, <2>4 DEF Abs!Drop, Abs!Become, Holds, Mode
  <2> QED
    BY <2>2, <2>5 DEF Abs!Next
<1>4. ASSUME NEW c \in Clients, NEW v \in PCs, v # "held", pc[c] # "held", pc' = [pc EXCEPT ![c] = v]
      PROVE  Holds' = Holds
  BY <1>0, <1>1, <1>4
<1>5. ASSUME UNCHANGED pc PROVE Holds' = Holds
  BY <1>1, <1>5
<1>6. ASSUME NEW c \in Clients, NEW S, pc[c] = "trying", Decide(c, S) PROVE Holds' = Holds
  BY <1>4, <1>6 DEF Decide, PCs
<1>7. ASSUME NEW c \in Clients, NEW s \in Lockers, Miss(c, s) PROVE Holds' = Holds
  BY <1>5, <1>6, <1>7 DEF Miss
<1>8. ASSUME NEW c \in Clients, GetLock(c) \/ Retry(c) \/ GiveUp(c) PROVE Holds' = Holds
  BY <1>4, <1>8 DEF GetLock, Retry, GiveUp, Broadcast, PCs
<1>9. ASSUME NEW c \in Clients, TimeOut(c) PROVE Holds' = Holds
  BY <1>6, <1>9 DEF TimeOut
<1>10. ASSUME NEW c \in Clients, NEW s \in Lockers,
              Grant(c, s) \/ Refuse(c, s) \/ CallFails(c, s) \/ Collect(c, s)
              \/ RunRelease(c, s) \/ RunStray(c, s)
       PROVE  Holds' = Holds
  BY <1>5, <1>6, <1>7, <1>10 DEF Grant, Refuse, CallFails, Collect, RunRelease, RunStray
<1> QED
  BY <1>2, <1>3, <1>5, <1>8, <1>9, <1>10 DEF Next, vars

(* The quorum locks of pkg/dsync implement the readers-writer namespace that   *)
(* the in-process locks of namespace-lock.go implement.                        *)
THEOREM Refinement == Spec => ImplementsRWNamespace
<1>1. Init => Abs!Init
  BY DEF Init, Abs!Init
<1>2. IInv /\ IInv' /\ [Next]_vars => [Abs!Next]_Holds
  BY StepRefines
<1> QED
  BY <1>1, <1>2, Invariant, PTL DEF Spec, ImplementsRWNamespace, Abs!Spec, Holds, Mode
=============================================================================
