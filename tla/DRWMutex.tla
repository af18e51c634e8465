------------------------------ MODULE DRWMutex ------------------------------
(***************************************************************************)
(* pkg/dsync/drwmutex.go over cmd/local-locker.go: the distributed          *)
(* readers-writer lock.                                                     *)
(*                                                                         *)
(* A client (one DRWMutex with one lock UID) asks every lock server for its  *)
(* names, collects the answers until all arrived, too many failed or the     *)
(* acquire timeout fired, and holds the lock when a quorum granted it.       *)
(* Grants it does not count are released again, in the background.  The      *)
(* calls are REST calls: a call may fail before or after the server ran it,   *)
(* a request whose caller gave up may still be run, and a release may never   *)
(* arrive (a release that is never delivered is a lost one).                 *)
(***************************************************************************)
EXTENDS Integers, FiniteSets, Sequences

CONSTANTS
    Clients,        \* lock instances; a client stands for its opsID
    Writers,        \* the clients that call GetLock; the others GetRLock
    Lockers,        \* lock servers
    Resources,      \* names that can be locked
    Names,          \* Names[c]: the sorted names of client c
    None,           \* no writer
    MaxAttempts     \* bound: rounds of each client's lockBlocking

ASSUME LockersAssumption == IsFiniteSet(Lockers)
ASSUME WritersAssumption == Writers \subseteq Clients
ASSUME NoneAssumption == None \notin Clients
ASSUME NamesAssumption ==
    /\ Names \in [Clients -> Seq(Resources)]
    /\ \A c \in Clients : Names[c] # <<>>

VARIABLES
    wlock,          \* lockMap of each server: the writer of each name ...
    rlock,          \* ... or how many read entries each client has
    pc,             \* where each client's lockBlocking is
    attempts,       \* rounds begun
    sent,           \* servers whose answer to lock() is outstanding
    ch,             \* servers whose grant waits in the channel ch
    locks,          \* servers marked in the locks array
    release,        \* releases on their way to each server
    stray           \* lock requests on their way whose caller gave up

servers == <<wlock, rlock>>
vars == <<wlock, rlock, pc, attempts, sent, ch, locks, release, stray>>

PCs == {"idle", "trying", "won", "lost", "held", "done"}

N == Cardinality(Lockers)

(* A quorum without the + 1. *)
MutantQuorum(c) == N \div 2

(* dquorum, and dquorumReads = ceil(n / 2). *)
Quorum(c) == IF c \in Writers THEN N \div 2 + 1 ELSE (N + 1) \div 2

(* The names a request of c touches: localLocker.RLock uses Resources[0]. *)
Wanted(c) ==
    IF c \in Writers THEN {Names[c][i] : i \in DOMAIN Names[c]} ELSE {Names[c][1]}

Init ==
    /\ wlock = [s \in Lockers |-> [r \in Resources |-> None]]
    /\ rlock = [s \in Lockers |-> [r \in Resources |-> [c \in Clients |-> 0]]]
    /\ pc = [c \in Clients |-> "idle"]
    /\ attempts = [c \in Clients |-> 0]
    /\ sent = [c \in Clients |-> {}]
    /\ ch = [c \in Clients |-> {}]
    /\ locks = [c \in Clients |-> {}]
    /\ release = [c \in Clients |-> [s \in Lockers |-> 0]]
    /\ stray = [c \in Clients |-> [s \in Lockers |-> 0]]

-----------------------------------------------------------------------------
(***************************************************************************)
(* localLocker: each operation is one critical section of its mutex.        *)
(***************************************************************************)

(* A reader does not keep a writer out. *)
MutantCanTakeLock(c, s) == \A r \in Wanted(c) : wlock[s][r] = None

(* canTakeLock for a writer, the isWriteLock test of RLock for a reader. *)
CanTakeLock(c, s) ==
    \A r \in Wanted(c) :
        /\ wlock[s][r] = None
        /\ c \in Writers => \A d \in Clients : rlock[s][r][d] = 0

(* Lock and RLock once they can be taken. *)
TakeLock(c, s) ==
    IF c \in Writers
      THEN /\ wlock' = [wlock EXCEPT ![s] =
                          [r \in Resources |-> IF r \in Wanted(c) THEN c ELSE @[r]]]
           /\ UNCHANGED rlock
      ELSE /\ rlock' = [rlock EXCEPT ![s][Names[c][1]][c] = @ + 1]
           /\ UNCHANGED wlock

(* removeEntry for one name after the other, up to the first that is not     *)
(* locked with this UID.                                                     *)
OwnedPrefix(c, s) ==
    {Names[c][i] : i \in {j \in DOMAIN Names[c] :
                            \A k \in 1..j : wlock[s][Names[c][k]] = c}}

(* Unlock: rejected unless every name is write locked (canTakeUnlock). *)
RunUnlock(c, s) ==
    /\ wlock' = IF \E r \in Wanted(c) : wlock[s][r] = None THEN wlock
                ELSE [wlock EXCEPT ![s] = [r \in Resources |->
                        IF r \in OwnedPrefix(c, s) THEN None ELSE @[r]]]
    /\ UNCHANGED rlock

(* RUnlock deletes the name from the map, whoever else reads it. *)
MutantRunRUnlock(c, s) ==
    /\ rlock' = [rlock EXCEPT ![s] = [r \in Resources \ Wanted(c) |-> @[r]]]
    /\ UNCHANGED wlock

(* RUnlock: rejected when the name is not locked, is write locked, or has no *)
(* entry with this UID.                                                      *)
RunRUnlock(c, s) ==
    /\ LET r == Names[c][1]
       IN  rlock' = IF wlock[s][r] = None /\ rlock[s][r][c] > 0
                      THEN [rlock EXCEPT ![s][r][c] = @ - 1] ELSE rlock
    /\ UNCHANGED wlock

-----------------------------------------------------------------------------
(***************************************************************************)
(* lock(): one round.                                                      *)
(***************************************************************************)

(* sendRelease to each server of S. *)
SendRelease(c, S) ==
    release' = [release EXCEPT ![c] = [s \in Lockers |-> IF s \in S THEN @[s] + 1 ELSE @[s]]]

(* The servers that answered without a grant: locksFailed. *)
Failed(c) == Lockers \ (sent[c] \union ch[c] \union locks[c])

QuorumMet(c, S) == Cardinality(S) >= Quorum(c)

(* lockBlocking begins a round: the request goes to every server. *)
Broadcast(c) ==
    /\ attempts[c] < MaxAttempts[c]
    /\ pc' = [pc EXCEPT ![c] = "trying"]
    /\ attempts' = [attempts EXCEPT ![c] = @ + 1]
    /\ sent' = [sent EXCEPT ![c] = Lockers]

GetLock(c) ==
    /\ pc[c] = "idle"
    /\ Broadcast(c)
    /\ UNCHANGED <<wlock, rlock, ch, locks, release, stray>>

(* The loop is over with the locks S: its verdict, and what it releases.     *)
(* The grants left in the channel are released by the goroutine that drains   *)
(* it, the marked ones only without a quorum (releaseAll).                    *)
Decide(c, S) ==
    /\ ch' = [ch EXCEPT ![c] = {}]
    /\ IF QuorumMet(c, S)
         THEN /\ pc' = [pc EXCEPT ![c] = "won"]
              /\ locks' = [locks EXCEPT ![c] = S]
              /\ SendRelease(c, ch[c] \ S)
         ELSE /\ pc' = [pc EXCEPT ![c] = "lost"]
              /\ locks' = [locks EXCEPT ![c] = {}]
              /\ SendRelease(c, ch[c] \union S)

(* Server s answered c without a grant.  The loop ends when a quorum is out   *)
(* of reach or nothing is outstanding.                                       *)
Miss(c, s) ==
    /\ sent' = [sent EXCEPT ![c] = @ \ {s}]
    /\ IF pc[c] = "trying" /\ (\/ Cardinality(Failed(c)) + 1 > N - Quorum(c)
                               \/ sent[c] = {s} /\ ch[c] = {})
         THEN Decide(c, locks[c])
         ELSE UNCHANGED <<pc, ch, locks, release>>
    /\ UNCHANGED attempts

(* s grants the lock; the answer is put in the channel, where it is released  *)
(* at once when the loop is over, or the answer is lost.                      *)
Grant(c, s) ==
    /\ s \in sent[c] /\ CanTakeLock(c, s)
    /\ TakeLock(c, s)
    /\ \/ /\ sent' = [sent EXCEPT ![c] = @ \ {s}]
          /\ IF pc[c] = "trying"
               THEN /\ ch' = [ch EXCEPT ![c] = @ \union {s}]
                    /\ UNCHANGED release
               ELSE /\ SendRelease(c, {s})
                    /\ UNCHANGED ch
          /\ UNCHANGED <<pc, attempts, locks>>
       \/ Miss(c, s)
    /\ UNCHANGED stray

Refuse(c, s) ==
    /\ s \in sent[c] /\ ~CanTakeLock(c, s)
    /\ Miss(c, s)
    /\ UNCHANGED <<wlock, rlock, stray>>

(* The call fails: the client is offline, the request was lost, or it is      *)
(* still on its way.                                                         *)
CallFails(c, s) ==
    /\ s \in sent[c]
    /\ Miss(c, s)
    /\ \/ UNCHANGED stray
       \/ stray' = [stray EXCEPT ![c][s] = @ + 1]
    /\ UNCHANGED <<wlock, rlock>>

(* The loop counts a grant, and ends when it was the last answer. *)
Collect(c, s) ==
    /\ pc[c] = "trying" /\ s \in ch[c]
    /\ IF sent[c] = {} /\ ch[c] = {s}
         THEN Decide(c, locks[c] \union {s})
         ELSE /\ ch' = [ch EXCEPT ![c] = @ \ {s}]
              /\ locks' = [locks EXCEPT ![c] = @ \union {s}]
              /\ UNCHANGED <<pc, release>>
    /\ UNCHANGED <<wlock, rlock, attempts, sent, stray>>

(* A round that is over after the acquire timeout keeps what it has. *)
MutantTimeOut(c) ==
    /\ pc[c] = "trying"
    /\ pc' = [pc EXCEPT ![c] = "won"]
    /\ UNCHANGED <<wlock, rlock, attempts, sent, ch, locks, release, stray>>

(* DRWMutexAcquireTimeout fires. *)
TimeOut(c) ==
    /\ pc[c] = "trying"
    /\ Decide(c, locks[c])
    /\ UNCHANGED <<wlock, rlock, attempts, sent, stray>>

(* lock() also waits for the releases it sent. *)
MutantHeld(c) ==
    /\ pc[c] = "won" /\ sent[c] = {} /\ \A s \in Lockers : release[c][s] = 0
    /\ pc' = [pc EXCEPT ![c] = "held"]
    /\ UNCHANGED <<wlock, rlock, attempts, sent, ch, locks, release, stray>>

(* lock() returns when every call was answered (wg.Wait). *)
Held(c) ==
    /\ pc[c] = "won" /\ sent[c] = {}
    /\ pc' = [pc EXCEPT ![c] = "held"]
    /\ UNCHANGED <<wlock, rlock, attempts, sent, ch, locks, release, stray>>

(* lockBlocking tries again after a pause ... *)
Retry(c) ==
    /\ pc[c] = "lost" /\ sent[c] = {}
    /\ Broadcast(c)
    /\ UNCHANGED <<wlock, rlock, ch, locks, release, stray>>

(* ... until its timeout elapsed or the context is done. *)
GiveUp(c) ==
    /\ pc[c] = "lost" /\ sent[c] = {}
    /\ pc' = [pc EXCEPT ![c] = "done"]
    /\ UNCHANGED <<wlock, rlock, attempts, sent, ch, locks, release, stray>>

(* Unlock and RUnlock: a release to every server marked in the array. *)
Unlock(c) ==
    /\ pc[c] = "held"
    /\ pc' = [pc EXCEPT ![c] = "done"]
    /\ locks' = [locks EXCEPT ![c] = {}]
    /\ SendRelease(c, locks[c])
    /\ UNCHANGED <<wlock, rlock, attempts, sent, ch, stray>>

-----------------------------------------------------------------------------
(***************************************************************************)
(* Requests that are not tied to a round: the server runs them when they     *)
(* arrive, if they arrive.                                                  *)
(***************************************************************************)

RunRelease(c, s) ==
    /\ release[c][s] > 0
    /\ release' = [release EXCEPT ![c][s] = @ - 1]
    /\ IF c \in Writers THEN RunUnlock(c, s) ELSE RunRUnlock(c, s)
    /\ UNCHANGED <<pc, attempts, sent, ch, locks, stray>>

RunStray(c, s) ==
    /\ stray[c][s] > 0
    /\ stray' = [stray EXCEPT ![c][s] = @ - 1]
    /\ IF CanTakeLock(c, s) THEN TakeLock(c, s) ELSE UNCHANGED servers
    /\ UNCHANGED <<pc, attempts, sent, ch, locks, release>>

Next ==
    \/ \E c \in Clients :
         \/ GetLock(c) \/ TimeOut(c) \/ Held(c) \/ Retry(c) \/ GiveUp(c) \/ Unlock(c)
    \/ \E c \in Clients, s \in Lockers :
         \/ Grant(c, s) \/ Refuse(c, s) \/ CallFails(c, s) \/ Collect(c, s)
         \/ RunRelease(c, s) \/ RunStray(c, s)

Spec == Init /\ [][Next]_vars

(* Every REST call ends, with an answer or with its timeout; goroutines whose *)
(* channel or timer is ready run; lockBlocking's own timeout ends the rounds.  *)
Fairness ==
    \A c \in Clients :
        /\ WF_vars(Held(c)) /\ WF_vars(GiveUp(c)) /\ WF_vars(TimeOut(c))
        /\ \A s \in Lockers :
             /\ WF_vars(Grant(c, s) \/ Refuse(c, s) \/ CallFails(c, s))
             /\ WF_vars(Collect(c, s))

LiveSpec == Spec /\ Fairness

-----------------------------------------------------------------------------
(***************************************************************************)
(* Properties.                                                             *)
(***************************************************************************)

TypeOK ==
    /\ wlock \in [Lockers -> [Resources -> Clients \union {None}]]
    /\ rlock \in [Lockers -> [Resources -> [Clients -> Nat]]]
    /\ pc \in [Clients -> PCs]
    /\ attempts \in [Clients -> Nat]
    /\ sent \in [Clients -> SUBSET Lockers]
    /\ ch \in [Clients -> SUBSET Lockers]
    /\ locks \in [Clients -> SUBSET Lockers]
    /\ release \in [Clients -> [Lockers -> Nat]]
    /\ stray \in [Clients -> [Lockers -> Nat]]

(* The entries of c at s: localLocker's lockMap. *)
Entries(c, s) ==
    IF c \in Writers
      THEN IF \A r \in Wanted(c) : wlock[s][r] = c THEN 1 ELSE 0
      ELSE rlock[s][Names[c][1]][c]

(* "A DRWMutex is a distributed mutual exclusion lock": while GetLock's       *)
(* caller has not called Unlock, nobody else holds one of its names, whatever  *)
(* calls were lost, late or answered after the acquire timeout.               *)
Exclusive ==
    \A c, d \in Clients :
        c # d /\ pc[c] = "held" /\ pc[d] = "held" /\ c \in Writers
            => Wanted(c) \intersect Wanted(d) = {}

(* A lock that is held is backed by a quorum of servers that have its entry:   *)
(* no late release of an earlier round or of a drained grant takes one away.   *)
Backed ==
    \A c \in Clients :
        pc[c] \in {"won", "held"} => QuorumMet(c, {s \in Lockers : Entries(c, s) > 0})

(* GetLock and GetRLock return, with the lock or without, whatever is lost.    *)
GetLockReturns == \A c \in Clients : pc[c] = "trying" ~> pc[c] \in {"held", "done"}

Abs == INSTANCE RWNamespace WITH
    holds <- [c \in Clients |-> [r \in Resources |->
                IF pc[c] # "held" \/ r \notin Wanted(c) THEN "none"
                ELSE IF c \in Writers THEN "write" ELSE "read"]]

(* Every step of the distributed lock is a step of RWNamespace or invisible:   *)
(* the distributed lock promises what the in-process one does.                *)
ImplementsRWNamespace == Abs!Spec

-----------------------------------------------------------------------------
(***************************************************************************)
(* The inductive invariant behind the safety properties (DRWMutexProofs).   *)
(***************************************************************************)

(* What c still has to do about its entry at s: count it, or release it. *)
Claims(c, s) ==
    release[c][s] + (IF s \in ch[c] THEN 1 ELSE 0) + (IF s \in locks[c] THEN 1 ELSE 0)

(* A server that is asked, waits in the channel or is marked is only that. *)
Shape(c) ==
    /\ sent[c] \intersect ch[c] = {} /\ sent[c] \intersect locks[c] = {}
    /\ ch[c] \intersect locks[c] = {}
    /\ pc[c] # "trying" => ch[c] = {}
    /\ pc[c] \notin {"trying", "won", "held"} => locks[c] = {}
    /\ pc[c] \in {"idle", "held", "done"} => sent[c] = {}
    /\ pc[c] \in {"won", "held"} => QuorumMet(c, locks[c])

(* A server never has a read entry beside a write entry, and has the entry of  *)
(* a writer for all its names or for none.                                    *)
OneKind ==
    \A s \in Lockers, r \in Resources :
        /\ wlock[s][r] # None => \A d \in Clients : rlock[s][r][d] = 0
        /\ \A c \in Writers : wlock[s][r] = c
             => r \in Wanted(c) /\ \A q \in Wanted(c) : wlock[s][q] = c

(* Every claim of a client on a server is backed by an entry of its own. *)
ClaimsBacked == \A c \in Clients, s \in Lockers : Claims(c, s) <= Entries(c, s)

IInv == TypeOK /\ (\A c \in Clients : Shape(c)) /\ OneKind /\ ClaimsBacked
=============================================================================
