------------------------------ MODULE ConnPool ------------------------------
(***************************************************************************)
(* cmd/kinetic.go: kConnsPool, the pool of maxQueue connections to the       *)
(* Kinetic store, and kineticMutex, the global mutex around most of its use.  *)
(*                                                                         *)
(* What a request does to the two is a program: a sequence of steps          *)
(*   "lock", "unlock"    kineticMutex                                       *)
(*   "get", "release"    a connection for one store operation               *)
(*   "open", "close"     the connection of an object reader, which            *)
(*                       GetObjectNInfo hands to its caller and the caller's  *)
(*                       Close gives back                                    *)
(* Module KineticHandlers gives the programs of the handlers.  sync.Mutex    *)
(* and sync.Cond are Go's; the pool's own mutex makes GetKineticConnection   *)
(* and ReleaseConnection atomic.                                            *)
(***************************************************************************)
EXTENDS Integers, Sequences, FiniteSets

CONSTANTS
    Requests,       \* request goroutines
    Copiers,        \* those that may run a program that is not Flat
    Programs,
    maxQueue,
    None

Steps == {"lock", "unlock", "get", "release", "open", "close"}

(* After its first k steps, program p owns what acq acquires and rel frees. *)
Owns(p, k, acq, rel) ==
    \E i \in 1..k : p[i] = acq /\ \A j \in (i + 1)..k : p[j] # rel

OwnsMutex(p, k) == Owns(p, k, "lock", "unlock")
OwnsConn(p, k) == Owns(p, k, "get", "release")
OwnsReader(p, k) == Owns(p, k, "open", "close")

(* The discipline all handlers keep: nothing is acquired twice, only what    *)
(* is owned is given back, nobody asks for the mutex, or for a reader, while  *)
(* it owns a connection, and everything is given back at the end.            *)
Disciplined(p) ==
    /\ \A k \in 0..(Len(p) - 1) :
        /\ p[k + 1] = "lock" => ~OwnsMutex(p, k) /\ ~OwnsConn(p, k)
        /\ p[k + 1] = "get" => ~OwnsConn(p, k)
        /\ p[k + 1] = "open" => ~OwnsReader(p, k) /\ ~OwnsConn(p, k)
        /\ p[k + 1] = "unlock" => OwnsMutex(p, k)
        /\ p[k + 1] = "release" => OwnsConn(p, k)
        /\ p[k + 1] = "close" => OwnsReader(p, k)
    /\ ~OwnsMutex(p, Len(p)) /\ ~OwnsConn(p, Len(p)) /\ ~OwnsReader(p, Len(p))

(* A program that asks for nothing while it has a reader open. *)
Flat(p) ==
    \A k \in 0..(Len(p) - 1) :
        p[k + 1] \in {"lock", "get", "open"} => ~OwnsReader(p, k)

ASSUME RequestsAssumption == IsFiniteSet(Requests) /\ Copiers \subseteq Requests
ASSUME QueueAssumption == maxQueue \in Nat \ {0}
ASSUME NoneAssumption == None \notin Requests /\ None \notin Nat
ASSUME ProgramsAssumption ==
    \A p \in Programs : p \in Seq(Steps) /\ p # <<>> /\ Disciplined(p)

Conns == 0..(maxQueue - 1)

VARIABLES
    inUsed,         \* kConnsPool.inUsed
    totalInUsed,    \* kConnsPool.totalInUsed
    waiting,        \* requests in kConnsPool.cond.Wait()
    mutex,          \* the owner of kineticMutex
    prog,           \* the program of each request; <<>> before it arrives
    pos,            \* how many of its steps it has done
    kc,             \* the connection of its store operation
    reader          \* the connection of its object reader

vars == <<inUsed, totalInUsed, waiting, mutex, prog, pos, kc, reader>>

(* NewKineticObjectLayer *)
Init ==
    /\ inUsed = [i \in Conns |-> FALSE]
    /\ totalInUsed = 0
    /\ waiting = {}
    /\ mutex = None
    /\ prog = [g \in Requests |-> <<>>]
    /\ pos = [g \in Requests |-> 0]
    /\ kc = [g \in Requests |-> None]
    /\ reader = [g \in Requests |-> None]

Active(g) == pos[g] < Len(prog[g])

At(g, step) == Active(g) /\ prog[g][pos[g] + 1] = step /\ g \notin waiting

Advance(g) == pos' = [pos EXCEPT ![g] = @ + 1]

Arrive(g, p) ==
    /\ prog[g] = <<>>
    /\ Flat(p) \/ g \in Copiers
    /\ prog' = [prog EXCEPT ![g] = p]
    /\ UNCHANGED <<inUsed, totalInUsed, waiting, mutex, pos, kc, reader>>

Lock(g) ==
    /\ At(g, "lock")
    /\ mutex = None
    /\ mutex' = g
    /\ Advance(g)
    /\ UNCHANGED <<inUsed, totalInUsed, waiting, prog, kc, reader>>

Unlock(g) ==
    /\ At(g, "unlock")
    /\ mutex' = None
    /\ Advance(g)
    /\ UNCHANGED <<inUsed, totalInUsed, waiting, prog, kc, reader>>

(* Mutant of Slot: the counter is taken for the first free slot. *)
MutantSlotByCount(i) == totalInUsed < maxQueue /\ i = totalInUsed

(* The slot loop of GetKineticConnection finds i: the first free one. *)
Slot(i) ==
    /\ totalInUsed < maxQueue
    /\ ~inUsed[i]
    /\ \A j \in 0..(i - 1) : inUsed[j]

(* Mutant of TakeSlot: totalInUsed is not counted up. *)
MutantTakeSlot(i) == inUsed' = [inUsed EXCEPT ![i] = TRUE] /\ UNCHANGED totalInUsed

TakeSlot(i) ==
    /\ inUsed' = [inUsed EXCEPT ![i] = TRUE]
    /\ totalInUsed' = totalInUsed + 1

(* GetKineticConnection for one store operation ... *)
GetKineticConnection(g, i) ==
    /\ At(g, "get")
    /\ Slot(i)
    /\ TakeSlot(i)
    /\ kc' = [kc EXCEPT ![g] = i]
    /\ Advance(g)
    /\ UNCHANGED <<waiting, mutex, prog, reader>>

(* ... for a reader, at the end of GetObjectNInfo ... *)
OpenReader(g, i) ==
    /\ At(g, "open")
    /\ Slot(i)
    /\ TakeSlot(i)
    /\ reader' = [reader EXCEPT ![g] = i]
    /\ Advance(g)
    /\ UNCHANGED <<waiting, mutex, prog, kc>>

(* ... or, when it finds no slot, cond.Wait(). *)
Wait(g) ==
    /\ At(g, "get") \/ At(g, "open")
    /\ ~ \E i \in Conns : Slot(i)
    /\ waiting' = waiting \union {g}
    /\ UNCHANGED <<inUsed, totalInUsed, mutex, prog, pos, kc, reader>>

(* Mutant of ReleaseConnection: Signal in the place of Broadcast. *)
MutantReleaseSignal(ix) ==
    IF inUsed[ix]
      THEN /\ inUsed' = [inUsed EXCEPT ![ix] = FALSE]
           /\ totalInUsed' = totalInUsed - 1
           /\ IF waiting = {} THEN waiting' = {}
              ELSE \E g \in waiting : waiting' = waiting \ {g}
      ELSE UNCHANGED <<inUsed, totalInUsed, waiting>>

(* Mutant of ReleaseConnection: nobody is woken. *)
MutantReleaseSilent(ix) ==
    IF inUsed[ix]
      THEN /\ inUsed' = [inUsed EXCEPT ![ix] = FALSE]
           /\ totalInUsed' = totalInUsed - 1
           /\ waiting' = waiting
      ELSE UNCHANGED <<inUsed, totalInUsed, waiting>>

(* ReleaseConnection(ix); Broadcast sends every waiter back to the slot loop. *)
ReleaseConnection(ix) ==
    IF inUsed[ix]
      THEN /\ inUsed' = [inUsed EXCEPT ![ix] = FALSE]
           /\ totalInUsed' = totalInUsed - 1
           /\ waiting' = {}
      ELSE UNCHANGED <<inUsed, totalInUsed, waiting>>

Release(g) ==
    /\ At(g, "release")
    /\ ReleaseConnection(kc[g])
    /\ kc' = [kc EXCEPT ![g] = None]
    /\ Advance(g)
    /\ UNCHANGED <<mutex, prog, reader>>

(* The closeFn of GetObjectNInfo, run once by GetObjectReader.Close. *)
CloseReader(g) ==
    /\ At(g, "close")
    /\ ReleaseConnection(reader[g])
    /\ reader' = [reader EXCEPT ![g] = None]
    /\ Advance(g)
    /\ UNCHANGED <<mutex, prog, kc>>

Step(g) ==
    \/ Lock(g)
    \/ Unlock(g)
    \/ \E i \in Conns : GetKineticConnection(g, i) \/ OpenReader(g, i)
    \/ Wait(g)
    \/ Release(g)
    \/ CloseReader(g)

Next == \E g \in Requests : Step(g) \/ \E p \in Programs : Arrive(g, p)

Spec == Init /\ [][Next]_vars

(* A goroutine that can take a step does: Go's scheduler is preemptive, and   *)
(* sync.Mutex hands itself over to a goroutine that has waited too long.      *)
(* Requests are finitely many here, so nobody can be overtaken for ever.      *)
LiveSpec == Spec /\ \A g \in Requests : WF_vars(Step(g))

-----------------------------------------------------------------------------
(***************************************************************************)
(* Properties.                                                             *)
(***************************************************************************)

(* The types; in particular totalInUsed is never negative, the case in which   *)
(* ReleaseConnection panics.                                                *)
TypeOK ==
    /\ inUsed \in [Conns -> BOOLEAN]
    /\ totalInUsed \in Nat
    /\ waiting \in SUBSET Requests
    /\ mutex \in Requests \union {None}
    /\ prog \in [Requests -> Programs \union {<<>>}]
    /\ pos \in [Requests -> Nat]
    /\ kc \in [Requests -> Conns \union {None}]
    /\ reader \in [Requests -> Conns \union {None}]

Owners(i) == {g \in Requests : kc[g] = i \/ reader[g] = i}

(* The pool's books are right: a slot is marked exactly when one request     *)
(* has its connection, no request has a connection twice, and totalInUsed is  *)
(* the number of marked slots, so the panic of ReleaseConnection and a        *)
(* connection shared by two requests are both impossible.                    *)
PoolExact ==
    /\ totalInUsed = Cardinality({i \in Conns : inUsed[i]})
    /\ \A i \in Conns : inUsed[i] <=> Owners(i) # {}
    /\ \A i \in Conns, g, h \in Requests :
            g \in Owners(i) /\ h \in Owners(i) => g = h
    /\ \A g \in Requests : kc[g] # None => kc[g] # reader[g]

(* Broadcast loses no wake-up: a request sleeps in cond.Wait() only while     *)
(* every connection is in use.                                               *)
NoLostWakeup == waiting # {} => totalInUsed = maxQueue

(* The step request g is at can be taken. *)
Able(g) ==
    /\ Active(g) /\ g \notin waiting
    /\ CASE prog[g][pos[g] + 1] = "lock" -> mutex = None
         [] prog[g][pos[g] + 1] \in {"get", "open"} -> totalInUsed < maxQueue
         [] OTHER -> TRUE

(* kineticMutex is held across the wait for a connection, and a copy, of an   *)
(* object or of a part, waits for both with a reader open.  As long as fewer  *)
(* than maxQueue copies run, that never ends with everybody waiting.         *)
NoDeadlock ==
    Cardinality(Copiers) < maxQueue =>
        ((\E g \in Requests : Active(g)) => \E g \in Requests : Able(g))

(* What a standstill must look like: every connection of the pool belongs to  *)
(* the open reader of a request that is asking for one more.                  *)
StandstillOnlyByReaders ==
    (\E g \in Requests : Active(g)) /\ (\A g \in Requests : ~Able(g)) =>
        \A i \in Conns : \E g \in Copiers : Active(g) /\ reader[g] = i

(* What a request has is what its program says at the place it has reached,  *)
(* and it sleeps only where the program asks for a connection.               *)
Follows(g) ==
    /\ pos[g] <= Len(prog[g])
    /\ mutex = g <=> OwnsMutex(prog[g], pos[g])
    /\ kc[g] # None <=> OwnsConn(prog[g], pos[g])
    /\ reader[g] # None <=> OwnsReader(prog[g], pos[g])
    /\ g \in waiting => Active(g) /\ prog[g][pos[g] + 1] \in {"get", "open"}
    /\ Flat(prog[g]) \/ g \in Copiers

(* The inductive invariant. *)
IInv ==
    /\ TypeOK
    /\ PoolExact
    /\ NoLostWakeup
    /\ \A g \in Requests : Follows(g)

(* Every request that has arrived is served. *)
RequestsFinish == \A g \in Requests : Active(g) ~> ~Active(g)
=============================================================================
