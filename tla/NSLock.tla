------------------------------- MODULE NSLock -------------------------------
(***************************************************************************)
(* cmd/namespace-lock.go: the in-process namespace lock.                    *)
(*                                                                         *)
(* nsLockMap keeps one nsLock per resource that somebody uses.  It is       *)
(* created by the first lock() of the resource, reference counted, and      *)
(* dropped from the map when the count returns to 0.  Blocking happens      *)
(* outside lockMapMutex, so between any two critical sections of lock() and  *)
(* unlock() every other client may run.  A localLockInstance acquires its   *)
(* sorted paths one by one and rolls back on a timeout.                     *)
(*                                                                         *)
(* A step of this module is one critical section of lockMapMutex, or one    *)
(* operation of the lsync.LRWMutex (an external library: it is modelled by   *)
(* the writer flag and the holder count its users can observe).             *)
(***************************************************************************)
EXTENDS Integers, FiniteSets

CONSTANTS
    Clients,        \* goroutines
    Resources,      \* paths, as numbers in the order of sort.Strings
    LockObjs,       \* nsLock objects that may be allocated
    NoLock          \* the nil *nsLock

ASSUME ResourcesAssumption == Resources \subseteq Nat /\ Resources # {}
ASSUME ClientsAssumption == IsFiniteSet(Clients)
ASSUME NoLockAssumption == NoLock \notin LockObjs

VARIABLES
    lockMap,        \* nsLockMap.lockMap: resource -> nsLock
    ref,            \* nsLock.ref
    mutex,          \* nsLock.LRWMutex: writer flag and number of holders
    pc,             \* where each client is
    readLock,       \* the mode of the client's localLockInstance
    todo,           \* paths still to be locked, or still to be unlocked
    held,           \* paths whose LRWMutex the client has locked
    path,           \* the path lock() or unlock() is working on
    nsLk            \* its local variable nsLk

vars == <<lockMap, ref, mutex, pc, readLock, todo, held, path, nsLk>>

PCs == {"idle", "lock", "wait", "failed", "locked", "find", "release", "deref"}

Free == [write |-> FALSE, n |-> 0]

(* newNSLock: an empty map.  Lock objects do not exist yet. *)
Init ==
    /\ lockMap = [r \in Resources |-> NoLock]
    /\ ref = [l \in LockObjs |-> 0]
    /\ mutex = [l \in LockObjs |-> Free]
    /\ pc = [c \in Clients |-> "idle"]
    /\ readLock = [c \in Clients |-> FALSE]
    /\ todo = [c \in Clients |-> {}]
    /\ held = [c \in Clients |-> {}]
    /\ path = [c \in Clients |-> CHOOSE r \in Resources : TRUE]
    /\ nsLk = [c \in Clients |-> NoLock]

(* Without the sort.Strings of NewNSLock, any path may come next. *)
MutantFirst(S, r) == r \in S

(* The path a loop over sorted paths takes next. *)
First(S, r) == r \in S /\ \A s \in S : r <= s

(* A freshly allocated nsLock is one nobody can reach. *)
Unreachable(l) ==
    /\ \A r \in Resources : lockMap[r] # l
    /\ \A c \in Clients : nsLk[c] # l

(***************************************************************************)
(* Acquiring.                                                              *)
(***************************************************************************)

(* NewNSLock(paths...) followed by GetLock or GetRLock. *)
NewNSLock(c, S, rd) ==
    /\ pc[c] = "idle"
    /\ pc' = [pc EXCEPT ![c] = "lock"]
    /\ readLock' = [readLock EXCEPT ![c] = rd]
    /\ todo' = [todo EXCEPT ![c] = S]
    /\ UNCHANGED <<lockMap, ref, mutex, held, path, nsLk>>

(* lock(): look the resource up or create it, and count the reference. *)
LookUp(c, r) ==
    /\ pc[c] = "lock"
    /\ First(todo[c], r)
    /\ \E l \in LockObjs :
        /\ IF lockMap[r] = NoLock
             THEN /\ Unreachable(l)
                  /\ lockMap' = [lockMap EXCEPT ![r] = l]
                  /\ ref' = [ref EXCEPT ![l] = 1]
                  /\ mutex' = [mutex EXCEPT ![l] = Free]
             ELSE /\ l = lockMap[r]
                  /\ ref' = [ref EXCEPT ![l] = @ + 1]
                  /\ UNCHANGED <<lockMap, mutex>>
        /\ nsLk' = [nsLk EXCEPT ![c] = l]
    /\ path' = [path EXCEPT ![c] = r]
    /\ pc' = [pc EXCEPT ![c] = "wait"]
    /\ UNCHANGED <<readLock, todo, held>>

(* LRWMutex.GetLock / GetRLock can be granted. *)
Grantable(l, rd) == ~mutex[l].write /\ (rd \/ mutex[l].n = 0)

(* nsLk.GetLock or GetRLock returns true; the caller goes on to its next   *)
(* path, or returns with all of them.                                      *)
Acquire(c) ==
    /\ pc[c] = "wait"
    /\ Grantable(nsLk[c], readLock[c])
    /\ mutex' = [mutex EXCEPT ![nsLk[c]] =
                    [write |-> ~readLock[c], n |-> @.n + 1]]
    /\ held' = [held EXCEPT ![c] = @ \union {path[c]}]
    /\ todo' = [todo EXCEPT ![c] = @ \ {path[c]}]
    /\ pc' = [pc EXCEPT ![c] = IF todo[c] = {path[c]} THEN "locked" ELSE "lock"]
    /\ nsLk' = [nsLk EXCEPT ![c] = NoLock]
    /\ UNCHANGED <<lockMap, ref, readLock, path>>

(* A GetLock that ignores its timeout. *)
MutantTimeOut(c) == FALSE

(* ... or returns false, because the timeout has passed. *)
TimeOut(c) ==
    /\ pc[c] = "wait"
    /\ pc' = [pc EXCEPT ![c] = "failed"]
    /\ UNCHANGED <<lockMap, ref, mutex, readLock, todo, held, path, nsLk>>

(* Drop the entry without looking at the count. *)
MutantDropRef(c) ==
    /\ ref' = [ref EXCEPT ![nsLk[c]] = @ - 1]
    /\ lockMap' = [lockMap EXCEPT ![path[c]] = NoLock]
    /\ nsLk' = [nsLk EXCEPT ![c] = NoLock]

(* Test the count for 0 before decrementing it. *)
MutantDropRefOrder(c) ==
    /\ ref' = [ref EXCEPT ![nsLk[c]] = @ - 1]
    /\ lockMap' = IF ref[nsLk[c]] = 0 THEN [lockMap EXCEPT ![path[c]] = NoLock]
                                      ELSE lockMap
    /\ nsLk' = [nsLk EXCEPT ![c] = NoLock]

(* "Decrement ref count": shared by the failing lock() and by unlock(). *)
DropRef(c) ==
    LET l == nsLk[c] IN
    /\ ref' = [ref EXCEPT ![l] = @ - 1]
    /\ lockMap' = IF ref[l] = 1 THEN [lockMap EXCEPT ![path[c]] = NoLock]
                                ELSE lockMap
    /\ nsLk' = [nsLk EXCEPT ![c] = NoLock]

(* The rollback loop also unlocks the path that timed out. *)
MutantGiveUp(c) ==
    /\ pc[c] = "failed"
    /\ DropRef(c)
    /\ todo' = [todo EXCEPT ![c] = held[c] \union {path[c]}]
    /\ pc' = [pc EXCEPT ![c] = "find"]
    /\ UNCHANGED <<mutex, readLock, held, path>>

(* lock() gives the reference back; GetLock then unlocks the paths in      *)
(* success and returns OperationTimedOut.                                  *)
GiveUp(c) ==
    /\ pc[c] = "failed"
    /\ DropRef(c)
    /\ todo' = [todo EXCEPT ![c] = held[c]]
    /\ pc' = [pc EXCEPT ![c] = IF held[c] = {} THEN "idle" ELSE "find"]
    /\ UNCHANGED <<mutex, readLock, held, path>>

(***************************************************************************)
(* Releasing.                                                              *)
(***************************************************************************)

(* Unlock or RUnlock: unlock every path. *)
Unlock(c) ==
    /\ pc[c] = "locked"
    /\ todo' = [todo EXCEPT ![c] = held[c]]
    /\ pc' = [pc EXCEPT ![c] = "find"]
    /\ UNCHANGED <<lockMap, ref, mutex, readLock, held, path, nsLk>>

(* unlock(): the lookup under lockMapMutex.RLock; an unknown resource is   *)
(* skipped.                                                                *)
Find(c, r) ==
    /\ pc[c] = "find"
    /\ First(todo[c], r)
    /\ path' = [path EXCEPT ![c] = r]
    /\ IF lockMap[r] = NoLock
         THEN /\ todo' = [todo EXCEPT ![c] = @ \ {r}]
              /\ pc' = [pc EXCEPT ![c] = IF todo[c] = {r} THEN "idle" ELSE "find"]
              /\ UNCHANGED nsLk
         ELSE /\ nsLk' = [nsLk EXCEPT ![c] = lockMap[r]]
              /\ pc' = [pc EXCEPT ![c] = "release"]
              /\ UNCHANGED todo
    /\ UNCHANGED <<lockMap, ref, mutex, readLock, held>>

(* nsLk.Unlock or nsLk.RUnlock. *)
Release(c) ==
    /\ pc[c] = "release"
    /\ mutex' = [mutex EXCEPT ![nsLk[c]] = [write |-> FALSE, n |-> @.n - 1]]
    /\ held' = [held EXCEPT ![c] = @ \ {path[c]}]
    /\ pc' = [pc EXCEPT ![c] = "deref"]
    /\ UNCHANGED <<lockMap, ref, readLock, todo, path, nsLk>>

(* unlock(): give the reference back, unless the count is already 0 (the   *)
(* code logs "Namespace reference count cannot be 0").                     *)
Deref(c) ==
    /\ pc[c] = "deref"
    /\ IF ref[nsLk[c]] = 0
         THEN /\ nsLk' = [nsLk EXCEPT ![c] = NoLock]
              /\ UNCHANGED <<lockMap, ref>>
         ELSE DropRef(c)
    /\ todo' = [todo EXCEPT ![c] = @ \ {path[c]}]
    /\ pc' = [pc EXCEPT ![c] = IF todo[c] = {path[c]} THEN "idle" ELSE "find"]
    /\ UNCHANGED <<mutex, readLock, held, path>>

Next ==
    \E c \in Clients :
        \/ \E S \in (SUBSET Resources) \ {{}}, rd \in BOOLEAN : NewNSLock(c, S, rd)
        \/ \E r \in Resources : LookUp(c, r)
        \/ Acquire(c)
        \/ TimeOut(c)
        \/ GiveUp(c)
        \/ Unlock(c)
        \/ \E r \in Resources : Find(c, r)
        \/ Release(c)
        \/ Deref(c)

Spec == Init /\ [][Next]_vars

(* Every goroutine that is inside lock() or unlock() keeps running, and     *)
(* lsync's GetLock and GetRLock return when their timeout has passed.  How   *)
(* long a client works while it holds the lock is up to the client.          *)
Steps(c) ==
    \/ \E r \in Resources : LookUp(c, r) \/ Find(c, r)
    \/ Acquire(c)
    \/ TimeOut(c)
    \/ GiveUp(c)
    \/ Release(c)
    \/ Deref(c)

LiveSpec == Spec /\ \A c \in Clients : WF_vars(Steps(c))

-----------------------------------------------------------------------------
(***************************************************************************)
(* Properties.                                                             *)
(***************************************************************************)

(* The types; in particular neither ref nor the number of an LRWMutex's holders *)
(* is ever negative.                                                        *)
TypeOK ==
    /\ lockMap \in [Resources -> LockObjs \union {NoLock}]
    /\ ref \in [LockObjs -> Nat]
    /\ mutex \in [LockObjs -> [write : BOOLEAN, n : Nat]]
    /\ pc \in [Clients -> PCs]
    /\ readLock \in [Clients -> BOOLEAN]
    /\ todo \in [Clients -> SUBSET Resources]
    /\ held \in [Clients -> SUBSET Resources]
    /\ path \in [Clients -> Resources]
    /\ nsLk \in [Clients -> LockObjs \union {NoLock}]

(* The resources on which client c owns a reference. *)
Uses(c) == held[c] \union (IF pc[c] \in {"wait", "failed", "deref"} THEN {path[c]} ELSE {})

Users(r) == {c \in Clients : r \in Uses(c)}

Holders(r) == {c \in Clients : r \in held[c]}

(* The reference count of namespace-lock.go is exact: a resource is in      *)
(* lockMap as long as, and only as long as, some client holds it, waits for *)
(* it or has still to give its reference back, and ref counts those clients.*)
(* So the map neither leaks entries nor drops one that is in use.           *)
RefCountExact ==
    \A r \in Resources :
        /\ lockMap[r] = NoLock <=> Users(r) = {}
        /\ lockMap[r] # NoLock => ref[lockMap[r]] = Cardinality(Users(r))

(* Two clients inside lock() or unlock() of the same resource work on the   *)
(* same nsLock, the one that is in lockMap: nobody waits for, unlocks or     *)
(* dereferences an object that was dropped from the map and replaced.        *)
OneLockPerResource ==
    \A c \in Clients : nsLk[c] # NoLock => nsLk[c] = lockMap[path[c]]

(* Unlock never meets a mutex that is not locked in that mode, the case in   *)
(* which LRWMutex panics.                                                    *)
UnlockOfLocked ==
    \A c \in Clients : pc[c] = "release" =>
        /\ mutex[nsLk[c]].n > 0
        /\ mutex[nsLk[c]].write = ~readLock[c]

(* What the object layer relies on: a path held by two clients is held by    *)
(* both for reading.                                                         *)
MutualExclusion ==
    \A c, d \in Clients : c # d =>
        \A r \in held[c] \intersect held[d] : readLock[c] /\ readLock[d]

(* d keeps c from getting the path c waits for. *)
Blocks(d, c) ==
    /\ d # c
    /\ path[c] \in held[d]
    /\ ~(readLock[c] /\ readLock[d])

(* Because NewNSLock sorts the paths, clients never wait for one another in  *)
(* a circle, which only a timeout could end.                                 *)
NoCircularWait ==
    ~ \E D \in (SUBSET Clients) \ {{}} :
        \A c \in D : pc[c] = "wait" /\ \E d \in D : Blocks(d, c)

(* GetLock and GetRLock return: with the lock, or with OperationTimedOut and *)
(* after everything was rolled back.                                         *)
GetLockReturns ==
    \A c \in Clients : pc[c] = "lock" ~> pc[c] \in {"locked", "idle"}

(* The counted locks implement the abstract readers-writer namespace.        *)
Abs == INSTANCE RWNamespace WITH
    holds <- [c \in Clients |-> [r \in Resources |->
                IF r \notin held[c] THEN "none"
                ELSE IF readLock[c] THEN "read" ELSE "write"]]

(* Every step of lock() and unlock() is a step of RWNamespace or invisible.  *)
ImplementsRWNamespace == Abs!Spec

-----------------------------------------------------------------------------
(***************************************************************************)
(* The inductive invariant behind the safety properties (NSLockProofs).    *)
(***************************************************************************)

(* What a client's local variables are at each point of lock() and unlock(). *)
Shape(c) ==
    /\ nsLk[c] = NoLock <=> pc[c] \in {"idle", "lock", "locked", "find"}
    /\ pc[c] \in {"idle", "locked"} => todo[c] = {}
    /\ pc[c] = "idle" => held[c] = {}
    /\ pc[c] \in {"lock", "wait", "failed"} => todo[c] \intersect held[c] = {}
    /\ pc[c] \in {"wait", "failed"} => path[c] \in todo[c]
    /\ pc[c] \in {"find", "release"} => todo[c] = held[c]
    /\ pc[c] = "release" => path[c] \in held[c]
    /\ pc[c] = "deref" => path[c] \notin held[c] /\ todo[c] = held[c] \union {path[c]}

(* What lockMap, ref and the LRWMutex say of a resource. *)
Entry(r) ==
    /\ lockMap[r] = NoLock <=> Users(r) = {}
    /\ lockMap[r] # NoLock =>
        /\ ref[lockMap[r]] = Cardinality(Users(r))
        /\ mutex[lockMap[r]].n = Cardinality(Holders(r))
        /\ IF mutex[lockMap[r]].write
             THEN \E c \in Clients : Holders(r) = {c} /\ ~readLock[c]
             ELSE \A c \in Holders(r) : readLock[c]

Distinct ==
    \A r, s \in Resources : lockMap[r] = lockMap[s] /\ lockMap[r] # NoLock => r = s

IInv ==
    /\ TypeOK
    /\ \A c \in Clients : Shape(c)
    /\ OneLockPerResource
    /\ Distinct
    /\ \A r \in Resources : Entry(r)
=============================================================================
