--------------------------- MODULE LockMaintenance ---------------------------
(***************************************************************************)
(* The lock maintenance of cmd/lock-rest-server.go beside the lock of        *)
(* DRWMutex: every minute a server looks at its entries that were not         *)
(* checked for two minutes and removes those that some other server does not   *)
(* know.  A round of lock() is over within seconds, so the entries that are    *)
(* that old belong to a lock that is held or was, and the rounds that were      *)
(* under way when they were new are over.  One loop at a time runs (the         *)
(* "lock-maintenance-ops" lock).                                             *)
(***************************************************************************)
EXTENDS DRWMutex

VARIABLE
    expired         \* the entry the loop is about to remove, <<>> if none

mvars == <<vars, expired>>

HasEntry(c, s, r) == wlock[s][r] = c \/ rlock[s][r][c] > 0

(* lockMaintenance: an old entry of c at s, and server t, online, answers       *)
(* Expired because it has no entry of that UID.                                *)
FindExpired(c, s, r, t) ==
    /\ expired = <<>>
    /\ pc[c] \in {"held", "done"}
    /\ \A d \in Clients : pc[d] # "trying"
    /\ HasEntry(c, s, r)
    /\ t # s /\ ~HasEntry(c, t, r)
    /\ expired' = <<c, s, r>>
    /\ UNCHANGED vars

(* removeEntryIfExists, for this one name. *)
RemoveEntryIfExists ==
    /\ expired # <<>>
    /\ LET c == expired[1]
           s == expired[2]
           r == expired[3]
       IN  /\ wlock' = IF wlock[s][r] = c THEN [wlock EXCEPT ![s][r] = None] ELSE wlock
           /\ rlock' = IF rlock[s][r][c] > 0 THEN [rlock EXCEPT ![s][r][c] = @ - 1] ELSE rlock
    /\ expired' = <<>>
    /\ UNCHANGED <<pc, attempts, sent, ch, locks, release, stray>>

MInit == Init /\ expired = <<>>

MNext ==
    \/ Next /\ UNCHANGED expired
    \/ \E c \in Clients, s, t \in Lockers, r \in Resources : FindExpired(c, s, r, t)
    \/ RemoveEntryIfExists

MSpec == MInit /\ [][MNext]_mvars
=============================================================================
