-------------------------- MODULE MCLockMaintenance --------------------------
(* LockMaintenance on a small instance: everybody wants the same name. *)
EXTENDS LockMaintenance, TLC

CONSTANTS r1

MCNames == [c \in Clients |-> <<r1>>]
MCAttempts == [c \in Clients |-> 1]
Symmetry == Permutations(Lockers)
=============================================================================
