----------------------------- MODULE MCDRWMutex -----------------------------
(* DRWMutex on small instances. *)
EXTENDS DRWMutex

CONSTANTS r1, r2, multi

(* One client locks two names (a multi-delete), the others the second one. *)
MCNames == [c \in Clients |-> IF c = multi THEN <<r1, r2>> ELSE <<r2>>]

(* A second round for one of the clients. *)
MCAttempts == [c \in Clients |-> IF c = multi THEN 2 ELSE 1]
=============================================================================
