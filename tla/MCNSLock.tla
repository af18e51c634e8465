------------------------------ MODULE MCNSLock ------------------------------
(* NSLock on small instances. *)
EXTENDS NSLock
=============================================================================
