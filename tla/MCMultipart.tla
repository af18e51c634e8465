---------------------------- MODULE MCMultipart ----------------------------
(* Model checking of Multipart, also as an implementation of AtomicObject. *)
EXTENDS MultipartView, TLC

Symmetry == Permutations(Workers) \union Permutations(Uploads)
=============================================================================
