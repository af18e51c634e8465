--------------------------- MODULE MCObjectReader ---------------------------
(* Model checking of ObjectReader. *)
EXTENDS ObjectReader

(* A simple object, one with two unequal parts, and one with three. *)
SmallContents ==
    {[size |-> 2, cuts |-> <<>>],
     [size |-> 3, cuts |-> <<0, 2, 3>>],
     [size |-> 3, cuts |-> <<0, 1, 2, 3>>]}
=============================================================================
