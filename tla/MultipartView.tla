--------------------------- MODULE MultipartView ---------------------------
(***************************************************************************)
(* What clients see of the object and the uploads of Multipart: a mapping to   *)
(* AtomicObject.                                                            *)
(***************************************************************************)
EXTENDS Multipart

(* Metadata is never taken for its absence. *)
ASSUME NoneAssumption ==
    None \notin [ver : Versions, parts : SUBSET [num : Parts, tag : Uploads \union {CopyTag}]]

(* What a GET reads: the parts that the metadata names, with a hole for each     *)
(* that the store does not have.  While a delete is between its two steps        *)
(* nobody can look: it holds the namespace lock that GETs take.                 *)
Shown(p) ==
    IF [ver |-> meta.ver, num |-> p.num, tag |-> p.tag] \in store THEN p
    ELSE [num |-> p.num, tag |-> None]
Visible ==
    IF meta = None \/ \E w \in Workers : At(w, "deleteMeta") THEN None
    ELSE {Shown(p) : p \in meta.parts}

(* An upload whose json key was taken by a Complete that then failed stays open  *)
(* for its clients: they have been told neither that it is complete nor that it   *)
(* is gone.                                                                *)
Phase(u) ==
    IF commits[u] # 0 THEN "committed"
    ELSE IF u \in aborted THEN "aborted"
    ELSE IF Started(u) THEN "open" ELSE "new"

Atomic == INSTANCE AtomicObject WITH object <- Visible, phase <- [u \in Uploads |-> Phase(u)]

(* The store's keys behave like one object that is replaced in single steps, by   *)
(* whole contents, and like uploads that are completed at most once and never      *)
(* after their abort.                                                       *)
ImplementsAtomicObject == Atomic!Spec
=============================================================================
