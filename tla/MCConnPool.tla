---------------------------- MODULE MCConnPool ----------------------------
(* Model checking of ConnPool with the programs of the handlers. *)
EXTENDS KineticHandlers

(* The programs that differ in what they hold while they wait. *)
ShapeHandlers ==
    {DeleteObject, MakeBucketWithLocation, deleteKeys, PutObject,
     GetObjectNInfo, CopyObject}
=============================================================================
