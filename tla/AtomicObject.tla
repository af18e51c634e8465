---------------------------- MODULE AtomicObject ----------------------------
(***************************************************************************)
(* What the object layer promises about one object and its multipart         *)
(* uploads: the object that a GET finds changes in one step, by a put, a       *)
(* delete, a copy or the completion of an upload, and is whole in between.     *)
(* An upload is open until it is completed, once, or aborted.                 *)
(* cmd/kinetic-multipart.go, with the writes of cmd/kinetic.go (module          *)
(* Multipart), implements this for clients that work on one upload at a time.  *)
(***************************************************************************)

CONSTANTS
    Uploads,        \* upload IDs, each given out once
    Parts,          \* part numbers
    CopyTag,        \* the etag of copied parts
    Ops,            \* the other writes that clients request
    None

VARIABLES
    object,         \* None, or the parts that a GET delivers (none if simple)
    phase,          \* "new", "open", "committed" or "aborted", for each upload
    acked           \* the part numbers acknowledged for each upload

vars == <<object, phase, acked>>

Init ==
    /\ object = None
    /\ phase = [u \in Uploads |-> "new"]
    /\ acked = [u \in Uploads |-> {}]

Pieces(nums, tag) == {[num |-> n, tag |-> tag] : n \in nums}

Become(u, p) == phase' = [phase EXCEPT ![u] = p]

NewMultipartUpload(u) ==
    /\ phase[u] = "new"
    /\ Become(u, "open")
    /\ UNCHANGED <<object, acked>>

PutObjectPart(u, n) ==
    /\ phase[u] # "new"
    /\ acked' = [acked EXCEPT ![u] = @ \union {n}]
    /\ UNCHANGED <<object, phase>>

(* The object is made of parts that were acknowledged. *)
CompleteMultipartUpload(u, nums) ==
    /\ phase[u] = "open"
    /\ nums # {} /\ nums \subseteq acked[u]
    /\ object' = Pieces(nums, u)
    /\ Become(u, "committed")
    /\ UNCHANGED acked

AbortMultipartUpload(u) ==
    /\ phase[u] = "open"
    /\ Become(u, "aborted")
    /\ UNCHANGED <<object, acked>>

(* A put, a delete or a copy, if clients request them. *)
Write ==
    /\ \/ "put" \in Ops /\ object' = {}
       \/ "remove" \in Ops /\ object' = None
       \/ "copy" \in Ops /\ object' = Pieces(Parts, CopyTag)
    /\ UNCHANGED <<phase, acked>>

Next ==
    \/ \E u \in Uploads :
        \/ NewMultipartUpload(u)
        \/ \E n \in Parts : PutObjectPart(u, n)
        \/ \E nums \in SUBSET Parts : CompleteMultipartUpload(u, nums)
        \/ AbortMultipartUpload(u)
    \/ Write

Spec == Init /\ [][Next]_vars
=============================================================================
