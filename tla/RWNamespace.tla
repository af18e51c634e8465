---------------------------- MODULE RWNamespace ----------------------------
(***************************************************************************)
(* What the namespace lock promises to the object layer: for every resource *)
(* (a "bucket" or a "bucket/object" path) at most one client holds it for    *)
(* writing, and then nobody holds it for reading.  The counted, lazily       *)
(* created locks of cmd/namespace-lock.go (module NSLock) implement this,    *)
(* one path at a time, and so do the quorum locks of pkg/dsync (module        *)
(* DRWMutex), all names at once.                                             *)
(***************************************************************************)

CONSTANTS
    Clients,        \* goroutines that use the namespace
    Resources       \* lockable paths

VARIABLE
    holds           \* holds[c][r]: how client c holds resource r

Modes == {"none", "read", "write"}

Compatible(c, S, m) ==
    \A d \in Clients \ {c}, r \in S :
        /\ holds[d][r] # "write"
        /\ m = "write" => holds[d][r] = "none"

Init == holds = [c \in Clients |-> [r \in Resources |-> "none"]]

Become(c, S, m) ==
    holds' = [holds EXCEPT ![c] = [r \in Resources |-> IF r \in S THEN m ELSE holds[c][r]]]

Take(c, S, m) ==
    /\ \A r \in S : holds[c][r] = "none"
    /\ Compatible(c, S, m)
    /\ Become(c, S, m)

Drop(c, S) ==
    /\ \A r \in S : holds[c][r] # "none"
    /\ Become(c, S, "none")

Next ==
    \E c \in Clients, S \in SUBSET Resources :
        \/ \E m \in Modes \ {"none"} : Take(c, S, m)
        \/ Drop(c, S)

Spec == Init /\ [][Next]_holds
=============================================================================
