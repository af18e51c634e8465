------------------------------ MODULE MCBuckets ------------------------------
(* Buckets on small instances. *)
EXTENDS Buckets

CONSTANTS deleter, writer, lister, ListMax

Copy(src, k) ==
    [op |-> "copy", key |-> k, src |-> src, max |-> 0, delim |-> FALSE, pattern |-> {}]
Request(op, k) == [Copy(k, k) EXCEPT !.op = op]
Listing(max, delim, pattern) ==
    [op |-> "list", key |-> 1, src |-> 1, max |-> max, delim |-> delim, pattern |-> pattern]

(* The first two keys are in one directory. *)
MCDir == [k \in Keys |-> IF k <= 2 THEN 1 ELSE 0]
MCExtensions == [k \in Keys |-> {}]

MCRequests ==
    [c \in Clients |->
       IF c = deleter THEN {Request("delbucket", 1)}
       ELSE IF c = writer THEN {Request("put", K), Copy(K, 1), Copy(K, K), Request("remove", K)}
       ELSE {Request("make", 1), Copy(1, K)} \union
            {Listing(ListMax, TRUE, Keys), Listing(ListMax, FALSE, Keys),
             Listing(ListMax, FALSE, Keys \ {2})}]

MCMaxRequests == [c \in Clients |-> 1]
=============================================================================
