---------------------------- MODULE ObjectReader ----------------------------
(***************************************************************************)
(* The GET path: KineticObjects.GetObjectNInfo and Client.Read.              *)
(*                                                                         *)
(* A reader is a pooled Client behind an io.LimitReader.  The Client keeps   *)
(* the key and the offset it was opened with, and NextPartNumber, the index  *)
(* of the part it reads next; nothing but Read itself ever changes           *)
(* NextPartNumber, so each GET starts where the last one on the same Client   *)
(* left it.  Every Read gets the object's metadata again and delivers a       *)
(* simple object's value, or one part.                                       *)
(*                                                                         *)
(* A byte is named by its object, the object's version and its position.     *)
(* Writes take the namespace write lock, which GETs hold for reading; that    *)
(* CompleteMultipartUpload does not take it is the subject of Multipart, and  *)
(* no upload is completed here while its object is read.                     *)
(***************************************************************************)
EXTENDS Integers, Sequences, FiniteSets

CONSTANTS
    Readers,        \* goroutines that serve GET requests
    maxQueue,
    Objects,
    Contents,       \* what is written: a size, and the positions where parts are cut
    Ranges,         \* clients ask for ranges of objects with parts
    Disconnects,    \* clients go away in the middle of objects with parts
    None

(* The cuts of an object with p parts are p + 1 positions from 0 to its size;   *)
(* a simple object has none.                                                *)
WellCut(c) ==
    \/ c.cuts = <<>>
    \/ /\ Len(c.cuts) >= 2 /\ c.cuts[1] = 0 /\ c.cuts[Len(c.cuts)] = c.size
       /\ \A j, k \in 1..Len(c.cuts) : j < k => c.cuts[j] < c.cuts[k]

ASSUME ContentsAssumption ==
    /\ Contents \subseteq [size : Nat, cuts : Seq(Nat)]
    /\ \A c \in Contents : WellCut(c)
ASSUME ReadersAssumption ==
    /\ maxQueue \in Nat \ {0}
    /\ Ranges \in BOOLEAN /\ Disconnects \in BOOLEAN
    /\ None \notin Objects /\ None \notin [ver : {0, 1}, is : Contents]

Conns == 0..(maxQueue - 1)
Stored == [ver : {0, 1}, is : Contents]
Bytes == [obj : Objects, ver : {0, 1}, pos : Nat]
Clients == [Key : Objects \union {None}, DataOffset : Nat, NextPartNumber : Nat]

(* A GET: the object and the info it found, the range asked for, its Client,    *)
(* and the bytes sent, which io.LimitReader counts.                           *)
Gets == [pc : {"idle", "info", "read"}, obj : Objects \union {None},
         info : Stored \union {None}, off : Nat, length : Nat,
         conn : Conns, n : Nat, out : Seq(Bytes)]

VARIABLES
    object,         \* the objects in the store
    inUsed,         \* kConnsPool.inUsed
    client,         \* the pooled Clients
    get             \* the GET of each reader

vars == <<object, inUsed, client, get>>

Idle == [pc |-> "idle", obj |-> None, info |-> None, off |-> 0, length |-> 0,
         conn |-> 0, n |-> 0, out |-> <<>>]

Init ==
    /\ object = [o \in Objects |-> None]
    /\ inUsed = [i \in Conns |-> FALSE]
    /\ client = [i \in Conns |-> [Key |-> None, DataOffset |-> 0, NextPartNumber |-> 0]]
    /\ get = [g \in Readers |-> Idle]

Simple(c) == c.cuts = <<>>
Parts(c) == Len(c.cuts) - 1

(* rs.GetOffsetLength: the whole object, or any part of it. *)
OffsetLength(c) ==
    {<<0, c.size>>} \union
        {r \in (0..c.size) \X (1..c.size) : r[1] + r[2] <= c.size /\ (Simple(c) \/ Ranges)}

(* A put or a delete, under the object's write lock. *)
Write(o) ==
    /\ \A g \in Readers : get[g].obj # o
    /\ \/ \E c \in Contents :
            object' = [object EXCEPT ![o] = [ver |-> IF @ = None THEN 0 ELSE 1 - @.ver, is |-> c]]
       \/ object' = [object EXCEPT ![o] = None]
    /\ UNCHANGED <<inUsed, client, get>>

(* GetObjectNInfo takes the read lock and gets the object's info ... *)
GetObjectInfo(g, o) ==
    /\ get[g] = Idle
    /\ object[o] # None
    /\ \E r \in OffsetLength(object[o].is) :
            get' = [get EXCEPT ![g] = [Idle EXCEPT !.pc = "info", !.obj = o, !.info = object[o],
                                                   !.off = r[1], !.length = r[2]]]
    /\ UNCHANGED <<object, inUsed, client>>

MutantOpen(g, i) ==
    /\ get[g].pc = "info"
    /\ ~inUsed[i] /\ \A j \in 0..(i - 1) : inUsed[j]
    /\ inUsed' = [inUsed EXCEPT ![i] = TRUE]
    /\ client' = [client EXCEPT ![i].Key = get[g].obj]
    /\ get' = [get EXCEPT ![g].pc = "read", ![g].conn = i]
    /\ UNCHANGED object
(* ... and a Client, the first free one. *)
Open(g, i) ==
    /\ get[g].pc = "info"
    /\ ~inUsed[i] /\ \A j \in 0..(i - 1) : inUsed[j]
    /\ inUsed' = [inUsed EXCEPT ![i] = TRUE]
    /\ client' = [client EXCEPT ![i].Key = get[g].obj, ![i].DataOffset = get[g].off]
    /\ get' = [get EXCEPT ![g].pc = "read", ![g].conn = i]
    /\ UNCHANGED object

(* GetObjectReader.Close gives the Client and the lock back. *)
Leave(g) ==
    /\ inUsed' = [inUsed EXCEPT ![get[g].conn] = FALSE]
    /\ get' = [get EXCEPT ![g] = Idle]

MutantCGet(size, offset, request) == {size}
(* How much CGet returns of a value of this size; -1 is an error.  What the     *)
(* store makes of a range that ends behind the value is not known.           *)
CGet(size, offset, request) ==
    LET r == IF request > size THEN size ELSE request
    IN  IF offset + r <= size THEN {r}
        ELSE {-1, IF offset > size THEN 0 ELSE size - offset}

MutantNextPart(k, parts) == IF k = parts THEN 0 ELSE k + 1
NextPart(k, parts) == IF k = parts - 1 THEN 0 ELSE k + 1

(* The k bytes of the Client's object from position pos go to the response. *)
Deliver(g, pos, k) ==
    LET c == client[get[g].conn]
        n == get[g].n
    IN  get' = [get EXCEPT
            ![g].n = n + k,
            ![g].out = [j \in 1..(n + k) |->
                IF j <= n THEN get[g].out[j]
                ELSE [obj |-> c.Key, ver |-> object[c.Key].ver, pos |-> pos + j - n - 1]]]

(* Client.Read, called by the io.LimitReader as long as bytes are missing.     *)
(* The value of a simple object, from DataOffset ...                         *)
ReadSimple(g, m) ==
    LET c == client[get[g].conn]
    IN  \E k \in CGet(m.size, c.DataOffset, get[g].length - get[g].n) :
            /\ IF k < 0 THEN Leave(g)
               ELSE Deliver(g, c.DataOffset, k) /\ UNCHANGED inUsed
            /\ UNCHANGED client

(* ... or the part NextPartNumber, from the same offset in every part.  When    *)
(* there is no such part Read returns 0 bytes and no error.                   *)
ReadPart(g, m) ==
    LET c == client[get[g].conn]
        p == c.NextPartNumber
    IN  IF p >= Parts(m) THEN UNCHANGED <<inUsed, client, get>>
        ELSE \E k \in CGet(m.cuts[p + 2] - m.cuts[p + 1], c.DataOffset,
                           get[g].length - get[g].n) :
                IF k < 0 THEN Leave(g) /\ UNCHANGED client
                ELSE /\ Deliver(g, m.cuts[p + 1] + c.DataOffset, k)
                     /\ client' = [client EXCEPT ![get[g].conn].NextPartNumber =
                                                        NextPart(p, Parts(m))]
                     /\ UNCHANGED inUsed

Read(g) ==
    /\ get[g].pc = "read" /\ get[g].n < get[g].length
    /\ LET m == object[client[get[g].conn].Key]
       IN  IF m = None THEN Leave(g) /\ UNCHANGED client
           ELSE IF Simple(m.is) THEN ReadSimple(g, m.is)
           ELSE ReadPart(g, m.is)
    /\ UNCHANGED object

(* The request's preconditions do not hold, and GetObjectHandler sends nothing. *)
Refuse(g) ==
    /\ get[g].pc = "read" /\ get[g].n = 0
    /\ Leave(g)
    /\ UNCHANGED <<object, client>>

(* All is sent. *)
Close(g) ==
    /\ get[g].pc = "read" /\ get[g].n >= get[g].length
    /\ Leave(g)
    /\ UNCHANGED <<object, client>>

(* Writing to a client that has gone fails, and GetObjectHandler returns. *)
Disconnect(g) ==
    /\ get[g].pc = "read" /\ get[g].n > 0
    /\ Simple(get[g].info.is) \/ Disconnects
    /\ Leave(g)
    /\ UNCHANGED <<object, client>>

Step(g) == (\E i \in Conns : Open(g, i)) \/ Read(g) \/ Close(g)

Next ==
    \/ \E o \in Objects : Write(o)
    \/ \E g \in Readers :
        \/ \E o \in Objects : GetObjectInfo(g, o)
        \/ Step(g)
        \/ Refuse(g)
        \/ Disconnect(g)

Spec == Init /\ [][Next]_vars

(* A GET that can go on does: Go's scheduler is preemptive, and a request that  *)
(* waits for a connection is woken by every release.                         *)
LiveSpec == Spec /\ \A g \in Readers : WF_vars(Step(g))

-----------------------------------------------------------------------------
(***************************************************************************)
(* Properties.                                                             *)
(***************************************************************************)

(* The types; in particular no GET sends more than its Content-Length.         *)
TypeOK ==
    /\ object \in [Objects -> Stored \union {None}]
    /\ inUsed \in [Conns -> BOOLEAN]
    /\ client \in [Conns -> Clients]
    /\ get \in [Readers -> Gets]
    /\ \A g \in Readers : get[g].n <= get[g].length /\ Len(get[g].out) = get[g].n

(* What GetObjectHandler sends is what it was asked for: every byte sent is the *)
(* one at its position in the object whose info the response's headers show.   *)
GetExact ==
    \A g \in Readers : \A j \in 1..get[g].n :
        get[g].out[j] = [obj |-> get[g].obj, ver |-> get[g].info.ver, pos |-> get[g].off + j - 1]

(* Every GET comes to its end: io.CopyBuffer does not call Client.Read for ever *)
(* without getting bytes or an error.                                        *)
GetsFinish == \A g \in Readers : get[g].pc = "read" ~> get[g].pc = "idle"
=============================================================================
