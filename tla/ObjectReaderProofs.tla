------------------------- MODULE ObjectReaderProofs -------------------------
(***************************************************************************)
(* Proofs about ObjectReader for any number of readers, Clients and objects  *)
(* and any sizes of parts: when objects with parts are read as a whole, and    *)
(* their clients stay to the end, every byte sent is the right one.           *)
(*                                                                         *)
(* The reason is an invariant on the Clients of the pool: NextPartNumber is 0  *)
(* in every free one, and in one that reads an object with parts the bytes     *)
(* sent end where part NextPartNumber begins.                                *)
(***************************************************************************)
EXTENDS ObjectReader, TLAPS

(* A GET keeps the info of its object, which nobody writes while it is read. *)
Locked(g) ==
    /\ get[g].pc = "idle" => get[g] = Idle
    /\ get[g].pc # "idle" =>
        /\ get[g].obj \in Objects
        /\ get[g].info \in Stored
        /\ object[get[g].obj] = get[g].info
        /\ get[g].off + get[g].length <= get[g].info.is.size
    /\ get[g].pc = "info" => get[g].n = 0

(* A GET that reads owns its Client, opened for it. *)
Owns(g) ==
    get[g].pc = "read" =>
        /\ inUsed[get[g].conn]
        /\ client[get[g].conn].Key = get[g].obj
        /\ client[get[g].conn].DataOffset = get[g].off
        /\ \A h \in Readers \ {g} : get[h].pc = "read" => get[h].conn # get[g].conn

(* Objects with parts are asked for as a whole. *)
Whole(g) ==
    get[g].pc # "idle" /\ ~Simple(get[g].info.is) =>
        get[g].off = 0 /\ get[g].length = get[g].info.is.size

(* After n bytes of a GET of length bytes of c, NextPartNumber is p. *)
Placed(c, length, n, p) ==
    IF Simple(c) THEN p = 0 /\ n \in {0, length}
    ELSE p < Parts(c) /\ (n = c.cuts[p + 1] \/ (p = 0 /\ n = c.size))

Position(g) ==
    get[g].pc = "read" =>
        Placed(get[g].info.is, get[g].length, get[g].n, client[get[g].conn].NextPartNumber)

(* The Clients nobody uses are at the first part. *)
Rewound == \A i \in Conns : ~inUsed[i] => client[i].NextPartNumber = 0

Exact(g) ==
    \A j \in 1..get[g].n :
        get[g].out[j] = [obj |-> get[g].obj, ver |-> get[g].info.ver, pos |-> get[g].off + j - 1]

IInv ==
    /\ TypeOK
    /\ \A g \in Readers : Locked(g) /\ Owns(g) /\ Whole(g) /\ Position(g) /\ Exact(g)
    /\ Rewound

-----------------------------------------------------------------------------
(* The contents that are written have a size, and cuts from 0 to it. *)
LEMMA ContentsType ==
    ASSUME NEW c \in Contents
    PROVE  /\ c.size \in Nat /\ c.cuts \in Seq(Nat) /\ WellCut(c)
BY ContentsAssumption

(* The part at p of an object with parts lies within the object. *)
LEMMA PartBounds ==
    ASSUME NEW c \in Contents, ~Simple(c), NEW p \in Nat, p < Parts(c)
    PROVE  /\ Parts(c) \in Nat
           /\ c.cuts[p + 1] \in Nat /\ c.cuts[p + 2] \in Nat
           /\ c.cuts[p + 1] < c.cuts[p + 2] /\ c.cuts[p + 2] <= c.size
           /\ p = Parts(c) - 1 => c.cuts[p + 2] = c.size
           /\ c.cuts[1] = 0
<1>1. c.size \in Nat /\ c.cuts \in Seq(Nat) /\ WellCut(c)
  BY ContentsType
<1>2. Len(c.cuts) \in Nat /\ p + 1 \in 1..Len(c.cuts) /\ p + 2 \in 1..Len(c.cuts)
  BY <1>1 DEF Parts
<1>3. \A k \in 1..Len(c.cuts) : c.cuts[k] \in Nat
  BY <1>1
<1>4. /\ Len(c.cuts) >= 2 /\ c.cuts[1] = 0 /\ c.cuts[Len(c.cuts)] = c.size
      /\ \A j, k \in 1..Len(c.cuts) : j < k => c.cuts[j] < c.cuts[k]
  BY <1>1 DEF WellCut, Simple
<1>5. c.cuts[p + 2] <= c.size
  <2>1. CASE p + 2 = Len(c.cuts)
    BY <2>1, <1>1, <1>4
  <2>2. CASE p + 2 # Len(c.cuts)
    <3>1. p + 2 < Len(c.cuts) /\ Len(c.cuts) \in 1..Len(c.cuts)
      BY <2>2, <1>2
    <3>2. c.cuts[p + 2] < c.cuts[Len(c.cuts)]
      BY <3>1, <1>2, <1>4
    <3> QED
      BY <3>2, <1>2, <1>3, <1>4, <1>1
  <2> QED
    BY <2>1, <2>2
<1>6. c.cuts[p + 1] < c.cuts[p + 2]
  BY <1>2, <1>4
<1> QED
  BY <1>1, <1>2, <1>3, <1>4, <1>5, <1>6 DEF Parts

(* CGet returns what is asked for when the value is long enough. *)
LEMMA CGetExact ==
    ASSUME NEW size \in Nat, NEW offset \in Nat, NEW request \in Nat,
           NEW k \in CGet(size, offset, request),
           offset + (IF request > size THEN size ELSE request) <= size
    PROVE  k = IF request > size THEN size ELSE request
BY DEF CGet

-----------------------------------------------------------------------------
(* The server starts with an empty store and its Clients at the first part. *)
LEMMA InitInv == Init => IInv
<1> SUFFICES ASSUME Init PROVE IInv
  OBVIOUS
<1> USE ReadersAssumption
<1>1. Idle \in Gets /\ Idle.n = 0 /\ Idle.length = 0 /\ Len(Idle.out) = 0 /\ Idle.pc = "idle"
  <2>1. <<>> \in Seq(Bytes) /\ Len(<<>>) = 0
    OBVIOUS
  <2>2. 0 \in Conns
    BY DEF Conns
  <2> QED
    BY <2>1, <2>2 DEF Idle, Gets
<1>2. TypeOK
  BY <1>1 DEF Init, TypeOK, Clients
<1> QED
  BY <1>1, <1>2 DEF Init, IInv, Locked, Owns, Whole, Position, Exact, Rewound

(* The invariant of one reader, as one fact. *)
Sound(g) == Locked(g) /\ Owns(g) /\ Whole(g) /\ Position(g) /\ Exact(g)

(* A reader whose GET, Client and object a step leaves alone stays sound, if    *)
(* nobody else is given its Client.                                          *)
LEMMA Frame ==
    ASSUME TypeOK, NEW h \in Readers, Sound(h), get'[h] = get[h],
           get[h].pc # "idle" => object'[get[h].obj] = object[get[h].obj],
           get[h].pc = "read" =>
               /\ client'[get[h].conn] = client[get[h].conn]
               /\ inUsed'[get[h].conn]
               /\ \A g \in Readers \ {h} : get'[g].pc = "read" => get'[g].conn # get[h].conn
    PROVE  Sound(h)'
BY DEF Sound, Locked, Owns, Whole, Position, Exact

(* A put or a delete changes no object that is read. *)
LEMMA WriteInv == \A o \in Objects : IInv /\ Write(o) => IInv'
<1> SUFFICES ASSUME NEW o \in Objects, IInv, Write(o) PROVE IInv'
  OBVIOUS
<1>1. TypeOK'
  BY DEF IInv, TypeOK, Write, Stored
<1>2. ASSUME NEW h \in Readers PROVE Sound(h)'
  <2>1. TypeOK /\ Sound(h) /\ get[h] \in Gets
    BY DEF IInv, Sound, TypeOK
  <2>2. get' = get /\ client' = client /\ inUsed' = inUsed
    BY DEF Write
  <2>3. get[h].pc # "idle" => object'[get[h].obj] = object[get[h].obj]
    BY <2>1 DEF Write, Sound, Locked, TypeOK
  <2> QED
    BY <2>1, <2>2, <2>3, Frame DEF Sound, Owns
<1> QED
  BY <1>1, <1>2 DEF IInv, Sound, Rewound, Write

(* A GET starts with the info of the object, for a range within it. *)
LEMMA GetObjectInfoInv ==
    ASSUME ~Ranges, IInv, NEW g \in Readers, NEW o \in Objects, GetObjectInfo(g, o)
    PROVE  IInv'
<1> DEFINE c == object[o].is
<1>1. PICK r \in OffsetLength(c) :
        get' = [get EXCEPT ![g] = [Idle EXCEPT !.pc = "info", !.obj = o, !.info = object[o],
                                               !.off = r[1], !.length = r[2]]]
  BY DEF GetObjectInfo
<1>2. object[o] \in Stored /\ c \in Contents /\ c.size \in Nat
  BY ContentsType DEF IInv, TypeOK, GetObjectInfo, Stored
<1>3. /\ r[1] \in Nat /\ r[2] \in Nat /\ r[1] + r[2] <= c.size
      /\ ~Simple(c) => r[1] = 0 /\ r[2] = c.size
  BY <1>2 DEF OffsetLength
<1>4. get'[g] = [pc |-> "info", obj |-> o, info |-> object[o], off |-> r[1], length |-> r[2],
                 conn |-> 0, n |-> 0, out |-> <<>>]
  BY <1>1 DEF Idle, IInv, TypeOK
<1>5. get'[g] \in Gets
  <2>1. <<>> \in Seq(Bytes) /\ 0 \in Conns
    BY ReadersAssumption DEF Conns
  <2> QED
    BY <1>2, <1>3, <1>4, <2>1 DEF Gets
<1>6. object' = object /\ inUsed' = inUsed /\ client' = client
  BY DEF GetObjectInfo
<1>7. get' \in [Readers -> Gets] /\ \A h \in Readers \ {g} : get'[h] = get[h]
  BY <1>1, <1>5 DEF IInv, TypeOK
<1>8. TypeOK'
  BY <1>4, <1>6, <1>7, <1>3 DEF IInv, TypeOK
<1>9. Sound(g)'
  BY <1>2, <1>3, <1>4, <1>6 DEF Sound, Locked, Owns, Whole, Position, Exact
<1>10. ASSUME NEW h \in Readers \ {g} PROVE Sound(h)'
  <2>1. TypeOK /\ Sound(h)
    BY DEF IInv, Sound
  <2> QED
    BY <2>1, <1>4, <1>6, <1>7, Frame DEF Sound, Owns
<1> QED
  BY <1>6, <1>8, <1>9, <1>10 DEF IInv, Sound, Rewound

(* A free Client is at the first part when it is opened, whatever was read on   *)
(* it before; its key and its offset are set.                                *)
LEMMA OpenInv ==
    ASSUME IInv, NEW g \in Readers, NEW i \in Conns, Open(g, i)
    PROVE  IInv'
<1>1. /\ get[g].pc = "info" /\ ~inUsed[i] /\ object' = object
      /\ inUsed' = [inUsed EXCEPT ![i] = TRUE]
      /\ client' = [client EXCEPT ![i].Key = get[g].obj, ![i].DataOffset = get[g].off]
      /\ get' = [get EXCEPT ![g].pc = "read", ![g].conn = i]
  BY DEF Open
<1>2. TypeOK /\ Sound(g) /\ get[g] \in Gets
  BY DEF IInv, Sound, TypeOK
<1>3. get'[g] = [get[g] EXCEPT !.pc = "read", !.conn = i] /\ get'[g] \in Gets
  BY <1>1, <1>2 DEF Gets, TypeOK
<1>4. get' \in [Readers -> Gets] /\ \A h \in Readers \ {g} : get'[h] = get[h]
  BY <1>1, <1>2, <1>3 DEF TypeOK
<1>5. /\ client'[i].Key = get[g].obj /\ client'[i].DataOffset = get[g].off
      /\ client'[i].NextPartNumber = 0
      /\ \A j \in Conns \ {i} : client'[j] = client[j]
  BY <1>1, <1>2 DEF IInv, Rewound, TypeOK, Clients
<1>6. client' \in [Conns -> Clients] /\ inUsed' \in [Conns -> BOOLEAN]
  <2>1. /\ client[i] \in Clients /\ client \in [Conns -> Clients]
        /\ get[g].obj \in Objects \union {None} /\ get[g].off \in Nat
    BY <1>2 DEF TypeOK, Gets
  <2>2. [client[i] EXCEPT !.Key = get[g].obj, !.DataOffset = get[g].off] \in Clients
    BY <2>1 DEF Clients
  <2>3. client' = [client EXCEPT ![i] =
                     [client[i] EXCEPT !.Key = get[g].obj, !.DataOffset = get[g].off]]
    BY <1>1, <2>1
  <2>4. client' \in [Conns -> Clients]
    BY <2>1, <2>2, <2>3
  <2>5. inUsed' \in [Conns -> BOOLEAN]
    BY <1>1, <1>2 DEF TypeOK
  <2> QED
    BY <2>4, <2>5
<1>7. TypeOK'
  BY <1>1, <1>2, <1>3, <1>4, <1>6 DEF TypeOK, Gets
<1>8. ASSUME NEW h \in Readers \ {g}, get[h].pc = "read" PROVE get[h].conn # i /\ get[h].conn \in Conns
  BY <1>1, <1>8, <1>2 DEF IInv, Owns, TypeOK, Gets
<1>9. Sound(g)'
  <2>1. /\ get'[g].pc = "read" /\ get'[g].conn = i /\ get'[g].obj = get[g].obj
        /\ get'[g].info = get[g].info /\ get'[g].off = get[g].off
        /\ get'[g].length = get[g].length /\ get'[g].n = 0 /\ get'[g].out = get[g].out
    <3>1. get[g].n = 0
      BY <1>1, <1>2 DEF Sound, Locked
    <3> QED
      BY <1>2, <1>3, <3>1 DEF Gets
  <2>2. Locked(g)' /\ Whole(g)' /\ Exact(g)'
    <3>1. Locked(g)'
      BY <2>1, <1>1, <1>2 DEF Sound, Locked
    <3>2. Whole(g)'
      BY <2>1, <1>1, <1>2 DEF Sound, Whole
    <3>3. Exact(g)'
      BY <2>1 DEF Exact
    <3> QED
      BY <3>1, <3>2, <3>3
  <2>3. Owns(g)'
    BY <2>1, <1>1, <1>2, <1>4, <1>5, <1>8 DEF Owns, TypeOK
  <2>4. Position(g)'
    <3>1. get[g].info.is \in Contents
      BY <1>1, <1>2 DEF Sound, Locked, Stored
    <3>2. ~Simple(get[g].info.is) => 0 < Parts(get[g].info.is) /\ get[g].info.is.cuts[1] = 0
      BY <3>1, ContentsType DEF WellCut, Simple, Parts
    <3> QED
      BY <2>1, <1>5, <3>2 DEF Position, Placed
  <2> QED
    BY <2>2, <2>3, <2>4 DEF Sound
<1>10. ASSUME NEW h \in Readers \ {g} PROVE Sound(h)'
  <2>1. Sound(h) /\ get[h] \in Gets
    BY <1>2 DEF IInv, Sound, TypeOK
  <2>2. get'[g].conn = i
    BY <1>2, <1>3 DEF Gets
  <2>3. get[h].pc = "read" =>
            /\ client'[get[h].conn] = client[get[h].conn]
            /\ inUsed'[get[h].conn]
            /\ \A f \in Readers \ {h} : get'[f].pc = "read" => get'[f].conn # get[h].conn
    BY <1>1, <1>2, <1>4, <1>5, <1>8, <2>1, <2>2 DEF Sound, Owns, TypeOK
  <2> QED
    BY <2>1, <2>3, <1>1, <1>2, <1>4, Frame
<1>11. Rewound'
  BY <1>1, <1>2, <1>5 DEF IInv, Rewound, TypeOK
<1> QED
  BY <1>7, <1>9, <1>10, <1>11 DEF IInv, Sound

(* A GET may end when its Client is at the first part. *)
LEMMA LeaveInv ==
    ASSUME IInv, NEW g \in Readers, get[g].pc = "read", Leave(g),
           client[get[g].conn].NextPartNumber = 0, UNCHANGED <<object, client>>
    PROVE  IInv'
<1>1. TypeOK /\ Sound(g) /\ get[g] \in Gets /\ get[g].conn \in Conns
  BY DEF IInv, Sound, TypeOK, Gets
<1>2. /\ inUsed' = [inUsed EXCEPT ![get[g].conn] = FALSE]
      /\ get' = [get EXCEPT ![g] = Idle]
  BY DEF Leave
<1>3. Idle \in Gets /\ Idle.n = 0 /\ Idle.length = 0 /\ Len(Idle.out) = 0 /\ Idle.pc = "idle"
  <2>1. <<>> \in Seq(Bytes) /\ Len(<<>>) = 0
    OBVIOUS
  <2>2. 0 \in Conns
    BY ReadersAssumption DEF Conns
  <2> QED
    BY <2>1, <2>2 DEF Idle, Gets
<1>4. get'[g] = Idle /\ \A h \in Readers \ {g} : get'[h] = get[h]
  BY <1>1, <1>2 DEF TypeOK
<1>5. TypeOK'
  BY <1>1, <1>2, <1>3, <1>4 DEF TypeOK
<1>6. Sound(g)'
  BY <1>3, <1>4 DEF Sound, Locked, Owns, Whole, Position, Exact
<1>7. ASSUME NEW h \in Readers \ {g} PROVE Sound(h)'
  <2>1. Sound(h) /\ get[h] \in Gets
    BY <1>1 DEF IInv, Sound, TypeOK
  <2>2. get[h].pc = "read" =>
            /\ inUsed'[get[h].conn]
            /\ \A f \in Readers \ {h} : get'[f].pc = "read" => get'[f].conn # get[h].conn
    BY <1>1, <1>2, <1>3, <1>4, <2>1 DEF Sound, Owns, TypeOK, Gets
  <2> QED
    BY <2>1, <2>2, <1>1, <1>4, Frame
<1>8. Rewound'
  BY <1>1, <1>2 DEF IInv, Rewound, TypeOK
<1> QED
  BY <1>5, <1>6, <1>7, <1>8 DEF IInv, Sound

(* A function on 1..m is a sequence of length m. *)
LEMMA FunctionSeq ==
    ASSUME NEW S, NEW m \in Nat, NEW f \in [1..m -> S]
    PROVE  f \in Seq(S) /\ Len(f) = m
OBVIOUS

(* Bytes that continue what was sent keep the GET exact, and disturb no other. *)
LEMMA Delivered ==
    ASSUME IInv, NEW g \in Readers, get[g].pc = "read", object' = object,
           NEW k \in Nat, get[g].n + k <= get[g].length,
           Deliver(g, get[g].off + get[g].n, k)
    PROVE  /\ get' \in [Readers -> Gets]
           /\ get'[g].pc = "read" /\ get'[g].obj = get[g].obj /\ get'[g].info = get[g].info
           /\ get'[g].off = get[g].off /\ get'[g].length = get[g].length
           /\ get'[g].conn = get[g].conn /\ get'[g].n = get[g].n + k
           /\ Len(get'[g].out) = get[g].n + k
           /\ Exact(g)'
           /\ \A h \in Readers \ {g} : get'[h] = get[h]
<1> DEFINE n == get[g].n
           b(j) == [obj |-> get[g].obj, ver |-> get[g].info.ver, pos |-> get[g].off + j - 1]
           f == [j \in 1..(n + k) |-> IF j <= n THEN get[g].out[j] ELSE b(j)]
<1>1. TypeOK /\ Sound(g) /\ get[g] \in Gets
  BY DEF IInv, Sound, TypeOK
<1>2. /\ n \in Nat /\ get[g].off \in Nat /\ get[g].obj \in Objects /\ get[g].info \in Stored
      /\ get[g].out \in Seq(Bytes) /\ Len(get[g].out) = n
      /\ client[get[g].conn].Key = get[g].obj /\ object[get[g].obj] = get[g].info
  BY <1>1 DEF TypeOK, Gets, Sound, Locked, Owns
<1>3. \A j \in 1..(n + k) : j > n => b(j) \in Bytes
  BY <1>2 DEF Bytes, Stored
<1>4. \A j \in 1..(n + k) : (IF j <= n THEN get[g].out[j] ELSE b(j)) \in Bytes
  <2> SUFFICES ASSUME NEW j \in 1..(n + k)
               PROVE  (IF j <= n THEN get[g].out[j] ELSE b(j)) \in Bytes
    OBVIOUS
  <2>1. CASE j <= n
    <3>1. j \in 1..Len(get[g].out)
      BY <2>1, <1>2
    <3> QED
      BY <2>1, <3>1, <1>2
  <2>2. CASE ~(j <= n)
    <3>1. j > n
      BY <2>2, <1>2
    <3> QED
      BY <2>2, <3>1, <1>3
  <2> QED
    BY <2>1, <2>2
<1>5. f \in Seq(Bytes) /\ Len(f) = n + k
  <2>1. f \in [1..(n + k) -> Bytes] /\ n + k \in Nat
    BY <1>2, <1>4
  <2> HIDE DEF f
  <2> QED
    BY <2>1, FunctionSeq
<1>6. get' = [get EXCEPT ![g].n = n + k, ![g].out = f]
  <2>1. \A j \in 1..(n + k) : (get[g].off + n) + j - n - 1 = get[g].off + j - 1
    <3>1. \A a, m \in Nat, j \in Int : (a + m) + j - m - 1 = a + j - 1
      OBVIOUS
    <3>2. \A j \in 1..(n + k) : j \in Int
      OBVIOUS
    <3> HIDE DEF n
    <3> QED
      BY <1>2, <3>1, <3>2
  <2>2. f = [j \in 1..(n + k) |->
                IF j <= n THEN get[g].out[j]
                ELSE [obj |-> client[get[g].conn].Key,
                      ver |-> object[client[get[g].conn].Key].ver,
                      pos |-> (get[g].off + n) + j - n - 1]]
    BY <1>2, <2>1
  <2> HIDE DEF f
  <2> QED
    BY <2>2 DEF Deliver
<1> HIDE DEF f
<1>7. get'[g] = [get[g] EXCEPT !.n = n + k, !.out = f] /\ get'[g] \in Gets
  <2>1. get'[g] = [get[g] EXCEPT !.n = n + k, !.out = f]
    BY <1>1, <1>6 DEF TypeOK
  <2>2. n + k \in Nat /\ f \in Seq(Bytes)
    BY <1>2, <1>5
  <2> HIDE DEF n
  <2> QED
    BY <1>1, <2>1, <2>2 DEF Gets
<1>8. get' \in [Readers -> Gets] /\ \A h \in Readers \ {g} : get'[h] = get[h]
  BY <1>1, <1>6, <1>7 DEF TypeOK
<1>9. /\ get'[g].pc = get[g].pc /\ get'[g].obj = get[g].obj /\ get'[g].info = get[g].info
      /\ get'[g].off = get[g].off /\ get'[g].length = get[g].length
      /\ get'[g].conn = get[g].conn /\ get'[g].n = n + k /\ get'[g].out = f
  BY <1>1, <1>7 DEF Gets
<1>10. Exact(g)'
  <2> SUFFICES ASSUME NEW j \in 1..(n + k) PROVE f[j] = b(j)
    BY <1>9 DEF Exact
  <2>1. CASE j <= n
    <3>1. j \in 1..n
      BY <2>1, <1>2
    <3>2. get[g].out[j] = b(j)
      BY <3>1, <1>1 DEF Sound, Exact
    <3> QED
      BY <2>1, <3>2 DEF f
  <2>2. CASE ~(j <= n)
    BY <2>2 DEF f
  <2> QED
    BY <2>1, <2>2
<1> QED
  BY <1>5, <1>7, <1>8, <1>9, <1>10

(* A Read that delivers what comes next, and leaves its Client at the position  *)
(* that belongs to it, keeps the invariant.                                  *)
LEMMA AdvanceInv ==
    ASSUME IInv, NEW g \in Readers, get[g].pc = "read", object' = object, inUsed' = inUsed,
           NEW k \in Nat, get[g].n + k <= get[g].length,
           Deliver(g, get[g].off + get[g].n, k),
           NEW p \in Nat,
           client' = [client EXCEPT ![get[g].conn].NextPartNumber = p],
           Placed(get[g].info.is, get[g].length, get[g].n + k, p)
    PROVE  IInv'
<1>1. TypeOK /\ Sound(g) /\ get[g] \in Gets /\ get[g].conn \in Conns /\ inUsed[get[g].conn]
  BY DEF IInv, Sound, TypeOK, Gets, Owns
<1>2. /\ get' \in [Readers -> Gets] /\ Len(get'[g].out) = get[g].n + k
      /\ Exact(g)'
      /\ \A h \in Readers \ {g} : get'[h] = get[h]
  BY Delivered
<1>3. /\ get'[g].pc = "read" /\ get'[g].obj = get[g].obj /\ get'[g].info = get[g].info
      /\ get'[g].off = get[g].off /\ get'[g].length = get[g].length
      /\ get'[g].conn = get[g].conn /\ get'[g].n = get[g].n + k
  BY Delivered
<1>4. /\ client' \in [Conns -> Clients]
      /\ client'[get[g].conn].NextPartNumber = p
      /\ client'[get[g].conn].Key = client[get[g].conn].Key
      /\ client'[get[g].conn].DataOffset = client[get[g].conn].DataOffset
      /\ \A i \in Conns \ {get[g].conn} : client'[i] = client[i]
  BY <1>1 DEF TypeOK, Clients
<1>5. TypeOK'
  BY <1>1, <1>2, <1>3, <1>4 DEF TypeOK
<1>6. Sound(g)'
  <2>1. Locked(g)' /\ Whole(g)'
    BY <1>1, <1>3 DEF Sound, Locked, Whole
  <2>2. Owns(g)'
    BY <1>1, <1>2, <1>3, <1>4 DEF Sound, Owns
  <2>3. Position(g)'
    BY <1>3, <1>4 DEF Position
  <2> QED
    BY <1>2, <2>1, <2>2, <2>3 DEF Sound
<1>7. ASSUME NEW h \in Readers \ {g} PROVE Sound(h)'
  <2>1. Sound(h) /\ get[h] \in Gets
    BY <1>1 DEF IInv, Sound, TypeOK
  <2>2. get[h].pc = "read" =>
            /\ client'[get[h].conn] = client[get[h].conn]
            /\ inUsed'[get[h].conn]
            /\ \A f \in Readers \ {h} : get'[f].pc = "read" => get'[f].conn # get[h].conn
    <3> SUFFICES ASSUME get[h].pc = "read"
                 PROVE  /\ client'[get[h].conn] = client[get[h].conn]
                        /\ inUsed'[get[h].conn]
                        /\ \A f \in Readers \ {h} :
                              get'[f].pc = "read" => get'[f].conn # get[h].conn
      OBVIOUS
    <3>1. get[h].conn \in Conns \ {get[g].conn} /\ inUsed[get[h].conn]
      BY <1>1, <2>1 DEF Sound, Owns, Gets
    <3>2. ASSUME NEW f \in Readers \ {h}, get'[f].pc = "read"
          PROVE  get'[f].conn # get[h].conn
      <4>1. CASE f = g
        BY <4>1, <1>3, <3>1
      <4>2. CASE f # g
        BY <4>2, <3>2, <1>2, <2>1 DEF Sound, Owns
      <4> QED
        BY <4>1, <4>2
    <3> QED
      BY <3>1, <3>2, <1>4
  <2> QED
    BY <2>1, <2>2, <1>1, <1>2, Frame
<1>8. Rewound'
  BY <1>1, <1>4 DEF IInv, Rewound
<1> QED
  BY <1>5, <1>6, <1>7, <1>8 DEF IInv, Sound

(* Of a part that fits in what is still asked for, CGet returns all. *)
LEMMA WholePart ==
    ASSUME NEW a \in Nat, NEW b \in Nat, NEW s \in Nat, a < b, b <= s,
           NEW k \in CGet(b - a, 0, s - a)
    PROVE  k \in Nat /\ a + k = b
<1>1. b - a \in Nat /\ s - a \in Nat /\ s - a >= b - a
  OBVIOUS
<1>2. (IF s - a > b - a THEN b - a ELSE s - a) = b - a
  BY <1>1
<1>3. k = b - a
  BY <1>1, <1>2 DEF CGet
<1> QED
  BY <1>1, <1>3

(* After part p the Client is at the next one, or at the first after the last. *)
LEMMA NextPlaced ==
    ASSUME NEW c \in Contents, ~Simple(c), NEW p \in Nat, p < Parts(c), NEW length
    PROVE  /\ NextPart(p, Parts(c)) \in Nat
           /\ Placed(c, length, c.cuts[p + 2], NextPart(p, Parts(c)))
<1>1. Parts(c) \in Nat /\ (p = Parts(c) - 1 => c.cuts[p + 2] = c.size)
  BY PartBounds
<1>2. CASE p = Parts(c) - 1
  BY <1>1, <1>2 DEF NextPart, Placed
<1>3. CASE p # Parts(c) - 1
  <2>1. NextPart(p, Parts(c)) = p + 1 /\ p + 1 < Parts(c) /\ (p + 1) + 1 = p + 2
    BY <1>1, <1>3 DEF NextPart
  <2> QED
    BY <2>1 DEF Placed
<1> QED
  BY <1>2, <1>3

(* Client.Read gets the metadata the GET began with, and the bytes after those   *)
(* already sent; it meets neither an error nor the end of the parts.           *)
LEMMA ReadInv ==
    ASSUME IInv, NEW g \in Readers, Read(g)
    PROVE  IInv'
<1> DEFINE c == get[g].info.is
           i == get[g].conn
           p == client[i].NextPartNumber
           req == get[g].length - get[g].n
<1>1. TypeOK /\ Sound(g) /\ get[g] \in Gets
  BY DEF IInv, Sound, TypeOK
<1>2. /\ get[g].pc = "read" /\ get[g].n < get[g].length /\ object' = object
      /\ i \in Conns /\ get[g].n \in Nat /\ get[g].length \in Nat /\ get[g].off \in Nat
      /\ client[i] \in Clients /\ p \in Nat
  BY <1>1 DEF Read, TypeOK, Gets, Clients
<1>3. /\ client[i].Key = get[g].obj /\ client[i].DataOffset = get[g].off
      /\ object[get[g].obj] = get[g].info /\ get[g].info \in Stored /\ get[g].info # None
      /\ get[g].off + get[g].length <= c.size
  BY <1>1, <1>2, ReadersAssumption DEF Sound, Owns, Locked, Stored
<1>4. c \in Contents /\ c.size \in Nat /\ req \in Nat
  BY <1>2, <1>3, ContentsType DEF Stored
<1>5. CASE Simple(c)
  <2>1. get[g].n = 0 /\ p = 0
    BY <1>1, <1>2, <1>5 DEF Sound, Position, Placed
  <2>2. ReadSimple(g, c)
    BY <1>2, <1>3, <1>5 DEF Read
  <2>3. PICK k \in CGet(c.size, get[g].off, req) :
            /\ IF k < 0 THEN Leave(g)
               ELSE Deliver(g, get[g].off, k) /\ UNCHANGED inUsed
            /\ UNCHANGED client
    BY <1>3, <2>2 DEF ReadSimple
  <2>4. k = get[g].length
    <3>1. req = get[g].length /\ ~(req > c.size)
      BY <1>2, <1>3, <1>4, <2>1
    <3> QED
      BY <1>2, <1>3, <1>4, <3>1, CGetExact
  <2>5. Deliver(g, get[g].off + get[g].n, k) /\ inUsed' = inUsed
    <3>1. get[g].off + get[g].n = get[g].off /\ ~(k < 0)
      BY <1>2, <2>1, <2>4
    <3> QED
      BY <2>3, <3>1
  <2>6. client' = [client EXCEPT ![get[g].conn].NextPartNumber = 0]
    BY <1>1, <1>2, <2>1, <2>3 DEF TypeOK, Clients
  <2>7. get[g].n + k = get[g].length
    BY <1>2, <2>1, <2>4
  <2>8. Placed(get[g].info.is, get[g].length, get[g].n + k, 0)
    BY <1>5, <2>7 DEF Placed
  <2>9. get[g].n + k <= get[g].length /\ k \in Nat /\ 0 \in Nat
    BY <1>2, <2>4, <2>7
  <2> QED
    BY <1>2, <2>5, <2>6, <2>8, <2>9, AdvanceInv
<1>6. CASE ~Simple(c)
  <2>1. /\ get[g].off = 0 /\ get[g].length = c.size
        /\ p < Parts(c)
        /\ get[g].n = c.cuts[p + 1]
    <3>1. get[g].off = 0 /\ get[g].length = c.size
      BY <1>1, <1>2, <1>6 DEF Sound, Whole
    <3>2. Placed(c, get[g].length, get[g].n, p)
      BY <1>1, <1>2 DEF Sound, Position
    <3>3. p < Parts(c) /\ (get[g].n = c.cuts[p + 1] \/ get[g].n = c.size)
      BY <1>6, <3>2, Zenon DEF Placed
    <3>4. get[g].n # c.size
      BY <1>2, <3>1
    <3> QED
      BY <3>1, <3>3, <3>4, Zenon
  <2>2. /\ Parts(c) \in Nat
        /\ c.cuts[p + 1] \in Nat /\ c.cuts[p + 2] \in Nat
        /\ c.cuts[p + 1] < c.cuts[p + 2] /\ c.cuts[p + 2] <= c.size
        /\ p = Parts(c) - 1 => c.cuts[p + 2] = c.size
    BY <1>2, <1>4, <1>6, <2>1, PartBounds
  <2>3. ReadPart(g, c)
    BY <1>2, <1>3, <1>6 DEF Read
  <2>4. PICK k \in CGet(c.cuts[p + 2] - c.cuts[p + 1], get[g].off, req) :
            IF k < 0 THEN Leave(g) /\ UNCHANGED client
            ELSE /\ Deliver(g, c.cuts[p + 1] + get[g].off, k)
                 /\ client' = [client EXCEPT ![i].NextPartNumber = NextPart(p, Parts(c))]
                 /\ UNCHANGED inUsed
    <3>1. ~(p >= Parts(c))
      <4>1. \A x, y \in Nat : x < y => ~(x >= y)
        OBVIOUS
      <4>2. p \in Nat /\ p < Parts(c) /\ Parts(c) \in Nat
        BY <1>2, <2>1, <2>2
      <4> HIDE DEF p, c
      <4> QED
        BY <4>1, <4>2
    <3> QED
      BY <1>3, <2>3, <3>1 DEF ReadPart
  <2>5. k \in CGet(c.cuts[p + 2] - c.cuts[p + 1], 0, c.size - c.cuts[p + 1])
    BY <2>1, <2>4
  <2>6. k \in Nat /\ c.cuts[p + 1] + k = c.cuts[p + 2]
    <3>1. PICK a \in Nat, b \in Nat, s \in Nat : a = c.cuts[p + 1] /\ b = c.cuts[p + 2] /\ s = c.size
      BY <1>4, <2>2
    <3>2. a < b /\ b <= s /\ k \in CGet(b - a, 0, s - a)
      BY <2>2, <2>5, <3>1
    <3>3. k \in Nat /\ a + k = b
      BY <3>2, WholePart
    <3> QED
      BY <3>1, <3>3
  <2>7. get[g].n + k = c.cuts[p + 2] /\ get[g].n + k <= get[g].length
    BY <2>1, <2>2, <2>6
  <2>8. /\ Deliver(g, get[g].off + get[g].n, k) /\ inUsed' = inUsed
        /\ client' = [client EXCEPT ![i].NextPartNumber = NextPart(p, Parts(c))]
    <3>1. get[g].off + get[g].n = c.cuts[p + 1] + get[g].off
      <4>1. \A a \in Nat : 0 + a = a + 0
        OBVIOUS
      <4> QED
        BY <4>1, <2>1, <2>2
    <3>2. ~(k < 0)
      <4>1. \A x \in Nat : ~(x < 0)
        OBVIOUS
      <4> QED
        BY <4>1, <2>6, Zenon
    <3> QED
      BY <2>4, <3>1, <3>2
  <2>9. NextPart(p, Parts(c)) \in Nat /\ Placed(c, get[g].length, c.cuts[p + 2], NextPart(p, Parts(c)))
    BY <1>2, <1>4, <1>6, <2>1, <2>2, NextPlaced
  <2> QED
    BY <1>2, <2>6, <2>7, <2>8, <2>9, AdvanceInv
<1> QED
  BY <1>5, <1>6

(* A GET that has sent all or nothing, or whose object is simple, leaves its     *)
(* Client at the first part.                                                 *)
LEMMA AtFirstPart ==
    ASSUME IInv, NEW g \in Readers, get[g].pc = "read",
           Simple(get[g].info.is) \/ get[g].n >= get[g].length \/ get[g].n = 0
    PROVE  client[get[g].conn].NextPartNumber = 0
<1> DEFINE c == get[g].info.is
           p == client[get[g].conn].NextPartNumber
<1>1. /\ TypeOK /\ get[g] \in Gets /\ get[g].conn \in Conns /\ get[g].info \in Stored
      /\ p \in Nat /\ get[g].n \in Nat
      /\ Placed(c, get[g].length, get[g].n, p)
      /\ ~Simple(c) => get[g].length = c.size
  BY DEF IInv, TypeOK, Gets, Clients, Locked, Position, Whole
<1>2. c \in Contents
  BY <1>1 DEF Stored
<1>3. CASE Simple(c)
  BY <1>1, <1>3 DEF Placed
<1>4. CASE ~Simple(c) /\ get[g].n = 0
  <2>1. p < Parts(c) /\ (c.cuts[p + 1] = 0 \/ p = 0)
    BY <1>1, <1>4 DEF Placed
  <2>2. c.cuts[1] = 0 /\ Len(c.cuts) \in Nat
        /\ \A j, k \in 1..Len(c.cuts) : j < k => c.cuts[j] < c.cuts[k]
    BY <1>2, <1>4, ContentsType, ContentsAssumption DEF WellCut, Simple
  <2>3. SUFFICES ASSUME p # 0 PROVE FALSE
    OBVIOUS
  <2>4. 1 \in 1..Len(c.cuts) /\ p + 1 \in 1..Len(c.cuts) /\ 1 < p + 1
    <3>1. PICK q \in Nat, l \in Nat : q = p /\ l = Len(c.cuts)
      BY <1>1, <2>2
    <3>2. q < l - 1 /\ q # 0
      BY <2>1, <2>3, <3>1 DEF Parts
    <3>3. 1 \in 1..l /\ q + 1 \in 1..l /\ 1 < q + 1
      BY <3>2
    <3> QED
      BY <3>1, <3>3
  <2>5. c.cuts[1] < c.cuts[p + 1]
    BY <2>2, <2>4
  <2>6. c.cuts[p + 1] = 0
    BY <2>1, <2>3
  <2>7. 0 < 0
    <3> HIDE DEF c, p
    <3> QED
      BY <2>2, <2>5, <2>6
  <2> QED
    BY <2>7
<1>5. CASE ~Simple(c) /\ get[g].n # 0
  <2>1. get[g].n >= c.size /\ p < Parts(c)
    BY <1>1, <1>5 DEF Placed
  <2>2. PICK a \in Nat, b \in Nat, s \in Nat :
            a = c.cuts[p + 1] /\ b = c.cuts[p + 2] /\ s = c.size /\ a < b /\ b <= s
    <3>1. c.size \in Nat
      BY <1>2, ContentsType
    <3>2. /\ c.cuts[p + 1] \in Nat /\ c.cuts[p + 2] \in Nat
          /\ c.cuts[p + 1] < c.cuts[p + 2] /\ c.cuts[p + 2] <= c.size
      BY <1>1, <1>2, <1>5, <2>1, PartBounds
    <3> QED
      BY <3>1, <3>2
  <2>3. PICK n \in Nat : n = get[g].n
    BY <1>1
  <2>4. n >= s /\ (n = a \/ p = 0)
    BY <1>1, <1>5, <2>1, <2>2, <2>3 DEF Placed
  <2>5. n # a
    <3>1. a < b /\ b <= s /\ n >= s
      BY <2>2, <2>4
    <3> QED
      BY <3>1
  <2> QED
    BY <2>4, <2>5
<1> QED
  BY <1>3, <1>4, <1>5

(* The end of a GET. *)
LEMMA CloseInv ==
    ASSUME IInv, ~Disconnects, NEW g \in Readers, Close(g) \/ Refuse(g) \/ Disconnect(g)
    PROVE  IInv'
<1>1. /\ get[g].pc = "read" /\ Leave(g) /\ UNCHANGED <<object, client>>
      /\ Simple(get[g].info.is) \/ get[g].n >= get[g].length \/ get[g].n = 0
  BY DEF Close, Refuse, Disconnect
<1> QED
  BY <1>1, AtFirstPart, LeaveInv

(* If objects with parts are read as a whole and to the end, every step keeps    *)
(* the invariant.                                                           *)
THEOREM Inductive ==
    ASSUME ~Ranges, ~Disconnects
    PROVE  IInv /\ [Next]_vars => IInv'
<1> SUFFICES ASSUME IInv, [Next]_vars PROVE IInv'
  OBVIOUS
<1>1. ASSUME NEW o \in Objects, Write(o) PROVE IInv'
  BY <1>1, WriteInv
<1>2. ASSUME NEW g \in Readers, NEW o \in Objects, GetObjectInfo(g, o) PROVE IInv'
  BY <1>2, GetObjectInfoInv
<1>3. ASSUME NEW g \in Readers, Step(g) PROVE IInv'
  BY <1>3, OpenInv, ReadInv, CloseInv DEF Step
<1>4. ASSUME NEW g \in Readers, Refuse(g) \/ Disconnect(g) PROVE IInv'
  BY <1>4, CloseInv
<1>5. CASE UNCHANGED vars
  <2>1. TypeOK' /\ Rewound'
    BY <1>5 DEF IInv, vars, TypeOK, Rewound
  <2>2. ASSUME NEW h \in Readers PROVE Sound(h)'
    BY <1>5 DEF IInv, Sound, vars, Locked, Owns, Whole, Position, Placed, Exact
  <2> QED
    BY <2>1, <2>2 DEF IInv, Sound
<1> QED
  BY <1>1, <1>2, <1>3, <1>4, <1>5 DEF Next

(* No GET sends more bytes than its Content-Length, and what the Clients keep    *)
(* from one GET to the next has its type, if objects with parts are read as a    *)
(* whole and to the end.                                                     *)
THEOREM TypeCorrect ==
    ASSUME ~Ranges, ~Disconnects
    PROVE  Spec => []TypeOK
<1>1. IInv => TypeOK
  BY DEF IInv
<1>2. IInv /\ [Next]_vars => IInv'
  BY Inductive
<1> QED
  BY <1>1, <1>2, InitInv, PTL DEF Spec

(* GetObjectHandler sends the bytes it was asked for: for any number of          *)
(* concurrent GETs on any number of pooled Clients, and any sizes of parts, if   *)
(* objects with parts are read as a whole and to the end; simple objects may be  *)
(* read in ranges and left at any time.                                       *)
THEOREM GetsExact ==
    ASSUME ~Ranges, ~Disconnects
    PROVE  Spec => []GetExact
<1>1. IInv => GetExact
  BY DEF IInv, GetExact, Exact
<1>2. IInv /\ [Next]_vars => IInv'
  BY Inductive
<1> QED
  BY <1>1, <1>2, InitInv, PTL DEF Spec
=============================================================================
