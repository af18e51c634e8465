-------------------------- MODULE MultipartProofs --------------------------
(***************************************************************************)
(* What the critical section of CompleteMultipartUpload guarantees, for      *)
(* every number of workers, uploads and parts, whatever else the clients do. *)
(* At the end, what a request relies on at each point of its program (Stage), *)
(* with what keeps it true while others work, and that the steps that only    *)
(* read leave it so.                                                       *)
(***************************************************************************)
EXTENDS Multipart, TLAPS

(* A program commits only right after it has taken the json key, and deletes  *)
(* the metadata only right after the parts.                                  *)
Shape(t) ==
    \A i \in 1..Len(t) :
        /\ t[i] = "commit" => i = 1 \/ t[i-1] = "takeJson"
        /\ t[i] = "deleteMeta" => i = 1 \/ t[i-1] = "deleteParts"
Commits(t) == \E i \in 1..Len(t) : t[i] \in {"takeJson", "commit"}
Names(t) == \E i \in 1..Len(t) : t[i] \in {"putPart", "dropJson", "takeJson", "commit"}
Holding(t) == t # <<>> /\ Head(t) \in {"commit", "deleteMeta"}

Fresh(t) == t \in Seq(Steps) /\ Shape(t) /\ ~Holding(t)

(* Programs are put together from blocks that end outside critical sections. *)
LEMMA Blocks ==
    ASSUME NEW s, NEW t, Fresh(s), Fresh(t)
    PROVE  /\ Fresh(s \o t)
           /\ ~Commits(s) /\ ~Commits(t) => ~Commits(s \o t)
           /\ ~Names(s) /\ ~Names(t) => ~Names(s \o t)
<1>1. /\ s \in Seq(Steps) /\ t \in Seq(Steps) /\ s \o t \in Seq(Steps)
      /\ Len(s) \in Nat /\ Len(t) \in Nat
      /\ Len(s \o t) = Len(s) + Len(t)
      /\ \A i \in 1..Len(s) + Len(t) :
            (s \o t)[i] = IF i <= Len(s) THEN s[i] ELSE t[i - Len(s)]
  BY DEF Fresh
<1>2. /\ \A r \in Seq(Steps) : r # <<>> => Len(r) >= 1 /\ Head(r) = r[1]
      /\ \A r \in Seq(Steps) : Len(r) >= 1 => r # <<>>
  OBVIOUS
<1>3. Len(t) >= 1 => t[1] \notin {"commit", "deleteMeta"}
  BY <1>1, <1>2 DEF Fresh, Holding
<1>4. Shape(s \o t)
  <2> SUFFICES ASSUME NEW i \in 1..Len(s \o t)
               PROVE  /\ (s \o t)[i] = "commit" => i = 1 \/ (s \o t)[i-1] = "takeJson"
                      /\ (s \o t)[i] = "deleteMeta" => i = 1 \/ (s \o t)[i-1] = "deleteParts"
    BY DEF Shape
  <2>1. CASE i <= Len(s)
    BY <2>1, <1>1 DEF Fresh, Shape
  <2>2. CASE i = Len(s) + 1
    BY <2>2, <1>1, <1>3
  <2>3. CASE i > Len(s) + 1
    <3>1. i - Len(s) \in 1..Len(t) /\ i - Len(s) # 1 /\ i - 1 \in 1..Len(s) + Len(t)
      BY <2>3, <1>1
    <3>2. (s \o t)[i] = t[i - Len(s)] /\ (s \o t)[i-1] = t[(i - Len(s)) - 1]
      BY <2>3, <3>1, <1>1
    <3> QED
      BY <3>1, <3>2 DEF Fresh, Shape
  <2> QED
    BY <2>1, <2>2, <2>3, <1>1
<1>5. ~Holding(s \o t)
  BY <1>1, <1>2, <1>3 DEF Fresh, Holding
<1>6. ~Commits(s) /\ ~Commits(t) => ~Commits(s \o t)
  <2> SUFFICES ASSUME ~Commits(s), ~Commits(t), NEW i \in 1..Len(s \o t)
               PROVE  (s \o t)[i] \notin {"takeJson", "commit"}
    BY DEF Commits
  <2>1. CASE i <= Len(s)
    BY <2>1, <1>1 DEF Commits
  <2>2. CASE i > Len(s)
    <3>1. i - Len(s) \in 1..Len(t)
      BY <2>2, <1>1
    <3> QED
      BY <2>2, <3>1, <1>1 DEF Commits
  <2> QED
    BY <2>1, <2>2, <1>1
<1>7. ~Names(s) /\ ~Names(t) => ~Names(s \o t)
  <2> SUFFICES ASSUME ~Names(s), ~Names(t), NEW i \in 1..Len(s \o t)
               PROVE  (s \o t)[i] \notin {"putPart", "dropJson", "takeJson", "commit"}
    BY DEF Names
  <2>1. CASE i <= Len(s)
    BY <2>1, <1>1 DEF Names
  <2>2. CASE i > Len(s)
    <3>1. i - Len(s) \in 1..Len(t)
      BY <2>2, <1>1
    <3> QED
      BY <2>2, <3>1, <1>1 DEF Names
  <2> QED
    BY <2>1, <2>2, <1>1
<1> QED
  BY <1>1, <1>4, <1>5, <1>6, <1>7 DEF Fresh

(* The programs of all requests start outside their critical sections, and    *)
(* only that of Complete commits.                                            *)
LEMMA Programs ==
    /\ Fresh(CompleteMultipartUploadHandler)
    /\ Fresh(PutObjectPartHandler) /\ ~Commits(PutObjectPartHandler)
    /\ Fresh(AbortMultipartUpload) /\ ~Commits(AbortMultipartUpload)
    /\ Fresh(PutObject) /\ ~Names(PutObject)
    /\ Fresh(DeleteObject) /\ ~Names(DeleteObject)
    /\ Fresh(CopyObject) /\ ~Names(CopyObject)
    /\ Fresh(deletePartsCurrent) /\ ~Names(deletePartsCurrent)
    /\ Fresh(deletePartsNext \o <<"unlock">>) /\ ~Names(deletePartsNext \o <<"unlock">>)
    /\ Fresh(deletePartsNext) /\ ~Names(deletePartsNext)
    /\ Fresh(CopyToItself) /\ ~Names(CopyToItself)
    /\ Fresh(CopySimpleToItself) /\ ~Names(CopySimpleToItself)
    /\ Fresh(<<"unlock">>) /\ ~Names(<<"unlock">>)
    /\ Fresh(<<"return">>) /\ ~Names(<<"return">>)
    /\ Fresh(<<>>) /\ ~Names(<<>>)
<1> USE DEF Fresh, Shape, Commits, Names, Holding, Steps
<1>1. Fresh(listObjectParts) /\ ~Commits(listObjectParts)
  BY DEF listObjectParts
<1>2. Fresh(deletePartsCurrent) /\ ~Names(deletePartsCurrent)
  BY DEF deletePartsCurrent
<1>3. Fresh(deletePartsNext) /\ ~Names(deletePartsNext)
  BY DEF deletePartsNext
<1>4. Fresh(<<"version", "rangeNext", "validate", "takeJson", "commit">>)
  OBVIOUS
<1>5. Fresh(<<"version", "putPart">>) /\ ~Commits(<<"version", "putPart">>)
  OBVIOUS
<1>0. ~Commits(deletePartsNext) /\ ~Commits(<<"return">>)
  BY DEF deletePartsNext
<1>6. Fresh(<<"dropJson", "version">>) /\ ~Commits(<<"dropJson", "version">>)
  OBVIOUS
<1>7. /\ Fresh(<<"lock", "version", "copyParts", "putCopy">>)
      /\ ~Names(<<"lock", "version", "copyParts", "putCopy">>)
  OBVIOUS
<1>a. /\ Fresh(<<"source", "version", "copyParts", "putCopy">>)
      /\ ~Names(<<"source", "version", "copyParts", "putCopy">>)
  OBVIOUS
<1>b. Fresh(CopySimpleToItself) /\ ~Names(CopySimpleToItself)
  BY DEF CopySimpleToItself
<1>8. /\ Fresh(<<"unlock">>) /\ ~Names(<<"unlock">>)
      /\ Fresh(<<"return">>) /\ ~Names(<<"return">>)
      /\ Fresh(<<>>) /\ ~Names(<<>>)
  OBVIOUS
<1>9. Fresh(PutObject) /\ ~Names(PutObject)
  BY DEF PutObject
<1>10. Fresh(DeleteObject) /\ ~Names(DeleteObject)
  BY DEF DeleteObject
<1> HIDE DEF Fresh, Shape, Commits, Names, Holding, Steps
<1>11. Fresh(CompleteMultipartUploadHandler)
  BY <1>1, <1>4, Blocks DEF CompleteMultipartUploadHandler
<1>12. Fresh(PutObjectPartHandler) /\ ~Commits(PutObjectPartHandler)
  BY <1>1, <1>5, Blocks DEF PutObjectPartHandler
<1>13. Fresh(AbortMultipartUpload) /\ ~Commits(AbortMultipartUpload)
  BY <1>0, <1>3, <1>6, <1>8, Blocks DEF AbortMultipartUpload
<1>14. Fresh(CopyObject) /\ ~Names(CopyObject)
  BY <1>2, <1>7, <1>8, Blocks DEF CopyObject
<1>15. Fresh(deletePartsNext \o <<"unlock">>) /\ ~Names(deletePartsNext \o <<"unlock">>)
  BY <1>3, <1>8, Blocks
<1>16. Fresh(CopyToItself) /\ ~Names(CopyToItself)
  BY <1>2, <1>a, Blocks DEF CopyToItself
<1> QED
  BY <1>2, <1>3, <1>8, <1>9, <1>10, <1>11, <1>12, <1>13, <1>14, <1>15, <1>16, <1>b

(* What a step leaves of a program. *)
LEMMA TailShape ==
    ASSUME NEW t \in Seq(Steps), t # <<>>, Shape(t)
    PROVE  /\ Tail(t) \in Seq(Steps)
           /\ Shape(Tail(t))
           /\ Commits(Tail(t)) => Commits(t)
           /\ Names(Tail(t)) => Names(t)
           /\ Head(t) \in {"takeJson", "commit"} => Commits(t)
           /\ Head(t) \in {"putPart", "dropJson", "takeJson", "commit"} => Names(t)
           /\ Head(t) \notin {"takeJson", "deleteParts"} => ~Holding(Tail(t))
           /\ Tail(t) # <<>> /\ Head(Tail(t)) = "commit" => Head(t) = "takeJson"
<1>1. /\ Tail(t) \in Seq(Steps) /\ Len(Tail(t)) = Len(t) - 1
      /\ \A i \in 1..Len(Tail(t)) : Tail(t)[i] = t[i+1]
      /\ Len(t) \in Nat \ {0} /\ Head(t) = t[1]
      /\ Tail(t) # <<>> => Len(t) >= 2 /\ Head(Tail(t)) = t[2]
  OBVIOUS
<1>2. Shape(Tail(t))
  BY <1>1 DEF Shape
<1>3. Commits(Tail(t)) => Commits(t)
  BY <1>1 DEF Commits
<1>6. Names(Tail(t)) => Names(t)
  BY <1>1 DEF Names
<1>7. Head(t) \in {"putPart", "dropJson", "takeJson", "commit"} => Names(t)
  BY <1>1 DEF Names
<1>4. Head(t) \in {"takeJson", "commit"} => Commits(t)
  BY <1>1 DEF Commits
<1>5. Tail(t) # <<>> =>
          /\ t[2] = "commit" => t[1] = "takeJson"
          /\ t[2] = "deleteMeta" => t[1] = "deleteParts"
  BY <1>1 DEF Shape
<1> QED
  BY <1>1, <1>2, <1>3, <1>4, <1>5, <1>6, <1>7 DEF Holding
-----------------------------------------------------------------------------
UploadOps == {"part", "complete", "abort"}

(* What each request is about, and what it holds. *)
RequestInv(w) ==
    /\ Shape(loc[w].todo)
    /\ loc[w].op \in UploadOps => loc[w].up \in Uploads
    /\ Names(loc[w].todo) => loc[w].op \in UploadOps
    /\ Commits(loc[w].todo) => acked[loc[w].up] # {}
    /\ Holding(loc[w].todo) => mutex = w
    /\ At(w, "commit") => loc[w].up \notin aborted

(* The json key of an upload is there until the upload is committed or aborted, *)
(* unless the store fails to delete it.                                     *)
Taken ==
    "delete" \notin MayFail =>
        /\ \A u \in Uploads : commits[u] <= 1 /\ (u \in json => commits[u] = 0)
        /\ \A w \in Workers :
            At(w, "commit") => commits[loc[w].up] = 0 /\ loc[w].up \notin json

IInv ==
    /\ TypeOK
    /\ \A w \in Workers : RequestInv(w)
    /\ json \cap aborted = {}
    /\ Taken

(* One request has gone on, and is outside its critical section. *)
Moved(w) ==
    /\ loc' \in [Workers -> Requests]
    /\ \A v \in Workers \ {w} : loc'[v] = loc[v]
    /\ Shape(loc'[w].todo)
    /\ loc'[w].op \in UploadOps => loc'[w].up \in Uploads
    /\ Names(loc'[w].todo) => loc'[w].op \in UploadOps
    /\ Commits(loc'[w].todo) => Commits(loc[w].todo) /\ loc'[w].up = loc[w].up

(* The request of an idle worker is a request with nothing left to do. *)
LEMMA IdleRequest == Idle \in Requests /\ Idle.todo = <<>> /\ Idle.op \notin UploadOps
<1>1. 0 \in Versions
  BY BoundsAssumption DEF Versions
<1>2. <<>> \in Seq(Steps)
  OBVIOUS
<1> QED
  BY <1>1, <1>2 DEF Idle, Requests, Operations, UploadOps

(* Nothing left to do is a well-formed rest that neither commits nor names an upload. *)
LEMMA EmptyProgram == Shape(<<>>) /\ ~Commits(<<>>) /\ ~Names(<<>>) /\ ~Holding(<<>>)
BY DEF Shape, Commits, Names, Holding

(* A request that has done a step. *)
LEMMA Continued ==
    ASSUME IInv, NEW w \in Workers, NEW l \in Requests, loc[w].todo # <<>>,
           l.todo = loc[w].todo, l.up = loc[w].up, l.op = loc[w].op,
           Continue(w, l)
    PROVE  /\ Moved(w)
           /\ loc'[w].todo = Tail(loc[w].todo)
           /\ loc'[w].todo # <<>> => loc'[w].up = loc[w].up
<1> DEFINE m == [l EXCEPT !.todo = Tail(@)]
<1>0. loc \in [Workers -> Requests] /\ RequestInv(w)
  BY DEF IInv, TypeOK
<1>1. /\ loc[w].todo \in Seq(Steps) /\ Tail(loc[w].todo) \in Seq(Steps)
      /\ Shape(Tail(loc[w].todo))
      /\ Commits(Tail(loc[w].todo)) => Commits(loc[w].todo)
      /\ Names(Tail(loc[w].todo)) => Names(loc[w].todo)
  BY <1>0, TailShape DEF RequestInv, Requests
<1>2. /\ m \in Requests
      /\ m.todo = Tail(loc[w].todo) /\ m.up = loc[w].up /\ m.op = loc[w].op
  BY <1>1, Zenon DEF Requests
<1>3. loc' = [loc EXCEPT ![w] = Done(m)]
  BY DEF Continue
<1>4. CASE m.todo = <<>>
  <2>1. loc'[w] = Idle /\ loc' \in [Workers -> Requests]
    BY <1>0, <1>3, <1>4, IdleRequest DEF Done
  <2> QED
    BY <1>0, <1>2, <1>3, <1>4, <2>1, IdleRequest, EmptyProgram, Zenon DEF Moved
<1>5. CASE m.todo # <<>>
  <2>1. loc'[w] = m /\ loc' \in [Workers -> Requests]
    BY <1>0, <1>2, <1>3, <1>5 DEF Done
  <2> HIDE DEF m
  <2> QED
    BY <1>0, <1>1, <1>2, <1>3, <2>1 DEF Moved, RequestInv
<1> QED
  BY <1>4, <1>5

(* A request that goes on with a program of its own. *)
LEMMA WentTo ==
    ASSUME IInv, NEW w \in Workers, NEW o \in Operations, NEW t,
           Fresh(t), ~Commits(t),
           Names(t) => o \in UploadOps, o \in UploadOps => loc[w].up \in Uploads,
           Goto(w, o, t)
    PROVE  Moved(w) /\ loc'[w].todo = t
<1> DEFINE m == [loc[w] EXCEPT !.op = o, !.todo = t]
<1>0. loc \in [Workers -> Requests] /\ t \in Seq(Steps) /\ Shape(t)
  BY DEF IInv, TypeOK, Fresh
<1>2. m \in Requests /\ m.todo = t /\ m.up = loc[w].up /\ m.op = o
  BY <1>0, Zenon DEF Requests
<1>3. loc' = [loc EXCEPT ![w] = Done(m)]
  BY <1>0 DEF Goto
<1>4. CASE m.todo = <<>>
  <2>1. loc'[w] = Idle /\ loc' \in [Workers -> Requests]
    BY <1>0, <1>3, <1>4, IdleRequest DEF Done
  <2> QED
    BY <1>0, <1>2, <1>3, <1>4, <2>1, IdleRequest, EmptyProgram DEF Moved
<1>5. CASE m.todo # <<>>
  <2>1. loc'[w] = m /\ loc' \in [Workers -> Requests]
    BY <1>0, <1>2, <1>3, <1>5 DEF Done
  <2> HIDE DEF m
  <2> QED
    BY <1>0, <1>2, <1>3, <2>1 DEF Moved
<1> QED
  BY <1>4, <1>5

(* Where Fail sends a request: to a well-formed rest that does not commit. *)
LEMMA Failed ==
    ASSUME IInv, NEW w \in Workers, Fail(w)
    PROVE  Moved(w) /\ ~Holding(loc'[w].todo)
<1>0. loc[w] \in Requests /\ RequestInv(w)
  BY DEF IInv, TypeOK
<1>1. CASE loc[w].op = "part"
  BY <1>0, <1>1, Programs, WentTo, Zenon DEF Fail, RequestInv, UploadOps, Operations, Fresh
<1>2. CASE loc[w].op = "copy"
  <2>1. Goto(w, "copyFailed", deletePartsNext \o <<"unlock">>)
    BY <1>2 DEF Fail
  <2>2. ~Commits(deletePartsNext \o <<"unlock">>)
    BY Programs DEF Names, Commits
  <2> QED
    BY <2>1, <2>2, Programs, WentTo, Zenon DEF UploadOps, Operations, Fresh
<1>3. CASE loc[w].op \in {"put", "remove"}
  <2>1. Goto(w, loc[w].op, <<"unlock">>)
    BY <1>3 DEF Fail
  <2>2. ~Commits(<<"unlock">>)
    BY Programs DEF Names, Commits
  <2> QED
    BY <1>3, <2>1, <2>2, Programs, WentTo, Zenon DEF UploadOps, Operations, Fresh
<1>4. CASE loc[w].op = "selfCopy"
  <2>1. Goto(w, "selfFailed", deletePartsNext)
    BY <1>4 DEF Fail
  <2>2. ~Commits(deletePartsNext)
    BY Programs DEF Names, Commits
  <2> QED
    BY <2>1, <2>2, Programs, WentTo, Zenon DEF UploadOps, Operations, SelfCopies, Fresh
<1>5. CASE loc[w].op \notin {"part", "copy", "selfCopy", "put", "remove"}
  <2>1. Goto(w, "idle", <<>>)
    BY <1>5 DEF Fail
  <2> QED
    BY <2>1, Programs, EmptyProgram, WentTo, Zenon DEF UploadOps, Operations, Fresh
<1> QED
  BY <1>1, <1>2, <1>3, <1>4, <1>5

(* Where an error of deleteParts sends a request. *)
LEMMA PartsError ==
    ASSUME IInv, NEW w \in Workers, deletePartsError(w)
    PROVE  Moved(w) /\ ~Holding(loc'[w].todo)
<1>0. loc[w] \in Requests /\ RequestInv(w)
  BY DEF IInv, TypeOK
<1>1. PICK t \in {<<"unlock">>, <<"return">>, <<>>} : Goto(w, loc[w].op, t)
  BY DEF deletePartsError
<1>2. Fresh(t) /\ ~Names(t) /\ ~Commits(t)
  BY Programs DEF Names, Commits
<1> QED
  BY <1>0, <1>1, <1>2, WentTo DEF RequestInv, Requests, Fresh

(* newVersion yields a version, and never the empty one. *)
LEMMA NewVersionType == \A v \in Versions : newVersion(v) \in Versions \ {0}
<1> SUFFICES ASSUME NEW v \in Versions
             PROVE  newVersion(v) \in Versions \ {0}
  OBVIOUS
<1>1. MaxVersion \in Nat \ {0} /\ v + 1 \in Nat /\ MaxVersion + 1 \in Nat \ {0}
  BY BoundsAssumption DEF Versions
<1>2. (v + 1) % (MaxVersion + 1) \in 0..MaxVersion
  BY <1>1
<1> QED
  BY <1>1, <1>2 DEF newVersion, Versions

(* A rest that commits names an upload. *)
LEMMA NamesCommits == \A t : Commits(t) => Names(t)
BY DEF Commits, Names

(* What other requests hold and have read stays true. *)
LEMMA Others ==
    ASSUME IInv, NEW w \in Workers, Moved(w),
           \A u \in Uploads : acked[u] # {} => acked'[u] # {},
           Holding(loc'[w].todo) => mutex' = w,
           mutex' = mutex \/ mutex = None \/ mutex = w,
           aborted' = aborted \/ mutex = None,
           At(w, "commit")' => loc'[w].up \notin aborted'
    PROVE  \A v \in Workers : RequestInv(v)'
<1>0. /\ \A v \in Workers : RequestInv(v)
      /\ None \notin Workers
  BY OptionsAssumption DEF IInv
<1>1. RequestInv(w)'
  <2>1. Commits(loc'[w].todo) => acked'[loc'[w].up] # {}
    <3> HAVE Commits(loc'[w].todo)
    <3>1. Commits(loc[w].todo) /\ loc'[w].up = loc[w].up
      BY DEF Moved
    <3>2. loc[w].up \in Uploads /\ acked[loc[w].up] # {}
      BY <1>0, <3>1, NamesCommits DEF RequestInv
    <3> QED
      BY <3>1, <3>2
  <2> QED
    BY <2>1 DEF Moved, RequestInv
<1>2. ASSUME NEW v \in Workers \ {w}
      PROVE  RequestInv(v)'
  <2>1. loc'[v] = loc[v] /\ RequestInv(v)
    BY <1>0 DEF Moved
  <2>2. Commits(loc[v].todo) => acked'[loc[v].up] # {}
    BY <2>1, NamesCommits DEF RequestInv
  <2>3. Holding(loc[v].todo) => mutex' = v /\ aborted' = aborted
    BY <1>0, <2>1 DEF RequestInv
  <2>4. At(v, "commit") => Holding(loc[v].todo)
    BY DEF At, Holding
  <2> QED
    BY <2>1, <2>2, <2>3, <2>4 DEF RequestInv, At
<1> QED
  BY <1>1, <1>2

(* A step that leaves the critical sections and the upload's key alone. *)
LEMMA Quiet ==
    ASSUME IInv, NEW w \in Workers, Moved(w), ~Holding(loc'[w].todo), TypeOK',
           \A u \in Uploads : acked[u] # {} => acked'[u] # {},
           UNCHANGED <<json, mutex, commits, aborted>>
    PROVE  IInv'
<1>1. ~At(w, "commit")'
  BY DEF Holding, At
<1>2. \A v \in Workers : RequestInv(v)'
  BY <1>1, Others
<1>3. Taken'
  BY <1>1 DEF IInv, Taken, At, Moved
<1> QED
  BY <1>2, <1>3 DEF IInv

(* Leaving its critical section, a request may change the metadata. *)
LEMMA Leaving ==
    ASSUME IInv, NEW w \in Workers, Moved(w), ~Holding(loc'[w].todo), TypeOK',
           mutex = w, UNCHANGED <<json, commits, aborted, acked>>
    PROVE  IInv'
<1>1. ~At(w, "commit")'
  BY DEF Holding, At
<1>2. \A v \in Workers : RequestInv(v)'
  BY <1>1, Others
<1>3. Taken'
  BY <1>1 DEF IInv, Taken, At, Moved
<1> QED
  BY <1>2, <1>3 DEF IInv

-----------------------------------------------------------------------------
(* The server starts in the invariant. *)
LEMMA InitInv == Init => IInv
<1> SUFFICES ASSUME Init PROVE IInv
  OBVIOUS
<1>1. TypeOK
  BY IdleRequest DEF Init, TypeOK
<1>2. \A w \in Workers : RequestInv(w)
  BY IdleRequest, EmptyProgram DEF Init, RequestInv, At
<1>3. Taken
  BY IdleRequest DEF Init, Taken, At
<1> QED
  BY <1>1, <1>2, <1>3 DEF Init, IInv

(* A new upload adds its json key, and was neither committed nor aborted before. *)
LEMMA NewMultipartUploadInv ==
    ASSUME IInv, NEW u \in Uploads, NewMultipartUpload(u)
    PROVE  IInv'
<1>0. TypeOK /\ Taken /\ json \cap aborted = {} /\ \A w \in Workers : RequestInv(w)
  BY DEF IInv
<1>1. /\ u \notin json /\ acked[u] = {} /\ u \notin aborted /\ ~(commits[u] > 0)
      /\ json' = json \union {u}
      /\ UNCHANGED <<meta, store, mutex, nsLock, loc, acked, commits, aborted>>
  BY DEF NewMultipartUpload, Started, history
<1>2. TypeOK'
  BY <1>0, <1>1 DEF TypeOK
<1>3. \A w \in Workers : RequestInv(w)'
  BY <1>0, <1>1 DEF RequestInv, At
<1>4. commits[u] = 0
  BY <1>0, <1>1 DEF TypeOK
<1>5. \A w \in Workers : At(w, "commit") => loc[w].up # u
  <2> SUFFICES ASSUME NEW w \in Workers, At(w, "commit")
               PROVE  acked[loc[w].up] # {}
    BY <1>1
  <2>1. loc[w].todo \in Seq(Steps) /\ Shape(loc[w].todo)
    BY <1>0 DEF TypeOK, Requests, RequestInv
  <2>2. Commits(loc[w].todo)
    BY <2>1, TailShape DEF At
  <2> QED
    BY <1>0, <2>2 DEF RequestInv
<1>6. Taken'
  BY <1>0, <1>1, <1>4, <1>5 DEF Taken, At
<1> QED
  BY <1>0, <1>1, <1>2, <1>3, <1>6 DEF IInv

(* A worker that takes a request with a well-formed program keeps the invariant. *)
LEMMA BeginInv ==
    ASSUME IInv, NEW w \in Workers, NEW o \in Operations, NEW t, Fresh(t),
           NEW u \in Uploads \union {None}, NEW nums \in SUBSET Parts,
           o \in UploadOps => u \in Uploads, Names(t) => o \in UploadOps,
           Commits(t) => acked[u] # {},
           Begin(w, o, t, u, nums)
    PROVE  IInv'
<1> DEFINE l == [op |-> o, todo |-> t, up |-> u, nums |-> nums, ver |-> 0, keys |-> {}]
<1>0. TypeOK /\ Taken /\ json \cap aborted = {} /\ \A v \in Workers : RequestInv(v)
  BY DEF IInv
<1>1. /\ loc' = [loc EXCEPT ![w] = l]
      /\ UNCHANGED <<meta, store, json, mutex, nsLock, acked, commits, aborted>>
  BY DEF Begin, stored, history
<1>2. l \in Requests /\ l.todo = t /\ l.up = u /\ l.op = o
  <2>1. 0 \in Versions /\ t \in Seq(Steps)
    BY BoundsAssumption DEF Versions, Fresh
  <2> QED
    BY <2>1 DEF Requests
<1> HIDE DEF l
<1>3. /\ loc' \in [Workers -> Requests] /\ loc'[w] = l
      /\ \A v \in Workers \ {w} : loc'[v] = loc[v]
  BY <1>0, <1>1, <1>2 DEF TypeOK
<1>4. TypeOK'
  BY <1>0, <1>1, <1>3 DEF TypeOK
<1>5. ~At(w, "commit")'
  BY <1>2, <1>3 DEF At, Fresh, Holding
<1>6. RequestInv(w)'
  BY <1>1, <1>2, <1>3, <1>5 DEF RequestInv, Fresh
<1>7. \A v \in Workers \ {w} : RequestInv(v)'
  BY <1>0, <1>1, <1>3 DEF RequestInv, At
<1>8. Taken'
  BY <1>0, <1>1, <1>3, <1>5 DEF Taken, At
<1> QED
  BY <1>0, <1>1, <1>4, <1>6, <1>7, <1>8 DEF IInv

(* The programs of part, complete and abort requests are well-formed. *)
LEMMA BeginUploadRequestInv ==
    ASSUME IInv, NEW w \in Workers, BeginUploadRequest(w)
    PROVE  IInv'
<1>1. PICK u \in Uploads :
        \/ \E n \in Parts : Begin(w, "part", PutObjectPartHandler, u, {n})
        \/ \E nums \in (SUBSET acked[u]) \ {{}} :
             Begin(w, "complete", CompleteMultipartUploadHandler, u, nums)
        \/ Begin(w, "abort", AbortMultipartUpload, u, {})
  BY Zenon DEF BeginUploadRequest
<1>2. CASE \E n \in Parts : Begin(w, "part", PutObjectPartHandler, u, {n})
  BY <1>2, Programs, BeginInv DEF Operations, UploadOps
<1>3. CASE \E nums \in (SUBSET acked[u]) \ {{}} :
             Begin(w, "complete", CompleteMultipartUploadHandler, u, nums)
  <2>1. acked[u] \in SUBSET Parts
    BY DEF IInv, TypeOK
  <2>2. PICK nums \in (SUBSET acked[u]) \ {{}} :
             Begin(w, "complete", CompleteMultipartUploadHandler, u, nums)
    BY <1>3
  <2> QED
    BY <2>1, <2>2, Programs, BeginInv DEF Operations, UploadOps
<1>4. CASE Begin(w, "abort", AbortMultipartUpload, u, {})
  BY <1>4, Programs, BeginInv DEF Operations, UploadOps
<1> QED
  BY <1>1, <1>2, <1>3, <1>4

(* The programs of put, delete and copy are well-formed. *)
LEMMA BeginObjectRequestInv ==
    ASSUME IInv, NEW w \in Workers, BeginObjectRequest(w)
    PROVE  IInv'
<1>1. /\ Fresh(PutObject) /\ ~Names(PutObject) /\ ~Commits(PutObject)
      /\ Fresh(DeleteObject) /\ ~Names(DeleteObject) /\ ~Commits(DeleteObject)
      /\ Fresh(CopyObject) /\ ~Names(CopyObject) /\ ~Commits(CopyObject)
      /\ Fresh(CopyToItself) /\ ~Names(CopyToItself) /\ ~Commits(CopyToItself)
  BY Programs, NamesCommits
<1>2. CASE Begin(w, "put", PutObject, None, {})
  BY <1>1, <1>2, BeginInv DEF Operations, UploadOps
<1>3. CASE Begin(w, "remove", DeleteObject, None, {})
  BY <1>1, <1>3, BeginInv DEF Operations, UploadOps
<1>4. CASE Begin(w, "copy", CopyObject, None, Parts)
  BY <1>1, <1>4, BeginInv DEF Operations, UploadOps
<1>5. CASE Begin(w, "selfCopy", CopyToItself, None, {})
  BY <1>1, <1>5, BeginInv DEF Operations, SelfCopies, UploadOps
<1> QED
  BY <1>2, <1>3, <1>4, <1>5 DEF BeginObjectRequest

-----------------------------------------------------------------------------
(* A request at a step that does not enter a critical section. *)
LEMMA Passed ==
    ASSUME IInv, NEW w \in Workers, NEW step, At(w, step),
           step \notin {"takeJson", "deleteParts"},
           NEW l \in Requests, l.todo = loc[w].todo, l.up = loc[w].up, l.op = loc[w].op,
           Continue(w, l)
    PROVE  Moved(w) /\ ~Holding(loc'[w].todo)
<1>1. /\ loc[w].todo \in Seq(Steps) /\ Shape(loc[w].todo)
      /\ loc[w].todo # <<>> /\ Head(loc[w].todo) = step
  BY DEF IInv, TypeOK, Requests, RequestInv, At
<1>2. ~Holding(Tail(loc[w].todo))
  BY <1>1, TailShape
<1> QED
  BY <1>1, <1>2, Continued

(* The same, when it keeps what it has read. *)
LEMMA PassedAsIs ==
    ASSUME IInv, NEW w \in Workers, NEW step, At(w, step),
           step \notin {"takeJson", "deleteParts"}, Continue(w, loc[w])
    PROVE  Moved(w) /\ ~Holding(loc'[w].todo)
<1>1. loc[w] \in Requests
  BY DEF IInv, TypeOK
<1> QED
  BY <1>1, Passed

(* currentVersion stores a version in the request, 0 after an error. *)
LEMMA CurrentVersionInv ==
    ASSUME IInv, NEW w \in Workers, CurrentVersion(w)
    PROVE  IInv'
<1>1. PICK v \in {Version, 0} : Continue(w, [loc[w] EXCEPT !.ver = v])
  BY DEF CurrentVersion
<1>2. At(w, "version") /\ UNCHANGED <<meta, store, json, mutex, nsLock, acked, commits, aborted>>
  BY DEF CurrentVersion, AtLocked, stored, history
<1>3. v \in Versions
  BY BoundsAssumption DEF Version, IInv, TypeOK, Versions
<1> DEFINE l == [loc[w] EXCEPT !.ver = v]
<1>4. l \in Requests /\ l.todo = loc[w].todo /\ l.up = loc[w].up /\ l.op = loc[w].op
  BY <1>3, Zenon DEF IInv, TypeOK, Requests
<1>5. Continue(w, l)
  BY <1>1
<1> HIDE DEF l
<1>6. Moved(w) /\ ~Holding(loc'[w].todo)
  BY <1>2, <1>4, <1>5, Passed
<1>7. TypeOK'
  BY <1>2, <1>6 DEF IInv, TypeOK, Moved
<1> QED
  BY <1>2, <1>6, <1>7, Quiet

(* CGetKeyRange stores some of the part keys in the request. *)
LEMMA GetKeyRangeInv ==
    ASSUME IInv, NEW w \in Workers, GetKeyRange(w)
    PROVE  IInv'
<1>1. UNCHANGED <<meta, store, json, mutex, nsLock, acked, commits, aborted>>
  BY DEF GetKeyRange, stored, history
<1>2. Moved(w) /\ ~Holding(loc'[w].todo)
  <2>1. PICK v : \E S \in KeyRange(KeysOf(v)) \union {{}} : Continue(w, [loc[w] EXCEPT !.keys = S])
    BY Zenon DEF GetKeyRange
  <2>2. PICK S \in KeyRange(KeysOf(v)) \union {{}} : Continue(w, [loc[w] EXCEPT !.keys = S])
    BY <2>1
  <2>3. S \in SUBSET PartKeys
    BY DEF KeyRange, KeysOf, IInv, TypeOK
  <2> DEFINE l == [loc[w] EXCEPT !.keys = S]
  <2>4. l \in Requests /\ l.todo = loc[w].todo /\ l.up = loc[w].up /\ l.op = loc[w].op
    BY <2>3, Zenon DEF IInv, TypeOK, Requests
  <2>5. Continue(w, l)
    BY <2>2
  <2> HIDE DEF l
  <2>6. PICK step \in {"rangeCurrent", "rangeNext"} : At(w, step)
    BY DEF GetKeyRange, AtLocked
  <2> QED
    BY <2>4, <2>5, <2>6, Passed
<1>3. TypeOK'
  BY <1>1, <1>2 DEF IInv, TypeOK, Moved
<1> QED
  BY <1>1, <1>2, <1>3, Quiet

(* deleteKeys only takes part keys away. *)
LEMMA DeleteKeysInv ==
    ASSUME IInv, NEW w \in Workers, DeleteKeys(w)
    PROVE  IInv'
<1>1. /\ At(w, "deleteKeys")
      /\ UNCHANGED <<meta, json, mutex, nsLock, acked, commits, aborted>>
  BY DEF DeleteKeys, AtLocked, history
<1>2. store' \subseteq store
  BY DEF DeleteKeys
<1>3. Moved(w) /\ ~Holding(loc'[w].todo)
  <2>1. CASE deletePartsError(w)
    BY <2>1, PartsError
  <2>2. CASE Continue(w, [loc[w] EXCEPT !.keys = {}])
    <3> DEFINE l == [loc[w] EXCEPT !.keys = {}]
    <3>2. l \in Requests /\ l.todo = loc[w].todo /\ l.up = loc[w].up /\ l.op = loc[w].op
      BY Zenon DEF IInv, TypeOK, Requests
    <3>3. Continue(w, l)
      BY <2>2
    <3> HIDE DEF l
    <3> QED
      BY <1>1, <3>2, <3>3, Passed
  <2> QED
    BY <2>1, <2>2 DEF DeleteKeys
<1>4. TypeOK'
  BY <1>1, <1>2, <1>3 DEF IInv, TypeOK, Moved
<1> QED
  BY <1>1, <1>3, <1>4, Quiet

(* koStat of the first parts changes only where the request stands. *)
LEMMA StatFirstInv ==
    ASSUME IInv, NEW w \in Workers, StatFirst(w)
    PROVE  IInv'
<1>1. /\ At(w, "statFirst")
      /\ UNCHANGED <<meta, store, json, mutex, nsLock, acked, commits, aborted>>
  BY DEF StatFirst, stored, history
<1>2. Moved(w) /\ ~Holding(loc'[w].todo)
  <2>1. Fail(w) \/ Continue(w, loc[w])
    BY DEF StatFirst
  <2> QED
    BY <1>1, <2>1, Failed, PassedAsIs
<1>3. TypeOK'
  BY <1>1, <1>2 DEF IInv, TypeOK, Moved
<1> QED
  BY <1>1, <1>2, <1>3, Quiet

(* Looking for the json key changes only where the request stands. *)
LEMMA CheckJsonInv ==
    ASSUME IInv, NEW w \in Workers, CheckJson(w)
    PROVE  IInv'
<1>1. /\ At(w, "checkJson")
      /\ UNCHANGED <<meta, store, json, mutex, nsLock, acked, commits, aborted>>
  BY DEF CheckJson, AtLocked, stored, history
<1>2. Moved(w) /\ ~Holding(loc'[w].todo)
  <2>1. Fail(w) \/ Continue(w, loc[w])
    BY DEF CheckJson
  <2> QED
    BY <1>1, <2>1, Failed, PassedAsIs
<1>3. TypeOK'
  BY <1>1, <1>2 DEF IInv, TypeOK, Moved
<1> QED
  BY <1>1, <1>2, <1>3, Quiet

(* A request that works for an upload names one. *)
LEMMA OfUpload ==
    ASSUME IInv, NEW w \in Workers, NEW step, At(w, step),
           step \in {"putPart", "dropJson", "takeJson", "commit"}
    PROVE  /\ loc[w].up \in Uploads
           /\ step \in {"takeJson", "commit"} => acked[loc[w].up] # {}
<1>1. /\ loc[w].todo \in Seq(Steps) /\ RequestInv(w)
      /\ loc[w].todo # <<>> /\ Head(loc[w].todo) = step
  BY DEF IInv, TypeOK, Requests, At
<1>2. Names(loc[w].todo) /\ (step \in {"takeJson", "commit"} => Commits(loc[w].todo))
  BY <1>1, TailShape DEF RequestInv
<1> QED
  BY <1>1, <1>2 DEF RequestInv

(* The keys a request names are part keys. *)
LEMMA WantedType ==
    ASSUME IInv, NEW w \in Workers, loc[w].up \in Uploads
    PROVE  Wanted(w) \subseteq PartKeys
<1>1. loc[w].ver \in Versions /\ loc[w].nums \subseteq Parts
  BY DEF IInv, TypeOK, Requests
<1>2. newVersion(loc[w].ver) \in Versions
  BY <1>1, NewVersionType
<1> QED
  BY <1>1, <1>2 DEF Wanted, PartKeys

(* PutObjectPart adds a part key and its acknowledgement. *)
LEMMA PutPartInv ==
    ASSUME IInv, NEW w \in Workers, PutPart(w)
    PROVE  IInv'
<1>1. At(w, "putPart") /\ UNCHANGED <<meta, json, mutex, nsLock, commits, aborted>>
  BY DEF PutPart, AtLocked
<1>2. loc[w].up \in Uploads /\ loc[w].nums \subseteq Parts
  BY <1>1, OfUpload DEF IInv, TypeOK, Requests
<1>3. CASE Fail(w) /\ UNCHANGED <<store, acked>>
  <2>1. Moved(w) /\ ~Holding(loc'[w].todo)
    BY <1>3, Failed
  <2>2. TypeOK'
    BY <1>1, <1>3, <2>1 DEF IInv, TypeOK, Moved
  <2> QED
    BY <1>1, <1>3, <2>1, <2>2, Quiet
<1>4. CASE /\ store' = store \union Wanted(w)
           /\ acked' = [acked EXCEPT ![loc[w].up] = @ \union loc[w].nums]
           /\ Continue(w, loc[w])
  <2>1. Moved(w) /\ ~Holding(loc'[w].todo)
    BY <1>1, <1>4, PassedAsIs
  <2>2. store' \subseteq PartKeys
    BY <1>2, <1>4, WantedType DEF IInv, TypeOK
  <2>3. acked' \in [Uploads -> SUBSET Parts] /\ \A u \in Uploads : acked[u] # {} => acked'[u] # {}
    BY <1>2, <1>4 DEF IInv, TypeOK
  <2>4. TypeOK'
    BY <1>1, <2>1, <2>2, <2>3 DEF IInv, TypeOK, Moved
  <2> QED
    BY <1>1, <2>1, <2>3, <2>4, Quiet
<1> QED
  BY <1>3, <1>4 DEF PutPart

(* The validation of the parts changes only where the request stands. *)
LEMMA ValidateInv ==
    ASSUME IInv, NEW w \in Workers, Validate(w)
    PROVE  IInv'
<1>1. /\ At(w, "validate")
      /\ UNCHANGED <<meta, store, json, mutex, nsLock, acked, commits, aborted>>
  BY DEF Validate, stored, history
<1>2. Moved(w) /\ ~Holding(loc'[w].todo)
  <2>1. CASE Fail(w)
    BY <2>1, Failed
  <2>2. CASE Continue(w, [loc[w] EXCEPT !.keys = {}])
    <3> DEFINE l == [loc[w] EXCEPT !.keys = {}]
    <3>1. loc[w] \in Requests
      BY DEF IInv, TypeOK
    <3>2. l \in Requests /\ l.todo = loc[w].todo /\ l.up = loc[w].up /\ l.op = loc[w].op
      BY <3>1, Zenon DEF Requests
    <3>3. Continue(w, l)
      BY <2>2
    <3> HIDE DEF l
    <3> QED
      BY <1>1, <3>2, <3>3, Passed
  <2> QED
    BY <2>1, <2>2 DEF Validate
<1>3. TypeOK'
  BY <1>1, <1>2 DEF IInv, TypeOK, Moved
<1> QED
  BY <1>1, <1>2, <1>3, Quiet

(* The namespace lock does not touch uploads. *)
LEMMA LockingInv ==
    ASSUME IInv, NEW w \in Workers, AbortReturns(w) \/ Lock(w) \/ Unlock(w)
    PROVE  IInv'
<1>1. /\ UNCHANGED <<meta, store, json, mutex, acked, commits, aborted>>
      /\ nsLock' \in Workers \union {None}
  BY DEF AbortReturns, Lock, Unlock, stored, history, IInv, TypeOK
<1>2. Moved(w) /\ ~Holding(loc'[w].todo)
  <2>1. PICK step \in {"return", "lock", "unlock"} : At(w, step) /\ Continue(w, loc[w])
    BY DEF AbortReturns, Lock, Unlock
  <2> QED
    BY <2>1, PassedAsIs
<1>3. TypeOK'
  BY <1>1, <1>2 DEF IInv, TypeOK, Moved
<1> QED
  BY <1>1, <1>2, <1>3, Quiet

(* The parts of a source are parts that metadata can name. *)
LEMMA SourceType ==
    ASSUME IInv, NEW w \in Workers
    PROVE  Source(w) \in SUBSET [num : Parts, tag : Uploads \union {CopyTag}]
<1>1. loc[w].keys \subseteq [ver : Versions, num : Parts, tag : Uploads \union {CopyTag}]
  BY DEF IInv, TypeOK, Requests, PartKeys
<1>2. {[num |-> k.num, tag |-> k.tag] : k \in loc[w].keys}
         \in SUBSET [num : Parts, tag : Uploads \union {CopyTag}]
  BY <1>1
<1>3. {[num |-> n, tag |-> CopyTag] : n \in Parts}
         \in SUBSET [num : Parts, tag : Uploads \union {CopyTag}]
  OBVIOUS
<1> QED
  BY <1>2, <1>3, Zenon DEF Source

(* The handler of a self-copy reads the object, and goes on with what it finds. *)
LEMMA ReadSourceInv ==
    ASSUME IInv, NEW w \in Workers, ReadSource(w)
    PROVE  IInv'
<1>1. /\ At(w, "source")
      /\ UNCHANGED <<meta, store, json, mutex, nsLock, acked, commits, aborted>>
  BY DEF ReadSource, AtLocked, stored, history
<1>2. Moved(w) /\ ~Holding(loc'[w].todo)
  <2>1. ASSUME NEW o \in {"idle", "selfPut"}, NEW t \in {<<>>, CopySimpleToItself}, Goto(w, o, t)
        PROVE  Moved(w) /\ ~Holding(loc'[w].todo)
    <3>1. Fresh(t) /\ ~Names(t) /\ ~Commits(t)
      BY Programs, NamesCommits
    <3>2. o \in Operations /\ o \notin UploadOps
      BY DEF Operations, SelfCopies, UploadOps
    <3> QED
      BY <2>1, <3>1, <3>2, WentTo, Zenon DEF Fresh
  <2> DEFINE N == {p.num : p \in meta.parts}
             K == {[ver |-> meta.ver, num |-> p.num, tag |-> p.tag] : p \in meta.parts}
             l == [loc[w] EXCEPT !.nums = N, !.keys = K]
  <2>2. CASE meta # None /\ Continue(w, l)
    <3>1. /\ meta.ver \in Versions
          /\ meta.parts \subseteq [num : Parts, tag : Uploads \union {CopyTag}]
      BY <2>2 DEF IInv, TypeOK
    <3>2. N \subseteq Parts /\ K \subseteq PartKeys
      BY <3>1 DEF PartKeys
    <3>3. loc[w] \in Requests
      BY DEF IInv, TypeOK
    <3> HIDE DEF N, K
    <3>4. l \in Requests /\ l.todo = loc[w].todo /\ l.up = loc[w].up /\ l.op = loc[w].op
      BY <3>2, <3>3, Zenon DEF Requests
    <3>5. Continue(w, l)
      BY <2>2
    <3> HIDE DEF l
    <3> QED
      BY <1>1, <3>4, <3>5, Passed
  <2> QED
    BY <2>1, <2>2, Zenon DEF ReadSource
<1>3. TypeOK'
  BY <1>1, <1>2 DEF IInv, TypeOK, Moved
<1> QED
  BY <1>1, <1>2, <1>3, Quiet

(* The metadata that putObject and copyMultipartObject write have a version other than the empty one. *)
LEMMA WritesInv ==
    ASSUME IInv, NEW w \in Workers, PutSimple(w) \/ PutCopy(w)
    PROVE  IInv'
<1>1. UNCHANGED <<store, json, mutex, nsLock, acked, commits, aborted>>
  BY DEF PutSimple, PutCopy, history
<1>2. newVersion(loc[w].ver) \in Versions \ {0}
  BY NewVersionType DEF IInv, TypeOK, Requests
<1>3. meta' \in {None} \union [ver : Versions \ {0},
                              parts : SUBSET [num : Parts, tag : Uploads \union {CopyTag}]]
  <2>1. meta' = meta \/ \E ps \in SUBSET [num : Parts, tag : Uploads \union {CopyTag}] :
                            meta' = [ver |-> newVersion(loc[w].ver), parts |-> ps]
    <3>1. CASE PutSimple(w)
      BY <3>1 DEF PutSimple
    <3>2. CASE PutCopy(w)
      BY <3>2, SourceType DEF PutCopy
    <3> QED
      BY <3>1, <3>2
  <2> QED
    BY <1>2, <2>1 DEF IInv, TypeOK
<1>4. Moved(w) /\ ~Holding(loc'[w].todo)
  <2>1. PICK step \in {"putObject", "putCopy"} : At(w, step)
    BY DEF PutSimple, PutCopy, AtLocked
  <2>2. Fail(w) \/ Continue(w, loc[w])
    BY DEF PutSimple, PutCopy
  <2> QED
    BY <2>1, <2>2, Failed, PassedAsIs
<1>5. TypeOK'
  BY <1>1, <1>3, <1>4 DEF IInv, TypeOK, Moved
<1> QED
  BY <1>1, <1>4, <1>5, Quiet

(* copyMultipartObject adds part keys under the etags of its source. *)
LEMMA CopyPartInv ==
    ASSUME IInv, NEW w \in Workers, CopyPart(w)
    PROVE  IInv'
<1>1. At(w, "copyParts") /\ UNCHANGED <<meta, json, mutex, nsLock, acked, commits, aborted>>
  BY DEF CopyPart, AtLocked, history
<1>2. CASE Fail(w) /\ UNCHANGED store
  <2>1. Moved(w) /\ ~Holding(loc'[w].todo)
    BY <1>2, Failed
  <2>2. TypeOK'
    BY <1>1, <1>2, <2>1 DEF IInv, TypeOK, Moved
  <2> QED
    BY <1>1, <2>1, <2>2, Quiet
<1>3. ASSUME NEW n \in loc[w].nums,
             store' = store \union {[ver |-> newVersion(loc[w].ver), num |-> n, tag |-> p.tag] :
                                      p \in {q \in Source(w) : q.num = n}},
             LET l == [loc[w] EXCEPT !.nums = @ \ {n}]
             IN  IF l.nums = {} THEN Continue(w, l) ELSE loc' = [loc EXCEPT ![w] = l]
      PROVE  IInv'
  <2> DEFINE l == [loc[w] EXCEPT !.nums = @ \ {n}]
  <2>1. l \in Requests /\ l.todo = loc[w].todo /\ l.up = loc[w].up /\ l.op = loc[w].op
    BY Zenon DEF IInv, TypeOK, Requests
  <2>2. Continue(w, l) \/ loc' = [loc EXCEPT ![w] = l]
    BY <1>3
  <2> HIDE DEF l
  <2>3. Moved(w) /\ ~Holding(loc'[w].todo)
    <3>1. CASE Continue(w, l)
      BY <1>1, <2>1, <3>1, Passed
    <3>2. CASE loc' = [loc EXCEPT ![w] = l]
      <4>1. loc \in [Workers -> Requests] /\ RequestInv(w)
        BY DEF IInv, TypeOK
      <4>2. loc'[w] = l /\ loc' \in [Workers -> Requests]
        BY <2>1, <3>2, <4>1
      <4>3. ~Holding(loc[w].todo)
        BY <1>1 DEF At, Holding
      <4> QED
        BY <2>1, <3>2, <4>1, <4>2, <4>3 DEF Moved, RequestInv
    <3> QED
      BY <2>2, <3>1, <3>2
  <2>4. newVersion(loc[w].ver) \in Versions /\ n \in Parts
    BY NewVersionType DEF IInv, TypeOK, Requests
  <2>5. store' \subseteq PartKeys
    <3>1. \A p \in Source(w) : p.tag \in Uploads \union {CopyTag}
      BY SourceType
    <3>2. {[ver |-> newVersion(loc[w].ver), num |-> n, tag |-> p.tag] :
              p \in {q \in Source(w) : q.num = n}} \subseteq PartKeys
      BY <2>4, <3>1 DEF PartKeys
    <3> QED
      BY <1>3, <3>2 DEF IInv, TypeOK
  <2>6. TypeOK'
    BY <1>1, <2>3, <2>5 DEF IInv, TypeOK, Moved
  <2> QED
    BY <1>1, <2>3, <2>6, Quiet
<1> QED
  BY <1>2, <1>3, Zenon DEF CopyPart

-----------------------------------------------------------------------------
(* Complete takes the key of an upload that was neither committed nor aborted, *)
(* and nothing can commit or abort it before it has written the metadata.     *)
LEMMA TakeJsonInv ==
    ASSUME IInv, NEW w \in Workers, TakeJson(w)
    PROVE  IInv'
<1>0. /\ At(w, "takeJson") /\ mutex = None
      /\ UNCHANGED <<meta, store, nsLock, acked, commits, aborted>>
      /\ loc[w] \in Requests /\ loc[w].up \in Uploads
      /\ TypeOK /\ Taken /\ json \cap aborted = {} /\ \A v \in Workers : RequestInv(v)
  BY OfUpload, Zenon DEF TakeJson, AtLocked, history, IInv, TypeOK
<1>1. CASE Fail(w) /\ UNCHANGED <<json, mutex>>
  <2>1. Moved(w) /\ ~Holding(loc'[w].todo)
    BY <1>1, Failed
  <2>2. TypeOK'
    BY <1>0, <1>1, <2>1 DEF TypeOK, Moved
  <2> QED
    BY <1>0, <1>1, <2>1, <2>2, Quiet
<1>2. CASE /\ loc[w].up \in json
           /\ \/ json' = json \ {loc[w].up}
              \/ "delete" \in MayFail /\ json' = json
           /\ mutex' = w
           /\ Continue(w, loc[w])
  <2>1. Moved(w) /\ (loc'[w].todo # <<>> => loc'[w].up = loc[w].up)
    BY <1>0, <1>2, Continued DEF At
  <2>2. json' \subseteq json /\ loc[w].up \notin aborted
    BY <1>0, <1>2, Zenon
  <2>3. TypeOK'
    BY <1>0, <1>2, <2>1, <2>2 DEF TypeOK, Moved
  <2>4. At(w, "commit")' => loc'[w].up = loc[w].up
    BY <2>1, Zenon DEF At
  <2>5. \A v \in Workers : RequestInv(v)'
    BY <1>0, <1>2, <2>1, <2>2, <2>4, Others
  <2>6. \A v \in Workers \ {w} : ~At(v, "commit")'
    <3> SUFFICES ASSUME NEW v \in Workers \ {w}, At(v, "commit")
                 PROVE  FALSE
      BY <2>1 DEF Moved, At
    <3>1. Holding(loc[v].todo)
      BY DEF At, Holding
    <3> QED
      BY <1>0, <3>1, OptionsAssumption DEF RequestInv
  <2>7. Taken'
    <3> SUFFICES ASSUME "delete" \notin MayFail
                 PROVE  /\ \A u \in Uploads : commits'[u] <= 1 /\ (u \in json' => commits'[u] = 0)
                        /\ \A v \in Workers :
                            At(v, "commit")' => commits'[loc'[v].up] = 0 /\ loc'[v].up \notin json'
      BY DEF Taken
    <3>1. json' = json \ {loc[w].up} /\ commits[loc[w].up] = 0
      BY <1>0, <1>2 DEF Taken
    <3> QED
      BY <1>0, <2>4, <2>6, <3>1 DEF Taken
  <2> QED
    BY <1>0, <2>2, <2>3, <2>5, <2>7 DEF IInv
<1> QED
  BY <1>1, <1>2 DEF TakeJson

(* The commit of an upload whose json key was taken under the same hold of kineticMutex. *)
LEMMA CommitInv ==
    ASSUME IInv, NEW w \in Workers, Commit(w)
    PROVE  IInv'
<1>0. /\ At(w, "commit") /\ mutex' = None
      /\ UNCHANGED <<store, json, nsLock, acked, aborted>>
      /\ loc[w] \in Requests /\ loc[w].up \in Uploads
      /\ TypeOK /\ Taken /\ json \cap aborted = {} /\ RequestInv(w)
  BY OfUpload DEF Commit, IInv, TypeOK
<1>1. mutex = w
  BY <1>0 DEF RequestInv, Holding, At
<1>2. CASE Fail(w) /\ UNCHANGED <<meta, commits>>
  <2>1. Moved(w) /\ ~Holding(loc'[w].todo)
    BY <1>2, Failed
  <2>2. TypeOK'
    BY <1>0, <1>2, <2>1 DEF TypeOK, Moved
  <2> QED
    BY <1>0, <1>1, <1>2, <2>1, <2>2, Leaving
<1>3. CASE /\ meta' = [ver |-> newVersion(loc[w].ver),
                       parts |-> {[num |-> n, tag |-> loc[w].up] : n \in loc[w].nums}]
           /\ commits' = [commits EXCEPT ![loc[w].up] = @ + 1]
           /\ Goto(w, "complete", IF loc[w].ver = 0 THEN <<>> ELSE deletePartsCurrent)
  <2>1. Moved(w) /\ ~Holding(loc'[w].todo)
    <3>1. PICK t \in {<<>>, deletePartsCurrent} : Goto(w, "complete", t)
      BY <1>3
    <3>2. Fresh(t) /\ ~Names(t) /\ ~Commits(t)
      BY <3>1, Programs, NamesCommits
    <3> QED
      BY <1>0, <3>1, <3>2, WentTo, Zenon DEF Operations, Fresh
  <2>2. meta' \in [ver : Versions \ {0}, parts : SUBSET [num : Parts, tag : Uploads \union {CopyTag}]]
    <3>1. newVersion(loc[w].ver) \in Versions \ {0} /\ loc[w].nums \subseteq Parts
      BY <1>0, NewVersionType DEF Requests
    <3>2. {[num |-> n, tag |-> loc[w].up] : n \in loc[w].nums}
             \in SUBSET [num : Parts, tag : Uploads \union {CopyTag}]
      BY <1>0, <3>1
    <3> QED
      BY <1>3, <3>1, <3>2
  <2>a. PICK u \in Uploads : loc[w].up = u /\ commits' = [commits EXCEPT ![u] = commits[u] + 1]
    BY <1>0, <1>3, Zenon
  <2>b. commits \in [Uploads -> Nat] /\ json' = json
    BY <1>0 DEF TypeOK
  <2>3. commits' \in [Uploads -> Nat]
    BY <2>a, <2>b
  <2>4. TypeOK'
    BY <1>0, <2>1, <2>2, <2>3 DEF TypeOK, Moved
  <2>5. ~At(w, "commit")'
    BY <2>1 DEF At, Holding
  <2>6. \A v \in Workers : RequestInv(v)'
    BY <1>0, <1>1, <2>1, <2>5, Others, Zenon
  <2>7. \A v \in Workers : ~At(v, "commit")'
    <3> SUFFICES ASSUME NEW v \in Workers \ {w}, At(v, "commit")
                 PROVE  FALSE
      BY <2>1, <2>5 DEF Moved, At
    <3>1. Holding(loc[v].todo)
      BY DEF At, Holding
    <3> QED
      BY <1>1, <3>1 DEF RequestInv, IInv
  <2>8. Taken'
    <3> SUFFICES ASSUME "delete" \notin MayFail
                 PROVE  \A x \in Uploads : commits'[x] <= 1 /\ (x \in json' => commits'[x] = 0)
      BY <2>7 DEF Taken
    <3>1. commits[u] = 0 /\ u \notin json
      BY <1>0, <2>a DEF Taken
    <3>2. \A v \in Uploads : commits[v] <= 1 /\ (v \in json => commits[v] = 0)
      BY <1>0 DEF Taken
    <3>3. commits'[u] = 1 /\ \A v \in Uploads \ {u} : commits'[v] = commits[v]
      BY <2>a, <2>b, <3>1
    <3> QED
      BY <2>b, <3>1, <3>2, <3>3
  <2> QED
    BY <1>0, <2>4, <2>6, <2>8, Zenon DEF IInv
<1> QED
  BY <1>2, <1>3, Zenon DEF Commit

(* An abort can only remove a json key while no Complete is between taking it and committing. *)
LEMMA DropJsonInv ==
    ASSUME IInv, NEW w \in Workers, DropJson(w)
    PROVE  IInv'
<1>0. /\ At(w, "dropJson") /\ mutex = None /\ Continue(w, loc[w])
      /\ UNCHANGED <<meta, store, mutex, nsLock, acked, commits>>
      /\ loc[w].up \in Uploads
      /\ TypeOK /\ Taken /\ json \cap aborted = {} /\ \A v \in Workers : RequestInv(v)
  BY OfUpload DEF DropJson, AtLocked, IInv
<1>1. Moved(w) /\ ~Holding(loc'[w].todo)
  BY <1>0, PassedAsIs
<1>2. /\ json' \subseteq json /\ aborted' \subseteq Uploads
      /\ json' \cap aborted' = {}
  BY <1>0 DEF DropJson, TypeOK
<1>3. TypeOK'
  BY <1>0, <1>1, <1>2 DEF TypeOK, Moved
<1>4. ~At(w, "commit")'
  BY <1>1, Zenon DEF At, Holding
<1>5. \A v \in Workers : RequestInv(v)'
  BY <1>0, <1>1, <1>4, Others
<1>6. Taken'
  BY <1>0, <1>1, <1>2, <1>4, Zenon DEF Taken, At, Moved
<1> QED
  BY <1>2, <1>3, <1>5, <1>6 DEF IInv

(* DeleteObject takes kineticMutex, so that it never stands beside a commit. *)
LEMMA DeleteObjectPartsInv ==
    ASSUME IInv, NEW w \in Workers, DeleteObjectParts(w)
    PROVE  IInv'
<1>0. /\ At(w, "deleteParts") /\ mutex = None
      /\ UNCHANGED <<meta, json, nsLock, acked, commits, aborted>>
      /\ loc[w] \in Requests
      /\ TypeOK /\ Taken /\ json \cap aborted = {} /\ \A v \in Workers : RequestInv(v)
  BY Zenon DEF DeleteObjectParts, AtLocked, history, IInv, TypeOK
<1>1. CASE Fail(w) /\ UNCHANGED <<store, mutex>>
  <2>1. Moved(w) /\ ~Holding(loc'[w].todo)
    BY <1>1, Failed
  <2>2. TypeOK'
    BY <1>0, <1>1, <2>1 DEF TypeOK, Moved
  <2> QED
    BY <1>0, <1>1, <2>1, <2>2, Quiet, Zenon
<1>2. CASE Continue(w, loc[w]) /\ mutex' = w /\ store' \subseteq store
  <2>1. Moved(w) /\ loc'[w].todo = Tail(loc[w].todo)
    BY <1>0, <1>2, Continued DEF At
  <2>2. ~At(w, "commit")'
    <3>1. loc[w].todo \in Seq(Steps) /\ Shape(loc[w].todo)
      BY <1>0 DEF Requests, RequestInv
    <3> QED
      BY <1>0, <2>1, <3>1, TailShape, Zenon DEF At
  <2>3. TypeOK'
    BY <1>0, <1>2, <2>1, Zenon DEF TypeOK, Moved
  <2>4. \A v \in Workers : RequestInv(v)'
    BY <1>0, <1>2, <2>1, <2>2, Others
  <2>5. Taken'
    BY <1>0, <2>1, <2>2, Zenon DEF Taken, At, Moved
  <2> QED
    BY <1>0, <2>3, <2>4, <2>5 DEF IInv
<1> QED
  BY <1>1, <1>2, Zenon DEF DeleteObjectParts

(* DeleteObject removes the metadata and gives kineticMutex back. *)
LEMMA DeleteObjectMetaInv ==
    ASSUME IInv, NEW w \in Workers, DeleteObjectMeta(w)
    PROVE  IInv'
<1>0. /\ At(w, "deleteMeta") /\ mutex' = None /\ meta' \in {None, meta}
      /\ UNCHANGED <<store, json, nsLock, acked, commits, aborted>>
  BY DEF DeleteObjectMeta, history
<1>1. mutex = w
  BY <1>0 DEF IInv, RequestInv, Holding, At
<1>2. Moved(w) /\ ~Holding(loc'[w].todo)
  <2>1. Fail(w) \/ Continue(w, loc[w])
    BY DEF DeleteObjectMeta
  <2> QED
    BY <1>0, <2>1, Failed, PassedAsIs
<1>3. TypeOK'
  BY <1>0, <1>2 DEF IInv, TypeOK, Moved
<1> QED
  BY <1>0, <1>1, <1>2, <1>3, Leaving

(* A restart leaves no request, and so no commit, half done. *)
LEMMA RestartInv ==
    ASSUME IInv, Restart
    PROVE  IInv'
<1>1. /\ loc' = [w \in Workers |-> Idle] /\ mutex' = None /\ nsLock' = None
      /\ UNCHANGED <<meta, store, json, acked, commits, aborted>>
  BY DEF Restart, stored, history
<1>2. TypeOK'
  BY <1>1, IdleRequest DEF IInv, TypeOK
<1>3. \A w \in Workers : RequestInv(w)' /\ ~At(w, "commit")'
  BY <1>1, IdleRequest, EmptyProgram DEF RequestInv, At
<1>4. Taken'
  BY <1>1, <1>3 DEF IInv, Taken
<1> QED
  BY <1>1, <1>2, <1>3, <1>4 DEF IInv

-----------------------------------------------------------------------------
(* Every step of every request, and a restart, keeps the invariant. *)
THEOREM Inductive == IInv /\ [Next]_vars => IInv'
<1> SUFFICES ASSUME IInv, [Next]_vars PROVE IInv'
  OBVIOUS
<1>1. ASSUME NEW u \in Uploads, NewMultipartUpload(u) PROVE IInv'
  BY <1>1, NewMultipartUploadInv
<1>2. ASSUME NEW w \in Workers, BeginUploadRequest(w) \/ BeginObjectRequest(w) PROVE IInv'
  BY <1>2, BeginUploadRequestInv, BeginObjectRequestInv
<1>3. ASSUME NEW w \in Workers, Step(w) PROVE IInv'
  BY <1>3, CurrentVersionInv, GetKeyRangeInv, DeleteKeysInv, StatFirstInv, CheckJsonInv,
     PutPartInv, ValidateInv, TakeJsonInv, CommitInv, DropJsonInv, LockingInv, WritesInv,
     DeleteObjectPartsInv, DeleteObjectMetaInv, ReadSourceInv, CopyPartInv DEF Step
<1>4. CASE Restart
  BY <1>4, RestartInv
<1>5. CASE UNCHANGED vars
  <2>1. \A w \in Workers : RequestInv(w)'
    BY <1>5 DEF IInv, vars, RequestInv, At
  <2>2. TypeOK' /\ Taken'
    BY <1>5 DEF IInv, vars, TypeOK, Taken, At
  <2> QED
    BY <1>5, <2>1, <2>2 DEF IInv, vars
<1> QED
  BY <1>1, <1>2, <1>3, <1>4, <1>5 DEF Next

(* Every state of the server that Spec reaches is in the inductive invariant: what *)
(* Complete holds between taking the json key and its commit is what the theorems use. *)
THEOREM Invariant == Spec => []IInv
BY InitInv, Inductive, PTL DEF Spec

(* The metadata, part keys, json keys and requests of one object keep their    *)
(* types: no version is ever the empty string or beyond 99999, and no part is   *)
(* written for a request that names no upload.                               *)
THEOREM TypeCorrect == Spec => []TypeOK
<1>1. IInv => TypeOK
  BY DEF IInv
<1> QED
  BY <1>1, Invariant, PTL

(* If the store does not fail to delete an upload's json key, the upload is    *)
(* committed at most once, however often and however concurrently clients send  *)
(* CompleteMultipartUpload, also with overlapping uploads, crashes, and failing *)
(* reads and writes.                                                        *)
THEOREM CommittedOnce ==
    ASSUME "delete" \notin MayFail
    PROVE  Spec => []CommitOnce
<1>1. IInv => CommitOnce
  BY DEF IInv, Taken, CommitOnce
<1> QED
  BY <1>1, Invariant, PTL

(* An upload whose json key an abort has removed is never committed, whatever   *)
(* fails: Complete holds kineticMutex from taking the key to the commit.        *)
THEOREM AbortedNeverCommitted == Spec => AbortFinal
<1>1. ASSUME IInv, [Next]_vars
      PROVE  [\A u \in Uploads : commits'[u] # commits[u] => u \notin aborted]_vars
  <2> SUFFICES ASSUME Next, NEW u \in Uploads, commits'[u] # commits[u]
               PROVE  u \notin aborted
    BY <1>1
  <2>1. PICK w \in Workers : Commit(w)
    BY Zenon DEF Next, Step, NewMultipartUpload, BeginUploadRequest, BeginObjectRequest, Begin,
       CurrentVersion, GetKeyRange, DeleteKeys, StatFirst, CheckJson, PutPart, Validate,
       TakeJson, DropJson, AbortReturns, Lock, Unlock, PutSimple, DeleteObjectParts,
       DeleteObjectMeta, ReadSource, CopyPart, PutCopy, Restart, history
  <2>2. At(w, "commit") /\ loc[w].up \in Uploads
    BY <1>1, <2>1, OfUpload, Zenon DEF Commit
  <2>3. u = loc[w].up
    BY <1>1, <2>1, <2>2 DEF Commit, IInv, TypeOK
  <2> QED
    BY <1>1, <2>2, <2>3 DEF IInv, RequestInv
<1> QED
  BY <1>1, Invariant, PTL DEF Spec, AbortFinal

-----------------------------------------------------------------------------
(***************************************************************************)
(* Where a request stands.                                                 *)
(***************************************************************************)

(* Complete goes on as a purge of the old version once it has committed. *)
Kind(l) == IF l.op = "complete" /\ ~Commits(l.todo) THEN "purge" ELSE l.op

(* With n steps to go, the next one of a request of kind k is s. *)
Point(k, n, s) ==
    \/ /\ k = "part"
       /\ \/ s = "version" /\ n \in {10, 6, 2}
          \/ s = "rangeCurrent" /\ n \in {9, 5}
          \/ s = "statFirst" /\ n \in {8, 4}
          \/ s = "checkJson" /\ n \in {7, 3}
          \/ s = "putPart" /\ n = 1
    \/ /\ k = "complete"
       /\ \/ s = "version" /\ n \in {9, 5}
          \/ s = "rangeCurrent" /\ n = 8
          \/ s = "statFirst" /\ n = 7
          \/ s = "checkJson" /\ n = 6
          \/ s = "rangeNext" /\ n = 4
          \/ s = "validate" /\ n = 3
          \/ s = "takeJson" /\ n = 2
          \/ s = "commit" /\ n = 1
    \/ /\ k = "purge"
       /\ \/ s = "rangeCurrent" /\ n \in {4, 2}
          \/ s = "deleteKeys" /\ n \in {3, 1}
    \/ /\ k = "abort"
       /\ \/ s = "dropJson" /\ n = 7
          \/ s = "version" /\ n = 6
          \/ s = "rangeNext" /\ n \in {5, 3}
          \/ s = "deleteKeys" /\ n \in {4, 2}
          \/ s = "return" /\ n = 1
    \/ /\ k = "put"
       /\ \/ s = "lock" /\ n = 4
          \/ s = "version" /\ n = 3
          \/ s = "putObject" /\ n = 2
          \/ s = "unlock" /\ n = 1
    \/ /\ k = "remove"
       /\ \/ s = "lock" /\ n = 4
          \/ s = "deleteParts" /\ n = 3
          \/ s = "deleteMeta" /\ n = 2
          \/ s = "unlock" /\ n = 1
    \/ /\ k = "copy"
       /\ \/ s = "lock" /\ n = 9
          \/ s = "version" /\ n = 8
          \/ s = "copyParts" /\ n = 7
          \/ s = "putCopy" /\ n = 6
          \/ s = "rangeCurrent" /\ n \in {5, 3}
          \/ s = "deleteKeys" /\ n \in {4, 2}
          \/ s = "unlock" /\ n = 1
    \/ /\ k = "copyFailed"
       /\ \/ s = "rangeNext" /\ n \in {5, 3}
          \/ s = "deleteKeys" /\ n \in {4, 2}
          \/ s = "unlock" /\ n = 1

Follows(k, t) == \A i \in 1..Len(t) : Point(k, Len(t) + 1 - i, t[i])

(* The requests that own the object's namespace lock. *)
Owns(l) ==
    \/ Kind(l) \in {"put", "remove"} /\ Len(l.todo) < 4
    \/ Kind(l) = "copy" /\ Len(l.todo) < 9
    \/ Kind(l) = "copyFailed"

(* A request follows its program, works for an upload or for none, and owns the *)
(* namespace lock from the first step to the last; a copy begins with all parts. *)
Request(w) ==
    /\ Follows(Kind(loc[w]), loc[w].todo)
    /\ (loc[w].todo = <<>> \/ loc[w].op = "idle") => loc[w] = Idle
    /\ loc[w].up = None <=> loc[w].op \notin UploadOps
    /\ loc[w].op \in {"put", "remove", "copy"} => loc[w].op \in Ops
    /\ Owns(loc[w]) => nsLock = w
    /\ Kind(loc[w]) = "copy" /\ Len(loc[w].todo) > 7 => loc[w].nums = Parts

(* Every program runs through the points of its kind. *)
LEMMA Starts ==
    /\ Len(PutObjectPartHandler) = 10 /\ Follows("part", PutObjectPartHandler)
    /\ Len(CompleteMultipartUploadHandler) = 9 /\ Follows("complete", CompleteMultipartUploadHandler)
    /\ Len(deletePartsCurrent) = 4 /\ Follows("purge", deletePartsCurrent)
    /\ Len(AbortMultipartUpload) = 7 /\ Follows("abort", AbortMultipartUpload)
    /\ Len(PutObject) = 4 /\ Follows("put", PutObject)
    /\ Len(DeleteObject) = 4 /\ Follows("remove", DeleteObject)
    /\ Len(CopyObject) = 9 /\ Follows("copy", CopyObject)
    /\ Len(deletePartsNext \o <<"unlock">>) = 5 /\ Follows("copyFailed", deletePartsNext \o <<"unlock">>)
    /\ Follows("put", <<"unlock">>) /\ Follows("remove", <<"unlock">>)
    /\ Commits(CompleteMultipartUploadHandler) /\ ~Commits(deletePartsCurrent)
<1>1. Len(PutObjectPartHandler) = 10 /\ Follows("part", PutObjectPartHandler)
  <2> DEFINE P == PutObjectPartHandler
  <2>1. /\ Len(P) = 10
        /\ P[1] = "version" /\ P[2] = "rangeCurrent" /\ P[3] = "statFirst"
        /\ P[4] = "checkJson" /\ P[5] = "version" /\ P[6] = "rangeCurrent"
        /\ P[7] = "statFirst" /\ P[8] = "checkJson" /\ P[9] = "version"
        /\ P[10] = "putPart"
    BY DEF PutObjectPartHandler, listObjectParts
  <2> HIDE DEF P
  <2>2. SUFFICES ASSUME NEW i \in 1..10 PROVE Point("part", 11 - i, P[i])
    BY <2>1 DEF Follows, P
  <2>3. i \in {1, 2, 3, 4, 5, 6, 7, 8, 9, 10}
    OBVIOUS
  <2> QED
    BY <2>1, <2>3 DEF Point
<1>2. Len(CompleteMultipartUploadHandler) = 9 /\ Follows("complete", CompleteMultipartUploadHandler)
  <2> DEFINE P == CompleteMultipartUploadHandler
  <2>1. /\ Len(P) = 9
        /\ P[1] = "version" /\ P[2] = "rangeCurrent" /\ P[3] = "statFirst"
        /\ P[4] = "checkJson" /\ P[5] = "version" /\ P[6] = "rangeNext"
        /\ P[7] = "validate" /\ P[8] = "takeJson" /\ P[9] = "commit"
    BY DEF CompleteMultipartUploadHandler, listObjectParts
  <2> HIDE DEF P
  <2>2. SUFFICES ASSUME NEW i \in 1..9 PROVE Point("complete", 10 - i, P[i])
    BY <2>1 DEF Follows, P
  <2>3. i \in {1, 2, 3, 4, 5, 6, 7, 8, 9}
    OBVIOUS
  <2> QED
    BY <2>1, <2>3 DEF Point
<1>3. Len(deletePartsCurrent) = 4 /\ Follows("purge", deletePartsCurrent)
  <2> DEFINE P == deletePartsCurrent
  <2>1. /\ Len(P) = 4
        /\ P[1] = "rangeCurrent" /\ P[2] = "deleteKeys" /\ P[3] = "rangeCurrent"
        /\ P[4] = "deleteKeys"
    BY DEF deletePartsCurrent
  <2> HIDE DEF P
  <2>2. SUFFICES ASSUME NEW i \in 1..4 PROVE Point("purge", 5 - i, P[i])
    BY <2>1 DEF Follows, P
  <2>3. i \in {1, 2, 3, 4}
    OBVIOUS
  <2> QED
    BY <2>1, <2>3 DEF Point
<1>4. Len(AbortMultipartUpload) = 7 /\ Follows("abort", AbortMultipartUpload)
  <2> DEFINE P == AbortMultipartUpload
  <2>1. /\ Len(P) = 7
        /\ P[1] = "dropJson" /\ P[2] = "version" /\ P[3] = "rangeNext"
        /\ P[4] = "deleteKeys" /\ P[5] = "rangeNext" /\ P[6] = "deleteKeys"
        /\ P[7] = "return"
    BY DEF AbortMultipartUpload, deletePartsNext
  <2> HIDE DEF P
  <2>2. SUFFICES ASSUME NEW i \in 1..7 PROVE Point("abort", 8 - i, P[i])
    BY <2>1 DEF Follows, P
  <2>3. i \in {1, 2, 3, 4, 5, 6, 7}
    OBVIOUS
  <2> QED
    BY <2>1, <2>3 DEF Point
<1>5. Len(PutObject) = 4 /\ Follows("put", PutObject)
  <2> DEFINE P == PutObject
  <2>1. /\ Len(P) = 4
        /\ P[1] = "lock" /\ P[2] = "version" /\ P[3] = "putObject"
        /\ P[4] = "unlock"
    BY DEF PutObject
  <2> HIDE DEF P
  <2>2. SUFFICES ASSUME NEW i \in 1..4 PROVE Point("put", 5 - i, P[i])
    BY <2>1 DEF Follows, P
  <2>3. i \in {1, 2, 3, 4}
    OBVIOUS
  <2> QED
    BY <2>1, <2>3 DEF Point
<1>6. Len(DeleteObject) = 4 /\ Follows("remove", DeleteObject)
  <2> DEFINE P == DeleteObject
  <2>1. /\ Len(P) = 4
        /\ P[1] = "lock" /\ P[2] = "deleteParts" /\ P[3] = "deleteMeta"
        /\ P[4] = "unlock"
    BY DEF DeleteObject
  <2> HIDE DEF P
  <2>2. SUFFICES ASSUME NEW i \in 1..4 PROVE Point("remove", 5 - i, P[i])
    BY <2>1 DEF Follows, P
  <2>3. i \in {1, 2, 3, 4}
    OBVIOUS
  <2> QED
    BY <2>1, <2>3 DEF Point
<1>7. Len(CopyObject) = 9 /\ Follows("copy", CopyObject)
  <2> DEFINE P == CopyObject
  <2>1. /\ Len(P) = 9
        /\ P[1] = "lock" /\ P[2] = "version" /\ P[3] = "copyParts"
        /\ P[4] = "putCopy" /\ P[5] = "rangeCurrent" /\ P[6] = "deleteKeys"
        /\ P[7] = "rangeCurrent" /\ P[8] = "deleteKeys" /\ P[9] = "unlock"
    BY DEF CopyObject, deletePartsCurrent
  <2> HIDE DEF P
  <2>2. SUFFICES ASSUME NEW i \in 1..9 PROVE Point("copy", 10 - i, P[i])
    BY <2>1 DEF Follows, P
  <2>3. i \in {1, 2, 3, 4, 5, 6, 7, 8, 9}
    OBVIOUS
  <2> QED
    BY <2>1, <2>3 DEF Point
<1>8. Len(deletePartsNext \o <<"unlock">>) = 5 /\ Follows("copyFailed", deletePartsNext \o <<"unlock">>)
  <2> DEFINE P == deletePartsNext \o <<"unlock">>
  <2>1. /\ Len(P) = 5
        /\ P[1] = "rangeNext" /\ P[2] = "deleteKeys" /\ P[3] = "rangeNext"
        /\ P[4] = "deleteKeys" /\ P[5] = "unlock"
    BY DEF deletePartsNext
  <2> HIDE DEF P
  <2>2. SUFFICES ASSUME NEW i \in 1..5 PROVE Point("copyFailed", 6 - i, P[i])
    BY <2>1 DEF Follows, P
  <2>3. i \in {1, 2, 3, 4, 5}
    OBVIOUS
  <2> QED
    BY <2>1, <2>3 DEF Point
<1>9. Follows("put", <<"unlock">>) /\ Follows("remove", <<"unlock">>)
  <2>1. Point("put", 1, "unlock") /\ Point("remove", 1, "unlock")
    BY DEF Point
  <2>2. \A i \in 1..Len(<<"unlock">>) : Len(<<"unlock">>) + 1 - i = 1 /\ <<"unlock">>[i] = "unlock"
    OBVIOUS
  <2> QED
    BY <2>1, <2>2, Zenon DEF Follows
<1>10. Commits(CompleteMultipartUploadHandler)
  <2>1. /\ Len(CompleteMultipartUploadHandler) = 9
        /\ CompleteMultipartUploadHandler[9] = "commit"
    BY DEF CompleteMultipartUploadHandler, listObjectParts
  <2> QED
    BY <2>1 DEF Commits
<1>11. ~Commits(deletePartsCurrent)
  BY Programs, NamesCommits
<1> QED
  BY <1>1, <1>2, <1>3, <1>4, <1>5, <1>6, <1>7, <1>8, <1>9, <1>10, <1>11

(* What a step leaves of a program follows the same points. *)
LEMMA TailFollows ==
    ASSUME NEW k, NEW t \in Seq(Steps), t # <<>>, Follows(k, t)
    PROVE  /\ Len(t) \in Nat \ {0} /\ Point(k, Len(t), Head(t))
           /\ Tail(t) \in Seq(Steps) /\ Len(Tail(t)) = Len(t) - 1
           /\ Tail(t) = <<>> <=> Len(t) = 1
           /\ Follows(k, Tail(t))
<1>1. /\ Head(t) = t[1] /\ Len(t) \in Nat \ {0}
      /\ Tail(t) \in Seq(Steps) /\ Len(Tail(t)) = Len(t) - 1
      /\ \A i \in 1..Len(Tail(t)) : Tail(t)[i] = t[i+1]
  OBVIOUS
<1>2. Tail(t) = <<>> <=> Len(t) = 1
  <2>1. \A r \in Seq(Steps) : r = <<>> <=> Len(r) = 0
    OBVIOUS
  <2>2. Len(Tail(t)) = 0 <=> Len(t) = 1
    <3>1. \A m \in Nat \ {0} : m - 1 = 0 <=> m = 1
      OBVIOUS
    <3> QED
      BY <1>1, <3>1
  <2>3. Tail(t) = <<>> <=> Len(Tail(t)) = 0
    BY <1>1, <2>1, Zenon
  <2> QED
    BY <2>2, <2>3, Zenon
<1>3. Point(k, Len(t), Head(t))
  <2>1. 1 \in 1..Len(t) /\ Len(t) + 1 - 1 = Len(t)
    BY <1>1
  <2>2. Point(k, Len(t) + 1 - 1, t[1])
    BY <2>1 DEF Follows
  <2> QED
    BY <1>1, <2>1, <2>2
<1>4. Follows(k, Tail(t))
  <2> SUFFICES ASSUME NEW i \in 1..Len(Tail(t))
               PROVE  Point(k, Len(Tail(t)) + 1 - i, Tail(t)[i])
    BY DEF Follows
  <2>1. i + 1 \in 1..Len(t) /\ Len(Tail(t)) + 1 - i = Len(t) + 1 - (i + 1)
    <3>1. \A m \in Nat \ {0} : \A j \in 1..m - 1 :
             j + 1 \in 1..m /\ (m - 1) + 1 - j = m + 1 - (j + 1)
      OBVIOUS
    <3> QED
      BY <1>1, <3>1, Zenon
  <2>2. Point(k, Len(t) + 1 - (i + 1), t[i + 1])
    BY <2>1 DEF Follows
  <2> QED
    BY <1>1, <2>1, <2>2
<1> QED
  BY <1>1, <1>2, <1>3, <1>4

(* A request stands at a point of its kind. *)
LEMMA Standing ==
    ASSUME IInv, NEW w \in Workers, Request(w), NEW step, At(w, step)
    PROVE  /\ Point(Kind(loc[w]), Len(loc[w].todo), step)
           /\ Len(loc[w].todo) \in Nat \ {0}
<1>1. loc[w].todo \in Seq(Steps) /\ loc[w].todo # <<>> /\ Head(loc[w].todo) = step
  BY DEF IInv, TypeOK, Requests, At
<1> QED
  BY <1>1, TailFollows, Zenon DEF Request

(* The kind of a request is its operation, or a purge. *)
LEMMA KindOp ==
    ASSUME NEW l \in Requests
    PROVE  /\ Kind(l) = "purge" => l.op = "complete"
           /\ Kind(l) # "purge" => Kind(l) = l.op
           /\ l.op # "complete" => Kind(l) = l.op
           /\ Kind(l) = "complete" => Commits(l.todo)
           /\ Kind(l) \in Operations \union {"purge"}
<1>1. l.op \in Operations
  BY DEF Requests
<1> QED
  BY <1>1 DEF Kind, Operations, SelfCopies

(* The request has done its step and knows what l says, or has come to its end. *)
Advanced(w, l) ==
    /\ \A v \in Workers \ {w} : loc'[v] = loc[v]
    /\ Len(loc[w].todo) = 1 => loc'[w] = Idle
    /\ Len(loc[w].todo) # 1 =>
          /\ loc'[w].op = loc[w].op /\ loc'[w].up = loc[w].up
          /\ loc'[w].nums = l.nums /\ loc'[w].ver = l.ver /\ loc'[w].keys = l.keys
          /\ loc'[w].todo # <<>>
          /\ Kind(loc'[w]) = Kind(loc[w])
          /\ Len(loc'[w].todo) = Len(loc[w].todo) - 1
          /\ Follows(Kind(loc'[w]), loc'[w].todo)

(* A Complete that has not committed still ends in its commit. *)
LEMMA Continues ==
    ASSUME IInv, NEW w \in Workers, Request(w), NEW step, At(w, step),
           NEW l \in Requests, l.todo = loc[w].todo, l.up = loc[w].up, l.op = loc[w].op,
           Continue(w, l)
    PROVE  Advanced(w, l)
<1> DEFINE t == loc[w].todo
           k == Kind(loc[w])
           m == [l EXCEPT !.todo = Tail(@)]
<1>1. loc \in [Workers -> Requests] /\ t \in Seq(Steps) /\ t # <<>> /\ Follows(k, t)
  BY DEF IInv, TypeOK, Requests, At, Request
<1>2. /\ Len(t) \in Nat \ {0} /\ Tail(t) \in Seq(Steps) /\ Len(Tail(t)) = Len(t) - 1
      /\ Tail(t) = <<>> <=> Len(t) = 1
      /\ Follows(k, Tail(t))
  BY <1>1, TailFollows, Zenon
<1>3. /\ m.todo = Tail(t) /\ m.up = loc[w].up /\ m.op = loc[w].op
      /\ m.nums = l.nums /\ m.ver = l.ver /\ m.keys = l.keys
  BY DEF Requests
<1>4. loc' = [loc EXCEPT ![w] = Done(m)]
  BY DEF Continue
<1>5. Len(t) # 1 => Kind(m) = k
  <2> SUFFICES ASSUME Len(t) # 1, loc[w].op = "complete"
               PROVE  Commits(Tail(t)) <=> Commits(t)
    BY <1>3, Zenon DEF Kind
  <2>1. Commits(Tail(t)) => Commits(t)
    BY <1>1, TailShape DEF IInv, RequestInv
  <2>2. ASSUME Commits(t) PROVE Commits(Tail(t))
    <3>1. k = "complete" /\ Len(Tail(t)) \in 1..Len(Tail(t))
      BY <1>2, <2>2 DEF Kind
    <3>2. Point(k, Len(Tail(t)) + 1 - Len(Tail(t)), Tail(t)[Len(Tail(t))])
      BY <1>2, <3>1, Zenon DEF Follows
    <3>3. Point("complete", 1, Tail(t)[Len(Tail(t))])
      BY <1>2, <3>1, <3>2
    <3>4. Tail(t)[Len(Tail(t))] = "commit"
      <4>1. \A s : Point("complete", 1, s) => s = "commit"
        BY DEF Point
      <4> QED
        BY <3>3, <4>1, Zenon
    <3> QED
      BY <3>1, <3>4, Zenon DEF Commits
  <2> QED
    BY <2>1, <2>2
<1> HIDE DEF m, t, k
<1>6. CASE Len(t) = 1
  <2>1. loc'[w] = Idle /\ \A v \in Workers \ {w} : loc'[v] = loc[v]
    BY <1>1, <1>2, <1>3, <1>4, <1>6 DEF Done
  <2> QED
    BY <1>6, <2>1 DEF Advanced, t
<1>7. CASE Len(t) # 1
  <2>1. loc'[w] = m /\ \A v \in Workers \ {w} : loc'[v] = loc[v]
    BY <1>1, <1>2, <1>3, <1>4, <1>7 DEF Done
  <2> QED
    BY <1>2, <1>3, <1>5, <1>7, <2>1, Zenon DEF Advanced, t, k
<1> QED
  BY <1>6, <1>7

(* An error has sent the request to a program of its own, or ended it. *)
Fallen(w) ==
    /\ \A v \in Workers \ {w} : loc'[v] = loc[v]
    /\ loc'[w] # Idle =>
          /\ loc'[w].todo # <<>>
          /\ loc'[w].up = loc[w].up /\ loc'[w].ver = loc[w].ver
          /\ Kind(loc'[w]) = loc'[w].op
          /\ Follows(Kind(loc'[w]), loc'[w].todo)
          /\ \/ loc[w].op = "part" /\ loc'[w].op = "abort" /\ Len(loc'[w].todo) = 7
             \/ loc[w].op = "copy" /\ loc'[w].op = "copyFailed" /\ Len(loc'[w].todo) = 5
             \/ /\ loc[w].op \in {"put", "remove"} /\ loc'[w].op = loc[w].op
                /\ Len(loc'[w].todo) = 1

(* A copy of the object to itself stands at none of these points. *)
LEMMA NotToItself ==
    ASSUME IInv, NEW w \in Workers, Request(w), NEW step, At(w, step)
    PROVE  loc[w].op \notin SelfCopies /\ step # "source"
<1>1. Point(Kind(loc[w]), Len(loc[w].todo), step)
  BY Standing
<1>2. loc[w].op \in SelfCopies => Kind(loc[w]) \in SelfCopies
  BY DEF Kind, SelfCopies
<1>3. \A k, n : Point(k, n, step) => k \notin SelfCopies /\ step # "source"
  BY DEF Point, SelfCopies
<1> QED
  BY <1>1, <1>2, <1>3, Zenon

(* Where Fail sends a request. *)
LEMMA Fails ==
    ASSUME IInv, NEW w \in Workers, Fail(w), loc[w].op \notin SelfCopies
    PROVE  Fallen(w)
<1>1. loc \in [Workers -> Requests]
  BY DEF IInv, TypeOK
<1>2. ASSUME NEW o \in Operations \ {"complete"}, NEW t, t \in Seq(Steps), t # <<>>,
             Goto(w, o, t)
      PROVE  /\ \A v \in Workers \ {w} : loc'[v] = loc[v]
             /\ loc'[w].todo = t /\ loc'[w].op = o /\ Kind(loc'[w]) = o
             /\ loc'[w].up = loc[w].up /\ loc'[w].ver = loc[w].ver
  <2> DEFINE m == [loc[w] EXCEPT !.op = o, !.todo = t]
  <2>1. /\ m.todo = t /\ m.up = loc[w].up /\ m.op = o /\ m.ver = loc[w].ver
    BY <1>1 DEF Requests
  <2>2. loc' = [loc EXCEPT ![w] = Done(m)]
    BY <1>1, <1>2 DEF Goto
  <2> HIDE DEF m
  <2>3. loc'[w] = m /\ \A v \in Workers \ {w} : loc'[v] = loc[v]
    BY <1>1, <1>2, <2>1, <2>2 DEF Done
  <2> QED
    BY <2>1, <2>3 DEF Kind
<1>3. /\ \A t \in Seq(Steps) : Len(t) > 0 => t # <<>>
      /\ \A t \in Seq(Steps) : t = <<>> => Len(t) = 0
  OBVIOUS
<1>4. CASE loc[w].op = "part"
  <2>1. Goto(w, "abort", AbortMultipartUpload)
    BY <1>4 DEF Fail
  <2>2. AbortMultipartUpload \in Seq(Steps) /\ AbortMultipartUpload # <<>>
    <3>1. AbortMultipartUpload \in Seq(Steps)
      BY Programs, Zenon DEF Fresh
    <3>2. Len(AbortMultipartUpload) = 7
      BY Starts, Zenon
    <3> QED
      BY <1>3, <3>1, <3>2
  <2>3. "abort" \in Operations \ {"complete"}
    BY DEF Operations
  <2> QED
    BY <1>2, <1>4, <2>1, <2>2, <2>3, Starts DEF Fallen
<1>5. CASE loc[w].op = "copy"
  <2> DEFINE P == deletePartsNext \o <<"unlock">>
  <2>1. Goto(w, "copyFailed", P)
    BY <1>5 DEF Fail
  <2>2. Len(P) = 5 /\ Follows("copyFailed", P) /\ P \in Seq(Steps)
    BY Programs, Starts, Zenon DEF Fresh
  <2> HIDE DEF P
  <2>3. P # <<>>
    <3>1. Len(P) > 0
      BY <2>2
    <3> QED
      BY <1>3, <2>2, <3>1, Zenon
  <2>4. "copyFailed" \in Operations \ {"complete"}
    BY DEF Operations
  <2> QED
    BY <1>2, <1>5, <2>1, <2>2, <2>3, <2>4 DEF Fallen
<1>6. CASE loc[w].op \in {"put", "remove"}
  <2> DEFINE P == <<"unlock">>
  <2>1. Goto(w, loc[w].op, P)
    BY <1>6 DEF Fail
  <2>2. Len(P) = 1 /\ Follows(loc[w].op, P)
    BY <1>6, Starts
  <2>3. P \in Seq(Steps) /\ P # <<>>
    BY DEF Steps
  <2> HIDE DEF P
  <2>4. loc[w].op \in Operations \ {"complete"}
    BY <1>6 DEF Operations
  <2> QED
    BY <1>2, <1>6, <2>1, <2>2, <2>3, <2>4 DEF Fallen
<1>7. CASE loc[w].op \notin {"part", "copy", "put", "remove"}
  <2>1. loc' = [loc EXCEPT ![w] = Done([loc[w] EXCEPT !.op = "idle", !.todo = <<>>])]
    BY <1>1, <1>7 DEF Fail, Goto, SelfCopies
  <2>2. [loc[w] EXCEPT !.op = "idle", !.todo = <<>>].todo = <<>>
    BY <1>1 DEF Requests
  <2>3. loc'[w] = Idle /\ \A v \in Workers \ {w} : loc'[v] = loc[v]
    BY <1>1, <2>1, <2>2 DEF Done
  <2> QED
    BY <2>3 DEF Fallen
<1> QED
  BY <1>4, <1>5, <1>6, <1>7

(* One request has gone on, for the same upload or none. *)
Turned(w) ==
    /\ \A v \in Workers \ {w} : loc'[v] = loc[v]
    /\ loc'[w].up \in {loc[w].up, None}
    /\ loc'[w].op \in {"copy", "copyFailed"} => loc[w].op \in {"copy", "copyFailed"}

(* Doing a step is that. *)
LEMMA AdvancedTurned ==
    ASSUME NEW w \in Workers, NEW l, Advanced(w, l)
    PROVE  Turned(w)
<1>1. Idle.up = None /\ Idle.op = "idle"
  BY DEF Idle
<1>2. CASE loc'[w] = Idle
  BY <1>1, <1>2 DEF Advanced, Turned
<1>3. CASE loc'[w] # Idle
  BY <1>3 DEF Advanced, Turned
<1> QED
  BY <1>2, <1>3

(* So is failing. *)
LEMMA FallenTurned ==
    ASSUME NEW w \in Workers, Fallen(w)
    PROVE  Turned(w)
<1>1. Idle.up = None /\ Idle.op = "idle"
  BY DEF Idle
<1>2. CASE loc'[w] = Idle
  BY <1>1, <1>2 DEF Fallen, Turned
<1>3. CASE loc'[w] # Idle
  <2>1. /\ loc'[w].up = loc[w].up
        /\ \/ loc[w].op = "part" /\ loc'[w].op = "abort"
           \/ loc[w].op = "copy" /\ loc'[w].op = "copyFailed"
           \/ loc[w].op \in {"put", "remove"} /\ loc'[w].op = loc[w].op
    BY <1>3 DEF Fallen
  <2> QED
    BY <2>1 DEF Fallen, Turned
<1> QED
  BY <1>2, <1>3

(* Which requests take which step, and when. *)
LEMMA Points ==
    /\ \A k, n : Point(k, n, "version") =>
              k \in {"part", "put"} \/ (k = "complete" /\ n \in {9, 5})
              \/ (k = "abort" /\ n = 6) \/ (k = "copy" /\ n = 8)
    /\ \A k, n : Point(k, n, "rangeCurrent") =>
              k = "part" \/ (k = "complete" /\ n = 8) \/ k = "purge"
              \/ (k = "copy" /\ n \in {5, 3})
    /\ \A k, n : Point(k, n, "rangeNext") =>
              (k = "complete" /\ n = 4) \/ k = "copyFailed"
              \/ (k = "abort" /\ n \in {5, 3})
    /\ \A k, n : Point(k, n, "statFirst") =>
              k = "part" \/ (k = "complete" /\ n = 7)
    /\ \A k, n : Point(k, n, "checkJson") =>
              k = "part" \/ (k = "complete" /\ n = 6)
    /\ \A k, n : Point(k, n, "putPart") =>
              k = "part" /\ n = 1
    /\ \A k, n : Point(k, n, "validate") =>
              k = "complete" /\ n = 3
    /\ \A k, n : Point(k, n, "takeJson") =>
              k = "complete" /\ n = 2
    /\ \A k, n : Point(k, n, "commit") =>
              k = "complete" /\ n = 1
    /\ \A k, n : Point(k, n, "dropJson") =>
              k = "abort" /\ n = 7
    /\ \A k, n : Point(k, n, "return") =>
              k = "abort" /\ n = 1
    /\ \A k, n : Point(k, n, "lock") =>
              (k \in {"put", "remove"} /\ n = 4) \/ (k = "copy" /\ n = 9)
    /\ \A k, n : Point(k, n, "unlock") =>
              k \in {"put", "remove", "copy", "copyFailed"} /\ n = 1
    /\ \A k, n : Point(k, n, "putObject") =>
              k = "put" /\ n = 2
    /\ \A k, n : Point(k, n, "deleteParts") =>
              k = "remove" /\ n = 3
    /\ \A k, n : Point(k, n, "deleteMeta") =>
              k = "remove" /\ n = 2
    /\ \A k, n : Point(k, n, "copyParts") =>
              k = "copy" /\ n = 7
    /\ \A k, n : Point(k, n, "putCopy") =>
              k = "copy" /\ n = 6
<1>1. \A k, n : Point(k, n, "version") =>
              k \in {"part", "put"} \/ (k = "complete" /\ n \in {9, 5})
              \/ (k = "abort" /\ n = 6) \/ (k = "copy" /\ n = 8)
  BY DEF Point
<1>2. \A k, n : Point(k, n, "rangeCurrent") =>
              k = "part" \/ (k = "complete" /\ n = 8) \/ k = "purge"
              \/ (k = "copy" /\ n \in {5, 3})
  BY DEF Point
<1>3. \A k, n : Point(k, n, "rangeNext") =>
              (k = "complete" /\ n = 4) \/ k = "copyFailed"
              \/ (k = "abort" /\ n \in {5, 3})
  BY DEF Point
<1>4. \A k, n : Point(k, n, "statFirst") =>
              k = "part" \/ (k = "complete" /\ n = 7)
  BY DEF Point
<1>5. \A k, n : Point(k, n, "checkJson") =>
              k = "part" \/ (k = "complete" /\ n = 6)
  BY DEF Point
<1>6. \A k, n : Point(k, n, "putPart") =>
              k = "part" /\ n = 1
  BY DEF Point
<1>7. \A k, n : Point(k, n, "validate") =>
              k = "complete" /\ n = 3
  BY DEF Point
<1>8. \A k, n : Point(k, n, "takeJson") =>
              k = "complete" /\ n = 2
  BY DEF Point
<1>9. \A k, n : Point(k, n, "commit") =>
              k = "complete" /\ n = 1
  BY DEF Point
<1>10. \A k, n : Point(k, n, "dropJson") =>
              k = "abort" /\ n = 7
  BY DEF Point
<1>11. \A k, n : Point(k, n, "return") =>
              k = "abort" /\ n = 1
  BY DEF Point
<1>12. \A k, n : Point(k, n, "lock") =>
              (k \in {"put", "remove"} /\ n = 4) \/ (k = "copy" /\ n = 9)
  BY DEF Point
<1>13. \A k, n : Point(k, n, "unlock") =>
              k \in {"put", "remove", "copy", "copyFailed"} /\ n = 1
  BY DEF Point
<1>14. \A k, n : Point(k, n, "putObject") =>
              k = "put" /\ n = 2
  BY DEF Point
<1>15. \A k, n : Point(k, n, "deleteParts") =>
              k = "remove" /\ n = 3
  BY DEF Point
<1>16. \A k, n : Point(k, n, "deleteMeta") =>
              k = "remove" /\ n = 2
  BY DEF Point
<1>17. \A k, n : Point(k, n, "copyParts") =>
              k = "copy" /\ n = 7
  BY DEF Point
<1>18. \A k, n : Point(k, n, "putCopy") =>
              k = "copy" /\ n = 6
  BY DEF Point
<1> QED
  BY <1>1, <1>2, <1>3, <1>4, <1>5, <1>6, <1>7, <1>8, <1>9, <1>10, <1>11, <1>12, <1>13, <1>14, <1>15, <1>16, <1>17, <1>18, Zenon

(* An upload's request is no copy. *)
LEMMA OfKind ==
    ASSUME IInv, NEW w \in Workers, Kind(loc[w]) \in {"part", "complete", "purge", "abort"}
    PROVE  /\ loc[w].op \in UploadOps /\ loc[w].op # "copy"
           /\ loc[w].up \in Uploads /\ loc[w].up # None
<1>0. loc[w] \in Requests
  BY DEF IInv, TypeOK
<1>1. loc[w].op \in {"part", "complete", "abort"}
  BY <1>0, KindOp, Zenon
<1>2. loc[w].up \in Uploads
  BY <1>1 DEF IInv, RequestInv, UploadOps
<1> QED
  BY <1>1, <1>2, OptionsAssumption DEF UploadOps

(* A Complete that has committed purges the old version, if there is one. *)
LEMMA Purges ==
    ASSUME IInv, NEW w \in Workers,
           Goto(w, "complete", IF loc[w].ver = 0 THEN <<>> ELSE deletePartsCurrent)
    PROVE  /\ Turned(w) /\ \A v \in Workers \ {w} : loc'[v] = loc[v]
           /\ loc'[w] # Idle =>
                 /\ loc'[w].op = "complete" /\ loc'[w].up = loc[w].up /\ loc'[w].ver = loc[w].ver
                 /\ Kind(loc'[w]) = "purge" /\ Len(loc'[w].todo) = 4 /\ loc'[w].todo # <<>>
                 /\ Follows("purge", loc'[w].todo)
<1> DEFINE t == IF loc[w].ver = 0 THEN <<>> ELSE deletePartsCurrent
           m == [loc[w] EXCEPT !.op = "complete", !.todo = t]
<1>0. loc \in [Workers -> Requests]
  BY DEF IInv, TypeOK
<1>1. m.todo = t /\ m.op = "complete" /\ m.up = loc[w].up /\ m.ver = loc[w].ver
  BY <1>0 DEF Requests
<1>2. loc' = [loc EXCEPT ![w] = Done(m)]
  BY <1>0 DEF Goto
<1> HIDE DEF m
<1>3. loc'[w] = Done(m) /\ \A v \in Workers \ {w} : loc'[v] = loc[v]
  BY <1>0, <1>2
<1>4. t # <<>> => t = deletePartsCurrent
  OBVIOUS
<1> HIDE DEF t
<1>5. loc'[w] # Idle =>
          /\ loc'[w].todo = deletePartsCurrent /\ loc'[w].op = "complete"
          /\ loc'[w].up = loc[w].up /\ loc'[w].ver = loc[w].ver
  BY <1>1, <1>3, <1>4 DEF Done
<1>6. /\ Len(deletePartsCurrent) = 4 /\ Follows("purge", deletePartsCurrent)
      /\ ~Commits(deletePartsCurrent)
  BY Starts
<1>7. deletePartsCurrent # <<>>
  BY DEF deletePartsCurrent
<1>8. loc'[w] # Idle => Kind(loc'[w]) = "purge"
  BY <1>5, <1>6 DEF Kind
<1>9. Idle.up = None /\ Idle.op = "idle"
  BY DEF Idle
<1>10. Turned(w)
  BY <1>3, <1>5, <1>9 DEF Turned
<1> QED
  BY <1>3, <1>5, <1>6, <1>7, <1>8, <1>10

(* A worker without a request holds nothing. *)
LEMMA IdleHolds ==
    ASSUME NEW w \in Workers, loc'[w] = Idle
    PROVE  Request(w)'
<1>1. /\ Idle.op = "idle" /\ Idle.todo = <<>> /\ Idle.up = None /\ Kind(Idle) = "idle"
      /\ Len(Idle.todo) = 0
  BY Zenon DEF Idle, Kind
<1>2. Follows("idle", <<>>) /\ ~Owns(Idle)
  BY <1>1 DEF Follows, Owns
<1> QED
  BY <1>1, <1>2 DEF Request, UploadOps

(* The points at which keys are deleted. *)
LEMMA DeletePoints ==
    \A k, n : Point(k, n, "deleteKeys") =>
        \/ k = "purge" /\ n \in {3, 1}
        \/ k \in {"abort", "copy", "copyFailed"} /\ n \in {4, 2}
BY DEF Point

(* A request goes on within its program. *)
LEMMA StillRequest ==
    ASSUME IInv, NEW w \in Workers, Request(w), NEW l, NEW step, At(w, step),
           Advanced(w, l), Owns(loc'[w]) => nsLock' = w,
           Kind(loc'[w]) = "copy" /\ Len(loc'[w].todo) > 7 => loc'[w].nums = Parts
    PROVE  Request(w)'
<1>1. CASE loc'[w] = Idle
  BY <1>1, IdleHolds
<1>2. CASE loc'[w] # Idle
  <2>1. Advanced(w, l) /\ Len(loc[w].todo) # 1
    BY <1>2 DEF Advanced
  <2>2. /\ loc'[w].todo # <<>> /\ loc'[w].op = loc[w].op /\ loc'[w].up = loc[w].up
        /\ Follows(Kind(loc'[w]), loc'[w].todo)
    BY <2>1 DEF Advanced
  <2>3. loc[w].op # "idle"
    <3>1. loc[w].todo # <<>> /\ Idle.todo = <<>>
      BY Zenon DEF At, Idle
    <3> QED
      BY <3>1, Zenon DEF Request
  <2> QED
    BY <2>2, <2>3 DEF Request
<1> QED
  BY <1>1, <1>2

(* So does a request after an error. *)
LEMMA FallenRequest ==
    ASSUME IInv, NEW w \in Workers, Request(w), Fallen(w), nsLock' = nsLock,
           loc[w].op \in {"put", "remove", "copy"} => Owns(loc[w])
    PROVE  Request(w)'
<1>1. CASE loc'[w] = Idle
  BY <1>1, IdleHolds
<1>2. CASE loc'[w] # Idle
  <2>1. /\ loc'[w].todo # <<>> /\ loc'[w].up = loc[w].up
        /\ Kind(loc'[w]) = loc'[w].op /\ Follows(Kind(loc'[w]), loc'[w].todo)
        /\ \/ loc[w].op = "part" /\ loc'[w].op = "abort"
           \/ loc[w].op = "copy" /\ loc'[w].op = "copyFailed"
           \/ loc[w].op \in {"put", "remove"} /\ loc'[w].op = loc[w].op
    BY <1>2 DEF Fallen
  <2>2. loc'[w].op # "idle" /\ (loc'[w].up = None <=> loc'[w].op \notin UploadOps)
    BY <2>1 DEF Request, UploadOps
  <2>3. Owns(loc'[w]) => nsLock' = w
    BY <2>1 DEF Owns, Request
  <2> QED
    BY <2>1, <2>2, <2>3, Zenon DEF Request
<1> QED
  BY <1>1, <1>2

(* A request that is not at the lock has it, if it takes it at all. *)
LEMMA HasLock ==
    ASSUME IInv, NEW w \in Workers, Request(w), NEW step, At(w, step), step # "lock"
    PROVE  loc[w].op \in {"put", "remove", "copy", "copyFailed"} => Owns(loc[w]) /\ nsLock = w
<1> DEFINE k == Kind(loc[w])
           n == Len(loc[w].todo)
<1>1. Point(k, n, step) /\ n \in Nat
  BY Standing
<1>2. /\ k \in {"put", "remove"} => n \in {1, 2, 3}
      /\ k = "copy" => n \in 1..8
  <2> HIDE DEF k, n
  <2> QED
    BY <1>1 DEF Point
<1>3. loc[w].op \in {"put", "remove", "copy", "copyFailed"} => k = loc[w].op
  BY KindOp, Zenon DEF IInv, TypeOK
<1>4. loc[w].op \in {"put", "remove", "copy", "copyFailed"} => Owns(loc[w])
  <2> HIDE DEF k, n
  <2>1. \A m \in 1..8 : m < 9
    OBVIOUS
  <2>2. k \in {"put", "remove"} => n < 4
    BY <1>2
  <2>3. k = "copy" => n < 9
    BY <1>2, <2>1
  <2> QED
    BY <1>3, <2>2, <2>3 DEF Owns, k, n
<1> QED
  BY <1>4 DEF Request

(* It keeps the lock as it goes on. *)
LEMMA KeepsLock ==
    ASSUME IInv, NEW w \in Workers, Request(w), NEW l, NEW step, At(w, step), step # "lock",
           Advanced(w, l), nsLock' = nsLock
    PROVE  Request(w)'
<1>1. CASE loc'[w] = Idle
  BY <1>1, IdleHolds
<1>2. CASE loc'[w] # Idle
  <2>1. Kind(loc'[w]) = Kind(loc[w])
    BY <1>2 DEF Advanced
  <2>2. Owns(loc'[w]) => Kind(loc[w]) \in {"put", "remove", "copy", "copyFailed"}
    BY <2>1 DEF Owns
  <2>3. Kind(loc[w]) \in {"put", "remove", "copy", "copyFailed"} =>
           loc[w].op \in {"put", "remove", "copy", "copyFailed"}
    BY KindOp DEF IInv, TypeOK
  <2>4. ~(Kind(loc'[w]) = "copy" /\ Len(loc'[w].todo) > 7)
    <3>1. Point(Kind(loc[w]), Len(loc[w].todo), step) /\ Len(loc[w].todo) \in Nat \ {0}
      BY Standing
    <3>2. \A n : Point("copy", n, step) => n \in 1..8
      BY DEF Point
    <3>3. Len(loc'[w].todo) = Len(loc[w].todo) - 1
      BY <1>2 DEF Advanced
    <3>4. \A n \in 1..8 : ~(n - 1 > 7)
      OBVIOUS
    <3> QED
      BY <2>1, <3>1, <3>2, <3>3, <3>4
  <2> QED
    BY <2>2, <2>3, <2>4, HasLock, StillRequest
<1> QED
  BY <1>1, <1>2

(* A request that fails keeps it too. *)
LEMMA FailsLocked ==
    ASSUME IInv, NEW w \in Workers, Request(w), NEW step, At(w, step), step # "lock",
           Fail(w), nsLock' = nsLock
    PROVE  Fallen(w) /\ Request(w)'
BY NotToItself, Fails, HasLock, FallenRequest

-----------------------------------------------------------------------------
(* Clients work on one upload, on copies, or on one copy of the object to itself *)
(* at a time; only writes fail; the server does not restart where objects are   *)
(* deleted; and a version differs from the next one, also after the wrap-around. *)
Careful ==
    /\ Exclusive
    /\ MayFail \subseteq {"put"}
    /\ Crashes => "remove" \notin Ops
    /\ MaxVersion > 1

-----------------------------------------------------------------------------
(* The requests that delete part keys, and the version they delete. *)
Deleting(l) ==
    \/ Kind(l) \in {"purge", "copyFailed"}
    \/ Kind(l) \in {"abort", "copy"} /\ Len(l.todo) <= 5
Doomed(l) == IF Kind(l) \in {"purge", "copy"} THEN l.ver ELSE newVersion(l.ver)

(* No part of version v is part of the object with metadata m. *)
Unread(m, v) == m = None \/ m.parts = {} \/ m.ver # v

Key(v, n, tag) == [ver |-> v, num |-> n, tag |-> tag]

(* What a request relies on. *)
Stage(w) ==
    LET l == loc[w]
        k == Kind(l)
        n == Len(l.todo)
    IN  /\ k = "complete" /\ n = 2 /\ l.up \in json => Wanted(w) \subseteq store
        /\ k = "complete" /\ n = 1 => Wanted(w) \subseteq store
        /\ k = "purge" => commits[l.up] # 0
        /\ k = "abort" /\ n <= 6 => l.up \in aborted
        /\ k = "copy" /\ n \in {6, 7} =>
              /\ Version = l.ver
              /\ \A p \in Parts \ l.nums : Key(newVersion(l.ver), p, CopyTag) \in store
              /\ n = 6 => l.nums = {}
        /\ Deleting(l) => Unread(meta, Doomed(l))
        /\ At(w, "deleteKeys") => \A key \in l.keys : key.ver = Doomed(l)

(* One upload, or copies, at a time. *)
Apart ==
    /\ \A u, v \in json : u = v
    /\ \A w \in Workers : loc[w].up # None =>
          json \subseteq {loc[w].up} /\ \A v \in Workers : loc[v].up \in {None, loc[w].up}
    /\ \A w \in Workers : loc[w].op \in {"copy", "copyFailed"} =>
          json = {} /\ \A v \in Workers : loc[v].up = None

(* The parts of the object were copied or come from an upload that is committed. *)
Tags ==
    meta # None => \A p \in meta.parts :
        p.tag = CopyTag \/ (p.tag \in Uploads /\ commits[p.tag] # 0)

RInv ==
    /\ \A w \in Workers : Request(w) /\ Stage(w)
    /\ Apart /\ Tags /\ CommittedReadable

-----------------------------------------------------------------------------
(* An idle worker relies on nothing. *)
LEMMA IdleRelies ==
    ASSUME NEW w \in Workers, loc'[w] = Idle
    PROVE  Request(w)' /\ Stage(w)'
<1>1. /\ Idle.op = "idle" /\ Idle.todo = <<>> /\ Idle.up = None /\ Kind(Idle) = "idle"
      /\ Len(Idle.todo) = 0
  BY DEF Idle, Kind
<1>2. ~Deleting(Idle)
  BY <1>1 DEF Deleting
<1>3. Request(w)'
  BY IdleHolds, Zenon
<1>4. Stage(w)'
  BY <1>1, <1>2 DEF Stage, At
<1> QED
  BY <1>3, <1>4, Zenon

(* The requests that rely on nothing but the namespace lock. *)
Free(k, n) ==
    \/ k \in {"part", "put", "remove"}
    \/ k = "complete" /\ n > 2
    \/ k = "abort" /\ n > 6
    \/ k = "copy" /\ n > 7

(* What they do not do. *)
LEMMA FreePoints ==
    ASSUME NEW k, NEW n \in Nat, Free(k, n)
    PROVE  /\ ~Point(k, n, "deleteKeys")
           /\ k \notin {"purge", "copyFailed"} /\ ~(k \in {"abort", "copy"} /\ n <= 5)
           /\ ~(k = "complete" /\ n \in {1, 2}) /\ ~(k = "abort" /\ n <= 6)
           /\ ~(k = "copy" /\ n \in {6, 7})
<1>1. k \notin {"purge", "copyFailed"} /\ ~(k \in {"abort", "copy"} /\ n <= 5)
  BY DEF Free
<1>2. /\ ~(k = "complete" /\ n \in {1, 2}) /\ ~(k = "abort" /\ n <= 6)
      /\ ~(k = "copy" /\ n \in {6, 7})
  BY DEF Free
<1>3. ~Point(k, n, "deleteKeys")
  BY <1>1, <1>2, DeletePoints
<1> QED
  BY <1>1, <1>2, <1>3, Zenon

(* They find what they rely on in every state. *)
LEMMA Carefree ==
    ASSUME IInv', NEW w \in Workers, Request(w)', Free(Kind(loc'[w]), Len(loc'[w].todo))
    PROVE  Stage(w)'
<1> DEFINE k == Kind(loc'[w])
           n == Len(loc'[w].todo)
<1>1. n \in Nat
  BY DEF IInv, TypeOK, Requests
<1>0. /\ ~Point(k, n, "deleteKeys")
      /\ k \notin {"purge", "copyFailed"} /\ ~(k \in {"abort", "copy"} /\ n <= 5)
      /\ ~(k = "complete" /\ n \in {1, 2}) /\ ~(k = "abort" /\ n <= 6)
      /\ ~(k = "copy" /\ n \in {6, 7})
  BY <1>1, FreePoints, Zenon
<1>2. ~At(w, "deleteKeys")'
  <2> SUFFICES ASSUME At(w, "deleteKeys")' PROVE FALSE
    OBVIOUS
  <2>1. loc'[w].todo \in Seq(Steps) /\ loc'[w].todo # <<>> /\ Head(loc'[w].todo) = "deleteKeys"
        /\ Follows(k, loc'[w].todo)
    BY DEF IInv, TypeOK, Requests, At, Request
  <2>2. Point(k, n, "deleteKeys")
    BY <2>1, TailFollows, Zenon
  <2> QED
    BY <1>0, <2>2
<1>3. ~Deleting(loc'[w])
  BY <1>0 DEF Deleting
<1> QED
  BY <1>0, <1>2, <1>3, Zenon DEF Stage

(* Two versions in a row differ. *)
LEMMA NextVersion ==
    ASSUME Careful, NEW v \in Versions
    PROVE  newVersion(v) # v
<1>1. MaxVersion \in Nat /\ MaxVersion > 1 /\ v \in 0..MaxVersion
  BY BoundsAssumption DEF Careful, Versions
<1>2. CASE v = MaxVersion
  <2>1. (v + 1) % (MaxVersion + 1) = 0
    BY <1>1, <1>2
  <2> QED
    BY <1>1, <1>2, <2>1 DEF newVersion
<1>3. CASE v # MaxVersion
  <2>1. (v + 1) % (MaxVersion + 1) = v + 1
    BY <1>1, <1>3
  <2> QED
    BY <1>1, <2>1 DEF newVersion
<1> QED
  BY <1>2, <1>3

(* The version after the object's own is nobody's part. *)
LEMMA NextUnread ==
    ASSUME Careful, IInv
    PROVE  Unread(meta, newVersion(Version))
<1>1. CASE meta = None
  BY <1>1 DEF Unread
<1>2. CASE meta # None
  <2>1. meta.ver \in Versions /\ Version = meta.ver
    BY <1>2 DEF IInv, TypeOK, Version
  <2> QED
    BY <2>1, NextVersion DEF Unread
<1> QED
  BY <1>1, <1>2

(* What another worker's step must leave to a request. *)
Left(v) ==
    /\ loc'[v] = loc[v]
    /\ nsLock = v => nsLock' = v
    /\ \A u \in Uploads : commits[u] # 0 => commits'[u] # 0
    /\ aborted \subseteq aborted'
    /\ Kind(loc[v]) = "complete" /\ Len(loc[v].todo) = 2 /\ loc[v].up \in json' =>
          loc[v].up \in json /\ Wanted(v) \cap store \subseteq store'
    /\ Kind(loc[v]) = "complete" /\ Len(loc[v].todo) = 1 =>
          Wanted(v) \cap store \subseteq store'
    /\ Kind(loc[v]) = "copy" /\ Len(loc[v].todo) \in {6, 7} =>
          Version' = Version /\ \A key \in store : key.tag = CopyTag => key \in store'
    /\ Deleting(loc[v]) => Unread(meta', Doomed(loc[v]))

(* A request to which that is left goes on as before. *)
LEMMA Bystander ==
    ASSUME IInv, NEW v \in Workers, Request(v), Stage(v), Left(v)
    PROVE  Request(v)' /\ Stage(v)'
<1>1. loc'[v] = loc[v]
  BY Zenon DEF Left
<1>2. Request(v)'
  BY <1>1, Zenon DEF Request, Left
<1> DEFINE l == loc[v]
           k == Kind(l)
           n == Len(l.todo)
<1>3. k = "complete" /\ n = 2 /\ l.up \in json' => Wanted(v) \subseteq store'
  BY Zenon DEF Left, Stage
<1>4. k = "complete" /\ n = 1 => Wanted(v) \subseteq store'
  BY Zenon DEF Left, Stage
<1>5. k = "purge" => commits'[l.up] # 0
  <2> SUFFICES ASSUME k = "purge" PROVE commits'[l.up] # 0
    OBVIOUS
  <2>1. l.op = "complete"
    BY KindOp, Zenon DEF IInv, TypeOK
  <2>2. l.up \in Uploads
    BY <2>1, Zenon DEF IInv, RequestInv, UploadOps
  <2> QED
    BY <2>2, Zenon DEF Left, Stage
<1>6. k = "abort" /\ n <= 6 => l.up \in aborted'
  BY Zenon DEF Left, Stage
<1>7. k = "copy" /\ n \in {6, 7} =>
          /\ Version' = l.ver
          /\ \A p \in Parts \ l.nums : Key(newVersion(l.ver), p, CopyTag) \in store'
          /\ n = 6 => l.nums = {}
  <2> SUFFICES ASSUME k = "copy", n \in {6, 7}
               PROVE  /\ Version' = l.ver
                      /\ \A p \in Parts \ l.nums : Key(newVersion(l.ver), p, CopyTag) \in store'
                      /\ n = 6 => l.nums = {}
    BY Zenon
  <2>1. /\ Version = l.ver
        /\ \A p \in Parts \ l.nums : Key(newVersion(l.ver), p, CopyTag) \in store
        /\ n = 6 => l.nums = {}
    BY Zenon DEF Stage
  <2>2. Version' = Version /\ \A key \in store : key.tag = CopyTag => key \in store'
    BY DEF Left
  <2>3. \A p \in Parts : Key(newVersion(l.ver), p, CopyTag).tag = CopyTag
    BY DEF Key
  <2> QED
    BY <2>1, <2>2, <2>3
<1>8. Deleting(l) => Unread(meta', Doomed(l))
  BY Zenon DEF Left
<1>9. At(v, "deleteKeys") => \A key \in l.keys : key.ver = Doomed(l)
  BY Zenon DEF Stage
<1> HIDE DEF k, n
<1>10. Stage(v)'
  BY <1>1, <1>3, <1>4, <1>5, <1>6, <1>7, <1>8, <1>9, Zenon DEF Stage, Wanted, At, k, n
<1> QED
  BY <1>2, <1>10

(* Uploads and copies stay apart as long as requests only go on. *)
LEMMA StillApart ==
    ASSUME Apart, json' \subseteq json,
           \A v \in Workers :
              /\ loc'[v].up \in {loc[v].up, None}
              /\ loc'[v].op \in {"copy", "copyFailed"} => loc[v].op \in {"copy", "copyFailed"}
    PROVE  Apart'
<1>1. \A u, v \in json' : u = v
  BY DEF Apart
<1>2. ASSUME NEW w \in Workers, loc'[w].up # None
      PROVE  json' \subseteq {loc'[w].up} /\ \A v \in Workers : loc'[v].up \in {None, loc'[w].up}
  BY <1>2 DEF Apart
<1>3. ASSUME NEW w \in Workers, loc'[w].op \in {"copy", "copyFailed"}
      PROVE  json' = {} /\ \A v \in Workers : loc'[v].up = None
  BY <1>3 DEF Apart
<1> QED
  BY <1>1, <1>2, <1>3 DEF Apart

(* Uploads and copies stay apart when one request goes on. *)
LEMMA TurnApart ==
    ASSUME Apart, json' \subseteq json, NEW w \in Workers, Turned(w)
    PROVE  Apart'
<1>1. \A v \in Workers :
          /\ loc'[v].up \in {loc[v].up, None}
          /\ loc'[v].op \in {"copy", "copyFailed"} => loc[v].op \in {"copy", "copyFailed"}
  BY DEF Turned
<1> QED
  BY <1>1, StillApart

(* A step that keeps all requests, and the object, in order. *)
LEMMA Rewritten ==
    ASSUME IInv, RInv, NEW w \in Workers, Turned(w), json' \subseteq json,
           Request(w)', Stage(w)', \A v \in Workers \ {w} : Left(v),
           Tags', CommittedReadable'
    PROVE  RInv'
<1>1. \A v \in Workers : Request(v)' /\ Stage(v)'
  BY Bystander DEF RInv
<1>2. Apart'
  BY TurnApart DEF RInv
<1> QED
  BY <1>1, <1>2 DEF RInv

(* A step that leaves the metadata alone, and the keys it names. *)
LEMMA Settled ==
    ASSUME IInv, RInv, NEW w \in Workers, Turned(w),
           Request(w)', Stage(w)', \A v \in Workers \ {w} : Left(v),
           ~At(w, "deleteMeta"), meta' = meta, json' \subseteq json,
           \A u \in Uploads : commits[u] # 0 => commits'[u] # 0,
           meta # None => \A p \in meta.parts : Key(meta.ver, p.num, p.tag) \in store =>
                              Key(meta.ver, p.num, p.tag) \in store'
    PROVE  RInv'
<1>3. Tags'
  BY DEF RInv, Tags
<1>4. CommittedReadable'
  <2> SUFFICES ASSUME meta # None, ~\E v \in Workers : At(v, "deleteMeta")'
               PROVE  \A p \in meta.parts : Key(meta.ver, p.num, p.tag) \in store'
    BY DEF CommittedReadable, Key
  <2>1. \A v \in Workers : ~At(v, "deleteMeta")
    <3>1. \A v \in Workers \ {w} : loc'[v] = loc[v]
      BY DEF Turned
    <3> QED
      BY <3>1 DEF At
  <2>2. \A p \in meta.parts : Key(meta.ver, p.num, p.tag) \in store
    BY <2>1, Zenon DEF RInv, CommittedReadable, Key
  <2> QED
    BY <2>2
<1> QED
  BY <1>3, <1>4, Rewritten

(* A step that reads, or adds part keys. *)
LEMMA Reading ==
    ASSUME IInv, RInv, NEW w \in Workers, Turned(w),
           Request(w)', Stage(w)',
           ~At(w, "deleteMeta"), UNCHANGED <<meta, json, commits, aborted>>, store \subseteq store',
           nsLock' = nsLock \/ nsLock = w \/ nsLock = None
    PROVE  RInv'
<1>1. ASSUME NEW v \in Workers \ {w} PROVE Left(v)
  <2>1. loc'[v] = loc[v]
    BY DEF Turned
  <2>2. nsLock = v => nsLock' = v
    BY OptionsAssumption
  <2>3. Stage(v) /\ Version' = Version
    BY Zenon DEF RInv, Version
  <2>4. Deleting(loc[v]) => Unread(meta', Doomed(loc[v]))
    BY <2>3, Zenon DEF Stage
  <2> QED
    BY <2>1, <2>2, <2>3, <2>4, Zenon DEF Left
<1> QED
  BY <1>1, Settled, Zenon

-----------------------------------------------------------------------------
(* What a failing request relies on: a copy has written nothing that is read. *)
LEMMA FallenStage ==
    ASSUME Careful, IInv, IInv', NEW w \in Workers, Fallen(w), Request(w)',
           loc[w].op = "copy" => Version = loc[w].ver, meta' = meta
    PROVE  Stage(w)'
<1>1. CASE loc'[w] = Idle
  BY <1>1, IdleRelies
<1>2. CASE loc'[w] # Idle /\ loc[w].op # "copy"
  <2>1. \/ Kind(loc'[w]) = "abort" /\ Len(loc'[w].todo) = 7
        \/ Kind(loc'[w]) \in {"put", "remove"}
    BY <1>2 DEF Fallen
  <2>2. Free(Kind(loc'[w]), Len(loc'[w].todo))
    <3>0. 7 > 6
      OBVIOUS
    <3>1. \A k, n : (k = "abort" /\ n = 7) \/ k \in {"put", "remove"} => Free(k, n)
      BY <3>0, Zenon DEF Free
    <3> QED
      BY <2>1, <3>1, Zenon
  <2> QED
    BY <2>2, Carefree
<1>3. CASE loc'[w] # Idle /\ loc[w].op = "copy"
  <2> DEFINE l == loc'[w]
  <2>1. /\ l.todo # <<>> /\ l.ver = loc[w].ver
        /\ Kind(l) = "copyFailed" /\ Len(l.todo) = 5 /\ Follows(Kind(l), l.todo)
    BY <1>3, Zenon DEF Fallen
  <2>2. Unread(meta', Doomed(l))
    BY <1>3, <2>1, NextUnread DEF Doomed
  <2>3. ~At(w, "deleteKeys")'
    <3>1. l.todo \in Seq(Steps)
      BY DEF IInv, TypeOK, Requests
    <3>2. Point("copyFailed", 5, Head(l.todo))
      BY <2>1, <3>1, TailFollows, Zenon
    <3> QED
      BY <3>2, DeletePoints DEF At
  <2> HIDE DEF l
  <2> QED
    BY <2>1, <2>2, <2>3, Zenon DEF Stage, l
<1> QED
  BY <1>1, <1>2, <1>3, Zenon

-----------------------------------------------------------------------------
(* The requests that have nothing to rely on after the step. *)
LEMMA FreeNext ==
    \A k, n :
        \/ k \in {"part", "put", "remove"}
        \/ k = "complete" /\ n \in {9, 8, 7, 6, 5, 4}
        \/ k = "copy" /\ n = 9
        => Free(k, n - 1)
BY DEF Free

(* Gets and deletes succeed. *)
LEMMA Reliable ==
    ASSUME Careful
    PROVE  "get" \notin MayFail /\ "delete" \notin MayFail /\ Exclusive
BY Zenon DEF Careful

(* A request that deletes keys goes on deleting those of the same version. *)
LEMMA StillDeleting ==
    ASSUME IInv, NEW w \in Workers, Stage(w), NEW l, Advanced(w, l), loc'[w] # Idle,
           Deleting(loc[w]), l.ver = loc[w].ver,
           At(w, "deleteKeys")' => \A key \in l.keys : key.ver = Doomed(loc[w]),
           UNCHANGED <<meta, commits, aborted>>
    PROVE  Stage(w)'
<1> DEFINE k == Kind(loc[w])
           n == Len(loc[w].todo)
<1>1. /\ Len(loc'[w].todo) = n - 1 /\ Kind(loc'[w]) = k /\ n \in Nat
      /\ loc'[w].up = loc[w].up /\ loc'[w].ver = loc[w].ver /\ loc'[w].keys = l.keys
  <2>1. Len(loc[w].todo) # 1
    BY Zenon DEF Advanced
  <2>2. loc[w].todo \in Seq(Steps)
    BY Zenon DEF IInv, TypeOK, Requests
  <2>3. n \in Nat
    BY <2>2
  <2> QED
    BY <2>1, <2>3, Zenon DEF Advanced
<1>2. Doomed(loc'[w]) = Doomed(loc[w])
  BY <1>1, Zenon DEF Doomed
<1>3. k \in {"purge", "copyFailed"} \/ (k \in {"abort", "copy"} /\ n <= 5)
  BY Zenon DEF Deleting
<1>4. Unread(meta', Doomed(loc'[w]))
  BY <1>2, Zenon DEF Stage
<1>5. k = "purge" => commits'[loc'[w].up] # 0
  BY <1>1, Zenon DEF Stage
<1>6. k = "abort" => loc'[w].up \in aborted'
  <2>1. k = "abort" => n <= 6
    BY <1>1, <1>3
  <2> QED
    BY <1>1, <2>1, Zenon DEF Stage
<1>7. k # "complete" /\ ~(k = "copy" /\ n - 1 \in {6, 7})
  <2>1. \A m \in Nat : m <= 5 => ~(m - 1 \in {6, 7})
    OBVIOUS
  <2> QED
    BY <1>1, <1>3, <2>1, Zenon
<1>8. At(w, "deleteKeys")' => \A key \in loc'[w].keys : key.ver = Doomed(loc'[w])
  BY <1>1, <1>2
<1> HIDE DEF k, n
<1> QED
  BY <1>1, <1>4, <1>5, <1>6, <1>7, <1>8, Zenon DEF Stage

-----------------------------------------------------------------------------
(* currentVersion: an abort will delete what follows the object's version. *)
LEMMA CurrentVersionReadable ==
    ASSUME Careful, IInv, IInv', RInv, NEW w \in Workers, CurrentVersion(w)
    PROVE  RInv'
<1> DEFINE l == [loc[w] EXCEPT !.ver = Version]
           k == Kind(loc[w])
           n == Len(loc[w].todo)
<1>0. Request(w) /\ Stage(w) /\ loc[w] \in Requests
  BY DEF RInv, IInv, TypeOK
<1>1. /\ At(w, "version") /\ Continue(w, l)
      /\ UNCHANGED <<meta, store, json, nsLock, commits, aborted>>
  BY Reliable DEF CurrentVersion, AtLocked, stored, history
<1>2. Version \in Versions
  BY BoundsAssumption DEF Version, IInv, TypeOK, Versions
<1>3. /\ l \in Requests /\ l.todo = loc[w].todo /\ l.up = loc[w].up /\ l.op = loc[w].op
      /\ l.nums = loc[w].nums /\ l.ver = Version
  BY <1>0, <1>2 DEF Requests
<1> HIDE DEF l
<1>4. Advanced(w, l)
  BY <1>0, <1>1, <1>3, Continues
<1>5. Request(w)'
  BY <1>0, <1>1, <1>4, KeepsLock
<1>6. Point(k, n, "version") /\ n \in Nat \ {0}
  BY <1>0, <1>1, Standing
<1>7. k \in {"part", "put"} \/ (k = "complete" /\ n \in {9, 5})
      \/ (k = "abort" /\ n = 6) \/ (k = "copy" /\ n = 8)
  BY <1>6, Points, Zenon
<1>8. Stage(w)'
  <2>1. CASE loc'[w] = Idle
    BY <2>1, IdleRelies
  <2>2. ASSUME loc'[w] # Idle
        PROVE  /\ Kind(loc'[w]) = k /\ Len(loc'[w].todo) = n - 1
               /\ loc'[w].up = loc[w].up /\ loc'[w].ver = Version /\ loc'[w].nums = loc[w].nums
               /\ loc'[w].todo \in Seq(Steps) /\ loc'[w].todo # <<>>
               /\ Follows(k, loc'[w].todo)
    BY <2>2, <1>3, <1>4 DEF Advanced, IInv, TypeOK, Requests
  <2>3. CASE loc'[w] # Idle /\ (k \in {"part", "put"} \/ (k = "complete" /\ n \in {9, 5}))
    <3>1. Free(k, n - 1)
      BY <1>6, <2>3, FreeNext, Zenon
    <3> QED
      BY <1>5, <2>2, <2>3, <3>1, Carefree
  <2>4. ASSUME loc'[w] # Idle, k \in {"abort", "copy"}, n \in {6, 8}
        PROVE  ~At(w, "deleteKeys")'
    <3>1. Point(k, n - 1, Head(loc'[w].todo))
      BY <2>2, <2>4, TailFollows, Zenon
    <3>2. n - 1 \in {5, 7}
      <4>1. \A m \in {6, 8} : m - 1 \in {5, 7}
        OBVIOUS
      <4> QED
        BY <2>4, <4>1
    <3>3. Head(loc'[w].todo) # "deleteKeys"
      <4>1. \A m \in {5, 7} : m \notin {4, 2}
        OBVIOUS
      <4>2. k # "purge" /\ n - 1 \notin {4, 2}
        BY <2>4, <3>2, <4>1
      <4> QED
        BY <3>1, <4>2, DeletePoints, Zenon
    <3> QED
      BY <3>3 DEF At
  <2>5. CASE loc'[w] # Idle /\ k = "abort" /\ n = 6
    <3>1. loc[w].up \in aborted
      <4>1. k = "abort" /\ n <= 6 => loc[w].up \in aborted
        BY <1>0, Zenon DEF Stage
      <4> QED
        BY <2>5, <4>1
    <3>2. Unread(meta, newVersion(Version))
      BY NextUnread
    <3>3. Kind(loc'[w]) = "abort" /\ Len(loc'[w].todo) = 5
      BY <2>2, <2>5
    <3>4. Doomed(loc'[w]) = newVersion(Version)
      BY <2>2, <2>5, <3>3 DEF Doomed
    <3> QED
      BY <1>1, <2>2, <2>4, <2>5, <3>1, <3>2, <3>3, <3>4, Zenon DEF Stage
  <2>6. CASE loc'[w] # Idle /\ k = "copy" /\ n = 8
    <3>1. loc[w].nums = Parts
      BY <1>0, <2>6 DEF Request
    <3>2. Kind(loc'[w]) = "copy" /\ Len(loc'[w].todo) = 7
      BY <2>2, <2>6
    <3>3. ~Deleting(loc'[w]) /\ Version' = Version
      BY <1>1, <3>2 DEF Deleting, Version
    <3>4. Parts \ loc'[w].nums = {} /\ loc'[w].ver = Version' /\ ~At(w, "deleteKeys")'
      BY <2>2, <2>4, <2>6, <3>1, <3>3
    <3>5. Len(loc'[w].todo) # 6
      BY <3>2
    <3> QED
      BY <3>2, <3>3, <3>4, <3>5, Zenon DEF Stage
  <2> QED
    BY <1>7, <2>1, <2>3, <2>5, <2>6
<1>9. ~At(w, "deleteMeta")
  BY <1>1 DEF At
<1> QED
  BY <1>1, <1>4, <1>5, <1>8, <1>9, AdvancedTurned, Reading

(* CGetKeyRange lists keys of the version that is asked for. *)
LEMMA GetKeyRangeReadable ==
    ASSUME Careful, IInv, IInv', RInv, NEW w \in Workers, GetKeyRange(w)
    PROVE  RInv'
<1> DEFINE k == Kind(loc[w])
           n == Len(loc[w].todo)
<1>0. Request(w) /\ Stage(w) /\ loc[w] \in Requests
  BY DEF RInv, IInv, TypeOK
<1>1. UNCHANGED <<meta, store, json, nsLock, commits, aborted>>
  BY DEF GetKeyRange, stored, history
<1>2. PICK step \in {"rangeCurrent", "rangeNext"} : At(w, step)
  BY DEF GetKeyRange, AtLocked
<1> DEFINE v == IF step = "rangeCurrent" THEN loc[w].ver ELSE newVersion(loc[w].ver)
<1>3. PICK S \in KeyRange(KeysOf(v)) : Continue(w, [loc[w] EXCEPT !.keys = S])
  BY <1>2, Reliable DEF GetKeyRange, At
<1>4. S \subseteq PartKeys /\ \A key \in S : key.ver = v
  <2>1. S \subseteq KeysOf(v)
    BY <1>3 DEF KeyRange
  <2> QED
    BY <2>1 DEF KeysOf, IInv, TypeOK
<1> DEFINE l == [loc[w] EXCEPT !.keys = S]
<1>5. /\ l \in Requests /\ l.todo = loc[w].todo /\ l.up = loc[w].up /\ l.op = loc[w].op
      /\ l.ver = loc[w].ver /\ l.keys = S
  BY <1>0, <1>4 DEF Requests
<1>6. Advanced(w, l)
  <2>1. Continue(w, l)
    BY <1>3
  <2> HIDE DEF l
  <2> QED
    BY <1>0, <1>2, <1>5, <2>1, Continues
<1> HIDE DEF l, v
<1>7. Request(w)'
  BY <1>0, <1>1, <1>2, <1>6, KeepsLock
<1>8. Point(k, n, step) /\ n \in Nat \ {0}
  BY <1>0, <1>2, Standing
<1>9. \/ k = "part" \/ (k = "complete" /\ n \in {8, 4})
      \/ k = "purge" /\ step = "rangeCurrent"
      \/ k = "copy" /\ n \in {5, 3} /\ step = "rangeCurrent"
      \/ k = "copyFailed" /\ step = "rangeNext"
      \/ k = "abort" /\ n \in {5, 3} /\ step = "rangeNext"
  <2>1. CASE step = "rangeCurrent"
    BY <1>8, <2>1, Points, Zenon
  <2>2. CASE step = "rangeNext"
    BY <1>8, <2>2, Points, Zenon
  <2> QED
    BY <2>1, <2>2
<1>10. Stage(w)'
  <2>1. CASE loc'[w] = Idle
    BY <2>1, IdleRelies
  <2>2. CASE loc'[w] # Idle /\ (k = "part" \/ (k = "complete" /\ n \in {8, 4}))
    <3>1. Free(k, n - 1)
      BY <1>8, <2>2, FreeNext, Zenon
    <3>2. Kind(loc'[w]) = k /\ Len(loc'[w].todo) = n - 1
      BY <1>6, <2>2 DEF Advanced
    <3> QED
      BY <1>7, <3>1, <3>2, Carefree
  <2>3. CASE loc'[w] # Idle /\ ~(k = "part" \/ (k = "complete" /\ n \in {8, 4}))
    <3>1. Deleting(loc[w])
      <4>1. \/ k \in {"purge", "copyFailed"}
            \/ k \in {"abort", "copy"} /\ n \in {5, 3}
        BY <1>9, <2>3
      <4>2. 5 <= 5 /\ 3 <= 5
        OBVIOUS
      <4> QED
        BY <4>1, <4>2, Zenon DEF Deleting
    <3>2. Doomed(loc[w]) = v
      BY <1>9, <2>3 DEF Doomed, v
    <3> QED
      BY <1>0, <1>1, <1>4, <1>5, <1>6, <2>3, <3>1, <3>2, StillDeleting
  <2> QED
    BY <2>1, <2>2, <2>3
<1>11. ~At(w, "deleteMeta")
  BY <1>2 DEF At
<1> QED
  BY <1>1, <1>6, <1>7, <1>10, <1>11, AdvancedTurned, Reading

(* A request that fails can go on with what it finds. *)
LEMMA FailsReady ==
    ASSUME Careful, IInv, IInv', NEW w \in Workers, Request(w),
           NEW step, At(w, step), step # "lock", Fail(w), UNCHANGED <<meta, nsLock>>,
           loc[w].op = "copy" => Version = loc[w].ver
    PROVE  Turned(w) /\ Request(w)' /\ Stage(w)'
<1>1. Fallen(w) /\ Request(w)'
  BY FailsLocked
<1> QED
  BY <1>1, FallenTurned, FallenStage

(* So can one that has nothing to rely on after its step. *)
LEMMA FreelyReady ==
    ASSUME IInv, IInv', NEW w \in Workers, Request(w),
           NEW step, At(w, step), step # "lock", Continue(w, loc[w]), nsLock' = nsLock,
           Len(loc[w].todo) = 1 \/ Free(Kind(loc[w]), Len(loc[w].todo) - 1)
    PROVE  Turned(w) /\ Request(w)' /\ Stage(w)'
<1>1. loc[w] \in Requests
  BY DEF IInv, TypeOK
<1>2. Advanced(w, loc[w])
  BY <1>1, Continues
<1>3. Turned(w) /\ Request(w)'
  BY <1>2, AdvancedTurned, KeepsLock
<1>4. CASE loc'[w] = Idle
  BY <1>3, <1>4, IdleRelies
<1>5. CASE loc'[w] # Idle
  <2>1. /\ Len(loc[w].todo) # 1
        /\ Kind(loc'[w]) = Kind(loc[w]) /\ Len(loc'[w].todo) = Len(loc[w].todo) - 1
    BY <1>2, <1>5 DEF Advanced
  <2> QED
    BY <1>3, <2>1, Carefree
<1> QED
  BY <1>4, <1>5

(* The steps of listObjectParts: whether they find what they look for or not. *)
LEMMA ListingReadable ==
    ASSUME Careful, IInv, IInv', RInv, NEW w \in Workers, StatFirst(w) \/ CheckJson(w)
    PROVE  RInv'
<1> DEFINE k == Kind(loc[w])
           n == Len(loc[w].todo)
<1>1. /\ UNCHANGED <<meta, store, json, nsLock, commits, aborted>>
      /\ Fail(w) \/ Continue(w, loc[w])
  BY DEF StatFirst, CheckJson, AtLocked, stored, history
<1>2. PICK step \in {"statFirst", "checkJson"} : At(w, step)
  BY DEF StatFirst, CheckJson, AtLocked
<1>3. Request(w) /\ step # "lock" /\ ~At(w, "deleteMeta")
  BY <1>2 DEF RInv, At
<1>4. k = "part" \/ (k = "complete" /\ n \in {7, 6})
  <2>1. Point(k, n, step)
    BY <1>2, <1>3, Standing
  <2> QED
    BY <1>2, <2>1, Points, Zenon
<1>5. Free(k, n - 1)
  BY <1>4, FreeNext, Zenon
<1>6. loc[w].op # "copy"
  BY <1>4, OfKind
<1>7. Turned(w) /\ Request(w)' /\ Stage(w)'
  BY <1>1, <1>2, <1>3, <1>5, <1>6, FailsReady, FreelyReady
<1> QED
  BY <1>1, <1>3, <1>7, Reading
=============================================================================
