-------------------------- MODULE MongoWireProofs --------------------------
(***************************************************************************)
(* Proofs about MongoWire, for every size of the id space and of a reply   *)
(* and every number of commands that does not use the id space up.         *)
(***************************************************************************)
EXTENDS MongoWire, SequenceTheorems, TLAPS

(* The ids drawn since the connection was made.  The next one is not among *)
(* them: that is all responseTo can rely on.                               *)
Past == {Id(n) : n \in {k \in Nat : k < asked}}

PastInv == /\ \A i \in 1..Len(stream) : stream[i].of \in Past
           /\ \A i \in 1..Len(owed) : owed[i] \in Past

DownInv == stage = "down" => pc = "idle" /\ ~spoiled /\ Clean

(* What a connection in step holds, at each point of a command: nothing,   *)
(* the request alone, the whole reply to it, or what is left of that.      *)
Awaited == \/ stream = <<>> /\ owed = <<request>>
           \/ stream = <<>> /\ owed = <<>> /\ ~hearing

Arrived == /\ owed = <<>> /\ hearing
           /\ Len(stream) >= 2 /\ stream[1].body = Len(stream) - 1
           /\ \A i \in 1..Len(stream) : stream[i].of = request

OrderInv ==
  ~spoiled =>
    /\ pc = "idle" => Clean
    /\ pc = "header" => Awaited \/ Arrived
    /\ pc = "body" => /\ owed = <<>> /\ hearing
                      /\ left > 0 /\ Len(stream) = left
                      /\ \A i \in 1..Len(stream) : stream[i].of = request
    /\ pc = "returned" /\ code \notin Unusable => Clean

(* A spoiled connection always has something older in front of the reply   *)
(* that is awaited, unless the server is lost and no reply will come.      *)
Backlog == owed # <<>> \/ stream # <<>>

Behind == /\ hearing => owed # <<>> \/ Len(stream) >= 2
          /\ stream # <<>> => stream[1].of # request
          /\ stream = <<>> /\ owed # <<>> /\ hearing => owed[1] # request

SpoiledInv ==
  spoiled => /\ code # "ok" /\ pc # "body"
             /\ pc # "header" /\ hearing => Backlog
             /\ pc = "header" => Behind

LeftInv == pc = "header" => left = 0

IInv == TypeOK /\ PastInv /\ DownInv /\ OrderInv /\ SpoiledInv /\ LeftInv

----------------------------------------------------------------------------
(* Request ids and streams.                                                *)

LEMMA IdType ==
  ASSUME first \in Ids, NEW n \in 0..MaxAsked
  PROVE  Id(n) \in Ids
  BY IdAssumption DEF Id, Ids

LEMMA FreshId ==
  ASSUME first \in Ids, asked \in 0..MaxAsked, asked < MaxAsked
  PROVE  Id(asked) \notin Past
  BY IdAssumption DEF Id, Ids, Past

(* Drawing an id adds it to the past, unless the bound is reached. *)
LEMMA DrawnPast ==
  ASSUME first \in Ids, asked \in 0..MaxAsked, first' = first,
         asked' \in {asked, Drawn(asked)}
  PROVE  /\ asked' \in 0..MaxAsked /\ Past \subseteq Past'
         /\ asked < MaxAsked /\ asked' = Drawn(asked) => Id(asked) \in Past'
<1>1. asked \in Nat /\ asked' \in Nat /\ asked' <= MaxAsked /\ asked <= asked'
  BY IdAssumption DEF Drawn
<1>2. \A n \in Nat : Id(n)' = Id(n)
  BY DEF Id
<1>3. ASSUME NEW r \in Past PROVE r \in Past'
  <2>1. PICK n \in Nat : n < asked /\ r = Id(n)
    BY DEF Past
  <2>2. n < asked'
    BY <1>1, <2>1
  <2> QED
    BY <2>1, <2>2, <1>2 DEF Past
<1>4. ASSUME asked < MaxAsked, asked' = Drawn(asked) PROVE Id(asked) \in Past'
  <2>1. asked \in Nat /\ asked < asked'
    BY <1>4, IdAssumption DEF Drawn
  <2> QED
    BY <2>1, <1>2 DEF Past
<1> QED
  BY <1>1, <1>3, <1>4, IdAssumption

LEMMA UnreadSeq ==
  ASSUME NEW s \in Seq(Unit), NEW k \in 0..Len(s)
  PROVE  /\ Unread(s, k) \in Seq(Unit) /\ Len(Unread(s, k)) = Len(s) - k
         /\ \A i \in 1..(Len(s) - k) : Unread(s, k)[i] = s[i + k]
<1>1. \A i \in (k + 1)..Len(s) : i \in 1..Len(s) /\ s[i] \in Unit
  OBVIOUS
<1> QED
  BY <1>1 DEF Unread

LEMMA ReplySeq ==
  ASSUME NEW r \in Ids, NEW n \in 1..(MaxBody + 1)
  PROVE  /\ Reply(r, n) \in Seq(Unit) /\ Len(Reply(r, n)) = n + 1
         /\ Reply(r, n)[1].body = n
         /\ \A i \in 1..(n + 1) : Reply(r, n)[i].of = r
<1>1. n \in Nat \ {0} /\ n <= MaxBody + 1
  BY BodyAssumption
<1>2. \A i \in 1..(n + 1) : [of |-> r, body |-> IF i = 1 THEN n ELSE 0] \in Unit
  BY <1>1, BodyAssumption DEF Unit
<1>3. Reply(r, n) \in Seq(Unit) /\ Len(Reply(r, n)) = n + 1
  BY <1>1, <1>2 DEF Reply
<1> QED
  BY <1>1, <1>3 DEF Reply

LEMMA InitInv == Init => IInv
<1> SUFFICES ASSUME Init PROVE IInv
  OBVIOUS
<1> USE DEF Init
<1>1. TypeOK
  <2>1. asked \in 0..MaxAsked /\ left \in 0..MaxBody
    BY IdAssumption, BodyAssumption
  <2>2. owed \in Seq(Ids) /\ stream \in Seq(Unit)
    OBVIOUS
  <2> QED
    BY <2>1, <2>2 DEF TypeOK, Stages, Pcs, Codes
<1>2. PastInv
  BY DEF PastInv
<1> QED
  BY <1>1, <1>2 DEF IInv, DownInv, OrderInv, SpoiledInv, LeftInv, Clean

----------------------------------------------------------------------------
(* Sending.                                                                *)

(* What every way to ask leaves: the id is of its type, the past grows. *)
LEMMA AskFacts ==
  ASSUME IInv, Ask
  PROVE  /\ stage # "down" /\ pc = "idle" /\ first' = first
         /\ request' = Id(asked) /\ request' \in Ids
         /\ asked' \in 0..MaxAsked /\ Past \subseteq Past'
         /\ asked < MaxAsked => request' \in Past' /\ request' \notin Past
<1>1. first \in Ids /\ asked \in 0..MaxAsked
  BY DEF IInv, TypeOK
<1> QED
  BY <1>1, IdType, FreshId, DrawnPast DEF Ask

(* A request behind others in the server's queue. *)
LEMMA Queued ==
  ASSUME IInv, Ask, asked < MaxAsked, owed' = Append(owed, request')
  PROVE  /\ owed' \in Seq(Ids) /\ Len(owed') = Len(owed) + 1 /\ owed' # <<>>
         /\ \A i \in 1..Len(owed') : owed'[i] \in Past'
         /\ owed # <<>> => owed'[1] = owed[1]
         /\ owed = <<>> => owed' = <<request'>>
<1>1. owed \in Seq(Ids) /\ request' \in Ids
  BY AskFacts DEF IInv, TypeOK
<1>2. /\ owed' \in Seq(Ids) /\ Len(owed') = Len(owed) + 1
      /\ \A i \in 1..Len(owed) : owed'[i] = owed[i]
      /\ owed'[Len(owed) + 1] = request'
  BY <1>1
<1>3. \A i \in 1..Len(owed') : owed'[i] \in Past'
  BY <1>1, <1>2, AskFacts DEF IInv, PastInv
<1>4. owed # <<>> => owed'[1] = owed[1]
  BY <1>1, <1>2
<1>5. owed = <<>> => owed' = <<request'>>
  BY <1>1
<1> QED
  BY <1>1, <1>2, <1>3, <1>4, <1>5

LEMMA SendStep == ASSUME IInv, Send PROVE IInv'
<1>0. /\ Ask /\ asked < MaxAsked /\ pc' = "header" /\ left' = 0
      /\ UNCHANGED <<stage, code, answered, stream, spoiled>>
  BY DEF Send
<1>1. \/ owed' = Append(owed, request') /\ hearing' = hearing
      \/ hearing' = FALSE /\ owed' = owed
  BY DEF Send
<1>2. owed' \in Seq(Ids) /\ \A i \in 1..Len(owed') : owed'[i] \in Past'
  BY <1>0, <1>1, Queued, AskFacts DEF IInv, TypeOK, PastInv
<1>3. TypeOK'
  <2>1. left' \in 0..MaxBody
    BY <1>0, BodyAssumption
  <2>2. hearing' \in BOOLEAN
    BY <1>1 DEF IInv, TypeOK
  <2> QED
    BY <1>0, <1>2, <2>1, <2>2, AskFacts DEF IInv, TypeOK, Pcs
<1>4. PastInv'
  BY <1>0, <1>2, AskFacts DEF IInv, PastInv
<1>5. DownInv' /\ LeftInv'
  BY <1>0, AskFacts DEF DownInv, LeftInv
<1>6. OrderInv'
  <2>1. SUFFICES ASSUME ~spoiled PROVE (Awaited \/ Arrived)'
    BY <1>0 DEF OrderInv
  <2>2. owed = <<>> /\ stream = <<>> /\ hearing
    BY <2>1, <1>0, AskFacts DEF IInv, OrderInv, Clean
  <2> QED
    BY <1>0, <1>1, <2>2, Queued DEF Awaited
<1>7. SpoiledInv'
  <2>1. SUFFICES ASSUME spoiled PROVE code # "ok" /\ Behind'
    BY <1>0 DEF SpoiledInv
  <2>2. code # "ok" /\ (hearing => Backlog)
    BY <2>1, <1>0, AskFacts DEF IInv, SpoiledInv
  <2>3. stream # <<>> => stream[1].of # request'
    <3>1. stream # <<>> => 1 \in 1..Len(stream)
      BY DEF IInv, TypeOK
    <3> QED
      BY <3>1, <1>0, AskFacts DEF IInv, PastInv
  <2>4. CASE owed' = Append(owed, request') /\ hearing' = hearing
    <3>1. owed' # <<>>
      BY <1>0, <2>4, Queued
    <3>2. ASSUME stream = <<>>, hearing PROVE owed'[1] # request'
      <4>1. owed # <<>>
        BY <2>2, <3>2 DEF Backlog
      <4>2. owed[1] \in Past
        BY <4>1 DEF IInv, TypeOK, PastInv
      <4> QED
        BY <4>1, <4>2, <1>0, <2>4, Queued, AskFacts
    <3> QED
      BY <1>0, <2>2, <2>3, <2>4, <3>1, <3>2 DEF Behind
  <2>5. CASE hearing' = FALSE
    BY <1>0, <2>2, <2>3, <2>5 DEF Behind
  <2> QED
    BY <1>1, <2>4, <2>5
<1> QED
  BY <1>3, <1>4, <1>5, <1>6, <1>7 DEF IInv

LEMMA SendFailsStep == ASSUME IInv, SendFails PROVE IInv'
<1>0. /\ Ask /\ Finish("transport", Nobody)
      /\ UNCHANGED <<stage, stream, spoiled>>
  BY DEF SendFails
<1>1. \/ owed' = owed /\ hearing' \in {hearing, FALSE}
      \/ asked < MaxAsked /\ owed' = Append(owed, request') /\ hearing' = hearing
  BY DEF SendFails
<1>2. /\ owed' \in Seq(Ids) /\ (\A i \in 1..Len(owed') : owed'[i] \in Past')
      /\ owed # <<>> => owed' # <<>>
  BY <1>0, <1>1, Queued, AskFacts DEF IInv, TypeOK, PastInv
<1>3. TypeOK'
  <2>1. left' \in 0..MaxBody
    BY <1>0, BodyAssumption DEF Finish
  <2>2. hearing' \in BOOLEAN
    BY <1>1 DEF IInv, TypeOK
  <2> QED
    BY <1>0, <1>2, <2>1, <2>2, AskFacts DEF IInv, TypeOK, Pcs, Codes, Finish
<1>4. PastInv'
  BY <1>0, <1>2, AskFacts DEF IInv, PastInv
<1>5. DownInv' /\ LeftInv' /\ OrderInv'
  BY <1>0, AskFacts DEF DownInv, LeftInv, OrderInv, Finish, Unusable
<1>6. SpoiledInv'
  BY <1>0, <1>1, <1>2, AskFacts DEF IInv, SpoiledInv, Backlog, Finish
<1> QED
  BY <1>3, <1>4, <1>5, <1>6 DEF IInv

LEMMA NotCopiedStep == ASSUME IInv, NotCopied PROVE IInv'
<1>0. /\ Ask /\ Finish("other", Nobody) /\ UNCHANGED <<stage, link, spoiled>>
  BY DEF NotCopied
<1>1. TypeOK'
  BY <1>0, AskFacts, BodyAssumption DEF IInv, TypeOK, Pcs, Codes, Finish, link
<1>2. PastInv'
  BY <1>0, AskFacts DEF IInv, PastInv, link
<1>3. DownInv' /\ LeftInv'
  BY <1>0, AskFacts DEF DownInv, LeftInv, Finish
<1>4. OrderInv' /\ SpoiledInv'
  BY <1>0, AskFacts DEF IInv, OrderInv, SpoiledInv, Clean, Backlog, Finish, link
<1> QED
  BY <1>1, <1>2, <1>3, <1>4 DEF IInv

LEMMA NotBuiltStep == ASSUME IInv, NotBuilt PROVE IInv'
<1>0. /\ stage = "ready" /\ pc = "idle" /\ Finish("other", Nobody)
      /\ UNCHANGED <<stage, first, asked, request, owed, stream, hearing,
                     spoiled>>
  BY DEF NotBuilt, counter, link
<1>1. TypeOK'
  BY <1>0, BodyAssumption DEF IInv, TypeOK, Pcs, Codes, Finish
<1>2. PastInv'
  BY <1>0 DEF IInv, PastInv, Past, Id
<1>3. DownInv' /\ LeftInv'
  BY <1>0 DEF DownInv, LeftInv, Finish
<1>4. OrderInv' /\ SpoiledInv'
  BY <1>0 DEF IInv, OrderInv, SpoiledInv, Clean, Backlog, Finish
<1> QED
  BY <1>1, <1>2, <1>3, <1>4 DEF IInv

----------------------------------------------------------------------------
(* Receiving.                                                              *)

LEMMA AcceptHeaderStep == ASSUME IInv, AcceptHeader PROVE IInv'
<1>0. /\ pc = "header" /\ stream # <<>> /\ Acceptable(stream[1])
      /\ pc' = "body" /\ left' = stream[1].body /\ stream' = Unread(stream, 1)
      /\ UNCHANGED <<stage, first, asked, request, code, answered, owed,
                     hearing, spoiled>>
  BY DEF AcceptHeader, counter, IInv, TypeOK
<1>1. stream \in Seq(Unit) /\ Len(stream) \in Nat \ {0} /\ 1 \in 0..Len(stream)
  BY <1>0 DEF IInv, TypeOK
<1>2. /\ stream' \in Seq(Unit) /\ Len(stream') = Len(stream) - 1
      /\ \A i \in 1..(Len(stream) - 1) : stream'[i] = stream[i + 1]
  BY <1>0, <1>1, UnreadSeq
<1>3. left' \in 1..MaxBody /\ stream[1].of = request
  BY <1>0 DEF Acceptable
<1>4. ~spoiled
  BY <1>0, <1>3 DEF IInv, SpoiledInv, Behind
<1>5. Arrived
  BY <1>0, <1>4 DEF IInv, OrderInv, Awaited
<1>6. TypeOK'
  BY <1>0, <1>2, <1>3, BodyAssumption DEF IInv, TypeOK, Pcs
<1>7. PastInv'
  <2>1. \A i \in 1..Len(stream') : /\ i + 1 \in 1..Len(stream)
                                  /\ i \in 1..(Len(stream) - 1)
    BY <1>1, <1>2
  <2>2. Past' = Past
    BY <1>0 DEF Past, Id
  <2> QED
    BY <2>1, <2>2, <1>0, <1>2 DEF IInv, PastInv
<1>8. OrderInv'
  BY <1>0, <1>1, <1>2, <1>3, <1>5, BodyAssumption DEF OrderInv, Arrived
<1> QED
  BY <1>0, <1>4, <1>6, <1>7, <1>8 DEF IInv, DownInv, SpoiledInv, LeftInv

LEMMA RefuseHeaderStep == ASSUME IInv, RefuseHeader PROVE IInv'
<1>0. /\ pc = "header" /\ stream # <<>> /\ ~Acceptable(stream[1])
      /\ Finish("other", Nobody) /\ stream' = Unread(stream, 1) /\ spoiled'
      /\ UNCHANGED <<stage, first, asked, request, owed, hearing>>
  BY DEF RefuseHeader, counter, IInv, TypeOK
<1>1. stream \in Seq(Unit) /\ Len(stream) \in Nat \ {0} /\ 1 \in 0..Len(stream)
  BY <1>0 DEF IInv, TypeOK
<1>2. /\ stream' \in Seq(Unit) /\ Len(stream') = Len(stream) - 1
      /\ \A i \in 1..(Len(stream) - 1) : stream'[i] = stream[i + 1]
  BY <1>0, <1>1, UnreadSeq
<1>3. TypeOK'
  BY <1>0, <1>2, BodyAssumption DEF IInv, TypeOK, Pcs, Codes, Finish
<1>4. PastInv'
  <2>1. \A i \in 1..Len(stream') : /\ i + 1 \in 1..Len(stream)
                                  /\ i \in 1..(Len(stream) - 1)
    BY <1>1, <1>2
  <2>2. Past' = Past
    BY <1>0 DEF Past, Id
  <2> QED
    BY <2>1, <2>2, <1>0, <1>2 DEF IInv, PastInv
<1>5. hearing => owed # <<>> \/ Len(stream) >= 2
  <2>1. CASE spoiled
    BY <2>1, <1>0 DEF IInv, SpoiledInv, Behind
  <2>2. CASE ~spoiled
    BY <2>2, <1>0 DEF IInv, OrderInv, Awaited, Arrived
  <2> QED
    BY <2>1, <2>2
<1>6. hearing' => Backlog'
  <2>1. Len(stream) >= 2 => stream' # <<>>
    BY <1>1, <1>2
  <2> QED
    BY <2>1, <1>0, <1>5 DEF Backlog
<1> QED
  BY <1>0, <1>3, <1>4, <1>6
  DEF IInv, DownInv, OrderInv, SpoiledInv, LeftInv, Finish

LEMMA NoMemoryStep == ASSUME IInv, NoMemory PROVE IInv'
<1>0. /\ pc = "body" /\ Finish("alloc", Nobody)
      /\ UNCHANGED <<stage, first, asked, request, owed, stream, hearing,
                     spoiled>>
  BY DEF NoMemory, counter, link
<1>1. TypeOK'
  BY <1>0, BodyAssumption DEF IInv, TypeOK, Pcs, Codes, Finish
<1>2. PastInv'
  BY <1>0 DEF IInv, PastInv, Past, Id
<1> QED
  BY <1>0, <1>1, <1>2
  DEF IInv, DownInv, OrderInv, SpoiledInv, LeftInv, Finish, Unusable

LEMMA ReadBodyStep == ASSUME IInv, ReadBody PROVE IInv'
<1>0. /\ pc = "body" /\ stream' = Unread(stream, left)
      /\ \/ Finish("ok", stream[1].of)
         \/ Finish("other", Nobody)
      /\ UNCHANGED <<stage, first, asked, request, owed, hearing, spoiled>>
  BY DEF ReadBody, counter
<1>1. /\ ~spoiled /\ owed = <<>> /\ hearing
      /\ left > 0 /\ Len(stream) = left
      /\ \A i \in 1..Len(stream) : stream[i].of = request
  BY <1>0 DEF IInv, SpoiledInv, OrderInv
<1>2. stream \in Seq(Unit) /\ left \in 0..Len(stream) /\ 1 \in 1..Len(stream)
  BY <1>1 DEF IInv, TypeOK
<1>3. stream' \in Seq(Unit) /\ Len(stream') = 0 /\ stream' = <<>>
  <2>1. stream' \in Seq(Unit) /\ Len(stream') = Len(stream) - left
    BY <1>0, <1>2, UnreadSeq
  <2> QED
    BY <2>1, <1>1, <1>2
<1>4. stream[1].of \in Ids
  <2>1. stream[1] \in Unit
    BY <1>2
  <2> QED
    BY <2>1 DEF Unit
<1>5. TypeOK'
  <2>1. left' \in 0..MaxBody
    BY <1>0, BodyAssumption DEF Finish
  <2> QED
    BY <2>1, <1>0, <1>3, <1>4 DEF IInv, TypeOK, Pcs, Codes, Finish
<1>6. PastInv'
  BY <1>0, <1>1, <1>3 DEF PastInv
<1> QED
  BY <1>0, <1>1, <1>3, <1>5, <1>6
  DEF IInv, DownInv, OrderInv, SpoiledInv, LeftInv, Clean, Finish

LEMMA TimeoutStep == ASSUME IInv, Timeout PROVE IInv'
<1>0. /\ pc \in {"header", "body"} /\ Finish("transport", Nobody)
      /\ hearing' \in {hearing, FALSE}
      /\ UNCHANGED <<stage, first, asked, request, owed, spoiled>>
  BY DEF Timeout, counter
<1>1. PICK k \in 0..Len(stream) :
        (k < left \/ k = 0) /\ stream' = Unread(stream, k)
  BY DEF Timeout
<1>2. /\ stream \in Seq(Unit) /\ stream' \in Seq(Unit)
      /\ Len(stream) \in Nat /\ Len(stream') = Len(stream) - k
      /\ \A i \in 1..(Len(stream) - k) : stream'[i] = stream[i + k]
  <2>1. stream \in Seq(Unit)
    BY DEF IInv, TypeOK
  <2>2. /\ Unread(stream, k) \in Seq(Unit)
        /\ Len(Unread(stream, k)) = Len(stream) - k
        /\ \A i \in 1..(Len(stream) - k) : Unread(stream, k)[i] = stream[i + k]
    BY <2>1, <1>1, UnreadSeq
  <2>3. stream' = Unread(stream, k)
    BY <1>1
  <2> QED
    BY <2>1, <2>2, <2>3
<1>3. TypeOK'
  <2>1. left' \in 0..MaxBody
    BY <1>0, BodyAssumption DEF Finish
  <2> QED
    BY <2>1, <1>0, <1>2 DEF IInv, TypeOK, Pcs, Codes, Finish
<1>4. PastInv'
  <2>1. \A i \in 1..Len(stream') : /\ i + k \in 1..Len(stream)
                                  /\ i \in 1..(Len(stream) - k)
    BY <1>1, <1>2
  <2>2. Past' = Past
    BY <1>0 DEF Past, Id
  <2> QED
    BY <2>1, <2>2, <1>0, <1>2 DEF IInv, PastInv
<1>5. ASSUME spoiled PROVE hearing' => Backlog'
  <2>1. pc = "header" /\ left = 0
    BY <1>0, <1>5 DEF IInv, SpoiledInv, LeftInv
  <2>2. Len(stream') = Len(stream)
    BY <2>1, <1>1, <1>2
  <2>3. hearing => owed # <<>> \/ Len(stream) >= 2
    BY <2>1, <1>5 DEF IInv, SpoiledInv, Behind
  <2>4. Len(stream) >= 2 => stream' # <<>>
    BY <2>2, <1>2
  <2> QED
    BY <2>3, <2>4, <1>0 DEF Backlog
<1> QED
  BY <1>0, <1>3, <1>4, <1>5
  DEF IInv, DownInv, OrderInv, SpoiledInv, LeftInv, Finish, Unusable

----------------------------------------------------------------------------
(* The callers.                                                            *)

LEMMA ClosedConnection ==
  ASSUME IInv, Resume, Close, spoiled' = FALSE
  PROVE  IInv'
<1>0. /\ pc' = "idle" /\ stage' = "down" /\ owed' = <<>> /\ stream' = <<>>
      /\ hearing' = TRUE
      /\ UNCHANGED <<first, asked, request, left, code, answered>>
  BY DEF Resume, Close, counter, command
<1>1. TypeOK'
  <2>1. owed' \in Seq(Ids) /\ stream' \in Seq(Unit)
    BY <1>0
  <2> QED
    BY <2>1, <1>0 DEF IInv, TypeOK, Pcs, Stages
<1>2. PastInv'
  BY <1>0 DEF PastInv
<1> QED
  BY <1>0, <1>1, <1>2
  DEF IInv, DownInv, OrderInv, SpoiledInv, LeftInv, Clean

(* The connection is kept after a command that left it clean, or that is   *)
(* known to have spoiled it.                                               *)
LEMMA KeptConnection ==
  ASSUME IInv, Resume, NEW next \in Stages \ {"down"}, Keep(next),
         spoiled' \in BOOLEAN,
         ~spoiled' => Clean,
         spoiled' => code # "ok" /\ (hearing => Backlog)
  PROVE  IInv'
<1>0. /\ pc' = "idle" /\ stage' = next
      /\ UNCHANGED <<first, asked, request, left, code, answered, owed, stream,
                     hearing>>
  BY DEF Resume, Keep, counter, command, link
<1>1. TypeOK'
  BY <1>0 DEF IInv, TypeOK, Pcs
<1>2. PastInv'
  BY <1>0 DEF IInv, PastInv, Past, Id
<1> QED
  BY <1>0, <1>1, <1>2
  DEF IInv, DownInv, OrderInv, SpoiledInv, LeftInv, Clean, Backlog

LEMMA CallerStep ==
  ASSUME IInv, \/ HelloReturns \/ StartReturns \/ ContinueReturns
               \/ FinalReturns \/ CommandReturns
  PROVE  IInv'
<1>0. Resume /\ pc = "returned"
  BY DEF HelloReturns, StartReturns, ContinueReturns, FinalReturns,
         CommandReturns, Resume
<1>1. ~spoiled /\ code \notin Unusable => Clean
  BY <1>0 DEF IInv, OrderInv
<1>2. spoiled => code # "ok" /\ (hearing => Backlog)
  BY <1>0 DEF IInv, SpoiledInv
<1>3. spoiled \in BOOLEAN
  BY DEF IInv, TypeOK
<1>4. CASE Close /\ spoiled' = FALSE
  BY <1>0, <1>4, ClosedConnection
<1>5. CASE /\ \E next \in Stages \ {"down"} : Keep(next)
           /\ code \notin Unusable /\ spoiled' = spoiled
  BY <1>0, <1>1, <1>2, <1>3, <1>5, KeptConnection
<1>6. CASE FinalReturns
  <2>1. Keep("ready") /\ "ready" \in Stages \ {"down"}
    BY <1>6 DEF FinalReturns, Stages
  <2>2. spoiled' = (spoiled \/ ~Clean)
    BY <1>6 DEF FinalReturns
  <2>3. ~Clean => (hearing => Backlog)
    BY DEF Clean, Backlog
  <2>4. ~Clean => code # "ok"
    BY <1>1, <1>2 DEF Unusable
  <2>5. spoiled' \in BOOLEAN
    BY <2>2, <1>3
  <2> QED
    BY <2>1, <2>2, <2>3, <2>4, <2>5, <1>0, <1>2, KeptConnection
<1> QED
  BY <1>4, <1>5, <1>6 DEF HelloReturns, StartReturns, ContinueReturns,
     CommandReturns, Unusable, Stages

LEMMA DialStep == ASSUME IInv, Dial PROVE IInv'
<1>0. /\ stage = "down" /\ pc = "idle" /\ stage' = "hello" /\ first' = Id(asked)
      /\ asked' = 0
      /\ UNCHANGED <<pc, request, left, code, answered, owed, stream, hearing,
                     spoiled>>
  BY DEF Dial, command, link
<1>1. ~spoiled /\ Clean
  BY <1>0 DEF IInv, DownInv
<1>2. TypeOK'
  <2>1. first' \in Ids
    BY <1>0, IdType DEF IInv, TypeOK
  <2>2. asked' \in 0..MaxAsked
    BY <1>0, IdAssumption
  <2> QED
    BY <2>1, <2>2, <1>0 DEF IInv, TypeOK, Stages
<1>3. PastInv'
  BY <1>0, <1>1 DEF PastInv, Clean
<1> QED
  BY <1>0, <1>1, <1>2, <1>3
  DEF IInv, DownInv, OrderInv, SpoiledInv, LeftInv, Clean

----------------------------------------------------------------------------
(* The surroundings.                                                       *)

LEMMA AnswerStep == ASSUME IInv, Answer PROVE IInv'
<1> DEFINE r == owed[1]
<1>0. /\ hearing /\ owed # <<>> /\ owed' = Tail(owed)
      /\ UNCHANGED <<stage, pc, first, asked, request, left, code, answered,
                     hearing, spoiled>>
  BY DEF Answer, counter, command
<1>1. PICK n \in 1..(MaxBody + 1) : stream' = stream \o Reply(r, n)
  <2>1. Head(owed) = r
    BY <1>0 DEF IInv, TypeOK
  <2> QED
    BY <2>1 DEF Answer
<1>2. /\ owed \in Seq(Ids) /\ r \in Ids /\ Len(owed) \in Nat \ {0}
      /\ owed' \in Seq(Ids) /\ Len(owed') = Len(owed) - 1
      /\ \A i \in 1..(Len(owed) - 1) : owed'[i] = owed[i + 1]
  BY <1>0 DEF IInv, TypeOK
<1>3. /\ Reply(r, n) \in Seq(Unit) /\ Len(Reply(r, n)) = n + 1
      /\ Reply(r, n)[1].body = n
      /\ \A i \in 1..(n + 1) : Reply(r, n)[i].of = r
  BY <1>2, ReplySeq
<1>4. n \in Nat \ {0} /\ Len(stream) \in Nat /\ stream \in Seq(Unit)
  BY BodyAssumption DEF IInv, TypeOK
<1>5. /\ stream' \in Seq(Unit) /\ Len(stream') = Len(stream) + n + 1
      /\ \A i \in 1..Len(stream) : stream'[i] = stream[i]
      /\ \A i \in 1..(n + 1) : stream'[Len(stream) + i] = Reply(r, n)[i]
  <2> DEFINE reply == Reply(r, n)
  <2>1. reply \in Seq(Unit) /\ Len(reply) = n + 1 /\ stream' = stream \o reply
    BY <1>1, <1>3
  <2> HIDE DEF reply
  <2>2. /\ stream' \in Seq(Unit) /\ Len(stream') = Len(stream) + Len(reply)
        /\ \A i \in 1..Len(stream) : stream'[i] = stream[i]
        /\ \A i \in 1..Len(reply) : stream'[Len(stream) + i] = reply[i]
    <3>1. /\ stream \o reply \in Seq(Unit)
          /\ Len(stream \o reply) = Len(stream) + Len(reply)
          /\ \A i \in 1..(Len(stream) + Len(reply)) : (stream \o reply)[i] =
               IF i <= Len(stream) THEN stream[i] ELSE reply[i - Len(stream)]
      BY <2>1, <1>4, ConcatProperties
    <3>2. \A i \in 1..Len(reply) : /\ Len(stream) + i \in 1..(Len(stream) + Len(reply))
                                   /\ ~(Len(stream) + i <= Len(stream))
                                   /\ (Len(stream) + i) - Len(stream) = i
      BY <2>1, <1>4
    <3>3. \A i \in 1..Len(reply) : stream'[Len(stream) + i] = reply[i]
      BY <3>1, <3>2, <2>1
    <3>4. \A i \in 1..Len(stream) : stream'[i] = stream[i]
      BY <3>1, <2>1, <1>4
    <3> QED
      BY <3>1, <3>3, <3>4, <2>1
  <2> QED
    BY <2>1, <2>2, <1>4 DEF reply
<1> HIDE DEF r
<1>6. TypeOK'
  BY <1>0, <1>2, <1>5 DEF IInv, TypeOK
<1>7. PastInv'
  <2>1. Past' = Past /\ r \in Past
    BY <1>0, <1>2 DEF IInv, PastInv, Past, Id, r
  <2>2. \A i \in 1..Len(owed') : owed'[i] \in Past
    <3>1. \A i \in 1..Len(owed') : /\ i \in 1..(Len(owed) - 1)
                                  /\ i + 1 \in 1..Len(owed)
      BY <1>2
    <3> QED
      BY <3>1, <1>2 DEF IInv, PastInv
  <2>3. ASSUME NEW i \in 1..Len(stream') PROVE stream'[i].of \in Past
    <3>1. CASE i \in 1..Len(stream)
      BY <3>1, <1>5 DEF IInv, PastInv
    <3>2. CASE i \notin 1..Len(stream)
      <4>1. i - Len(stream) \in 1..(n + 1) /\ Len(stream) + (i - Len(stream)) = i
        BY <3>2, <1>4, <1>5
      <4> QED
        BY <4>1, <2>1, <1>3, <1>5
    <3> QED
      BY <3>1, <3>2
  <2> QED
    BY <2>1, <2>2, <2>3 DEF PastInv
<1>8. OrderInv'
  <2>1. SUFFICES ASSUME ~spoiled
                 PROVE  /\ pc # "idle" /\ pc # "body"
                        /\ pc = "header" => Arrived'
                        /\ pc = "returned" => code \in Unusable
    BY <1>0 DEF OrderInv
  <2>2. pc # "idle" /\ pc # "body" /\ (pc = "returned" => code \in Unusable)
    BY <2>1, <1>0 DEF IInv, OrderInv, Clean
  <2>3. ASSUME pc = "header" PROVE Arrived'
    <3>1. stream = <<>> /\ owed = <<request>>
      BY <2>1, <2>3, <1>0 DEF IInv, OrderInv, Awaited, Arrived
    <3>2. r = request /\ owed' = <<>> /\ Len(stream) = 0
      BY <3>1, <1>0 DEF r
    <3>3. /\ Len(stream') = n + 1
          /\ \A i \in 1..(n + 1) : stream'[i] = Reply(r, n)[i]
      BY <3>2, <1>4, <1>5
    <3>4. stream'[1].body = n /\ \A i \in 1..(n + 1) : stream'[i].of = request
      BY <3>2, <3>3, <1>3, <1>4
    <3> QED
      BY <3>2, <3>3, <3>4, <1>0, <1>4 DEF Arrived
  <2> QED
    BY <2>2, <2>3
<1>9. SpoiledInv'
  <2>1. SUFFICES ASSUME spoiled
                 PROVE  /\ code # "ok" /\ pc # "body" /\ Len(stream') >= 2
                        /\ pc = "header" => stream'[1].of # request
    <3>1. Len(stream') >= 2 => stream' # <<>>
      BY <1>5
    <3> QED
      BY <2>1, <3>1, <1>0 DEF SpoiledInv, Behind, Backlog
  <2>2. code # "ok" /\ pc # "body" /\ (pc = "header" => Behind)
    BY <2>1 DEF IInv, SpoiledInv
  <2>3. Len(stream') >= 2
    BY <1>4, <1>5
  <2>4. ASSUME pc = "header" PROVE stream'[1].of # request
    <3>1. CASE stream = <<>>
      <4>1. r # request
        BY <2>2, <2>4, <3>1, <1>0 DEF Behind, r
      <4>2. stream'[1] = Reply(r, n)[1] /\ 1 \in 1..(n + 1)
        BY <3>1, <1>4, <1>5
      <4> QED
        BY <4>1, <4>2, <1>3
    <3>2. CASE stream # <<>>
      <4>1. stream'[1] = stream[1]
        BY <3>2, <1>4, <1>5
      <4> QED
        BY <4>1, <2>2, <2>4, <3>2 DEF Behind
    <3> QED
      BY <3>1, <3>2
  <2> QED
    BY <2>2, <2>3, <2>4
<1>10. DownInv'
  BY <1>0 DEF IInv, DownInv, Clean
<1> QED
  BY <1>0, <1>6, <1>7, <1>8, <1>9, <1>10 DEF IInv, LeftInv

LEMMA OtherClientStep == ASSUME IInv, OtherClient PROVE IInv'
<1>0. /\ first' = first /\ asked' = Drawn(asked)
      /\ UNCHANGED <<stage, pc, request, left, code, answered, owed, stream,
                     hearing, spoiled>>
  BY DEF OtherClient, command, link
<1>1. asked' \in 0..MaxAsked /\ Past \subseteq Past'
  BY <1>0, DrawnPast DEF IInv, TypeOK
<1>2. TypeOK'
  BY <1>0, <1>1 DEF IInv, TypeOK
<1>3. PastInv'
  BY <1>0, <1>1 DEF IInv, PastInv
<1> QED
  BY <1>0, <1>2, <1>3
  DEF IInv, DownInv, OrderInv, SpoiledInv, LeftInv, Clean, Awaited, Arrived,
      Backlog, Behind

----------------------------------------------------------------------------
LEMMA StepInv == IInv /\ [Next]_vars => IInv'
<1> SUFFICES ASSUME IInv, [Next]_vars PROVE IInv'
  OBVIOUS
<1>1. CASE RunCommand
  BY <1>1, SendStep, SendFailsStep, NotCopiedStep, NotBuiltStep,
     AcceptHeaderStep, RefuseHeaderStep, NoMemoryStep, ReadBodyStep, TimeoutStep
  DEF RunCommand
<1>2. CASE Caller
  BY <1>2, DialStep, CallerStep DEF Caller
<1>3. CASE Answer
  BY <1>3, AnswerStep
<1>4. CASE OtherClient
  BY <1>4, OtherClientStep
<1>5. CASE UNCHANGED vars
  BY <1>5 DEF vars, counter, command, link, IInv, TypeOK, PastInv, Past, Id,
     DownInv, OrderInv, SpoiledInv, LeftInv, Clean, Awaited, Arrived, Backlog,
     Behind
<1> QED
  BY <1>1, <1>2, <1>3, <1>4, <1>5 DEF Next

(* The inductive invariant holds in every reachable state. *)
THEOREM Invariance == Spec => []IInv
  BY InitInv, StepInv, PTL DEF Spec

(* Ids stay within the counter's width and every variable has its type. *)
THEOREM TypeCorrect == Spec => []TypeOK
<1>1. IInv => TypeOK
  BY DEF IInv
<1> QED
  BY <1>1, Invariance, PTL

(* A step to "returned" with MONGO_WIRE_OK returns this request's reply. *)
LEMMA OwnReplyStep == IInv /\ OwnReply /\ [Next]_vars => OwnReply'
<1> SUFFICES ASSUME IInv, OwnReply, [Next]_vars, pc' = "returned", code' = "ok"
             PROVE  answered' = request'
  BY DEF OwnReply
<1>1. CASE ReadBody
  <2>1. 1 \in 1..Len(stream) /\ stream[1].of = request
    BY <1>1 DEF ReadBody, IInv, TypeOK, SpoiledInv, OrderInv
  <2>2. answered' = stream[1].of /\ request' = request
    BY <1>1 DEF ReadBody, Finish
  <2> QED
    BY <2>1, <2>2
<1>2. CASE Answer \/ OtherClient \/ UNCHANGED vars
  BY <1>2 DEF Answer, OtherClient, vars, counter, command, link, OwnReply
<1>3. ~(Send \/ SendFails \/ NotCopied \/ NotBuilt \/ AcceptHeader \/ RefuseHeader
        \/ NoMemory \/ Timeout)
  BY DEF Send, SendFails, NotCopied, NotBuilt, AcceptHeader, RefuseHeader,
         NoMemory, Timeout, Finish
<1>4. ~Caller
  BY DEF Caller, Dial, HelloReturns, StartReturns, ContinueReturns,
         FinalReturns, CommandReturns, Resume
<1> QED
  BY <1>1, <1>2, <1>3, <1>4 DEF Next, RunCommand

(* A command that succeeds hands out the reply to its own request, however *)
(* many commands failed before it on the connection.                       *)
THEOREM OkIsOwnReply == Spec => []OwnReply
<1>1. Init => OwnReply
  BY DEF Init, OwnReply
<1> QED
  BY <1>1, OwnReplyStep, Invariance, PTL DEF Spec

(* Only a refused header and the last SCRAM round leave anything behind.   *)
THEOREM OtherExitsKeepStep == Spec => []InStep
<1>1. IInv => InStep
  BY DEF IInv, OrderInv, InStep
<1> QED
  BY <1>1, Invariance, PTL

(* A spoiled connection never carries a successful command again.          *)
THEOREM SpoiledStaysUseless == Spec => []SpoiledIsUseless
<1>1. IInv => SpoiledIsUseless
  BY DEF IInv, SpoiledInv, SpoiledIsUseless
<1> QED
  BY <1>1, Invariance, PTL
=============================================================================
