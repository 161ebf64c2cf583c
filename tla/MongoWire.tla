----------------------------- MODULE MongoWire -----------------------------
(***************************************************************************)
(* mongo_wire.c and those who call it on one connection: hello and SCRAM   *)
(* (mongo_auth.c), then the commands of the client's wrappers              *)
(* (mongo_client.c, mongo_crud.c).  The question is what a command that    *)
(* fails leaves behind for the next one.                                   *)
(*                                                                         *)
(* A connection carries one stream of replies.  It is cut in units of the  *)
(* size of a message header, which is how much a command reads before it   *)
(* decides anything; each unit names the request it answers, a header also *)
(* says how many units follow it.  The bytes of a document are assumed     *)
(* never to pass for a header with the awaited responseTo.                 *)
(*                                                                         *)
(* One task at a time uses the connection (MongoClient!ExclusiveWire), but *)
(* the counter of request ids is one per process and other connections     *)
(* draw from it too.                                                       *)
(***************************************************************************)
EXTENDS Naturals, Sequences

CONSTANTS IdSpace,   \* how many request ids there are: 2^32
          MaxAsked,  \* ids drawn in the life of one connection (a bound)
          MaxBody,   \* MONGO_WIRE_MAX_REPLY, in units
          Nobody     \* no request

ASSUME IdAssumption == IdSpace \in Nat \ {0} /\ MaxAsked \in 1..IdSpace
ASSUME BodyAssumption == MaxBody \in Nat \ {0}
ASSUME NobodyAssumption == Nobody \notin Nat

VARIABLES
  stage,      \* who sends the next command; "down" without a connection
  pc,         \* where mongo_run_command is
  first,      \* the counter when the connection was made
  asked,      \* ids drawn since
  request,    \* request_id of the command in progress, or of the last one
  left,       \* units of the accepted reply still to be read
  code,       \* what the last command returned
  answered,   \* the request whose reply it returned
  owed,       \* requests the server has yet to answer
  stream,     \* the units of its answers that are still unread
  hearing,    \* whether the server still makes sense of this connection
  spoiled     \* the connection was kept after a refused header, or after a
              \* last SCRAM round whose reply was not read (not in the code)

counter == <<first, asked>>
command == <<request, left, code, answered>>
link == <<owed, stream, hearing>>
vars == <<stage, pc, counter, command, link, spoiled>>

Ids == 0..(IdSpace - 1)
Stages == {"down", "hello", "start", "continue", "final", "ready"}
Pcs == {"idle", "header", "body", "returned"}
Codes == {"none", "ok", "transport", "alloc",
          "other"}    \* PROTOCOL, TOO_BIG, NO_BODY, BSON

Unit == [of : Ids, body : 0..(MaxBody + 1)]

(* A reply of n units behind its header. *)
Reply(r, n) ==
  [i \in 1..(n + 1) |-> [of |-> r, body |-> IF i = 1 THEN n ELSE 0]]

(* What is left after k units are read. *)
Unread(s, k) == SubSeq(s, k + 1, Len(s))

(* Mutant: a counter that does not wrap. *)
IdUnwrapped(n) == first + n

(* g_request_id_counter, a uint32_t, after n more requests. *)
Id(n) == IF first + n < IdSpace THEN first + n ELSE first + n - IdSpace

(* Mutant: a counter that is read and not advanced. *)
DrawnStuck(n) == n

(* The fetch_add of next_request_id; the count stops at its bound. *)
Drawn(n) == IF n < MaxAsked THEN n + 1 ELSE n

(* Nothing of an earlier command is under way. *)
Clean == owed = <<>> /\ stream = <<>> /\ hearing

(* The process may have used any number of ids before this connection. *)
Init ==
  /\ stage = "down" /\ pc = "idle"
  /\ first \in Ids /\ asked = 0
  /\ request = Nobody /\ left = 0 /\ code = "none" /\ answered = Nobody
  /\ owed = <<>> /\ stream = <<>> /\ hearing = TRUE
  /\ spoiled = FALSE

----------------------------------------------------------------------------
(* mongo_run_command.                                                      *)

Finish(c, r) == pc' = "returned" /\ left' = 0 /\ code' = c /\ answered' = r

Ask ==
  /\ stage # "down" /\ pc = "idle"
  /\ request' = Id(asked) /\ asked' = Drawn(asked)
  /\ UNCHANGED first

(* Both sends succeed.  When altcp_output fails for want of memory after  *)
(* altcp_write took the bytes, mongo_transport_send writes them again: the *)
(* server cannot follow from there on.                                     *)
Send ==
  /\ asked < MaxAsked
  /\ Ask
  /\ pc' = "header" /\ left' = 0
  /\ \/ owed' = Append(owed, request') /\ UNCHANGED hearing
     \/ hearing' = FALSE /\ UNCHANGED owed
  /\ UNCHANGED <<stage, code, answered, stream, spoiled>>

(* A send fails with nothing sent, with part of the message, or after lwIP *)
(* took all of it.                                                         *)
SendFails ==
  /\ Ask
  /\ Finish("transport", Nobody)
  /\ \/ UNCHANGED <<owed, hearing>>
     \/ hearing' = FALSE /\ UNCHANGED owed
     \/ /\ asked < MaxAsked
        /\ owed' = Append(owed, request') /\ UNCHANGED hearing
  /\ UNCHANGED <<stage, stream, spoiled>>

(* The command cannot be copied, or $db not appended: nothing is sent. *)
NotCopied ==
  /\ Ask
  /\ Finish("other", Nobody)
  /\ UNCHANGED <<stage, link, spoiled>>

(* mongo_insert_one cannot build its command and takes no id. *)
NotBuilt ==
  /\ stage = "ready" /\ pc = "idle"
  /\ Finish("other", Nobody)
  /\ UNCHANGED <<stage, counter, request, link, spoiled>>

(* Mutant: responseTo is not compared. *)
AcceptableAnyReply(u) == u.body \in 1..MaxBody

(* A header that is not too big and answers this request.  Opcode and the  *)
(* least length hold of every header the server sends.                     *)
Acceptable(u) == u.body \in 1..MaxBody /\ u.of = request

AcceptHeader ==
  /\ pc = "header" /\ stream # <<>> /\ Acceptable(Head(stream))
  /\ pc' = "body" /\ left' = Head(stream).body /\ stream' = Unread(stream, 1)
  /\ UNCHANGED <<stage, counter, request, code, answered, owed, hearing,
                 spoiled>>

(* PROTOCOL or TOO_BIG: what follows the header stays in the stream. *)
RefuseHeader ==
  /\ pc = "header" /\ stream # <<>> /\ ~Acceptable(Head(stream))
  /\ Finish("other", Nobody) /\ stream' = Unread(stream, 1)
  /\ spoiled' = TRUE
  /\ UNCHANGED <<stage, counter, request, owed, hearing>>

(* No memory for the payload: ALLOC, with the payload unread. *)
NoMemory ==
  /\ pc = "body"
  /\ Finish("alloc", Nobody)
  /\ UNCHANGED <<stage, counter, request, link, spoiled>>

(* The payload is read to its end, and only then looked at. *)
ReadBody ==
  /\ pc = "body" /\ Len(stream) >= left
  /\ stream' = Unread(stream, left)
  /\ \/ Finish("ok", Head(stream).of)
     \/ Finish("other", Nobody)        \* sections or BSON not as expected
  /\ UNCHANGED <<stage, counter, request, owed, hearing, spoiled>>

(* recv_exact gives up, with none or some of the bytes it was to read, and *)
(* the connection still there or not.                                      *)
Timeout ==
  /\ pc \in {"header", "body"}
  /\ Finish("transport", Nobody)
  /\ \E k \in 0..Len(stream) :
       /\ k < left \/ k = 0
       /\ stream' = Unread(stream, k)
  /\ hearing' \in {hearing, FALSE}
  /\ UNCHANGED <<stage, counter, request, owed, spoiled>>

----------------------------------------------------------------------------
(* What the callers do with its result.                                    *)

Keep(next) == stage' = next /\ UNCHANGED link

(* mongo_transport_close: what was under way is gone with the connection. *)
Close == stage' = "down" /\ owed' = <<>> /\ stream' = <<>> /\ hearing' = TRUE

Resume == pc = "returned" /\ pc' = "idle" /\ UNCHANGED <<counter, command>>

(* mongo_handshake and connect_locked.  After a good hello the connection  *)
(* is closed all the same if the server rejects it or is no primary, or if *)
(* credentials must not be used or no mechanism fits them.                 *)
HelloReturns ==
  /\ Resume /\ stage = "hello"
  /\ \/ code = "ok" /\ \E next \in {"start", "ready"} : Keep(next)
        /\ UNCHANGED spoiled
     \/ Close /\ spoiled' = FALSE

(* saslStart, the server-first message and the client's proof. *)
StartReturns ==
  /\ Resume /\ stage = "start"
  /\ \/ code = "ok" /\ Keep("continue") /\ UNCHANGED spoiled
     \/ Close /\ spoiled' = FALSE

(* saslContinue and the server's signature; `done' decides on a last round. *)
ContinueReturns ==
  /\ Resume /\ stage = "continue"
  /\ \/ code = "ok" /\ \E next \in {"final", "ready"} : Keep(next)
        /\ UNCHANGED spoiled
     \/ Close /\ spoiled' = FALSE

(* The empty saslContinue: whatever its code, the client is authenticated. *)
FinalReturns ==
  /\ Resume /\ stage = "final"
  /\ Keep("ready")
  /\ spoiled' = (spoiled \/ ~Clean)

(* Mutant: an allocation failure keeps the connection. *)
UnusableTransport == {"transport"}

(* CLIENT_DO, find and note_op_rc: the codes that close the connection. *)
Unusable == {"transport", "alloc"}

CommandReturns ==
  /\ Resume /\ stage = "ready"
  /\ \/ code \in Unusable /\ Close /\ spoiled' = FALSE
     \/ code \notin Unusable /\ Keep("ready") /\ UNCHANGED spoiled

(* connect_locked's mongo_transport_connect: a new transport, no leftovers. *)
Dial ==
  /\ stage = "down" /\ pc = "idle"
  /\ stage' = "hello" /\ first' = Id(asked) /\ asked' = 0
  /\ UNCHANGED <<pc, command, link, spoiled>>

----------------------------------------------------------------------------
(* The surroundings.                                                       *)

(* The server answers in order. *)
Answer ==
  /\ hearing /\ owed # <<>>
  /\ owed' = Tail(owed)
  /\ \E n \in 1..(MaxBody + 1) :
       stream' = stream \o Reply(Head(owed), n)
  /\ UNCHANGED <<stage, pc, counter, command, hearing, spoiled>>

(* A command on another client's connection. *)
OtherClient ==
  /\ asked < MaxAsked /\ asked' = Drawn(asked)
  /\ UNCHANGED <<stage, pc, first, command, link, spoiled>>

RunCommand == \/ Send \/ SendFails \/ NotCopied \/ NotBuilt
              \/ AcceptHeader \/ RefuseHeader \/ NoMemory \/ ReadBody \/ Timeout

Caller == \/ Dial \/ HelloReturns \/ StartReturns \/ ContinueReturns
          \/ FinalReturns \/ CommandReturns

Next == RunCommand \/ Caller \/ Answer \/ OtherClient

Spec == Init /\ [][Next]_vars

----------------------------------------------------------------------------
(* Properties.                                                             *)

(* Types: in particular every request id fits the counter's 32 bits, on    *)
(* either side of its wrap.                                                *)
TypeOK ==
  /\ stage \in Stages /\ pc \in Pcs
  /\ first \in Ids /\ asked \in 0..MaxAsked
  /\ request \in Ids \cup {Nobody} /\ answered \in Ids \cup {Nobody}
  /\ left \in 0..MaxBody /\ code \in Codes
  /\ owed \in Seq(Ids) /\ stream \in Seq(Unit) /\ hearing \in BOOLEAN
  /\ spoiled \in BOOLEAN

(* A command that returns MONGO_WIRE_OK hands out the reply to its own     *)
(* request, whatever earlier commands left in the stream (the responseTo   *)
(* check of recv_op_msg).                                                  *)
OwnReply == pc = "returned" /\ code = "ok" => answered = request

(* Two exits leave something behind on a connection that is kept: a header *)
(* that is refused, and the last SCRAM round.  After every other exit of   *)
(* mongo_run_command the connection is closed, or the next command finds   *)
(* it clean.                                                               *)
InStep == pc = "idle" /\ stage # "down" /\ ~spoiled => Clean

(* After one of those two no command on the connection returns OK any      *)
(* more: each reads the rest of an older reply as its header, and adds     *)
(* more to what is unread than it takes.                                   *)
SpoiledIsUseless == spoiled => code # "ok"

(* mark_disconnected's comment: any error that means the transport is no   *)
(* longer usable invalidates the connection.  So the next command on a     *)
(* connection that is kept finds it clean.                                 *)
KeptInStep == pc = "idle" /\ stage = "ready" => Clean
=============================================================================
