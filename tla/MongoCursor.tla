---------------------------- MODULE MongoCursor ----------------------------
(***************************************************************************)
(* mongo_cursor.c: one cursor over one result set.  The server sends the   *)
(* documents 1..Size in batches and keeps its own cursor between them;     *)
(* the client walks the batch it holds, and asks for the next.             *)
(*                                                                         *)
(* An iterator is a raw pointer into the reply: here the address of that   *)
(* reply and the elements left.  (What the two calls do to a shared        *)
(* client is MongoClient's; what they do to the wire, MongoWire's.)        *)
(***************************************************************************)
EXTENDS Integers, Sequences, SequencesExt

CONSTANTS Size,      \* documents that match
          BatchSize, \* batchSize: the server may send fewer, not more
          Odd,       \* an element that is no valid document
          MaxFinds   \* bound: calls of mongo_cursor_next

CursorAssumption == Size \in Nat /\ BatchSize \in Nat \ {0} /\ MaxFinds \in Nat
ASSUME CursorAssumption

VARIABLES
  \* the server
  sent,      \* how many documents its batches have carried
  open,      \* whether its cursor exists
  \* struct mongo_cursor
  curPc,     \* "none", "ready", "next" (inside mongo_cursor_next) or "gone"
  cursorId,  \* cursor_id: 0 or 1
  batch,     \* batch_reply: its address, 0 when not initialised
  docIter,   \* doc_iter: the reply it points into (0: raw is NULL), and what is left
  \* the caller
  lastRc,    \* what the last call returned
  given,     \* the documents it was given, in order
  failed,    \* whether a call has failed so far
  nextCalls  \* bound

serverVars == <<sent, open>>
cursorVars == <<curPc, cursorId, batch, docIter>>
callerVars == <<lastRc, given, failed, nextCalls>>
findVars == <<serverVars, cursorVars, callerVars>>

NoIter == [reply |-> 0, left |-> <<>>]

CursorInit ==
  /\ sent = 0 /\ open = FALSE /\ curPc = "none" /\ cursorId = 0 /\ batch = 0
  /\ docIter = NoIter /\ lastRc = "none" /\ given = <<>> /\ failed = FALSE
  /\ nextCalls = 0

(* What a batch may hold: up to BatchSize of the documents that follow,    *)
(* one of which may have arrived malformed.                                *)
Batches(from) ==
  { [i \in 1..n |-> IF i = odd THEN Odd ELSE from + i] :
      n \in 0..(IF Size - from < BatchSize THEN Size - from ELSE BatchSize),
      odd \in 0..BatchSize }

(* The outcomes of a round trip of find (new) or getMore.  It may fail     *)
(* before the server has seen the command or after it has moved on; a      *)
(* getMore for a cursor that is gone, and a reply of an odd shape, carry   *)
(* no batch.  The server closes its cursor with the last document.         *)
Outcome(rc, n, more, b) == [rc |-> rc, sent |-> n, open |-> more, batch |-> b]
RoundTrips(new) ==
  {Outcome("wire", sent, open, <<>>)}
  \union (IF new \/ open
          THEN {o \in {Outcome(rc, sent + Len(b), more, b) : rc \in {"ok", "wire", "protocol"},
                                                             more \in BOOLEAN, b \in Batches(sent)} :
                  o.open \/ o.sent = Size}
          ELSE {Outcome("protocol", sent, open, <<>>)})
Served(o) == sent' = o.sent /\ open' = o.open

(* A new reply never lies where an iterator still points. *)
Fresh == IF docIter.reply = 1 THEN 2 ELSE 1

(* load_batch_from_reply on a good reply: the id and the iterator. *)
Load(o) ==
  /\ batch' = Fresh /\ cursorId' = IF o.open THEN 1 ELSE 0
  /\ docIter' = [reply |-> batch', left |-> o.batch]

(* mongo_find: a failure frees the cursor, one the server still keeps open *)
(* included.                                                               *)
Find ==
  /\ curPc = "none"
  /\ \E o \in RoundTrips(TRUE) :
       /\ Served(o) /\ lastRc' = o.rc /\ failed' = (o.rc # "ok")
       /\ IF o.rc = "ok" THEN Load(o) /\ curPc' = "ready"
                         ELSE curPc' = "gone" /\ UNCHANGED <<cursorId, batch, docIter>>
  /\ UNCHANGED <<given, nextCalls>>

(* mongo_cursor_next is entered. *)
Call ==
  /\ curPc = "ready" /\ nextCalls < MaxFinds
  /\ curPc' = "next" /\ nextCalls' = nextCalls + 1
  /\ UNCHANGED <<serverVars, cursorId, batch, docIter, lastRc, given, failed>>

(* The batch has an element: a document is lent out; anything else is an   *)
(* error, and the iterator stays behind it.                                *)
Give ==
  /\ curPc = "next" /\ docIter.left # <<>>
  /\ docIter' = [docIter EXCEPT !.left = Tail(@)] /\ curPc' = "ready"
  /\ IF Head(docIter.left) = Odd
     THEN lastRc' = "protocol" /\ failed' = TRUE /\ given' = given
     ELSE lastRc' = "doc" /\ given' = Append(given, Head(docIter.left)) /\ failed' = failed
  /\ UNCHANGED <<serverVars, cursorId, batch, nextCalls>>

(* bson_iter_next at the end of the batch resets raw: the iterator points  *)
(* nowhere before the reply is destroyed.                                  *)
Exhausted == NoIter
OverUnlessNew == cursorId = 0 \/ given # <<>>  \* mutant: one batch is all
Over == cursorId = 0
Exhaust ==
  /\ curPc = "next" /\ docIter.left = <<>> /\ Over
  /\ docIter' = Exhausted /\ curPc' = "ready" /\ lastRc' = "end"
  /\ UNCHANGED <<serverVars, cursorId, batch, given, failed, nextCalls>>

(* send_get_more: the old reply goes first; then another turn of the loop. *)
GetMore ==
  /\ curPc = "next" /\ docIter.left = <<>> /\ cursorId # 0
  /\ \E o \in RoundTrips(FALSE) :
       /\ Served(o)
       /\ IF o.rc = "ok"
          THEN Load(o) /\ UNCHANGED <<curPc, lastRc, failed>>
          ELSE /\ curPc' = "ready" /\ lastRc' = o.rc /\ failed' = TRUE
               /\ docIter' = Exhausted /\ UNCHANGED cursorId
               /\ batch' = IF o.rc = "protocol" THEN Fresh ELSE 0
  /\ UNCHANGED <<given, nextCalls>>

(* mongo_cursor_destroy: killCursors if the id is not 0, whose fate is     *)
(* ignored; then everything is freed.                                      *)
NoKill == FALSE  \* mutant: killCursors is not sent
Kill == cursorId # 0
Destroy ==
  /\ curPc = "ready"
  /\ open' \in IF Kill THEN {FALSE, open} ELSE {open}
  /\ lastRc' = IF open' THEN "kept" ELSE "killed"
  /\ failed' = (failed \/ (Kill /\ open'))
  /\ curPc' = "gone" /\ batch' = 0
  /\ UNCHANGED <<sent, cursorId, docIter, given, nextCalls>>

(* The server's own timeout of a cursor nobody uses. *)
ServerTimeout ==
  /\ open /\ open' = FALSE
  /\ UNCHANGED <<sent, cursorVars, callerVars>>

CursorNext == Find \/ Call \/ Give \/ Exhaust \/ GetMore \/ Destroy \/ ServerTimeout
-----------------------------------------------------------------------------
(* The documents come in the server's order and none twice, through lost   *)
(* replies and calls repeated after an error; and as long as no call has   *)
(* failed, none is missing: when a call says the cursor is exhausted, the  *)
(* caller has seen every document.                                         *)
GivenInOrder ==
  /\ \A i, j \in DOMAIN given : i < j => given[i] < given[j]
  /\ ~failed => \A i \in DOMAIN given : given[i] = i
  /\ lastRc = "end" /\ ~failed => Len(given) = Size

(* mongo_cursor.h:34 and api.md:142: what the caller borrowed, and what    *)
(* the iterator will read next, lies in the reply that is still allocated. *)
BorrowedLive ==
  /\ curPc \in {"ready", "next"} => docIter.reply \in {0, batch}
  /\ curPc = "ready" /\ lastRc = "doc" => batch # 0

(* A server cursor outlives the client's only if some call has failed.     *)
NoCursorLeak == curPc = "gone" /\ ~failed => ~open

CursorSound == GivenInOrder /\ BorrowedLive /\ NoCursorLeak
=============================================================================
