--------------------------- MODULE ClientSession ---------------------------
(***************************************************************************)
(* What a shared mongo_client promises the tasks that share it             *)
(* (mongo_client.h, "Threading"): there is at most one server session, and *)
(* only the task that owns the client may open it, lose it, or let it be.  *)
(* A session never moves from one server to another: it is dropped first,  *)
(* and a new one is opened afterwards.                                     *)
(*                                                                         *)
(* MongoClient implements this specification; see Session there.           *)
(***************************************************************************)
CONSTANTS Task,      \* the tasks that share the client
          Server,    \* the servers a session may be with
          NoTask,    \* nobody owns the client
          NoServer   \* there is no session

VARIABLES owner,     \* the task inside the client, or NoTask
          session    \* the server the client has a session with, or NoServer

vars == <<owner, session>>

Init == owner = NoTask /\ session = NoServer

(* A task enters the client, one at a time. *)
Enter(k) == owner = NoTask /\ owner' = k /\ UNCHANGED session

(* The task inside finishes connecting: a session where there was none. *)
Open(k) == owner = k /\ session = NoServer /\ session' \in Server /\ UNCHANGED owner

(* The task inside sees the session fail. *)
Drop(k) == owner = k /\ session \in Server /\ session' = NoServer /\ UNCHANGED owner

Leave(k) == owner = k /\ owner' = NoTask /\ UNCHANGED session

Next == \E k \in Task : Enter(k) \/ Open(k) \/ Drop(k) \/ Leave(k)

Spec == Init /\ [][Next]_vars
=============================================================================
