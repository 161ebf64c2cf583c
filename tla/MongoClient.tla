---------------------------- MODULE MongoClient ----------------------------
(***************************************************************************)
(* mongo_client.c: one client shared by several FreeRTOS tasks, with the   *)
(* part of mongo_cursor.c that goes back to the network.                   *)
(*                                                                         *)
(* Every public call takes c->mutex, connects when it has to               *)
(* (connect_locked: backoff, then up to MAX_REDIRECTS attempts of          *)
(* rebuild / connect / hello / SCRAM), runs one command on c->t, drops the *)
(* connection on a transport or allocation error, and gives the mutex      *)
(* back.  A cursor keeps the transport pointer of its find and uses it     *)
(* under the same mutex.                                                   *)
(*                                                                         *)
(* A step of a task ends where the code may block: on the mutex, in the    *)
(* backoff delay, in the allocator, in each network exchange.  Between     *)
(* those points the code runs under the mutex and touches nothing else.    *)
(* The heap is the set Address: a freed block may be handed out again, as  *)
(* FreeRTOS's allocator does.  The replica set is the environment: servers *)
(* crash, restart, are elected and step down (a stepdown keeps its TCP     *)
(* connections), links break, exchanges time out, until `calm'.            *)
(***************************************************************************)
EXTENDS Naturals

CONSTANTS Task,          \* the tasks that call the client
          Calls,         \* the calls each of them makes
          NoTask,
          Server,        \* host:port pairs of the replica set
          NoServer,      \* the empty string in last_known_primary
          Seed,          \* uri.hosts[0], the only seed the client ever dials
          HostOf,        \* the host name in a host:port pair
          Address,       \* where the heap can place a struct mongo_transport
          NULL,
          NoCursor,
          MaxRedirects,  \* MAX_REDIRECTS: connect attempts in one call
          MaxFailures    \* consecutive_failures stops growing here (a bound)

ASSUME TaskAssumption == NoTask \notin Task
ASSUME ServerAssumption == Seed \in Server /\ NoServer \notin Server
ASSUME AddressAssumption == NULL \notin Address
ASSUME CursorAssumption == NoCursor \notin [t : Address, live : BOOLEAN]
ASSUME BoundAssumption == MaxRedirects \in Nat \ {0} /\ MaxFailures \in Nat \ {0}

VARIABLES
  mutex,        \* holder of c->mutex
  target,       \* c->target_host, c->target_port
  lastPrimary,  \* c->last_known_primary and its port
  t,            \* c->t
  connected,    \* c->connected
  failures,     \* c->consecutive_failures
  due,          \* the tick count has reached c->next_attempt_tick
  heap,         \* the mongo_transport structs and the connections behind them
  cursor,       \* the cursor each task got from mongo_client_find
  pc, op,       \* where each task is, and in which call
  attempt,      \* connect_locked's loop counter
  rc,           \* what the call will return
  credentials,  \* what the URI makes of SCRAM: none | refused | scram
  primary, up,  \* the replica set: its primary, the servers that answer
  calm          \* the environment has stopped disturbing the client

clientVars == <<mutex, target, lastPrimary, t, connected, failures, due>>
taskVars == <<pc, op, attempt, rc>>
envVars == <<credentials, primary, up, calm>>
vars == <<clientVars, heap, cursor, taskVars, envVars>>

----------------------------------------------------------------------------
(* The heap.  A transport is `down' while it has no TCP connection (IDLE,  *)
(* CLOSED and ERROR), `linked' with a working one, `broken' with one whose *)
(* peer is gone.  `ready': on this connection the server called itself     *)
(* primary and SCRAM, if there is any, succeeded.                          *)

Free == [state |-> "free", peer |-> NoServer, ready |-> FALSE]
Down == [state |-> "down", peer |-> NoServer, ready |-> FALSE]
Transport == [state : {"free", "down", "linked", "broken"},
              peer : Server \cup {NoServer}, ready : BOOLEAN]

Allocated(x) == heap[x].state # "free"
Open(x) == heap[x].state \in {"linked", "broken"}

(* mongo_transport_close on c->t. *)
Closed(h) == IF t = NULL THEN h ELSE [h EXCEPT ![t] = Down]

CursorOps == {"getMore", "killCursors"}
Ops == {"connect", "crud", "find"} \cup CursorOps
ConnectPcs == {"backoff", "rebuild", "dial", "hello", "auth"}
HeldPcs == ConnectPcs \cup {"io", "unlock"}
Pcs == HeldPcs \cup {"idle", "lock"}
Codes == {"ok", "transport", "alloc", "other", "auth"}

(* The transport a task's command goes out on: a cursor has its own copy   *)
(* of the pointer.                                                         *)
Wire(k) == IF op[k] \in CursorOps THEN cursor[k].t ELSE t

Goto(k, label) == pc' = [pc EXCEPT ![k] = label]
Return(k, code) == Goto(k, "unlock") /\ rc' = [rc EXCEPT ![k] = code]
                                     /\ attempt' = [attempt EXCEPT ![k] = 0]

----------------------------------------------------------------------------
Init ==
  /\ mutex = NoTask
  /\ target = Seed /\ lastPrimary = NoServer
  /\ t = NULL /\ connected = FALSE
  /\ failures = 0 /\ due = TRUE
  /\ heap = [x \in Address |-> Free]
  /\ cursor = [k \in Task |-> NoCursor]
  /\ pc = [k \in Task |-> "idle"] /\ op = [k \in Task |-> "crud"]
  /\ attempt = [k \in Task |-> 0] /\ rc = [k \in Task |-> "ok"]
  /\ credentials \in {"none", "refused", "scram"}
  /\ primary \in Server \cup {NoServer} /\ up = Server
  /\ calm = FALSE

(* A task makes a call: a find while it has no cursor, getMore and         *)
(* killCursors on a cursor whose server side is still open.                *)
Call(k, o) ==
  /\ pc[k] = "idle" /\ o \in Calls[k]
  /\ o = "find" => cursor[k] = NoCursor
  /\ o \in CursorOps => cursor[k] # NoCursor /\ cursor[k].live
  /\ op' = [op EXCEPT ![k] = o]
  /\ Goto(k, "lock")
  /\ UNCHANGED <<clientVars, heap, cursor, attempt, rc, envVars>>

(* mongo_cursor_destroy on an exhausted cursor touches no network. *)
DropCursor(k) ==
  /\ pc[k] = "idle" /\ cursor[k] # NoCursor /\ ~cursor[k].live
  /\ cursor' = [cursor EXCEPT ![k] = NoCursor]
  /\ UNCHANGED <<clientVars, heap, taskVars, envVars>>

(* xSemaphoreTake(c->mutex, portMAX_DELAY), in CLIENT_DO, in               *)
(* mongo_client_find and in mongo_client_lock_.                            *)
TakeUnlessCursor(k) ==  \* mutant: the cursor forgets the client's mutex
  IF op[k] \in CursorOps THEN UNCHANGED mutex ELSE mutex = NoTask /\ mutex' = k
Take(k) == mutex = NoTask /\ mutex' = k

(* Cursor operations go straight to their transport, the others connect    *)
(* first unless the client is connected.                                   *)
FirstLabelByPointer(k) ==  \* mutant: a transport is taken for a connection
  IF op[k] \in CursorOps THEN "io"
  ELSE IF t = NULL THEN "backoff"
  ELSE IF op[k] = "connect" THEN "unlock" ELSE "io"
FirstLabel(k) ==
  IF op[k] \in CursorOps THEN "io"
  ELSE IF ~connected THEN "backoff"
  ELSE IF op[k] = "connect" THEN "unlock" ELSE "io"

Acquire(k) ==
  /\ pc[k] = "lock"
  /\ Take(k)
  /\ Goto(k, FirstLabel(k))
  /\ UNCHANGED <<target, lastPrimary, t, connected, failures, due, heap, cursor,
                 op, attempt, rc, envVars>>

(* The end of connect_locked's delay: vTaskDelay sleeps, mutex held, until *)
(* next_attempt_tick.  The cached primary is dialled first.                *)
NoDelay == TRUE  \* mutant: the delay is skipped
DelayOver == failures = 0 \/ due
Backoff(k) ==
  /\ pc[k] = "backoff" /\ DelayOver
  /\ target' = IF lastPrimary # NoServer THEN lastPrimary ELSE Seed
  /\ rc' = [rc EXCEPT ![k] = "transport"]
  /\ Goto(k, "rebuild")
  /\ UNCHANGED <<mutex, lastPrimary, t, connected, failures, due, heap, cursor,
                 op, attempt, envVars>>

(* rebuild_transport frees the old transport and allocates a new one; when *)
(* that fails, connect_locked returns with c->t = NULL and no backoff.     *)
NotFreed(h) == h  \* mutant: the old transport is forgotten
Freed(h) == IF t = NULL THEN h ELSE [h EXCEPT ![t] = Free]

Rebuild(k) ==
  /\ pc[k] = "rebuild"
  /\ \/ \E x \in Address :
          /\ Freed(heap)[x].state = "free"
          /\ t' = x /\ heap' = [Freed(heap) EXCEPT ![x] = Down]
          /\ Goto(k, "dial") /\ UNCHANGED <<attempt, rc>>
     \/ ~calm /\ t' = NULL /\ heap' = Freed(heap) /\ Return(k, "alloc")
  /\ UNCHANGED <<mutex, target, lastPrimary, connected, failures, due, cursor,
                 op, envVars>>

(* The end of a failed attempt: the next one, or, after the last, the      *)
(* counter goes up and next_attempt_tick into the future.                  *)
NextAttemptTooOften(k, code) ==  \* mutant: <= for <
  IF attempt[k] + 1 <= MaxRedirects
  THEN /\ Goto(k, "rebuild")
       /\ attempt' = [attempt EXCEPT ![k] = @ + 1]
       /\ rc' = [rc EXCEPT ![k] = code]
       /\ UNCHANGED <<failures, due>>
  ELSE /\ Return(k, code)
       /\ failures' = IF failures < MaxFailures THEN failures + 1 ELSE failures
       /\ due' = FALSE
NextAttempt(k, code) ==
  IF attempt[k] + 1 < MaxRedirects
  THEN /\ Goto(k, "rebuild")
       /\ attempt' = [attempt EXCEPT ![k] = @ + 1]
       /\ rc' = [rc EXCEPT ![k] = code]
       /\ UNCHANGED <<failures, due>>
  ELSE /\ Return(k, code)
       /\ failures' = IF failures < MaxFailures THEN failures + 1 ELSE failures
       /\ due' = FALSE

(* mongo_transport_connect succeeds. *)
DialOk(k) ==
  /\ pc[k] = "dial" /\ target \in up
  /\ heap' = [heap EXCEPT ![t].state = "linked", ![t].peer = target]
  /\ Goto(k, "hello")
  /\ UNCHANGED <<clientVars, cursor, op, attempt, rc, envVars>>

(* It fails; the cached primary, recognised by host name alone, is retired *)
(* in favour of the seed.                                                  *)
KeepCached == UNCHANGED <<lastPrimary, target>>  \* mutant: never retired
RetireCached ==
  IF lastPrimary # NoServer /\ HostOf[target] = HostOf[lastPrimary]
  THEN lastPrimary' = NoServer /\ target' = Seed
  ELSE UNCHANGED <<lastPrimary, target>>

DialFail(k) ==
  /\ pc[k] = "dial" /\ (target \in up => ~calm)
  /\ RetireCached
  /\ NextAttempt(k, "transport")
  /\ UNCHANGED <<mutex, t, connected, heap, cursor, op, envVars>>

(* mongo_handshake fails: the transport is closed, the target kept. *)
HelloFail(k) ==
  /\ pc[k] = "hello" /\ (heap[t].state = "linked" => ~calm)
  /\ heap' = Closed(heap)
  /\ \E code \in {"transport", "other"} : NextAttempt(k, code)
  /\ UNCHANGED <<mutex, target, lastPrimary, t, connected, cursor, op, envVars>>

(* The reply says: not the primary.  Its `primary' field, when it is there *)
(* and well formed, becomes the target of the next attempt; a secondary    *)
(* may name a primary of the past.                                         *)
HelloRedirect(k) ==
  /\ pc[k] = "hello" /\ heap[t].state = "linked" /\ heap[t].peer # primary
  /\ target' \in IF ~calm THEN Server
                ELSE IF primary \in Server THEN {primary} ELSE {target}
  /\ heap' = Closed(heap)
  /\ NextAttempt(k, rc[k])
  /\ UNCHANGED <<mutex, lastPrimary, t, connected, cursor, op, envVars>>

(* The end of a successful connect_locked, on the way to the command.      *)
Ready(k) ==
  /\ heap' = [heap EXCEPT ![t].ready = TRUE]
  /\ connected' = TRUE /\ failures' = 0 /\ lastPrimary' = target
  /\ Goto(k, IF op[k] = "connect" THEN "unlock" ELSE "io")
  /\ rc' = [rc EXCEPT ![k] = "ok"] /\ attempt' = [attempt EXCEPT ![k] = 0]

(* The reply says: the primary.  Without credentials that is all; SCRAM    *)
(* over plain TCP is refused unless the URI allows it.                     *)
HelloPrimary(k) ==
  /\ pc[k] = "hello" /\ heap[t].state = "linked" /\ heap[t].peer = primary
  /\ CASE credentials = "none" -> Ready(k)
       [] credentials = "refused" ->
            Return(k, "auth") /\ heap' = Closed(heap)
                              /\ UNCHANGED <<connected, failures, lastPrimary>>
       [] credentials = "scram" ->
            Goto(k, "auth")
            /\ UNCHANGED <<heap, connected, failures, lastPrimary, attempt, rc>>
  /\ UNCHANGED <<mutex, target, t, due, cursor, op, envVars>>

AuthOk(k) ==
  /\ pc[k] = "auth" /\ heap[t].state = "linked"
  /\ Ready(k)
  /\ UNCHANGED <<mutex, target, t, due, cursor, op, envVars>>

(* A failed SCRAM conversation ends the call at once: no further attempt,  *)
(* and no backoff for the next call.                                       *)
AuthFailKeepsMutex(k) ==  \* mutant: an early return without the give
  /\ pc[k] = "auth" /\ (heap[t].state = "linked" => ~calm)
  /\ heap' = Closed(heap)
  /\ Goto(k, "idle")
  /\ UNCHANGED <<clientVars, cursor, op, attempt, rc, envVars>>
AuthFail(k) ==
  /\ pc[k] = "auth" /\ (heap[t].state = "linked" => ~calm)
  /\ heap' = Closed(heap)
  /\ Return(k, "auth")
  /\ UNCHANGED <<clientVars, cursor, op, envVars>>

(* What mongo_run_command can return on transport x: any error it likes    *)
(* when the environment is hostile; anything at all on freed memory.  A    *)
(* server's {ok: 0} is "ok" here: the reply arrived.                       *)
Outcomes(x) ==
  CASE heap[x].state = "free" -> {"ok", "transport", "alloc", "other"}
    [] heap[x].state = "linked" ->
         IF calm THEN {"ok"} ELSE {"ok", "transport", "alloc", "other"}
    [] OTHER -> IF calm THEN {"transport"} ELSE {"transport", "alloc", "other"}

(* mark_disconnected, reached from CLIENT_DO, mongo_client_find and        *)
(* mongo_client_note_op_rc_ on a transport or allocation error.            *)
NoteRcOnlyCloses(code) ==  \* mutant: the flag survives the connection
  IF code \in {"transport", "alloc"}
  THEN heap' = Closed(heap) /\ UNCHANGED connected
  ELSE UNCHANGED <<connected, heap>>
NoteRc(code) ==
  IF code \in {"transport", "alloc"}
  THEN connected' = FALSE /\ heap' = Closed(heap)
  ELSE UNCHANGED <<connected, heap>>

(* One command: insert, update, delete, run_command, find, getMore or      *)
(* killCursors.  A find's cursor keeps c->t; a failed getMore keeps its    *)
(* cursor; killCursors frees it whatever happens.                          *)
Exchange(k) ==
  /\ pc[k] = "io"
  /\ \E code \in Outcomes(Wire(k)), live \in BOOLEAN :
       /\ NoteRc(code)
       /\ Return(k, code)
       /\ cursor' = [cursor EXCEPT ![k] =
            CASE op[k] = "find" /\ code = "ok" -> [t |-> t, live |-> live]
              [] op[k] = "getMore" /\ code \in {"ok", "other"} -> [@ EXCEPT !.live = live]
              [] op[k] = "killCursors" -> NoCursor
              [] OTHER -> @]
  /\ UNCHANGED <<mutex, target, lastPrimary, t, failures, due, op, envVars>>

(* xSemaphoreGive on the way out of every call. *)
Unlock(k) ==
  /\ pc[k] = "unlock"
  /\ mutex' = NoTask
  /\ Goto(k, "idle") /\ rc' = [rc EXCEPT ![k] = "ok"]
  /\ op' = [op EXCEPT ![k] = "crud"]
  /\ UNCHANGED <<target, lastPrimary, t, connected, failures, due, heap, cursor,
                 attempt, envVars>>

----------------------------------------------------------------------------
(* The environment. *)

TickElapses ==
  /\ ~due /\ due' = TRUE
  /\ UNCHANGED <<mutex, target, lastPrimary, t, connected, failures, heap, cursor,
                 taskVars, envVars>>

Break(S) == [x \in Address |-> IF x \in S /\ heap[x].state = "linked"
                               THEN [heap[x] EXCEPT !.state = "broken"] ELSE heap[x]]

ServerCrashes(s) ==
  /\ ~calm /\ s \in up
  /\ up' = up \ {s}
  /\ primary' = IF primary = s THEN NoServer ELSE primary
  /\ heap' = Break({x \in Address : heap[x].peer = s})
  /\ UNCHANGED <<clientVars, cursor, taskVars, credentials, calm>>

ServerRestarts(s) ==
  /\ ~calm /\ s \notin up
  /\ up' = up \cup {s}
  /\ UNCHANGED <<clientVars, heap, cursor, taskVars, credentials, primary, calm>>

(* An election, or (NoServer) a stepdown: no connection is closed by it. *)
Election(s) ==
  /\ ~calm /\ s \in up \cup {NoServer}
  /\ primary' = s
  /\ UNCHANGED <<clientVars, heap, cursor, taskVars, credentials, up, calm>>

LinkBreaks(x) ==
  /\ ~calm /\ heap[x].state = "linked"
  /\ heap' = Break({x})
  /\ UNCHANGED <<clientVars, cursor, taskVars, envVars>>

CalmBegins ==
  /\ ~calm /\ calm' = TRUE
  /\ UNCHANGED <<clientVars, heap, cursor, taskVars, credentials, primary, up>>

----------------------------------------------------------------------------
Connecting(k) == \/ Backoff(k) \/ Rebuild(k) \/ DialOk(k) \/ DialFail(k)
                 \/ HelloFail(k) \/ HelloRedirect(k) \/ HelloPrimary(k)
                 \/ AuthOk(k) \/ AuthFail(k)
Inside(k) == Connecting(k) \/ Exchange(k) \/ Unlock(k)
TaskStep(k) == (\E o \in Ops : Call(k, o)) \/ DropCursor(k) \/ Acquire(k) \/ Inside(k)

Disturbance ==
  \/ \E s \in Server : ServerCrashes(s) \/ ServerRestarts(s)
  \/ \E s \in Server \cup {NoServer} : Election(s)
  \/ \E x \in Address : LinkBreaks(x)

Next == (\E k \in Task : TaskStep(k)) \/ TickElapses \/ Disturbance \/ CalmBegins

Spec == Init /\ [][Next]_vars

(* Every blocking point inside the client has a timeout, the scheduler     *)
(* runs a ready task, the tick count advances, and the application keeps   *)
(* writing (telemetry's loop inserts for ever).  A FreeRTOS mutex is not   *)
(* handed over: the giver may take it again before the waiter runs.  The   *)
(* application's tasks sleep between calls (vTaskDelay in their loops), so *)
(* a waiter finds the mutex free again and again, and gets it.             *)
Fairness ==
  /\ \A k \in Task : /\ WF_vars(Inside(k)) /\ SF_vars(Acquire(k))
                     /\ SF_vars(Call(k, "crud"))
  /\ WF_vars(TickElapses)

FairSpec == Spec /\ Fairness

----------------------------------------------------------------------------
(* Properties. *)

(* Types of the client's struct, of the tasks' frames and of the           *)
(* environment (struct mongo_client, struct mongo_cursor).                 *)
TypeOK ==
  /\ mutex \in Task \cup {NoTask}
  /\ target \in Server /\ lastPrimary \in Server \cup {NoServer}
  /\ t \in Address \cup {NULL} /\ connected \in BOOLEAN
  /\ failures \in 0..MaxFailures /\ due \in BOOLEAN
  /\ heap \in [Address -> Transport]
  /\ cursor \in [Task -> [t : Address, live : BOOLEAN] \cup {NoCursor}]
  /\ pc \in [Task -> Pcs] /\ op \in [Task -> Ops]
  /\ attempt \in [Task -> 0..(MaxRedirects - 1)] /\ rc \in [Task -> Codes]
  /\ credentials \in {"none", "refused", "scram"}
  /\ primary \in Server \cup {NoServer} /\ up \in SUBSET Server
  /\ calm \in BOOLEAN

(* mongo_client.h: "Network operations are serialized internally".  The    *)
(* task between take and give is the holder, on every path through the     *)
(* client and the cursor, so no two exchanges ever share a wire.           *)
ExclusiveWire == \A k \in Task : pc[k] \in HeldPcs <=> mutex = k

(* c->connected is believed by every later call: while it is set, c->t is  *)
(* an allocated transport with a connection on which the server answered   *)
(* hello as primary and SCRAM succeeded, it is the connection to the       *)
(* cached primary, and no failure is on record.  Stale cursors of other    *)
(* tasks cannot undo any part of that while the flag stays set.            *)
SessionSound ==
  connected => /\ t # NULL /\ Open(t) /\ heap[t].ready
               /\ lastPrimary # NoServer /\ heap[t].peer = lastPrimary
               /\ failures = 0

(* connect_locked works on a transport nobody else can touch: while a task *)
(* is inside it the client is not connected, from `dial' on c->t exists,   *)
(* and from `hello' on it is connected to the server the task believes to  *)
(* talk to.  A cursor operation has its cursor until the exchange is over. *)
ConnectInProgress ==
  \A k \in Task :
    /\ pc[k] \in ConnectPcs => ~connected /\ op[k] \notin CursorOps
    /\ pc[k] \in {"dial", "hello", "auth"} => t # NULL
    /\ pc[k] \in {"hello", "auth"} => Open(t) /\ heap[t].peer = target
    /\ pc[k] \in {"lock", "io"} /\ op[k] \in CursorOps => cursor[k] # NoCursor

(* A CRUD call or a find sends its command on a session, never on a        *)
(* transport that is closed, half connected or not authenticated.          *)
CommandOnSession ==
  \A k \in Task : pc[k] = "io" /\ op[k] \notin CursorOps => connected

(* At every point where a task can block, its call stands on the transport *)
(* that it takes c->t to be: the one it has built, or the session.         *)
CallsInPlace == ConnectInProgress /\ CommandOnSession

(* rebuild_transport and the error paths leave no transport behind: what   *)
(* is allocated is what c->t points to (tens of KB each under TLS).        *)
NoTransportLeak == \A x \in Address : Allocated(x) <=> x = t

(* After a failed call nobody touches the network before next_attempt_tick *)
(* (mongo_client.c, struct mongo_client): the delay is slept inside the    *)
(* mutex, so no second task slips past it.                                 *)
BackoffHonoured ==
  \A k \in Task : pc[k] \in ConnectPcs \ {"backoff"} => failures = 0 \/ due

(* The client implements ClientSession: its session is with the peer of    *)
(* c->t while connected.                                                   *)
Session == INSTANCE ClientSession
             WITH owner <- mutex,
                  session <- IF connected THEN heap[t].peer ELSE NoServer
SessionSpec == Session!Spec

(* Every exchange, delay and attempt ends, and every early return gives    *)
(* the mutex back: a call that waits for the mutex returns in the end,     *)
(* whatever the servers and the other tasks do.                            *)
CallReturns == \A k \in Task : pc[k] = "lock" ~> pc[k] = "idle"

Healthy == calm /\ Seed \in up /\ primary \in Server /\ credentials # "refused"

(* mongo_client.h: "the next call reconnects automatically".  Once the     *)
(* seed and the primary answer, the client gets connected, whatever it had *)
(* cached and however the previous attempts ended.                         *)
Reconnects == Healthy ~> connected

(* mongo_cursor.h: a cursor is used until mongo_cursor_destroy.  No        *)
(* getMore or killCursors goes out on a transport that has been freed.     *)
CursorTransportAllocated ==
  \A k \in Task : pc[k] = "io" /\ op[k] \in CursorOps => Allocated(Wire(k))

(* struct mongo_client: "Each failed connect attempt bumps the counter and *)
(* sets next_attempt_tick so the following call waits".                    *)
FailedConnectArmsBackoff ==
  [][\A k \in Task :
       pc[k] \in {"dial", "hello", "auth"} /\ pc'[k] = "unlock" /\ rc'[k] # "ok"
         => failures' > 0 /\ ~due']_vars

(* troubleshooting.md: after a stepdown "the next reconnect cycle will     *)
(* find the new primary".                                                  *)
FollowsPrimary == Healthy ~> (connected /\ heap[t].peer = primary)
=============================================================================
