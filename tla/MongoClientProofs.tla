------------------------- MODULE MongoClientProofs -------------------------
(***************************************************************************)
(* Proofs about MongoClient, for every set of tasks and servers, every     *)
(* heap and every number of attempts.                                      *)
(***************************************************************************)
EXTENDS MongoClient, TLAPS

(* The inductive invariant.  No conjunct is inductive alone: the session   *)
(* stays sound because only the holder of the mutex touches c->t, and the  *)
(* types hold because a connect in progress keeps its transport.           *)
IInv == /\ TypeOK
        /\ ExclusiveWire
        /\ SessionSound
        /\ ConnectInProgress
        /\ CommandOnSession
        /\ NoTransportLeak
        /\ BackoffHonoured

(* The three shapes a block of the heap takes. *)
LEMMA Blocks ==
  /\ Free \in Transport /\ Down \in Transport
  /\ Free.state = "free" /\ Down.state = "down"
  BY DEF Free, Down, Transport

LEMMA InitIInv == Init => IInv
<1> SUFFICES ASSUME Init PROVE IInv
  OBVIOUS
<1> USE DEF Init
<1>1. TypeOK
  <2>1. heap \in [Address -> Transport]
    BY Blocks
  <2>2. attempt \in [Task -> 0..(MaxRedirects - 1)] /\ failures \in 0..MaxFailures
    BY BoundAssumption
  <2>3. pc \in [Task -> Pcs] /\ op \in [Task -> Ops] /\ rc \in [Task -> Codes]
    BY DEF Pcs, HeldPcs, ConnectPcs, Ops, CursorOps, Codes
  <2> QED
    BY <2>1, <2>2, <2>3, ServerAssumption DEF TypeOK
<1>2. ExclusiveWire
  BY TaskAssumption DEF ExclusiveWire, HeldPcs, ConnectPcs
<1>3. SessionSound /\ ConnectInProgress /\ CommandOnSession /\ BackoffHonoured
  BY DEF SessionSound, ConnectInProgress, CommandOnSession, BackoffHonoured,
         ConnectPcs, CursorOps
<1>4. NoTransportLeak
  BY AddressAssumption, Blocks DEF NoTransportLeak, Allocated
<1> QED
  BY <1>1, <1>2, <1>3, <1>4 DEF IInv

USE DEF Pcs, HeldPcs, ConnectPcs, CursorOps, Open, Allocated, Goto, Return,
        clientVars, taskVars, envVars

(* One lemma per action: the action preserves the invariant. *)

(* What the end of a failed attempt leaves behind: the holder either tries *)
(* again, with the backoff state untouched, or is on its way out.          *)
LEMMA AttemptOver ==
  ASSUME TypeOK, NEW k \in Task, NEW code \in Codes, NextAttempt(k, code)
  PROVE  /\ attempt' \in [Task -> 0..(MaxRedirects - 1)]
         /\ rc' \in [Task -> Codes]
         /\ failures' \in 0..MaxFailures /\ due' \in BOOLEAN
         /\ \/ pc' = [pc EXCEPT ![k] = "rebuild"] /\ UNCHANGED <<failures, due>>
            \/ pc' = [pc EXCEPT ![k] = "unlock"]
<1>1. CASE attempt[k] + 1 < MaxRedirects
  <2>1. attempt[k] + 1 \in 0..(MaxRedirects - 1)
    BY <1>1, BoundAssumption DEF TypeOK
  <2> QED
    BY <1>1, <2>1 DEF NextAttempt, TypeOK
<1>2. CASE ~(attempt[k] + 1 < MaxRedirects)
  <2>1. failures' \in 0..MaxFailures
    BY <1>2, BoundAssumption DEF NextAttempt, TypeOK
  <2>2. attempt' \in [Task -> 0..(MaxRedirects - 1)]
    BY <1>2, BoundAssumption DEF NextAttempt, TypeOK
  <2> QED
    BY <1>2, <2>1, <2>2 DEF NextAttempt, TypeOK
<1> QED
  BY <1>1, <1>2

(* mongo_transport_close keeps the struct: no block appears or disappears. *)
LEMMA ClosedHeap ==
  ASSUME TypeOK, NoTransportLeak
  PROVE  /\ Closed(heap) \in [Address -> Transport]
         /\ \A x \in Address : Closed(heap)[x].state # "free" <=> x = t
  BY Blocks DEF Closed, TypeOK, NoTransportLeak

LEMMA CallInv ==
  ASSUME IInv, NEW k \in Task, NEW o \in Ops, Call(k, o)
  PROVE  IInv'
  BY DEF Call,
      IInv, TypeOK, ExclusiveWire, SessionSound, ConnectInProgress,
      CommandOnSession, NoTransportLeak, BackoffHonoured

LEMMA DropCursorInv ==
  ASSUME IInv, NEW k \in Task, DropCursor(k)
  PROVE  IInv'
  BY DEF DropCursor,
      IInv, TypeOK, ExclusiveWire, SessionSound, ConnectInProgress,
      CommandOnSession, NoTransportLeak, BackoffHonoured

LEMMA AcquireInv ==
  ASSUME IInv, NEW k \in Task, Acquire(k)
  PROVE  IInv'
  BY TaskAssumption
  DEF Acquire, Take, FirstLabel,
      IInv, TypeOK, ExclusiveWire, SessionSound, ConnectInProgress,
      CommandOnSession, NoTransportLeak, BackoffHonoured

LEMMA BackoffInv ==
  ASSUME IInv, NEW k \in Task, Backoff(k)
  PROVE  IInv'
  BY ServerAssumption
  DEF Backoff, DelayOver, Codes,
      IInv, TypeOK, ExclusiveWire, SessionSound, ConnectInProgress,
      CommandOnSession, NoTransportLeak, BackoffHonoured

LEMMA RebuildInv ==
  ASSUME IInv, NEW k \in Task, Rebuild(k)
  PROVE  IInv'
  BY AddressAssumption, BoundAssumption, Blocks
  DEF Rebuild, Freed, Codes,
      IInv, TypeOK, ExclusiveWire, SessionSound, ConnectInProgress,
      CommandOnSession, NoTransportLeak, BackoffHonoured

LEMMA DialOkInv ==
  ASSUME IInv, NEW k \in Task, DialOk(k)
  PROVE  IInv'
  BY ServerAssumption, AddressAssumption
  DEF DialOk, Transport,
      IInv, TypeOK, ExclusiveWire, SessionSound, ConnectInProgress,
      CommandOnSession, NoTransportLeak, BackoffHonoured

LEMMA DialFailInv ==
  ASSUME IInv, NEW k \in Task, DialFail(k)
  PROVE  IInv'
<1>1. "transport" \in Codes
  BY DEF Codes
<1>2. /\ attempt' \in [Task -> 0..(MaxRedirects - 1)] /\ rc' \in [Task -> Codes]
      /\ failures' \in 0..MaxFailures /\ due' \in BOOLEAN
      /\ \/ pc' = [pc EXCEPT ![k] = "rebuild"] /\ UNCHANGED <<failures, due>>
         \/ pc' = [pc EXCEPT ![k] = "unlock"]
  BY <1>1, AttemptOver DEF DialFail, IInv
<1>3. TypeOK' /\ ExclusiveWire'
  BY <1>2, ServerAssumption DEF DialFail, RetireCached, IInv, TypeOK, ExclusiveWire
<1>4. ~connected'
  BY DEF DialFail, IInv, ConnectInProgress
<1>5. (SessionSound /\ ConnectInProgress /\ CommandOnSession)'
  BY <1>2, <1>4 DEF DialFail, IInv, TypeOK, ExclusiveWire, SessionSound,
     ConnectInProgress, CommandOnSession
<1>6. (NoTransportLeak /\ BackoffHonoured)'
  BY <1>2 DEF DialFail, IInv, TypeOK, ExclusiveWire, NoTransportLeak, BackoffHonoured
<1> QED
  BY <1>3, <1>5, <1>6 DEF IInv

LEMMA HelloFailInv ==
  ASSUME IInv, NEW k \in Task, HelloFail(k)
  PROVE  IInv'
<1>1. /\ attempt' \in [Task -> 0..(MaxRedirects - 1)] /\ rc' \in [Task -> Codes]
      /\ failures' \in 0..MaxFailures /\ due' \in BOOLEAN
      /\ \/ pc' = [pc EXCEPT ![k] = "rebuild"] /\ UNCHANGED <<failures, due>>
         \/ pc' = [pc EXCEPT ![k] = "unlock"]
  BY AttemptOver DEF HelloFail, IInv, TypeOK, Codes
<1>2. /\ heap' \in [Address -> Transport]
      /\ \A x \in Address : heap'[x].state # "free" <=> x = t
  BY ClosedHeap DEF HelloFail, IInv
<1>3. TypeOK' /\ ExclusiveWire'
  BY <1>1, <1>2, ServerAssumption DEF HelloFail, IInv, TypeOK, ExclusiveWire
<1>4. ~connected'
  BY DEF HelloFail, IInv, ConnectInProgress
<1>5. (SessionSound /\ ConnectInProgress /\ CommandOnSession)'
  BY <1>1, <1>4 DEF HelloFail, IInv, TypeOK, ExclusiveWire, SessionSound,
     ConnectInProgress, CommandOnSession
<1>6. (NoTransportLeak /\ BackoffHonoured)'
  BY <1>1, <1>2 DEF HelloFail, IInv, TypeOK, ExclusiveWire, NoTransportLeak,
     BackoffHonoured
<1> QED
  BY <1>3, <1>5, <1>6 DEF IInv

LEMMA HelloRedirectInv ==
  ASSUME IInv, NEW k \in Task, HelloRedirect(k)
  PROVE  IInv'
<1>1. /\ attempt' \in [Task -> 0..(MaxRedirects - 1)] /\ rc' \in [Task -> Codes]
      /\ failures' \in 0..MaxFailures /\ due' \in BOOLEAN
      /\ \/ pc' = [pc EXCEPT ![k] = "rebuild"] /\ UNCHANGED <<failures, due>>
         \/ pc' = [pc EXCEPT ![k] = "unlock"]
  BY AttemptOver DEF HelloRedirect, IInv, TypeOK, Codes
<1>2. /\ heap' \in [Address -> Transport]
      /\ \A x \in Address : heap'[x].state # "free" <=> x = t
  BY ClosedHeap DEF HelloRedirect, IInv
<1>3. TypeOK' /\ ExclusiveWire'
  BY <1>1, <1>2, ServerAssumption DEF HelloRedirect, IInv, TypeOK, ExclusiveWire
<1>4. ~connected'
  BY DEF HelloRedirect, IInv, ConnectInProgress
<1>5. (SessionSound /\ ConnectInProgress /\ CommandOnSession)'
  BY <1>1, <1>4 DEF HelloRedirect, IInv, TypeOK, ExclusiveWire, SessionSound,
     ConnectInProgress, CommandOnSession
<1>6. (NoTransportLeak /\ BackoffHonoured)'
  BY <1>1, <1>2 DEF HelloRedirect, IInv, TypeOK, ExclusiveWire, NoTransportLeak,
     BackoffHonoured
<1> QED
  BY <1>3, <1>5, <1>6 DEF IInv

(* Where connect_locked succeeds, the session it leaves is sound. *)
LEMMA ReadyInv ==
  ASSUME IInv, NEW k \in Task, pc[k] \in {"hello", "auth"}, heap[t].state = "linked",
         Ready(k), UNCHANGED <<mutex, target, t, due, cursor, op, envVars>>
  PROVE  IInv'
<1>1. /\ t \in Address /\ Open(t) /\ heap[t].peer = target /\ op[k] \notin CursorOps
      /\ target \in Server /\ mutex = k
  BY DEF IInv, TypeOK, ConnectInProgress, ExclusiveWire
<1>2. /\ heap' \in [Address -> Transport]
      /\ heap'[t].ready /\ heap'[t].peer = target
      /\ \A x \in Address : heap'[x].state = heap[x].state
  BY <1>1 DEF Ready, IInv, TypeOK, Transport
<1>3. /\ pc' = [pc EXCEPT ![k] = pc'[k]] /\ pc'[k] \in {"io", "unlock"}
      /\ \A j \in Task \ {k} : pc'[j] = pc[j] /\ pc[j] \notin HeldPcs
  BY <1>1 DEF Ready, IInv, TypeOK, ExclusiveWire
<1>4. TypeOK'
  <2>1. failures' \in 0..MaxFailures /\ attempt' \in [Task -> 0..(MaxRedirects - 1)]
    BY BoundAssumption DEF Ready, IInv, TypeOK
  <2>2. pc' \in [Task -> Pcs] /\ rc' \in [Task -> Codes]
    BY <1>3 DEF Ready, IInv, TypeOK, Codes
  <2> QED
    BY <1>1, <1>2, <2>1, <2>2 DEF Ready, IInv, TypeOK
<1>5. ExclusiveWire' /\ ConnectInProgress' /\ CommandOnSession' /\ BackoffHonoured'
  BY <1>1, <1>3 DEF Ready, IInv, TypeOK, ExclusiveWire, ConnectInProgress,
     CommandOnSession, BackoffHonoured
<1>6. SessionSound'
  BY <1>1, <1>2, ServerAssumption, AddressAssumption DEF Ready, SessionSound
<1>7. NoTransportLeak'
  BY <1>2 DEF IInv, NoTransportLeak
<1> QED
  BY <1>4, <1>5, <1>6, <1>7 DEF IInv

LEMMA HelloPrimaryInv ==
  ASSUME IInv, NEW k \in Task, HelloPrimary(k)
  PROVE  IInv'
<1>1. CASE credentials = "none"
  BY <1>1, ReadyInv DEF HelloPrimary
<1>2. CASE credentials = "refused"
  <2>1. /\ heap' \in [Address -> Transport]
        /\ \A x \in Address : heap'[x].state # "free" <=> x = t
    BY <1>2, ClosedHeap DEF HelloPrimary, IInv
  <2>2. TypeOK' /\ ExclusiveWire'
    BY <1>2, <2>1, BoundAssumption
    DEF HelloPrimary, IInv, TypeOK, ExclusiveWire, Codes
  <2>3. (SessionSound /\ ConnectInProgress /\ CommandOnSession)'
    BY <1>2 DEF HelloPrimary, IInv, TypeOK, ExclusiveWire, SessionSound,
       ConnectInProgress, CommandOnSession
  <2>4. (NoTransportLeak /\ BackoffHonoured)'
    BY <1>2, <2>1 DEF HelloPrimary, IInv, TypeOK, ExclusiveWire, NoTransportLeak,
       BackoffHonoured
  <2> QED
    BY <2>2, <2>3, <2>4 DEF IInv
<1>3. CASE credentials = "scram"
  BY <1>3 DEF HelloPrimary, IInv, TypeOK, ExclusiveWire, SessionSound,
     ConnectInProgress, CommandOnSession, NoTransportLeak, BackoffHonoured
<1> QED
  BY <1>1, <1>2, <1>3 DEF IInv, TypeOK

LEMMA AuthOkInv ==
  ASSUME IInv, NEW k \in Task, AuthOk(k)
  PROVE  IInv'
  BY ReadyInv DEF AuthOk

LEMMA AuthFailInv ==
  ASSUME IInv, NEW k \in Task, AuthFail(k)
  PROVE  IInv'
  BY BoundAssumption, Blocks
  DEF AuthFail, Closed, Codes,
      IInv, TypeOK, ExclusiveWire, SessionSound, ConnectInProgress,
      CommandOnSession, NoTransportLeak, BackoffHonoured

LEMMA ExchangeInv ==
  ASSUME IInv, NEW k \in Task, Exchange(k)
  PROVE  IInv'
<1>1. PICK code \in {"ok", "transport", "alloc", "other"}, live \in BOOLEAN :
        /\ NoteRc(code) /\ Return(k, code)
        /\ cursor' = [cursor EXCEPT ![k] =
             CASE op[k] = "find" /\ code = "ok" -> [t |-> t, live |-> live]
               [] op[k] = "getMore" /\ code \in {"ok", "other"} -> [@ EXCEPT !.live = live]
               [] op[k] = "killCursors" -> NoCursor
               [] OTHER -> @]
  BY ZenonT(30) DEF Exchange, Outcomes
<1>2. pc[k] = "io" /\ mutex = k
  BY DEF Exchange, IInv, ExclusiveWire
<1>3. /\ pc' = [pc EXCEPT ![k] = "unlock"]
      /\ \A j \in Task \ {k} : pc[j] \notin HeldPcs
  BY <1>1, <1>2 DEF IInv, ExclusiveWire
<1>4. /\ heap' \in [Address -> Transport]
      /\ \A x \in Address : heap'[x].state # "free" <=> x = t
      /\ (heap' = heap /\ connected' = connected) \/ connected' = FALSE
  BY <1>1, ClosedHeap DEF NoteRc, IInv, TypeOK, NoTransportLeak
<1>5. cursor' \in [Task -> [t : Address, live : BOOLEAN] \cup {NoCursor}]
  <2>1. op[k] = "find" => t \in Address
    BY <1>2 DEF IInv, TypeOK, CommandOnSession, SessionSound
  <2>2. op[k] = "getMore" => cursor[k] \in [t : Address, live : BOOLEAN]
    BY <1>2 DEF IInv, TypeOK, ConnectInProgress
  <2>3. op[k] = "getMore" =>
          [cursor[k] EXCEPT !.live = live] \in [t : Address, live : BOOLEAN]
    BY <2>2
  <2> QED
    BY <1>1, <2>1, <2>3 DEF IInv, TypeOK
<1>6. TypeOK'
  <2>1. attempt' \in [Task -> 0..(MaxRedirects - 1)] /\ rc' \in [Task -> Codes]
    BY <1>1, BoundAssumption DEF IInv, TypeOK, Codes
  <2> QED
    BY <1>3, <1>4, <1>5, <2>1 DEF Exchange, IInv, TypeOK
<1>7. ExclusiveWire' /\ CommandOnSession' /\ BackoffHonoured'
  BY <1>2, <1>3 DEF Exchange, IInv, TypeOK, ExclusiveWire, CommandOnSession,
     BackoffHonoured
<1>8. ConnectInProgress'
  BY <1>1, <1>2, <1>3 DEF Exchange, IInv, TypeOK, ConnectInProgress
<1>9. SessionSound' /\ NoTransportLeak'
  BY <1>4 DEF Exchange, IInv, SessionSound, NoTransportLeak
<1> QED
  BY <1>6, <1>7, <1>8, <1>9 DEF IInv

LEMMA UnlockInv ==
  ASSUME IInv, NEW k \in Task, Unlock(k)
  PROVE  IInv'
  BY TaskAssumption
  DEF Unlock, Codes, Ops,
      IInv, TypeOK, ExclusiveWire, SessionSound, ConnectInProgress,
      CommandOnSession, NoTransportLeak, BackoffHonoured

LEMMA TickInv ==
  ASSUME IInv, TickElapses
  PROVE  IInv'
  BY DEF TickElapses,
      IInv, TypeOK, ExclusiveWire, SessionSound, ConnectInProgress,
      CommandOnSession, NoTransportLeak, BackoffHonoured

LEMMA DisturbanceInv ==
  ASSUME IInv, Disturbance
  PROVE  IInv'
  BY DEF Disturbance, ServerCrashes, ServerRestarts, Election, LinkBreaks, Break, Transport,
      IInv, TypeOK, ExclusiveWire, SessionSound, ConnectInProgress,
      CommandOnSession, NoTransportLeak, BackoffHonoured

LEMMA CalmInv ==
  ASSUME IInv, CalmBegins
  PROVE  IInv'
  BY DEF CalmBegins,
      IInv, TypeOK, ExclusiveWire, SessionSound, ConnectInProgress,
      CommandOnSession, NoTransportLeak, BackoffHonoured

(***************************************************************************)
(* The invariant.                                                          *)
(***************************************************************************)
LEMMA StepIInv == IInv /\ [Next]_vars => IInv'
<1> SUFFICES ASSUME IInv, [Next]_vars PROVE IInv'
  OBVIOUS
<1>1. ASSUME NEW k \in Task, TaskStep(k) PROVE IInv'
  <2>1. CASE \E o \in Ops : Call(k, o)
    BY <2>1, CallInv
  <2>2. CASE DropCursor(k)
    BY <2>2, DropCursorInv
  <2>3. CASE Acquire(k)
    BY <2>3, AcquireInv
  <2>4. CASE Connecting(k)
    BY <2>4, BackoffInv, RebuildInv, DialOkInv, DialFailInv, HelloFailInv,
       HelloRedirectInv, HelloPrimaryInv, AuthOkInv, AuthFailInv DEF Connecting
  <2>5. CASE Exchange(k)
    BY <2>5, ExchangeInv
  <2>6. CASE Unlock(k)
    BY <2>6, UnlockInv
  <2> QED
    BY <1>1, <2>1, <2>2, <2>3, <2>4, <2>5, <2>6 DEF TaskStep, Inside
<1>2. CASE TickElapses
  BY <1>2, TickInv
<1>3. CASE Disturbance
  BY <1>3, DisturbanceInv
<1>4. CASE CalmBegins
  BY <1>4, CalmInv
<1>5. CASE UNCHANGED vars
  BY <1>5 DEF vars, IInv, TypeOK, ExclusiveWire, SessionSound, ConnectInProgress,
     CommandOnSession, NoTransportLeak, BackoffHonoured
<1> QED
  BY <1>1, <1>2, <1>3, <1>4, <1>5 DEF Next

(* The inductive invariant holds in every reachable state of MongoClient.  *)
THEOREM Invariance == Spec => []IInv
  BY InitIInv, StepIInv, PTL DEF Spec

(* The structs, frames and environment keep their types: in particular a   *)
(* find never stores a null transport in its cursor.                       *)
THEOREM TypeCorrect == Spec => []TypeOK
<1>1. IInv => TypeOK
  BY DEF IInv
<1> QED
  BY <1>1, Invariance, PTL

(* However many tasks share a client, the one between xSemaphoreTake and   *)
(* xSemaphoreGive is alone there (CLIENT_DO, mongo_client_find, cursors).  *)
THEOREM WireIsExclusive == Spec => []ExclusiveWire
<1>1. IInv => ExclusiveWire
  BY DEF IInv
<1> QED
  BY <1>1, Invariance, PTL

(* c->connected is never stale about c->t: the connection it promises      *)
(* exists, was vetted by hello and SCRAM, and is the cached primary's.     *)
THEOREM SessionIsSound == Spec => []SessionSound
<1>1. IInv => SessionSound
  BY DEF IInv
<1> QED
  BY <1>1, Invariance, PTL

(* While a task is inside connect_locked nobody else can move c->t, and    *)
(* hello and SCRAM run against the server the task believes to talk to; no *)
(* insert, update, delete, command or find leaves on anything but the      *)
(* session.                                                                *)
THEOREM CallsKeepTheirPlace == Spec => []CallsInPlace
<1>1. IInv => CallsInPlace
  BY DEF IInv, CallsInPlace
<1> QED
  BY <1>1, Invariance, PTL

(* rebuild_transport and every error path keep at most one transport, the  *)
(* one c->t points to.                                                     *)
THEOREM TransportsDoNotLeak == Spec => []NoTransportLeak
<1>1. IInv => NoTransportLeak
  BY DEF IInv
<1> QED
  BY <1>1, Invariance, PTL

(* No task dials while next_attempt_tick of the last failed call lies      *)
(* ahead.                                                                  *)
THEOREM BackoffIsHonoured == Spec => []BackoffHonoured
<1>1. IInv => BackoffHonoured
  BY DEF IInv
<1> QED
  BY <1>1, Invariance, PTL

(***************************************************************************)
(* The client implements ClientSession.                                    *)
(***************************************************************************)
session == IF connected THEN heap[t].peer ELSE NoServer

(* Steps that change neither the owner nor the session. *)
LEMMA QuietSteps ==
  ASSUME IInv, NEW k \in Task,
         \/ \E o \in Ops : Call(k, o)
         \/ DropCursor(k) \/ Backoff(k) \/ Rebuild(k) \/ DialOk(k) \/ DialFail(k)
         \/ HelloFail(k) \/ HelloRedirect(k) \/ AuthFail(k)
  PROVE  mutex' = mutex /\ session' = session
<1>1. CASE (\E o \in Ops : Call(k, o)) \/ DropCursor(k)
  BY <1>1 DEF Call, DropCursor, session
<1>2. CASE Backoff(k) \/ Rebuild(k) \/ DialOk(k) \/ DialFail(k) \/ HelloFail(k)
           \/ HelloRedirect(k) \/ AuthFail(k)
  <2>1. ~connected
    BY <1>2 DEF IInv, ConnectInProgress, Backoff, Rebuild, DialOk, DialFail,
       HelloFail, HelloRedirect, AuthFail
  <2>2. mutex' = mutex /\ connected' = connected
    BY <1>2 DEF Backoff, Rebuild, DialOk, DialFail, HelloFail, HelloRedirect, AuthFail
  <2> QED
    BY <2>1, <2>2 DEF session
<1> QED
  BY <1>1, <1>2

(* The environment breaks connections; the session lasts until the client  *)
(* notices.                                                                *)
LEMMA EnvironmentIsQuiet ==
  ASSUME IInv, TickElapses \/ Disturbance \/ CalmBegins
  PROVE  mutex' = mutex /\ session' = session
<1>1. mutex' = mutex /\ connected' = connected /\ t' = t
  BY DEF TickElapses, Disturbance, CalmBegins, ServerCrashes, ServerRestarts,
     Election, LinkBreaks
<1>2. \A x \in Address : heap'[x].peer = heap[x].peer
  BY DEF TickElapses, Disturbance, CalmBegins, ServerCrashes, ServerRestarts,
     Election, LinkBreaks, Break, IInv, TypeOK, Transport
<1>3. connected => t \in Address
  BY DEF IInv, TypeOK, SessionSound
<1> QED
  BY <1>1, <1>2, <1>3 DEF session

LEMMA ReadyOpens ==
  ASSUME IInv, NEW k \in Task, pc[k] \in {"hello", "auth"}, Ready(k),
         UNCHANGED <<mutex, target, t>>
  PROVE  Session!Open(k)
<1>1. /\ mutex = k /\ ~connected /\ t \in Address
      /\ heap[t].peer = target /\ target \in Server
  BY DEF IInv, TypeOK, ExclusiveWire, ConnectInProgress
<1>2. connected' /\ heap'[t'].peer = target
  BY <1>1 DEF Ready, IInv, TypeOK, Transport
<1> QED
  BY <1>1, <1>2 DEF Session!Open

LEMMA ExchangeDrops ==
  ASSUME IInv, NEW k \in Task, Exchange(k)
  PROVE  Session!Drop(k) \/ (mutex' = mutex /\ session' = session)
<1>1. mutex = k /\ mutex' = mutex /\ t' = t
  BY DEF Exchange, IInv, ExclusiveWire
<1>2. PICK code \in {"ok", "transport", "alloc", "other"} : NoteRc(code)
  BY DEF Exchange, Outcomes
<1>3. CASE connected' = connected /\ heap' = heap
  BY <1>1, <1>3 DEF session
<1>4. CASE connected' = FALSE
  <2>1. connected => heap[t].peer \in Server
    BY DEF IInv, TypeOK, SessionSound
  <2> QED
    BY <1>1, <1>4, <2>1 DEF Session!Drop, session
<1> QED
  BY <1>2, <1>3, <1>4 DEF NoteRc

LEMMA SessionStep == IInv /\ [Next]_vars => [Session!Next]_(Session!vars)
<1> SUFFICES ASSUME IInv, [Next]_vars
             PROVE  [Session!Next]_(Session!vars)
  OBVIOUS
<1>1. ASSUME mutex' = mutex, session' = session
      PROVE  UNCHANGED Session!vars
  BY <1>1 DEF Session!vars, session
<1>2. ASSUME NEW k \in Task, TaskStep(k)
      PROVE  Session!Next \/ UNCHANGED Session!vars
  <2>1. CASE Acquire(k)
    BY <2>1 DEF Acquire, Take, Session!Enter, Session!Next
  <2>2. CASE HelloPrimary(k)
    <3>1. CASE credentials = "none"
      <4>1. Session!Open(k)
        BY <2>2, <3>1, ReadyOpens DEF HelloPrimary
      <4> QED
        BY <4>1 DEF Session!Next
    <3>2. CASE credentials # "none"
      <4>1. mutex' = mutex /\ connected' = connected /\ ~connected
        BY <2>2, <3>2 DEF HelloPrimary, IInv, TypeOK, ConnectInProgress
      <4> QED
        BY <4>1, <1>1 DEF session
    <3> QED
      BY <3>1, <3>2
  <2>3. CASE AuthOk(k)
    <3>1. Session!Open(k)
      BY <2>3, ReadyOpens DEF AuthOk
    <3> QED
      BY <3>1 DEF Session!Next
  <2>4. CASE Exchange(k)
    BY <2>4, <1>1, ExchangeDrops DEF Session!Next
  <2>5. CASE Unlock(k)
    <3>1. Session!Leave(k)
      BY <2>5 DEF Unlock, Session!Leave, IInv, ExclusiveWire
    <3> QED
      BY <3>1 DEF Session!Next
  <2>6. CASE \/ \E o \in Ops : Call(k, o)
             \/ DropCursor(k) \/ Backoff(k) \/ Rebuild(k) \/ DialOk(k) \/ DialFail(k)
             \/ HelloFail(k) \/ HelloRedirect(k) \/ AuthFail(k)
    <3>1. mutex' = mutex /\ session' = session
      BY <2>6, QuietSteps
    <3> QED
      BY <3>1, <1>1
  <2> QED
    BY <1>2, <2>1, <2>2, <2>3, <2>4, <2>5, <2>6 DEF TaskStep, Inside, Connecting
<1>3. CASE TickElapses \/ Disturbance \/ CalmBegins
  <2>1. mutex' = mutex /\ session' = session
    BY <1>3, EnvironmentIsQuiet
  <2> QED
    BY <2>1, <1>1
<1>4. CASE UNCHANGED vars
  BY <1>4, <1>1 DEF vars, session
<1> QED
  BY <1>2, <1>3, <1>4 DEF Next

(* The shared client is an exclusive session: whatever the servers, the    *)
(* tasks and their stale cursors do, only the task inside the mutex opens  *)
(* or drops the session, and it never moves from server to server.         *)
THEOREM ImplementsSession == Spec => SessionSpec
<1>1. Init => Session!Init
  BY DEF Init, Session!Init
<1> QED
  BY <1>1, SessionStep, Invariance, PTL DEF Spec, SessionSpec, Session!Spec
=============================================================================
