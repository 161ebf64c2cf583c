-------------------------------- MODULE Ticks --------------------------------
(***************************************************************************)
(* Waiting by a tick counter that wraps: the client's backoff              *)
(* (mongo_client.c), which compares by the sign of a difference, and the   *)
(* deadlines of send and recv_exact (mongo_transport.c), which compare the *)
(* ticks themselves.  MongoClient and MongoTransport leave the numbers out.*)
(***************************************************************************)
EXTENDS Integers

CONSTANTS TickRange,  \* 2^32: TickType_t counts modulo this
          Poll,       \* ticks between two looks at a full send buffer
          MaxDelay,   \* 60 s, where a second is one tick
          Timeout,    \* timeout_ms of a call
          MaxTicks,   \* bound: how long the system runs
          MaxFailures \* bound

TickAssumption == /\ TickRange \in Nat /\ TickRange % 2 = 0
                  /\ MaxDelay \in 1..(TickRange \div 2 - 1)
                  /\ Poll \in Nat \ {0} /\ Timeout \in Nat /\ Timeout < TickRange
ASSUME TickAssumption

VARIABLES
  ticks,       \* since boot; the code sees them modulo TickRange
  failures,    \* consecutive_failures
  nextAttempt, \* next_attempt_tick
  due,         \* what next_attempt_tick stands for
  slept,       \* the last backoff: when it began, what was due then, how long it was
  waiting,     \* "no", or the call that waits: "send" or "recv"
  deadline,    \* its deadline
  began,       \* when it began
  ended        \* how the last one ended: "none", "ok" or "timeout"

backoffVars == <<failures, nextAttempt, due, slept>>
callVars == <<waiting, deadline, began, ended>>
tickVars == <<ticks, backoffVars, callVars>>

TickCount == ticks % TickRange
Wrapped(n) == n % TickRange
Signed(n) == IF Wrapped(n) < TickRange \div 2 THEN Wrapped(n) ELSE Wrapped(n) - TickRange

NoSleep == [at |-> 0, due |-> 0, for |-> 0]
TickInit ==
  /\ ticks = 0 /\ failures = 0 /\ nextAttempt = 0 /\ due = 0
  /\ slept = NoSleep /\ waiting = "no" /\ deadline = 0 /\ began = 0 /\ ended = "none"

Elapse(n) == ticks + n <= MaxTicks /\ ticks' = ticks + n
-----------------------------------------------------------------------------
(* backoff_delay_ms: 1, 2, 4, ... seconds, at most a minute. *)
BackoffDelay(n) ==
  LET ms == 2^(IF n > 7 THEN 6 ELSE n - 1)
  IN IF n = 0 THEN 0 ELSE IF ms > MaxDelay THEN MaxDelay ELSE ms

(* connect_locked's wait. *)
BackoffWaitUnsigned ==    \* mutant: the ticks are compared, not their difference
  IF failures > 0 /\ nextAttempt > TickCount THEN nextAttempt - TickCount ELSE 0
BackoffWait ==
  IF failures > 0 /\ Signed(nextAttempt - TickCount) > 0
  THEN Wrapped(nextAttempt - TickCount) ELSE 0

(* A connect, of no ticks but its backoff, and how it ends. *)
Backoff == /\ waiting = "no" /\ Elapse(BackoffWait)
           /\ slept' = [at |-> ticks, due |-> due, for |-> BackoffWait]
           /\ UNCHANGED waiting /\ deadline' = 0 /\ began' = 0 /\ ended' = "none"
ConnectFails ==
  /\ failures < MaxFailures /\ Backoff
  /\ failures' = failures + 1
  /\ due' = ticks' + BackoffDelay(failures') /\ nextAttempt' = Wrapped(due')
ConnectSucceeds ==
  /\ failures > 0 /\ Backoff
  /\ failures' = 0 /\ UNCHANGED <<nextAttempt, due>>

(* Nobody calls for a while. *)
Idle == waiting = "no" /\ Elapse(1) /\ UNCHANGED <<backoffVars, callVars>>
-----------------------------------------------------------------------------
Begin(call) ==
  /\ waiting = "no" /\ waiting' = call /\ slept' = NoSleep
  /\ deadline' = Wrapped(TickCount + Timeout) /\ began' = ticks /\ ended' = "none"
  /\ UNCHANGED <<ticks, failures, nextAttempt, due>>

EndCall(how) == waiting' = "no" /\ ended' = how /\ UNCHANGED <<deadline, began, backoffVars>>
Expired == TickCount >= deadline
RestartedDeadline == Wrapped(TickCount + Timeout)  \* mutant: every turn has a timeout of its own
KeptDeadline == deadline

(* The send buffer is full: look at the deadline, and again a little later.*)
SendPoll ==
  /\ waiting = "send"
  /\ \/ Expired /\ EndCall("timeout") /\ UNCHANGED ticks
     \/ /\ ~Expired /\ Elapse(Poll) /\ deadline' = KeptDeadline
        /\ UNCHANGED <<waiting, began, ended, backoffVars>>

(* Too few bytes yet: wait for the semaphore until the deadline, or for a  *)
(* part of that if it is given.                                            *)
RecvWait ==
  /\ waiting = "recv"
  /\ \/ Expired /\ EndCall("timeout") /\ UNCHANGED ticks
     \/ ~Expired /\ Elapse(deadline - TickCount) /\ EndCall("timeout")
     \/ /\ ~Expired /\ \E n \in 0..(deadline - TickCount - 1) : Elapse(n)
        /\ deadline' = KeptDeadline
        /\ UNCHANGED <<waiting, began, ended, backoffVars>>

(* All bytes are sent, or have come. *)
Finish == waiting # "no" /\ EndCall("ok") /\ UNCHANGED ticks

TickNext == ConnectFails \/ ConnectSucceeds \/ Idle \/ Begin("send") \/ Begin("recv")
            \/ SendPoll \/ RecvWait \/ Finish
-----------------------------------------------------------------------------
(* The backoff lasts exactly until it is due, also when the counter wraps  *)
(* in between, as long as the client has not been idle for half the        *)
(* counter's range; never is it longer than that half.                     *)
BackoffExact ==
  /\ slept.for < TickRange \div 2
  /\ slept.at < slept.due + TickRange \div 2 =>
       slept.for = IF slept.due > slept.at THEN slept.due - slept.at ELSE 0

(* A call that the counter's wrap does not interrupt gives up neither      *)
(* before its timeout nor later than one poll after it.                    *)
Undisturbed == (began + Timeout + Poll) \div TickRange = began \div TickRange
DeadlineMet ==
  Undisturbed =>
    /\ waiting # "no" => ticks <= began + Timeout + Poll
    /\ ended = "timeout" => ticks >= began + Timeout
WaitsExact == BackoffExact /\ DeadlineMet
=============================================================================
