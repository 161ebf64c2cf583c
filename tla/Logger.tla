------------------------------- MODULE Logger -------------------------------
(***************************************************************************)
(* logging.c: tasks and interrupt handlers put lines into a bounded        *)
(* FreeRTOS queue without ever waiting; the reader task takes them out,    *)
(* stamps them and hands them to the application's hook.                   *)
(*                                                                         *)
(* A stamp is the 32-bit uptime, which starts again after UptimeWrap       *)
(* milliseconds.  The order of the calls and the whole time since boot are *)
(* ghosts beside it, which the code does not have.                         *)
(***************************************************************************)
EXTENDS Naturals, Sequences, SequencesExt

CONSTANTS Callers,          \* tasks and interrupt handlers that log
          LogQueueLength,   \* LOGGING_QUEUE_LENGTH
          LogLevels,        \* FATAL = 0 up to VERBOSE = 5
          ConfiguredLevel,  \* configured_logging_level
          UptimeWrap,       \* 2^32: to_ms_since_boot counts modulo this
          MaxCalls,         \* bound: calls of each caller
          MaxPassed         \* bound: how long the system runs

LoggerAssumption == LogQueueLength \in Nat \ {0} /\ LogLevels \subseteq 0..5
                    /\ 0 \in LogLevels /\ ConfiguredLevel \in Nat /\ MaxCalls \in Nat
                    /\ UptimeWrap \in Nat \ {0} /\ MaxPassed \in Nat
ASSUME LoggerAssumption

VARIABLES
  logReady,   \* logging_queue_exists
  calling,    \* each caller's line between the check and the queue, if any
  calls,      \* how often each caller has called
  called,     \* ghost: how often anybody has
  logQueue,   \* the queue
  inHand,     \* what the reader has received and not yet printed
  printed,    \* the hook's calls: lines and stamps; ghost: when
  passed,     \* milliseconds since boot
  panicked    \* the allocation hook has stopped the system

logVars == <<logReady, calling, calls, called, logQueue, inHand, printed, passed, panicked>>

Stamp(t) == t % UptimeWrap      \* to_ms_since_boot at time t
Wraps(t) == t \div UptimeWrap   \* how often it had wrapped by then

LogInit ==
  /\ logReady = FALSE /\ calling = [c \in Callers |-> <<>>]
  /\ calls = [c \in Callers |-> 0] /\ called = 0 /\ logQueue = <<>> /\ inHand = <<>>
  /\ printed = <<>> /\ passed = 0 /\ panicked = FALSE

(* logger_init *)
LogStart == ~logReady /\ logReady' = TRUE
            /\ UNCHANGED <<calling, calls, called, logQueue, inHand, printed, passed, panicked>>

LogTick == passed < MaxPassed /\ passed' = passed + 1
           /\ UNCHANGED <<logReady, calling, calls, called, logQueue, inHand, printed, panicked>>

(* log_internal up to createMessageObject: the level, and whether there is *)
(* a queue.                                                                *)
Wanted(level) == ConfiguredLevel >= level /\ logReady
LogCall(c) ==
  /\ calling[c] = <<>> /\ calls[c] < MaxCalls
  /\ calls' = [calls EXCEPT ![c] = @ + 1] /\ called' = called + 1
  /\ \E level \in LogLevels :
       calling' = [calling EXCEPT ![c] =
         IF Wanted(level) THEN <<[by |-> c, nr |-> calls'[c], level |-> level,
                                  since |-> passed, at |-> called', sent |-> 0]>>
         ELSE <<>>]
  /\ UNCHANGED <<logReady, logQueue, inHand, printed, passed, panicked>>

(* xQueueSendToBack without a wait, in a task's or an interrupt's form. *)
EnqueuedInFront(line) == IF Len(logQueue) < LogQueueLength THEN <<line>> \o logQueue
                         ELSE logQueue  \* mutant: xQueueSendToFront
Enqueued(line) == IF Len(logQueue) < LogQueueLength THEN Append(logQueue, line)
                  ELSE logQueue
LogSend(c) ==
  /\ calling[c] # <<>>
  /\ calling' = [calling EXCEPT ![c] = <<>>]
  /\ logQueue' = Enqueued([calling[c][1] EXCEPT !.sent = called])
  /\ UNCHANGED <<logReady, calls, called, inHand, printed, passed, panicked>>

(* log_queue_reader_task: receive, then the time and the heap.  pvPortMalloc*)
(* that finds no memory calls vApplicationMallocFailedHook, which panics:  *)
(* the branch that would drop the line is never taken.                     *)
LogReceive ==
  /\ logReady /\ inHand = <<>> /\ logQueue # <<>>
  /\ inHand' = <<Head(logQueue)>> /\ logQueue' = Tail(logQueue)
  /\ UNCHANGED <<logReady, calling, calls, called, printed, passed, panicked>>
LogPrint ==
  /\ inHand # <<>> /\ inHand' = <<>>
  /\ \/ /\ printed' = Append(printed, [line |-> inHand[1], time |-> Stamp(passed),
                                      when |-> passed])
        /\ panicked' = panicked
     \/ panicked' = TRUE /\ printed' = printed
  /\ UNCHANGED <<logReady, calling, calls, called, logQueue, passed>>

LogNext ==
  /\ ~panicked
  /\ \/ LogTick \/ LogStart \/ LogReceive \/ LogPrint
     \/ \E c \in Callers : LogCall(c) \/ LogSend(c)
-----------------------------------------------------------------------------
(* The printed lines are linearizable: a line whose call had returned      *)
(* before another's began is printed before it, so that the lines of one   *)
(* caller keep their order.  The reader's stamps never run backwards, and  *)
(* no line's stamp is before the uptime at its call, with one exception:   *)
(* the 49.7-day wrap of the 32-bit uptime, if it came between the two.     *)
WrapBetween(a, b) == Wraps(a) < Wraps(b)
PrintedInOrder ==
  /\ \A i \in DOMAIN printed :
       \/ Stamp(printed[i].line.since) <= printed[i].time
       \/ WrapBetween(printed[i].line.since, printed[i].when)
  /\ \A i, j \in DOMAIN printed : i < j =>
       /\ printed[j].line.sent >= printed[i].line.at
       /\ printed[i].line.by = printed[j].line.by => printed[i].line.nr < printed[j].line.nr
       /\ \/ printed[i].time <= printed[j].time
          \/ WrapBetween(printed[i].when, printed[j].when)
=============================================================================
