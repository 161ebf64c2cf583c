----------------------------- MODULE MongoTime -----------------------------
(***************************************************************************)
(* mongo_time.c: the wall clock, kept as a 64-bit offset to the 32-bit     *)
(* uptime.  lwIP's SNTP thread sets it, tasks read it, and one task waits  *)
(* for the first fix.  A 64-bit variable is two words on this core: each   *)
(* word is read or written in a step of its own.                           *)
(*                                                                         *)
(* The unit of time is a second, the resolution of SNTP's replies; Wrap    *)
(* of them are the 2^32 ms after which the uptime starts again.            *)
(***************************************************************************)
EXTENDS Integers

CONSTANTS Readers,    \* tasks that ask for the time
          Wrap,       \* the range of the uptime
          Epoch,      \* the true time at boot
          Word,       \* the range of one half of the offset
          MaxClock    \* bound: how far time goes

TimeAssumption == /\ Wrap \in Nat \ {0} /\ Word \in Nat \ {0}
                  /\ Epoch \in Nat \ {0, 1} /\ MaxClock \in Nat
                  /\ "free" \notin Readers /\ "sntp" \notin Readers
ASSUME TimeAssumption

VARIABLES
  clock,      \* seconds since boot
  synced,     \* g_time_synced
  high, low,  \* g_boot_offset_ms
  fixedAt,    \* when the offset was computed
  critical,   \* who is inside taskENTER_CRITICAL
  sntp,       \* the callback: where it is, what it computed, and when
  syncSem,    \* g_sync_sem's count
  syncPc,     \* the task that calls mongo_time_sync
  reader,     \* each reader: where it is, the halves read and their fix
  told        \* the time each reader was given last, and when

offset == <<synced, high, low, fixedAt>>
timeVars == <<clock, offset, critical, sntp, syncSem, syncPc, reader, told>>

Uptime == clock % Wrap      \* to_ms_since_boot
Nothing == [time |-> 0, at |-> 0, fix |-> 0]

TimeInit ==
  /\ clock = 0 /\ synced = FALSE /\ high = 0 /\ low = 0 /\ fixedAt = 0
  /\ critical = "free" /\ sntp = [pc |-> "idle", offset |-> 0, at |-> 0]
  /\ syncSem = FALSE /\ syncPc = "new"
  /\ reader = [r \in Readers |-> [pc |-> "idle", high |-> 0, low |-> 0, fix |-> 0]]
  /\ told = [r \in Readers |-> Nothing]

Tick ==
  /\ clock < MaxClock /\ clock' = clock + 1
  /\ UNCHANGED <<offset, critical, sntp, syncSem, syncPc, reader, told>>
-----------------------------------------------------------------------------
(* mongo_time_sync: an earlier fix will do; else sntp_init and wait. *)
SyncStart ==
  /\ syncPc = "new"
  /\ syncPc' \in IF synced THEN {"ok"} ELSE {"wait", "failed"}
  /\ UNCHANGED <<clock, offset, critical, sntp, syncSem, reader, told>>
SyncWake ==
  /\ syncPc = "wait" /\ syncSem
  /\ syncSem' = FALSE /\ syncPc' = "ok"
  /\ UNCHANGED <<clock, offset, critical, sntp, reader, told>>
NoReply == "late"
SyncTimeout ==
  /\ syncPc = "wait" /\ ~syncSem
  /\ syncPc' = NoReply
  /\ UNCHANGED <<clock, offset, critical, sntp, syncSem, reader, told>>
-----------------------------------------------------------------------------
(* mongo_time_set_unix_seconds: SNTP polls for ever once it is started.    *)
(* The reply is the true second or the one before.  One outside the sane   *)
(* range is dropped, which is not a step.                                  *)
Reply ==
  /\ sntp.pc = "idle" /\ syncPc \in {"wait", "ok", "late"}
  /\ \E sec \in {Epoch + clock, Epoch + clock - 1} :
       sntp' = [pc |-> "enter", offset |-> sec - Uptime, at |-> clock]
  /\ UNCHANGED <<clock, offset, critical, syncSem, syncPc, reader, told>>

SntpEnter ==
  /\ sntp.pc = "enter" /\ critical = "free"
  /\ critical' = "sntp" /\ sntp' = [sntp EXCEPT !.pc = "high"]
  /\ UNCHANGED <<clock, offset, syncSem, syncPc, reader, told>>
SntpHigh ==
  /\ sntp.pc = "high"
  /\ high' = sntp.offset \div Word /\ sntp' = [sntp EXCEPT !.pc = "low"]
  /\ UNCHANGED <<clock, synced, low, fixedAt, critical, syncSem, syncPc, reader, told>>
SntpLow ==
  /\ sntp.pc = "low"
  /\ low' = sntp.offset % Word /\ fixedAt' = sntp.at /\ synced' = TRUE
  /\ critical' = "free" /\ sntp' = [sntp EXCEPT !.pc = "give"]
  /\ UNCHANGED <<clock, high, syncSem, syncPc, reader, told>>
SntpGive ==
  /\ sntp.pc = "give"
  /\ syncSem' = TRUE /\ sntp' = [sntp EXCEPT !.pc = "idle"]
  /\ UNCHANGED <<clock, offset, critical, syncPc, reader, told>>
-----------------------------------------------------------------------------
(* mongo_time_now_ms: the flag outside the critical section, both halves   *)
(* inside, the uptime afterwards.                                          *)
Now(r) ==
  /\ reader[r].pc = "idle"
  /\ IF synced THEN reader' = [reader EXCEPT ![r].pc = "enter"] /\ UNCHANGED told
               ELSE told' = [told EXCEPT ![r] = Nothing] /\ UNCHANGED reader
  /\ UNCHANGED <<clock, offset, critical, sntp, syncSem, syncPc>>

MayAlwaysEnter == TRUE  \* mutant: no critical section
MayEnter == critical = "free"
NowEnter(r) ==
  /\ reader[r].pc = "enter" /\ MayEnter
  /\ critical' = r
  /\ reader' = [reader EXCEPT ![r].pc = "low", ![r].high = high, ![r].fix = fixedAt]
  /\ UNCHANGED <<clock, offset, sntp, syncSem, syncPc, told>>
NowLow(r) ==
  /\ reader[r].pc = "low"
  /\ critical' = "free"
  /\ reader' = [reader EXCEPT ![r].pc = "add", ![r].low = low]
  /\ UNCHANGED <<clock, offset, sntp, syncSem, syncPc, told>>
NowAdd(r) ==
  /\ reader[r].pc = "add"
  /\ told' = [told EXCEPT ![r] = [time |-> reader[r].high * Word + reader[r].low + Uptime,
                                  at |-> clock, fix |-> reader[r].fix]]
  /\ reader' = [reader EXCEPT ![r].pc = "idle"]
  /\ UNCHANGED <<clock, offset, critical, sntp, syncSem, syncPc>>

SyncStep == SyncStart \/ SyncWake \/ SyncTimeout
SntpStep == Reply \/ SntpEnter \/ SntpHigh \/ SntpLow \/ SntpGive
NowStep(r) == Now(r) \/ NowEnter(r) \/ NowLow(r) \/ NowAdd(r)
-----------------------------------------------------------------------------
(* Whoever asks while SNTP moves the offset gets the true time, at most    *)
(* the second that SNTP rounds away behind, or the 0 that stands for no    *)
(* clock: never the halves of two offsets.  The one exception is the       *)
(* 49.7-day wrap of the uptime: from then to the next SNTP reply the clock *)
(* is a whole wrap behind.                                                 *)
ClockSane ==
  \A r \in Readers :
    LET t == told[r] IN
    t # Nothing =>
      \/ t.time \in {Epoch + t.at, Epoch + t.at - 1}
      \/ /\ t.at \div Wrap > t.fix \div Wrap
         /\ \E n \in 1..((t.at \div Wrap) - (t.fix \div Wrap)) :
              t.time + n * Wrap \in {Epoch + t.at, Epoch + t.at - 1}

(* mongo_time_sync returns 0 only when the clock can be read, although the *)
(* flag, the semaphore and the timeout are three separate things.          *)
SyncedMeansClock == syncPc = "ok" => synced

ClockSound == ClockSane /\ SyncedMeansClock
=============================================================================
