--------------------------- MODULE FirmwareProofs ---------------------------
(***************************************************************************)
(* What mongo_time.c and the firmware's tasks keep, for any number of      *)
(* readers and any sizes of word and wrap: a clock put together from two   *)
(* halves is one clock, and no document is dated by anything else.  What   *)
(* those who wait by the tick counter keep: each wait is as long as was    *)
(* meant, whenever the counter wraps.  And the order of the log, for any   *)
(* callers, queue length and levels: a line that is on its way (in the     *)
(* queue, or in the reader's hand) already stands in the order in which it *)
(* will be printed.                                                        *)
(***************************************************************************)
EXTENDS App, Ticks, Logger, TLAPS
-----------------------------------------------------------------------------
(***************************************************************************)
(* mongo_time.c, app.c and the waits.                                      *)
(***************************************************************************)
(* Anybody may read the clock at any time; App's tasks are a special case. *)
TimeNext == Tick \/ SyncStep \/ SntpStep \/ \E r \in Readers : NowStep(r)
TimeSpec == TimeInit /\ [][TimeNext]_timeVars

allVars == <<timeVars, appVars>>
AppSpec == AppInit /\ [][AppNext]_allVars

(* An offset computed by a reply at time f: the true second or the one     *)
(* before, less the uptime.                                                *)
Fix(o, f) == o \in {Epoch + f - (f % Wrap), Epoch + f - 1 - (f % Wrap)}
Stored == high * Word + low

TimeTypeOK ==
  /\ clock \in Nat /\ synced \in BOOLEAN /\ high \in Int /\ low \in Int /\ fixedAt \in Nat
  /\ sntp \in [pc : {"idle", "enter", "high", "low", "give"}, offset : Int, at : Nat]
  /\ syncSem \in BOOLEAN /\ syncPc \in {"new", "wait", "ok", "late", "failed"}
  /\ reader \in [Readers -> [pc : {"idle", "enter", "low", "add"},
                             high : Int, low : Int, fix : Nat]]
  /\ told \in [Readers -> [time : Int, at : Nat, fix : Nat]]

(* Whoever touches a half of the offset is inside the critical section.    *)
CriticalInv ==
  /\ critical \in Readers \union {"free", "sntp"}
  /\ critical = "sntp" <=> sntp.pc \in {"high", "low"}
  /\ \A r \in Readers : critical = r <=> reader[r].pc = "low"

(* The offset on its way, then the stored one, whole but between the two   *)
(* writes.                                                                 *)
OffsetInv ==
  /\ sntp.pc \in {"enter", "high", "low"} => Fix(sntp.offset, sntp.at) /\ sntp.at <= clock
  /\ sntp.pc = "low" => high = sntp.offset \div Word
  /\ synced /\ sntp.pc # "low" => Fix(Stored, fixedAt)
  /\ fixedAt <= clock

(* What a reader has read so far is of that offset; and what it was told   *)
(* was right at the time.                                                  *)
ReaderInv ==
  \A r \in Readers :
    /\ reader[r].pc # "idle" => synced
    /\ reader[r].pc = "low" => reader[r].high = high /\ reader[r].fix = fixedAt
    /\ reader[r].pc = "add" =>
         Fix(reader[r].high * Word + reader[r].low, reader[r].fix) /\ reader[r].fix <= clock
ToldRight(t) ==
  \/ t.time \in {Epoch + t.at, Epoch + t.at - 1}
  \/ /\ t.at \div Wrap > t.fix \div Wrap
     /\ \E n \in 1..((t.at \div Wrap) - (t.fix \div Wrap)) :
          t.time + n * Wrap \in {Epoch + t.at, Epoch + t.at - 1}
Dated(t) == t.time \in 1..(Epoch + t.at)
ToldInv == \A r \in Readers : told[r] # Nothing => ToldRight(told[r]) /\ Dated(told[r])

(* The flag is set before the semaphore is given. *)
SyncInv == /\ sntp.pc = "give" \/ syncSem => synced
           /\ SyncedMeansClock

TimeInv == TimeTypeOK /\ CriticalInv /\ OffsetInv /\ ReaderInv /\ ToldInv /\ SyncInv
-----------------------------------------------------------------------------
(* Euclid's division, in the form the halves and the wraps need.           *)
LEMMA Division ==
  ASSUME NEW a \in Int, NEW w \in Nat \ {0}
  PROVE  /\ a \div w \in Int /\ a % w \in 0..(w - 1)
         /\ a % w = a - w * (a \div w)
<1>1. a \div w \in Int OBVIOUS
<1>2. a % w \in 0..(w - 1) OBVIOUS
<1>3. a % w = a - w * (a \div w) BY Z3
<1> QED BY <1>1, <1>2, <1>3

LEMMA Halves ==
  ASSUME NEW a \in Int, NEW w \in Nat \ {0} PROVE (a \div w) * w + (a % w) = a
<1>1. (a \div w) * w = w * (a \div w) BY Division
<1> QED BY <1>1, Division

LEMMA DivMonotone ==
  ASSUME NEW a \in Nat, NEW b \in Nat, a <= b, NEW w \in Nat \ {0} PROVE a \div w <= b \div w
OBVIOUS

(* The uptime added to an offset: right, or whole wraps behind.            *)
LEMMA Added ==
  ASSUME NEW o \in Int, NEW f \in Nat, NEW c \in Nat, f <= c, Fix(o, f),
         NEW t, t = [time |-> o + (c % Wrap), at |-> c, fix |-> f]
  PROVE  ToldRight(t) /\ Dated(t)
<1> DEFINE n == (c \div Wrap) - (f \div Wrap)
<1>1. Wrap \in Nat \ {0} /\ Epoch \in Nat \ {0, 1} BY TimeAssumption DEF TimeAssumption
<1>2. /\ c \div Wrap \in Int /\ f \div Wrap \in Int
      /\ c % Wrap \in 0..(Wrap - 1) /\ f % Wrap \in 0..(Wrap - 1)
      /\ c % Wrap = c - Wrap * (c \div Wrap) /\ f % Wrap = f - Wrap * (f \div Wrap)
  <2>1. c \in Int /\ f \in Int OBVIOUS
  <2>2. /\ c \div Wrap \in Int /\ c % Wrap \in 0..(Wrap - 1)
        /\ c % Wrap = c - Wrap * (c \div Wrap)
    BY ONLY <1>1, <2>1, Division
  <2>3. /\ f \div Wrap \in Int /\ f % Wrap \in 0..(Wrap - 1)
        /\ f % Wrap = f - Wrap * (f \div Wrap)
    BY ONLY <1>1, <2>1, Division
  <2> QED BY <2>2, <2>3
<1>3. n \in Nat
  <2>1. f \div Wrap <= c \div Wrap BY <1>1, DivMonotone
  <2> QED BY <1>2, <2>1
<1>4. n * Wrap = Wrap * (c \div Wrap) - Wrap * (f \div Wrap) BY <1>1, <1>2
<1>5. n * Wrap \in Int /\ n * Wrap >= 0 BY <1>1, <1>3
<1> HIDE DEF n
<1>6. t.at = c /\ t.fix = f /\ t.time = o + (c % Wrap) OBVIOUS
<1>7. t.time + n * Wrap \in {Epoch + c, Epoch + c - 1}
  BY <1>1, <1>2, <1>4, <1>5, <1>6 DEF Fix
<1>8. ToldRight(t)
  <2>1. CASE n = 0
    <3>1. n * Wrap = 0 BY <1>1, <2>1
    <3> QED BY <1>1, <1>6, <1>7, <3>1 DEF ToldRight, Fix
  <2>2. CASE n # 0
    <3>1. n \in 1..((c \div Wrap) - (f \div Wrap)) /\ c \div Wrap > f \div Wrap
      BY <1>2, <1>3, <2>2 DEF n
    <3> QED BY <1>6, <1>7, <3>1 DEF ToldRight
  <2> QED BY <2>1, <2>2
<1>9. Dated(t)
  <2>1. t.time >= 1 /\ t.time \in Int
    <3>1. f - (f % Wrap) >= 0
      <4>1. f \div Wrap >= 0 BY <1>1
      <4>2. Wrap * (f \div Wrap) \in Nat BY <1>1, <1>2, <4>1
      <4> QED BY <1>2, <4>2
    <3> QED BY <1>1, <1>2, <1>6, <3>1 DEF Fix
  <2>2. t.time <= Epoch + c BY <1>1, <1>5, <1>7, <2>1
  <2> QED BY <1>1, <1>6, <2>1, <2>2 DEF Dated
<1> QED BY <1>8, <1>9
-----------------------------------------------------------------------------
LEMMA TimeInvInit == TimeInit => TimeInv
<1> SUFFICES ASSUME TimeInit PROVE TimeInv
  OBVIOUS
<1> USE TimeAssumption DEF TimeInit, TimeAssumption
<1>1. TimeTypeOK
  <2>1. reader \in [Readers -> [pc : {"idle", "enter", "low", "add"},
                               high : Int, low : Int, fix : Nat]]
    OBVIOUS
  <2>2. Nothing \in [time : Int, at : Nat, fix : Nat] BY DEF Nothing
  <2>3. told \in [Readers -> [time : Int, at : Nat, fix : Nat]] BY <2>2
  <2>4. sntp \in [pc : {"idle", "enter", "high", "low", "give"}, offset : Int, at : Nat]
    OBVIOUS
  <2> QED BY <2>1, <2>3, <2>4 DEF TimeTypeOK
<1>3. CriticalInv BY DEF CriticalInv
<1>2. OffsetInv /\ ReaderInv /\ ToldInv /\ SyncInv
  BY DEF OffsetInv, ReaderInv, ToldInv, SyncInv, SyncedMeansClock
<1> QED BY <1>1, <1>2, <1>3 DEF TimeInv

LEMMA TimeTypes == ASSUME TimeTypeOK, [TimeNext]_timeVars PROVE TimeTypeOK'
<1> USE TimeAssumption DEF TimeAssumption, TimeTypeOK
<1>1. CASE Tick BY <1>1 DEF Tick, offset
<1>2. CASE SyncStart BY <1>2 DEF SyncStart, offset
<1>3. CASE SyncWake \/ SyncTimeout BY <1>3 DEF SyncWake, SyncTimeout, NoReply, offset
<1>4. CASE Reply
  <2>1. PICK sec \in {Epoch + clock, Epoch + clock - 1} :
          sntp' = [pc |-> "enter", offset |-> sec - Uptime, at |-> clock]
    BY <1>4 DEF Reply
  <2>2. Uptime \in Int BY Division DEF Uptime
  <2> QED BY <1>4, <2>1, <2>2 DEF Reply, offset
<1>5. CASE SntpEnter \/ SntpGive BY <1>5 DEF SntpEnter, SntpGive, offset
<1>6. CASE SntpHigh
  <2>1. sntp.offset \div Word \in Int BY Division
  <2> QED BY <1>6, <2>1 DEF SntpHigh
<1>7. CASE SntpLow
  <2>1. sntp.offset % Word \in Int BY Division
  <2> QED BY <1>7, <2>1 DEF SntpLow
<1>8. ASSUME NEW r \in Readers, Now(r) PROVE TimeTypeOK'
  BY <1>8, SMTT(30) DEF Now, Nothing, offset
<1>9. ASSUME NEW r \in Readers, NowEnter(r) \/ NowLow(r) PROVE TimeTypeOK'
  <2>1. CASE NowEnter(r)
    <3> DEFINE R == [pc : {"idle", "enter", "low", "add"}, high : Int, low : Int, fix : Nat]
               s == [reader[r] EXCEPT !.pc = "low", !.high = high, !.fix = fixedAt]
    <3>1. s \in R OBVIOUS
    <3>2. reader' = [reader EXCEPT ![r] = s] BY <2>1 DEF NowEnter
    <3>3. reader' \in [Readers -> R] BY <3>1, <3>2
    <3> QED BY <2>1, <3>3 DEF NowEnter, offset
  <2>2. CASE NowLow(r) BY <2>2, ZenonT(30) DEF NowLow, offset
  <2> QED BY <1>9, <2>1, <2>2
<1>10. ASSUME NEW r \in Readers, NowAdd(r) PROVE TimeTypeOK'
  <2> DEFINE t == [time |-> reader[r].high * Word + reader[r].low + Uptime,
                   at |-> clock, fix |-> reader[r].fix]
  <2>1. Uptime \in Int BY Division DEF Uptime
  <2>2. reader[r].high * Word + reader[r].low + Uptime \in Int BY <2>1
  <2>3. t \in [time : Int, at : Nat, fix : Nat] BY <2>2
  <2>4. told' = [told EXCEPT ![r] = t] BY <1>10 DEF NowAdd
  <2> HIDE DEF t
  <2>5. told' \in [Readers -> [time : Int, at : Nat, fix : Nat]] BY <2>3, <2>4
  <2> QED BY <1>10, <2>5 DEF NowAdd, offset
<1>11. CASE UNCHANGED timeVars BY <1>11 DEF timeVars, offset
<1> QED
  BY <1>1, <1>2, <1>3, <1>4, <1>5, <1>6, <1>7, <1>8, <1>9, <1>10, <1>11
  DEF TimeNext, SyncStep, SntpStep, NowStep

LEMMA CriticalStep ==
  ASSUME TimeTypeOK, CriticalInv, [TimeNext]_timeVars PROVE CriticalInv'
<1> USE TimeAssumption DEF TimeAssumption, TimeTypeOK, CriticalInv
<1>1. CASE Tick \/ SyncStep BY <1>1 DEF Tick, SyncStep, SyncStart, SyncWake, SyncTimeout
<1>2. CASE Reply BY <1>2 DEF Reply
<1>3. CASE SntpEnter BY <1>3 DEF SntpEnter
<1>4. CASE SntpHigh BY <1>4 DEF SntpHigh
<1>5. CASE SntpLow BY <1>5 DEF SntpLow
<1>6. CASE SntpGive BY <1>6 DEF SntpGive
<1>7. ASSUME NEW r \in Readers, Now(r) PROVE CriticalInv' BY <1>7 DEF Now
<1>8. ASSUME NEW r \in Readers, NowEnter(r) PROVE CriticalInv' BY <1>8 DEF NowEnter, MayEnter
<1>9. ASSUME NEW r \in Readers, NowLow(r) PROVE CriticalInv' BY <1>9 DEF NowLow
<1>10. ASSUME NEW r \in Readers, NowAdd(r) PROVE CriticalInv' BY <1>10 DEF NowAdd
<1>11. CASE UNCHANGED timeVars BY <1>11 DEF timeVars
<1> QED
  BY <1>1, <1>2, <1>3, <1>4, <1>5, <1>6, <1>7, <1>8, <1>9, <1>10, <1>11
  DEF TimeNext, SntpStep, NowStep

(* Only SNTP writes the offset, and it writes the halves of one.           *)
LEMMA OffsetStep ==
  ASSUME TimeTypeOK, CriticalInv, OffsetInv, [TimeNext]_timeVars PROVE OffsetInv'
<1> USE TimeAssumption DEF TimeAssumption, TimeTypeOK, OffsetInv, Stored, Fix
<1>1. CASE Tick BY <1>1 DEF Tick, offset
<1>2. CASE SyncStep BY <1>2 DEF SyncStep, SyncStart, SyncWake, SyncTimeout, offset
<1>3. CASE Reply BY <1>3 DEF Reply, offset, Uptime
<1>4. CASE SntpEnter BY <1>4 DEF SntpEnter, offset
<1>5. CASE SntpHigh BY <1>5 DEF SntpHigh
<1>6. CASE SntpLow
  <2>1. high' * Word + low' = sntp.offset BY <1>6, Halves DEF SntpLow
  <2> QED BY <1>6, <2>1 DEF SntpLow
<1>7. CASE SntpGive BY <1>7 DEF SntpGive, offset
<1>8. ASSUME NEW r \in Readers, NowStep(r) PROVE OffsetInv'
  BY <1>8 DEF NowStep, Now, NowEnter, NowLow, NowAdd, offset
<1>9. CASE UNCHANGED timeVars BY <1>9 DEF timeVars, offset
<1> QED
  BY <1>1, <1>2, <1>3, <1>4, <1>5, <1>6, <1>7, <1>8, <1>9 DEF TimeNext, SntpStep

(* While a reader has read one half, the other does not change.            *)
LEMMA ReaderStep ==
  ASSUME TimeTypeOK, CriticalInv, OffsetInv, ReaderInv, [TimeNext]_timeVars
  PROVE  ReaderInv'
<1> USE TimeAssumption DEF TimeAssumption, TimeTypeOK, ReaderInv
<1>1. CASE Tick BY <1>1 DEF Tick, offset, Fix
<1>2. CASE SyncStep BY <1>2 DEF SyncStep, SyncStart, SyncWake, SyncTimeout, offset, Fix
<1>3. CASE Reply \/ SntpEnter \/ SntpGive
  BY <1>3 DEF Reply, SntpEnter, SntpGive, offset, Fix
<1>4. CASE SntpHigh BY <1>4 DEF SntpHigh, CriticalInv, Fix
<1>5. CASE SntpLow BY <1>5 DEF SntpLow, CriticalInv, Fix
<1>6. ASSUME NEW r \in Readers, Now(r) PROVE ReaderInv'
  BY <1>6 DEF Now, offset, Fix
<1>7. ASSUME NEW r \in Readers, NowEnter(r) PROVE ReaderInv'
  BY <1>7 DEF NowEnter, offset, Fix
<1>8. ASSUME NEW r \in Readers, NowLow(r) PROVE ReaderInv'
  <2>1. Fix(reader[r].high * Word + low, reader[r].fix) /\ reader[r].fix <= clock
    BY <1>8 DEF NowLow, CriticalInv, OffsetInv, Stored
  <2>2. reader'[r].pc = "add" /\ Fix(reader'[r].high * Word + reader'[r].low, reader'[r].fix)
        /\ reader'[r].fix <= clock'
    BY <1>8, <2>1 DEF NowLow, Fix
  <2>3. \A q \in Readers \ {r} : reader'[q] = reader[q] BY <1>8 DEF NowLow
  <2> QED BY <1>8, <2>2, <2>3 DEF NowLow, offset, Fix
<1>9. ASSUME NEW r \in Readers, NowAdd(r) PROVE ReaderInv'
  BY <1>9 DEF NowAdd, offset, Fix
<1>10. CASE UNCHANGED timeVars BY <1>10 DEF timeVars, offset, Fix
<1> QED
  BY <1>1, <1>2, <1>3, <1>4, <1>5, <1>6, <1>7, <1>8, <1>9, <1>10
  DEF TimeNext, SntpStep, NowStep

LEMMA ToldStep ==
  ASSUME TimeTypeOK, ReaderInv, ToldInv, [TimeNext]_timeVars PROVE ToldInv'
<1>1. CASE UNCHANGED told BY <1>1 DEF ToldInv, ToldRight, Dated
<1>2. ASSUME NEW r \in Readers, Now(r), told' = [told EXCEPT ![r] = Nothing] PROVE ToldInv'
  BY <1>2 DEF ToldInv, TimeTypeOK
<1>3. ASSUME NEW r \in Readers, NowAdd(r) PROVE ToldInv'
  <2> DEFINE o == reader[r].high * Word + reader[r].low
             t == [time |-> o + (clock % Wrap), at |-> clock, fix |-> reader[r].fix]
  <2>1. o \in Int /\ reader[r].fix \in Nat /\ clock \in Nat
    BY TimeAssumption DEF TimeAssumption, TimeTypeOK
  <2>2. Fix(o, reader[r].fix) /\ reader[r].fix <= clock
    BY <1>3 DEF NowAdd, ReaderInv
  <2>3. told' = [told EXCEPT ![r] = t] BY <1>3 DEF NowAdd, Uptime
  <2> HIDE DEF o
  <2>4. ToldRight(t) /\ Dated(t) BY <2>1, <2>2, Added
  <2> HIDE DEF t
  <2> QED BY <2>3, <2>4 DEF ToldInv, TimeTypeOK
<1> QED
  BY <1>1, <1>2, <1>3
  DEF TimeNext, timeVars, Tick, SyncStep, SyncStart, SyncWake, SyncTimeout, SntpStep, Reply,
      SntpEnter, SntpHigh, SntpLow, SntpGive, NowStep, Now, NowEnter, NowLow

LEMMA SyncInvStep == ASSUME TimeTypeOK, SyncInv, [TimeNext]_timeVars PROVE SyncInv'
<1> USE DEF TimeTypeOK, SyncInv, SyncedMeansClock
<1>1. CASE Tick BY <1>1 DEF Tick, offset
<1>5. ASSUME NEW r \in Readers, NowStep(r) PROVE SyncInv'
  BY <1>5 DEF NowStep, Now, NowEnter, NowLow, NowAdd, offset
<1>2. CASE SyncStep BY <1>2 DEF SyncStep, SyncStart, SyncWake, SyncTimeout, NoReply, offset
<1>3. CASE SntpStep
  BY <1>3 DEF SntpStep, Reply, SntpEnter, SntpHigh, SntpLow, SntpGive, offset
<1>4. CASE UNCHANGED timeVars BY <1>4 DEF timeVars, offset
<1> QED BY <1>1, <1>2, <1>3, <1>4, <1>5 DEF TimeNext

LEMMA TimeInvStep == TimeInv /\ [TimeNext]_timeVars => TimeInv'
BY TimeTypes, CriticalStep, OffsetStep, ReaderStep, ToldStep, SyncInvStep DEF TimeInv

(* mongo_time.c: for any number of readers and any sizes of word and wrap, *)
(* the time is the true one or, after the uptime has wrapped and until the *)
(* next reply, whole wraps behind; and sync succeeds only with a clock.    *)
THEOREM ClockIsSound == TimeSpec => []ClockSound
<1>1. TimeInv => ClockSound
  BY DEF TimeInv, ToldInv, ToldRight, SyncInv, ClockSound, ClockSane
<1> QED BY <1>1, TimeInvInit, TimeInvStep, PTL DEF TimeSpec
-----------------------------------------------------------------------------
(* The firmware's tasks use the clock as anybody may: each of their steps  *)
(* is one of the clock's, or leaves it alone.                              *)
LEMMA AppTimeStep == [AppNext]_allVars => [TimeNext]_timeVars
<1> SUFFICES ASSUME [AppNext]_allVars PROVE [TimeNext]_timeVars
  OBVIOUS
<1>1. CASE Wifi \/ NewClient \/ StartTasks \/ TelemetryGate \/ TelemetryInsert
  BY <1>1 DEF Wifi, NewClient, StartTasks, TelemetryGate, TelemetryInsert
<1>2. CASE Sync BY <1>2 DEF Sync, TimeNext
<1>3. CASE TelemetryNow BY <1>3, AppAssumption DEF TelemetryNow, TimeNext, AppAssumption
<1>4. CASE Tick \/ SntpStep BY <1>4 DEF TimeNext
<1>5. CASE UNCHANGED allVars BY <1>5 DEF allVars
<1> QED BY <1>1, <1>2, <1>3, <1>4, <1>5 DEF AppNext

(* The demonstration firmware implements the clock's specification.        *)
THEOREM AppImplementsClock == AppSpec => TimeSpec
<1>1. AppInit => TimeInit BY DEF AppInit
<1> QED BY <1>1, AppTimeStep, PTL DEF AppSpec, TimeSpec

(* Past the gate there is a clock; and what is inserted is what was told   *)
(* since.                                                                  *)
DocumentInv ==
  /\ telPc \in {"none", "gate", "now", "insert"}
  /\ telPc \in {"now", "insert"} => synced
  /\ telPc = "insert" => Dated(told[Telemetry])
  /\ inserted # NoDocument => Dated(inserted)

LEMMA DocumentStep ==
  ASSUME TimeInv, TimeInv', DocumentInv, [AppNext]_allVars PROVE DocumentInv'
<1> USE AppAssumption DEF AppAssumption, DocumentInv
<1>1. synced => synced'
  <2>1. [TimeNext]_timeVars BY AppTimeStep
  <2> QED BY <2>1 DEF TimeNext, timeVars, offset, Tick, SyncStep, SyncStart, SyncWake,
             SyncTimeout, SntpStep, Reply, SntpEnter, SntpHigh, SntpLow, SntpGive, NowStep,
             Now, NowEnter, NowLow, NowAdd
<1>2. CASE Wifi \/ NewClient BY <1>2 DEF Wifi, NewClient, timeVars, offset, Dated
<1>3. CASE StartTasks BY <1>3 DEF StartTasks, timeVars, offset, Dated
<1>4. CASE Sync
  BY <1>4, <1>1 DEF Sync, SyncStep, SyncStart, SyncWake, SyncTimeout, Dated
<1>5. CASE TelemetryGate BY <1>5 DEF TelemetryGate, Gate, timeVars, offset, Dated
<1>6. CASE TelemetryNow
  <2>1. telPc = "now" /\ synced /\ synced' /\ UNCHANGED <<appPc, inserted>>
        /\ telPc' \in {"insert", "now"} /\ NowStep(Telemetry)
    BY <1>6, <1>1 DEF TelemetryNow
  <2>2. ASSUME telPc' = "insert" PROVE Dated(told'[Telemetry])
    <3>1. reader'[Telemetry].pc = "idle" BY <2>2, <1>6 DEF TelemetryNow
    <3>2. NowAdd(Telemetry)
      BY <2>1, <3>1 DEF NowStep, Now, NowEnter, NowLow, TimeInv, TimeTypeOK
    <3> DEFINE o == reader[Telemetry].high * Word + reader[Telemetry].low
               t == [time |-> o + (clock % Wrap), at |-> clock, fix |-> reader[Telemetry].fix]
    <3>3. o \in Int /\ reader[Telemetry].fix \in Nat /\ clock \in Nat
      BY TimeAssumption DEF TimeAssumption, TimeInv, TimeTypeOK
    <3>4. Fix(o, reader[Telemetry].fix) /\ reader[Telemetry].fix <= clock
      BY <3>2 DEF NowAdd, TimeInv, ReaderInv
    <3>5. told' = [told EXCEPT ![Telemetry] = t] BY <3>2 DEF NowAdd, Uptime
    <3> HIDE DEF o
    <3>6. Dated(t) BY <3>3, <3>4, Added
    <3> HIDE DEF t
    <3> QED BY <3>5, <3>6 DEF TimeInv, TimeTypeOK
  <2>3. inserted' = inserted BY <2>1
  <2> QED BY <2>1, <2>2, <2>3 DEF Dated
<1>7. CASE TelemetryInsert BY <1>7 DEF TelemetryInsert, timeVars, offset, Dated
<1>8. CASE (Tick \/ SntpStep) /\ UNCHANGED appVars
  BY <1>8, <1>1 DEF appVars, Tick, SntpStep, Reply, SntpEnter, SntpHigh, SntpLow, SntpGive, Dated
<1>9. CASE UNCHANGED allVars BY <1>9 DEF allVars, timeVars, appVars, offset, Dated
<1> QED BY <1>2, <1>3, <1>4, <1>5, <1>6, <1>7, <1>8, <1>9 DEF AppNext

(* telemetry.c: a document's date is never the 0 of a clock that is not    *)
(* set, and never ahead of the true time, for any wrap, word and epoch.    *)
THEOREM DocumentsAreDated == AppSpec => []DocumentsDated
<1>1. AppInit => TimeInv /\ DocumentInv
  BY TimeInvInit DEF AppInit, DocumentInv
<1>2. TimeInv /\ DocumentInv /\ [AppNext]_allVars => (TimeInv /\ DocumentInv)'
  BY AppTimeStep, TimeInvStep, DocumentStep
<1>3. DocumentInv => DocumentsDated BY DEF DocumentInv, DocumentsDated, Dated
<1> QED BY <1>1, <1>2, <1>3, PTL DEF AppSpec
-----------------------------------------------------------------------------
(***************************************************************************)
(* Waiting by a tick counter that wraps (Ticks), for every range of the    *)
(* counter, every delay below half of it, and any number of failures.      *)
(***************************************************************************)
TickSpec == TickInit /\ [][TickNext]_tickVars

Half == TickRange \div 2

(* next_attempt_tick stands for a tick that is at most one delay away, and *)
(* is past once a connect has succeeded.                                   *)
DueInv ==
  /\ ticks \in Nat /\ failures \in Nat /\ due \in Nat /\ nextAttempt = Wrapped(due)
  /\ due <= ticks + MaxDelay
  /\ failures = 0 => due <= ticks

(* A call's deadline stays the one it began with. *)
CallInv ==
  /\ began \in Nat /\ waiting \in {"no", "send", "recv"}
  /\ waiting # "no" => began <= ticks /\ deadline = Wrapped(Wrapped(began) + Timeout)

TickInv == DueInv /\ CallInv /\ BackoffExact /\ DeadlineMet

(* A quotient and a remainder in range are the quotient and the remainder. *)
LEMMA DivisionUnique ==
  ASSUME NEW w \in Nat \ {0}, NEW q \in Int, NEW r \in 0..(w - 1)
  PROVE  (w * q + r) % w = r /\ (w * q + r) \div w = q
<1> DEFINE a == w * q + r
<1>1. a \in Int OBVIOUS
<1>a. a = w * q + r OBVIOUS
<1> HIDE DEF a
<1> DEFINE d == a \div w
           m == q - d
<1>2. d \in Int /\ a % w \in 0..(w - 1) /\ a % w = a - w * d BY <1>1, Division
<1> HIDE DEF d
<1>3. w * m = w * q - w * d BY <1>2
<1>4. m \in Int BY <1>2
<1> HIDE DEF m
<1> DEFINE y == w * m
<1>5. y \in Int /\ a % w = y + r BY <1>a, <1>2, <1>3, <1>4
<1>6. m < 1
  <2> SUFFICES ASSUME m >= 1 PROVE FALSE BY <1>4
  <2>1. y >= w BY <1>4
  <2> HIDE DEF y
  <2> QED BY <1>2, <1>5, <2>1
<1>7. m > -1
  <2> SUFFICES ASSUME m <= -1 PROVE FALSE BY <1>4
  <2>1. y <= -w BY <1>4
  <2> HIDE DEF y
  <2> QED BY <1>2, <1>5, <2>1
<1>8. m = 0 BY <1>4, <1>6, <1>7
<1>9. y = 0 BY <1>8
<1> HIDE DEF y
<1>10. a % w = r BY <1>5, <1>9
<1>11. d = q BY <1>2, <1>8 DEF m
<1> QED BY <1>10, <1>11 DEF a, d

LEMMA ModuloDifference ==
  ASSUME NEW w \in Nat \ {0}, NEW a \in Int, NEW b \in Int
  PROVE  ((a % w) - (b % w)) % w = (a - b) % w
<1>1. PICK p \in Int : a % w = a - w * p BY Division
<1>2. PICK q \in Int : b % w = b - w * q BY Division
<1>3. PICK n \in Int, r \in 0..(w - 1) : (a - b) % w = r /\ a - b = w * n + r
  <2> DEFINE c == a - b
  <2>1. c \in Int OBVIOUS
  <2> HIDE DEF c
  <2>2. PICK n \in Int : n = c \div w BY <2>1, Division
  <2>3. PICK r \in 0..(w - 1) : r = c % w BY <2>1, Division
  <2>4. r = c - w * n BY <2>1, <2>2, <2>3, Division
  <2>5. c = w * n + r BY <2>1, <2>4
  <2> QED BY <2>3, <2>5 DEF c
<1> DEFINE m == n - p + q
<1>4. m \in Int OBVIOUS
<1>5. w * m = w * n - w * p + w * q OBVIOUS
<1> HIDE DEF m
<1>6. (a % w) - (b % w) = w * m + r BY <1>1, <1>2, <1>3, <1>4, <1>5
<1>7. (w * m + r) % w = r BY <1>4, DivisionUnique
<1> QED BY <1>3, <1>6, <1>7

LEMMA ModuloSmall == ASSUME NEW w \in Nat \ {0}, NEW x \in 0..(w - 1) PROVE x % w = x
BY Z3

LEMMA ModuloNegative ==
  ASSUME NEW w \in Nat \ {0}, NEW x \in Int, x < 0, x > -w PROVE x % w = x + w
<1>1. x + w \in 0..(w - 1) /\ w * (-1) = -w OBVIOUS
<1>2. x = w * (-1) + (x + w) BY <1>1
<1>3. (w * (-1) + (x + w)) % w = x + w BY <1>1, DivisionUnique
<1> QED BY <1>2, <1>3

(* Two numbers with the same quotient differ as their remainders do. *)
LEMMA SameWrap ==
  ASSUME NEW w \in Nat \ {0}, NEW a \in Int, NEW b \in Int, NEW c \in Int, a <= b, b <= c,
         a \div w = c \div w
  PROVE  (b % w) - (a % w) = b - a
<1>1. a \div w \in Int /\ a % w \in 0..(w - 1) /\ a % w = a - w * (a \div w) BY Division
<1>2. c \div w \in Int /\ c % w \in 0..(w - 1) /\ c % w = c - w * (c \div w) BY Division
<1> DEFINE q == a \div w
           r == b - w * q
<1>3. q \in Int /\ w * q \in Int BY <1>1
<1>4. a - w * q >= 0 /\ c - w * q <= w - 1 BY <1>1, <1>2
<1> HIDE DEF q
<1>5. r \in 0..(w - 1) BY <1>3, <1>4
<1>6. b = w * q + r BY <1>3
<1> HIDE DEF r
<1>7. b % w = r BY <1>3, <1>5, <1>6, DivisionUnique
<1> QED BY <1>1, <1>3, <1>7 DEF q, r
-----------------------------------------------------------------------------
LEMMA TickConstants ==
  /\ TickRange \in Nat \ {0} /\ Half \in Nat /\ TickRange = 2 * Half
  /\ MaxDelay \in Nat /\ MaxDelay < Half /\ 0 < Half
  /\ Poll \in Nat /\ Timeout \in Nat /\ Timeout < TickRange
<1>1. TickRange \in Nat /\ TickRange % 2 = 0 BY TickAssumption DEF TickAssumption
<1>2. TickRange % 2 = TickRange - 2 * Half /\ Half \in Int BY <1>1, Division DEF Half
<1> QED BY <1>1, <1>2, TickAssumption DEF TickAssumption, Half

LEMMA DelayBounded == ASSUME NEW n \in Nat PROVE BackoffDelay(n) \in 0..MaxDelay
<1> DEFINE k == IF n > 7 THEN 6 ELSE n - 1
<1>1. CASE n = 0 BY <1>1, TickConstants DEF BackoffDelay
<1>2. CASE n # 0
  <2>1. k \in {0, 1, 2, 3, 4, 5, 6} BY <1>2
  <2> HIDE DEF k
  <2>2. 2^k \in Nat
    <3>0. CASE k = 0
      <4>1. 2^k = 2^0 BY <3>0, Zenon
      <4>2. 2^0 = 1 BY Z3
      <4> QED BY <4>1, <4>2
    <3>1. CASE k = 1
      <4>1. 2^k = 2^1 BY <3>1, Zenon
      <4>2. 2^1 = 2 BY Z3
      <4> QED BY <4>1, <4>2
    <3>2. CASE k = 2
      <4>1. 2^k = 2^2 BY <3>2, Zenon
      <4>2. 2^2 = 4 BY Z3
      <4> QED BY <4>1, <4>2
    <3>3. CASE k = 3
      <4>1. 2^k = 2^3 BY <3>3, Zenon
      <4>2. 2^3 = 8 BY Z3
      <4> QED BY <4>1, <4>2
    <3>4. CASE k = 4
      <4>1. 2^k = 2^4 BY <3>4, Zenon
      <4>2. 2^4 = 16 BY Z3
      <4> QED BY <4>1, <4>2
    <3>5. CASE k = 5
      <4>1. 2^k = 2^5 BY <3>5, Zenon
      <4>2. 2^5 = 32 BY Z3
      <4> QED BY <4>1, <4>2
    <3>6. CASE k = 6
      <4>1. 2^k = 2^6 BY <3>6, Zenon
      <4>2. 2^6 = 64 BY Z3
      <4> QED BY <4>1, <4>2
    <3> QED BY <2>1, <3>0, <3>1, <3>2, <3>3, <3>4, <3>5, <3>6
  <2>3. BackoffDelay(n) = IF 2^k > MaxDelay THEN MaxDelay ELSE 2^k
    BY <1>2 DEF BackoffDelay, k
  <2> QED BY <2>2, <2>3, TickConstants
<1> QED BY <1>1, <1>2

(* The sign of the wrapped difference is right when the true one is less   *)
(* than half the range.                                                    *)
LEMMA WaitIsExact ==
  ASSUME DueInv
  PROVE  /\ BackoffWait \in Nat /\ BackoffWait < Half
         /\ ticks < due + Half => BackoffWait = IF due > ticks THEN due - ticks ELSE 0
<1> DEFINE x == Wrapped(nextAttempt - TickCount)
           d == due - ticks
<1>1. d \in Int /\ due \in Nat /\ ticks \in Nat /\ failures \in Nat BY DEF DueInv
<1>2. x = d % TickRange
  <2>1. nextAttempt = due % TickRange /\ TickCount = ticks % TickRange
    BY DEF DueInv, Wrapped, TickCount
  <2>2. ((due % TickRange) - (ticks % TickRange)) % TickRange = d % TickRange
    <3>1. PICK w \in Nat \ {0}, a \in Int, b \in Int : w = TickRange /\ a = due /\ b = ticks
      BY <1>1, TickConstants
    <3>2. ((a % w) - (b % w)) % w = (a - b) % w BY ModuloDifference
    <3> QED BY <3>1, <3>2
  <2> HIDE DEF d
  <2> QED BY <2>1, <2>2 DEF Wrapped
<1>3. x \in 0..(TickRange - 1) BY <1>1, <1>2, Division, TickConstants
<1>4. BackoffWait = IF failures > 0 /\ (IF x < Half THEN x ELSE x - TickRange) > 0 THEN x ELSE 0
  BY DEF BackoffWait, Signed, Half, Wrapped
<1> HIDE DEF x
<1>5. BackoffWait \in Nat /\ BackoffWait < Half
  <2>1. CASE x < Half BY <1>3, <1>4, <2>1, TickConstants
  <2>2. CASE x >= Half BY <1>3, <1>4, <2>2, TickConstants
  <2> QED BY <1>3, <2>1, <2>2, TickConstants
<1>6. ASSUME ticks < due + Half
      PROVE  BackoffWait = IF due > ticks THEN due - ticks ELSE 0
  <2>1. CASE due > ticks
    <3>1. d \in 1..(Half - 1) /\ failures # 0 BY <1>1, <2>1, TickConstants DEF DueInv
    <3> HIDE DEF d
    <3>2. d \in 0..(TickRange - 1) BY <3>1, TickConstants
    <3>3. x = d BY <1>2, <3>2, ModuloSmall, TickConstants
    <3>4. x < Half /\ x > 0 /\ failures > 0 BY <1>1, <3>1, <3>3, TickConstants
    <3>5. BackoffWait = x BY <1>4, <3>4
    <3> QED BY <2>1, <3>3, <3>5 DEF d
  <2>2. CASE due = ticks
    <3>1. d = 0 BY <1>1, <2>2
    <3> HIDE DEF d
    <3>2. d \in 0..(TickRange - 1) BY <3>1, TickConstants
    <3>3. x = 0 BY <1>2, <3>1, <3>2, ModuloSmall, TickConstants
    <3> QED BY <1>1, <1>4, <2>2, <3>3, TickConstants
  <2>3. CASE due < ticks
    <3>1. d < 0 /\ d > -Half BY <1>1, <1>6, <2>3, TickConstants
    <3> HIDE DEF d
    <3>2. d > -TickRange BY <1>1, <3>1, TickConstants
    <3>3. x = d + TickRange BY <1>1, <1>2, <3>1, <3>2, ModuloNegative, TickConstants
    <3>4. x >= Half /\ x - TickRange < 0 BY <1>1, <3>1, <3>3, TickConstants
    <3> QED BY <1>1, <1>3, <1>4, <2>3, <3>4, TickConstants
  <2> QED BY <1>1, <2>1, <2>2, <2>3
<1> QED BY <1>5, <1>6

(* The code's look at its deadline, where the counter does not wrap.       *)
LEMMA ExpiredIsDue ==
  ASSUME ticks \in Nat, CallInv, waiting # "no", Undisturbed, ticks <= began + Timeout + Poll
  PROVE  deadline - TickCount = began + Timeout - ticks /\ deadline \in Int /\ TickCount \in Int
<1> DEFINE last == began + Timeout + Poll
           end == began + Timeout
<1>1. began \in Nat /\ began <= ticks /\ deadline = Wrapped(Wrapped(began) + Timeout)
  BY DEF CallInv
<1>2. last \in Int /\ end \in Int /\ began <= end /\ end <= last /\ ticks <= last
  BY <1>1, TickConstants
<1>3. began \div TickRange = last \div TickRange BY DEF Undisturbed
<1> HIDE DEF last
<1>4. (end % TickRange) - (began % TickRange) = end - began
  BY <1>1, <1>2, <1>3, SameWrap, TickConstants
<1>5. (ticks % TickRange) - (began % TickRange) = ticks - began
  BY <1>1, <1>2, <1>3, SameWrap, TickConstants
<1>6. /\ began % TickRange \in Int /\ ticks % TickRange \in Int
      /\ end % TickRange \in 0..(TickRange - 1)
  BY <1>1, <1>2, Division, TickConstants
<1>7. end % TickRange = (began % TickRange) + Timeout BY <1>1, <1>4, <1>6, TickConstants
<1>8. deadline = end % TickRange
  <2>1. (end % TickRange) % TickRange = end % TickRange BY <1>6, ModuloSmall, TickConstants
  <2> QED BY <1>1, <1>7, <2>1 DEF Wrapped
<1>9. PICK b \in Int, t \in Int : b = began % TickRange /\ t = ticks % TickRange
  BY <1>6
<1>10. deadline = b + Timeout /\ t - b = ticks - began BY <1>5, <1>7, <1>8, <1>9
<1>11. PICK s \in Int, e \in Int : s = began /\ e = Timeout /\ ticks \in Int
  BY <1>1, TickConstants
<1>12. deadline = b + e /\ TickCount = t /\ t = b + (ticks - s)
  BY <1>9, <1>10, <1>11 DEF TickCount
<1> QED BY <1>11, <1>12
-----------------------------------------------------------------------------
LEMMA TickStarts == TickInit => TickInv
<1> SUFFICES ASSUME TickInit PROVE TickInv
  OBVIOUS
<1>1. DueInv
  <2>1. 0 % TickRange = 0 BY ModuloSmall, TickConstants
  <2> QED BY <2>1, TickConstants DEF TickInit, DueInv, Wrapped
<1>2. CallInv BY DEF TickInit, CallInv
<1>3. BackoffExact
  <2>1. slept.for = 0 /\ slept.at = 0 /\ slept.due = 0 BY DEF TickInit, NoSleep
  <2> QED BY <2>1, TickConstants DEF BackoffExact, Half
<1>4. DeadlineMet BY DEF TickInit, DeadlineMet
<1> QED BY <1>1, <1>2, <1>3, <1>4 DEF TickInv

LEMMA TickStep == TickInv /\ [TickNext]_tickVars => TickInv'
<1> SUFFICES ASSUME TickInv, [TickNext]_tickVars PROVE TickInv'
  OBVIOUS
<1>t. /\ ticks \in Nat /\ failures \in Nat /\ due \in Nat /\ nextAttempt = Wrapped(due)
      /\ due <= ticks + MaxDelay /\ (failures = 0 => due <= ticks) /\ MaxDelay \in Nat
  BY TickConstants DEF TickInv, DueInv
<1>b. ASSUME Backoff PROVE /\ CallInv' /\ BackoffExact' /\ DeadlineMet'
                           /\ ticks' \in Nat /\ ticks' >= ticks
                           /\ ticks' >= due
  <2>1. /\ ticks' = ticks + BackoffWait
        /\ slept' = [at |-> ticks, due |-> due, for |-> BackoffWait]
        /\ waiting' = "no" /\ began' = 0 /\ ended' = "none"
    BY <1>b DEF Backoff, Elapse
  <2>2. /\ BackoffWait \in Nat /\ BackoffWait < Half
        /\ ticks < due + Half => BackoffWait = IF due > ticks THEN due - ticks ELSE 0
    BY WaitIsExact DEF TickInv
  <2>3. slept'.at = ticks /\ slept'.due = due /\ slept'.for = BackoffWait BY <2>1
  <2>4. BackoffExact' BY <2>2, <2>3 DEF BackoffExact, Half
  <2>5. CallInv' BY <2>1 DEF CallInv
  <2>6. DeadlineMet' BY <2>1 DEF DeadlineMet
  <2>7. ticks' >= due BY <1>t, <2>1, <2>2, TickConstants
  <2> QED BY <1>t, <2>1, <2>2, <2>4, <2>5, <2>6, <2>7
<1>k. ASSUME UNCHANGED backoffVars, ticks' \in Nat, ticks' >= ticks PROVE DueInv' /\ BackoffExact'
  <2>1. UNCHANGED <<failures, nextAttempt, due, slept>> BY <1>k DEF backoffVars
  <2>2. nextAttempt' = Wrapped(due)' BY <1>t, <2>1 DEF Wrapped
  <2>3. PICK d \in Nat, t \in Nat, u \in Nat, m \in Nat :
          d = due /\ t = ticks /\ u = ticks' /\ m = MaxDelay
    BY <1>k, <1>t
  <2>4. d <= t + m /\ t <= u /\ (failures = 0 => d <= t) BY <1>k, <1>t, <2>3
  <2>5. d <= u + m /\ (failures = 0 => d <= u) BY <2>4
  <2>6. DueInv' BY <1>k, <1>t, <2>1, <2>2, <2>3, <2>5 DEF DueInv
  <2> QED BY <2>1, <2>6 DEF TickInv, BackoffExact
<1>1. CASE ConnectFails
  <2>1. Backoff /\ failures' = failures + 1 /\ due' = ticks' + BackoffDelay(failures')
        /\ nextAttempt' = Wrapped(due')
    BY <1>1 DEF ConnectFails
  <2>2. failures' \in Nat /\ failures' # 0 BY <1>t, <2>1
  <2>3. ticks' \in Nat BY <1>b, <2>1
  <2>4. BackoffDelay(failures') \in 0..MaxDelay BY <2>2, DelayBounded
  <2>5. due' \in Nat /\ due' <= ticks' + MaxDelay BY <1>t, <2>1, <2>3, <2>4
  <2>6. DueInv' BY <2>1, <2>2, <2>3, <2>5 DEF DueInv, Wrapped
  <2> QED BY <1>b, <2>1, <2>6 DEF TickInv
<1>2. CASE ConnectSucceeds
  <2>1. Backoff /\ failures' = 0 /\ UNCHANGED <<nextAttempt, due>>
    BY <1>2 DEF ConnectSucceeds
  <2>2. ticks' \in Nat /\ ticks' >= due BY <1>b, <2>1
  <2>3. nextAttempt' = Wrapped(due)' BY <1>t, <2>1 DEF Wrapped
  <2>4. due' <= ticks' + MaxDelay /\ due' <= ticks' /\ due' \in Nat
    <3>1. PICK d \in Nat, u \in Nat, m \in Nat : d = due' /\ u = ticks' /\ m = MaxDelay
      BY <1>t, <2>1, <2>2
    <3>2. d <= u BY <2>1, <2>2, <3>1
    <3>3. d <= u + m BY <3>2
    <3> QED BY <3>1, <3>2, <3>3
  <2>5. DueInv' BY <2>1, <2>2, <2>3, <2>4 DEF DueInv
  <2> QED BY <1>b, <2>1, <2>5 DEF TickInv
<1>3. CASE Idle
  <2>1. waiting = "no" /\ ticks' = ticks + 1 /\ UNCHANGED backoffVars
        /\ UNCHANGED <<waiting, deadline, began, ended>>
    BY <1>3 DEF Idle, Elapse, callVars
  <2>2. ticks' \in Nat /\ ticks' >= ticks BY <1>t, <2>1
  <2>3. CallInv' BY <2>1 DEF TickInv, CallInv
  <2>4. DeadlineMet'
    <3>1. began \in Nat BY DEF TickInv, CallInv
    <3> QED BY <1>t, <2>1, <3>1, TickConstants DEF TickInv, DeadlineMet, Undisturbed
  <2> QED BY <1>k, <2>1, <2>2, <2>3, <2>4 DEF TickInv
<1>4. ASSUME NEW call \in {"send", "recv"}, Begin(call) PROVE TickInv'
  <2>1. /\ waiting' = call /\ slept' = NoSleep /\ deadline' = Wrapped(TickCount + Timeout)
        /\ began' = ticks /\ ended' = "none" /\ UNCHANGED <<ticks, failures, nextAttempt, due>>
    BY <1>4 DEF Begin
  <2>2. DueInv' BY <1>t, <2>1 DEF DueInv, Wrapped
  <2>3. CallInv' BY <1>t, <2>1 DEF CallInv, Wrapped, TickCount
  <2>4. BackoffExact'
    <3>1. slept'.for = 0 /\ slept'.at = 0 /\ slept'.due = 0 BY <2>1 DEF NoSleep
    <3> QED BY <3>1, TickConstants DEF BackoffExact, Half
  <2>5. DeadlineMet' BY <1>t, <2>1, TickConstants DEF DeadlineMet
  <2> QED BY <2>2, <2>3, <2>4, <2>5 DEF TickInv
<1>c. ASSUME waiting # "no", Undisturbed
      PROVE  /\ deadline - TickCount = began + Timeout - ticks /\ deadline \in Int
             /\ TickCount \in Int /\ began \in Nat /\ began <= ticks
  <2>1. ticks <= began + Timeout + Poll BY <1>c DEF TickInv, DeadlineMet
  <2>2. CallInv BY DEF TickInv
  <2> QED BY <1>c, <1>t, <2>1, <2>2, ExpiredIsDue DEF CallInv
<1>e. ASSUME NEW how, EndCall(how), waiting # "no", ticks' \in Nat, ticks' >= ticks,
             Undisturbed /\ how = "timeout" => ticks' >= began + Timeout
      PROVE  TickInv'
  <2>1. waiting' = "no" /\ ended' = how /\ began' = began /\ UNCHANGED backoffVars
    BY <1>e DEF EndCall
  <2>2. CallInv' BY <2>1 DEF TickInv, CallInv
  <2>3. DeadlineMet' BY <1>e, <2>1 DEF DeadlineMet, Undisturbed
  <2> QED BY <1>e, <1>k, <2>1, <2>2, <2>3 DEF TickInv
<1>w. ASSUME waiting # "no", ticks' \in Nat, ticks' >= ticks, UNCHANGED <<waiting, deadline, began>>,
             ended' = ended, UNCHANGED backoffVars,
             Undisturbed => ticks' <= began + Timeout + Poll
      PROVE  TickInv'
  <2>1. began \in Nat BY DEF TickInv, CallInv
  <2>2. CallInv' BY <1>t, <1>w, <2>1 DEF TickInv, CallInv, Wrapped
  <2>3. DeadlineMet' BY <1>t, <1>w, <2>1, TickConstants DEF TickInv, DeadlineMet, Undisturbed
  <2> QED BY <1>w, <1>k, <2>2, <2>3 DEF TickInv
<1>x. ASSUME waiting # "no", Undisturbed, Expired PROVE ticks >= began + Timeout
  BY <1>c, <1>t, <1>x, TickConstants DEF Expired
<1>5. CASE SendPoll
  <2>1. waiting = "send" BY <1>5 DEF SendPoll
  <2>2. CASE Expired /\ EndCall("timeout") /\ UNCHANGED ticks
    BY <1>e, <1>t, <1>x, <2>1, <2>2
  <2>3. CASE /\ ~Expired /\ Elapse(Poll) /\ deadline' = KeptDeadline
             /\ UNCHANGED <<waiting, began, ended, backoffVars>>
    <3>1. ticks' = ticks + Poll BY <2>3 DEF Elapse
    <3>2. ticks' \in Nat /\ ticks' >= ticks BY <1>t, <3>1, TickConstants
    <3>3. Undisturbed => ticks' <= began + Timeout + Poll
      BY <1>c, <1>t, <2>1, <2>3, <3>1, TickConstants DEF Expired
    <3> QED BY <1>w, <2>1, <2>3, <3>2, <3>3 DEF KeptDeadline
  <2> QED BY <1>5, <2>2, <2>3 DEF SendPoll
<1>6. CASE RecvWait
  <2>1. waiting = "recv" BY <1>6 DEF RecvWait
  <2>i. TickCount \in Int /\ deadline \in Int
    <3>1. began \in Nat /\ deadline = ((began % TickRange) + Timeout) % TickRange
      BY <2>1 DEF TickInv, CallInv, Wrapped
    <3>2. began % TickRange \in Int /\ ticks % TickRange \in Int
      BY <1>t, <3>1, Division, TickConstants
    <3>3. (began % TickRange) + Timeout \in Int BY <3>2, TickConstants
    <3>4. ((began % TickRange) + Timeout) % TickRange \in Int BY <3>3, Division, TickConstants
    <3> QED BY <3>1, <3>2, <3>4 DEF TickCount
  <2>2. CASE Expired /\ EndCall("timeout") /\ UNCHANGED ticks
    BY <1>e, <1>t, <1>x, <2>1, <2>2
  <2>3. CASE ~Expired /\ Elapse(deadline - TickCount) /\ EndCall("timeout")
    <3>1. ticks' = ticks + (deadline - TickCount) BY <2>3 DEF Elapse
    <3>2. ticks' \in Nat /\ ticks' >= ticks BY <1>t, <2>3, <2>i, <3>1 DEF Expired
    <3>3. Undisturbed => ticks' >= began + Timeout
      BY <1>c, <1>t, <2>1, <3>1, TickConstants
    <3> QED BY <1>e, <2>1, <2>3, <3>2, <3>3
  <2>4. CASE /\ ~Expired /\ \E n \in 0..(deadline - TickCount - 1) : Elapse(n)
             /\ deadline' = KeptDeadline /\ UNCHANGED <<waiting, began, ended, backoffVars>>
    <3>1. PICK n \in 0..(deadline - TickCount - 1) : ticks' = ticks + n BY <2>4 DEF Elapse
    <3>2. n \in Nat /\ n < deadline - TickCount BY <2>i
    <3>3. ticks' \in Nat /\ ticks' >= ticks BY <1>t, <3>1, <3>2
    <3>4. Undisturbed => ticks' <= began + Timeout + Poll
      BY <1>c, <1>t, <2>1, <3>1, <3>2, TickConstants
    <3> QED BY <1>w, <2>1, <2>4, <3>3, <3>4 DEF KeptDeadline
  <2> QED BY <1>6, <2>2, <2>3, <2>4 DEF RecvWait
<1>7. CASE Finish
  <2>1. waiting # "no" /\ EndCall("ok") /\ UNCHANGED ticks BY <1>7 DEF Finish
  <2> QED BY <1>e, <1>t, <2>1
<1>8. CASE UNCHANGED tickVars
  <2>1. UNCHANGED <<ticks, waiting, deadline, began, ended>> /\ UNCHANGED backoffVars
    BY <1>8 DEF tickVars, callVars
  <2>2. CallInv' BY <2>1 DEF TickInv, CallInv, Wrapped
  <2>3. DeadlineMet' BY <2>1 DEF TickInv, DeadlineMet, Undisturbed
  <2> QED BY <1>k, <1>t, <2>1, <2>2, <2>3 DEF TickInv
<1> QED BY <1>1, <1>2, <1>3, <1>4, <1>5, <1>6, <1>7, <1>8 DEF TickNext

(* mongo_client.c and mongo_transport.c: for every width of the counter,   *)
(* however often it wraps.                                                 *)
THEOREM WaitsAreExact == TickSpec => []WaitsExact
<1>1. TickInv => WaitsExact BY DEF TickInv, WaitsExact
<1> QED BY <1>1, TickStarts, TickStep, PTL DEF TickSpec
-----------------------------------------------------------------------------
(***************************************************************************)
(* logging.c.                                                              *)
(***************************************************************************)
LogSpec == LogInit /\ [][LogNext]_logVars

Line == [by : Callers, nr : Nat, level : LogLevels, since : Nat, at : Nat, sent : Nat]
Entry == [line : Line, time : Nat, when : Nat]

LogTypeOK ==
  /\ logReady \in BOOLEAN /\ panicked \in BOOLEAN /\ passed \in Nat /\ called \in Nat
  /\ calling \in [Callers -> Seq(Line)] /\ calls \in [Callers -> Nat]
  /\ logQueue \in Seq(Line) /\ inHand \in Seq(Line)
  /\ printed \in Seq(Entry)

(* A line may follow another: it was sent no earlier than that was called  *)
(* for, and its number is higher if both have one caller.                  *)
Follows(b, a) == b.sent >= a.at /\ (b.by = a.by => b.nr > a.nr)

(* A line that was sent: it was called for, and its caller, if inside      *)
(* another call, is at a later one.                                        *)
Past(l) ==
  /\ l.at <= called /\ l.since <= passed /\ l.nr <= calls[l.by]
  /\ calling[l.by] # <<>> => l.nr < calls[l.by]

CallingInv ==
  \A c \in Callers : calling[c] # <<>> =>
    /\ calling[c][1].by = c /\ calling[c][1].nr = calls[c]
    /\ calling[c][1].at <= called /\ calling[c][1].since <= passed
HandInv == inHand # <<>> => Len(inHand) = 1

PastInv ==
  /\ \A i \in DOMAIN logQueue : Past(logQueue[i])
  /\ inHand # <<>> => Past(inHand[1])
  /\ \A i \in DOMAIN printed : Past(printed[i].line)

StampInv ==
  /\ \A i \in DOMAIN printed :
       /\ printed[i].line.since <= printed[i].when /\ printed[i].when <= passed
       /\ printed[i].time = Stamp(printed[i].when)
  /\ \A i, j \in DOMAIN printed : i < j => printed[i].when <= printed[j].when

(* Printed lines, then the one in hand, then the queue. *)
QueueInv ==
  /\ \A i, j \in DOMAIN logQueue : i < j => Follows(logQueue[j], logQueue[i])
  /\ inHand # <<>> => \A j \in DOMAIN logQueue : Follows(logQueue[j], inHand[1])
  /\ \A i \in DOMAIN printed, j \in DOMAIN logQueue : Follows(logQueue[j], printed[i].line)
PrintInv ==
  /\ inHand # <<>> => \A i \in DOMAIN printed : Follows(inHand[1], printed[i].line)
  /\ \A i, j \in DOMAIN printed : i < j => Follows(printed[j].line, printed[i].line)

LogInv == LogTypeOK /\ CallingInv /\ HandInv /\ PastInv /\ StampInv /\ QueueInv /\ PrintInv

(* Sequences: what is in them, and what is in one that has grown, or may   *)
(* have grown, by one element.                                             *)
LEMMA Within == ASSUME NEW S, NEW s \in Seq(S), NEW i \in DOMAIN s PROVE s[i] \in S /\ i \in Nat
OBVIOUS

LEMMA MaybeLonger ==
  ASSUME NEW S, NEW s \in Seq(S), NEW e \in S, NEW t, t = s \/ t = Append(s, e)
  PROVE  /\ t \in Seq(S)
         /\ \A i \in DOMAIN t : \/ i = Len(s) + 1 /\ t[i] = e
                                \/ i \in DOMAIN s /\ i <= Len(s) /\ t[i] = s[i]
<1>1. CASE t = s BY <1>1
<1>2. CASE t = Append(s, e) BY <1>2
<1> QED BY <1>1, <1>2

(* Of two times between which the uptime did not wrap, the later has no    *)
(* lower stamp.                                                            *)
LEMMA Stamps ==
  /\ \A t \in Nat : Stamp(t) \in Nat
  /\ \A a, b \in Nat : a <= b => Stamp(a) <= Stamp(b) \/ WrapBetween(a, b)
<1>1. UptimeWrap \in Nat \ {0} BY LoggerAssumption DEF LoggerAssumption
<1>2. ASSUME NEW t \in Nat PROVE Stamp(t) \in Nat
  BY <1>1, Division DEF Stamp
<1>3. ASSUME NEW a \in Nat, NEW b \in Nat, a <= b, ~WrapBetween(a, b) PROVE Stamp(a) <= Stamp(b)
  <2>1. a \div UptimeWrap \in Int /\ b \div UptimeWrap \in Int BY <1>1, Division
  <2>2. a \div UptimeWrap <= b \div UptimeWrap BY <1>1, <1>3, DivMonotone
  <2>3. a \div UptimeWrap = b \div UptimeWrap
    BY <1>3, <2>1, <2>2 DEF WrapBetween, Wraps
  <2>4. (b % UptimeWrap) - (a % UptimeWrap) = b - a BY <1>1, <1>3, <2>3, SameWrap
  <2>5. a % UptimeWrap \in Int /\ b % UptimeWrap \in Int BY <1>1, Division
  <2> QED BY <1>3, <2>4, <2>5 DEF Stamp
<1> QED BY <1>2, <1>3

(* What has been said, as members of their types. *)
LEMMA Lines ==
  ASSUME LogTypeOK
  PROVE  /\ \A i \in DOMAIN logQueue : logQueue[i] \in Line
         /\ inHand # <<>> => inHand[1] \in Line
         /\ \A i \in DOMAIN printed : printed[i].line \in Line /\ printed[i].when \in Nat
         /\ \A c \in Callers : calling[c] # <<>> => calling[c][1] \in Line
<1> USE DEF LogTypeOK
<1>1. \A i \in DOMAIN logQueue : logQueue[i] \in Line BY Within
<1>2. inHand # <<>> => inHand[1] \in Line OBVIOUS
<1>3. \A i \in DOMAIN printed : printed[i] \in Entry BY Within
<1>4. \A c \in Callers : calling[c] # <<>> => calling[c][1] \in Line OBVIOUS
<1> QED BY <1>1, <1>2, <1>3, <1>4 DEF Entry

LEMMA LogInvInit == LogInit => LogInv
<1> SUFFICES ASSUME LogInit PROVE LogInv
  OBVIOUS
<1> USE DEF LogInit
<1>1. LogTypeOK
  <2>1. <<>> \in Seq(Line) /\ <<>> \in Seq(Entry) OBVIOUS
  <2> QED BY <2>1 DEF LogTypeOK
<1>2. CallingInv /\ HandInv BY DEF CallingInv, HandInv
<1>3. PastInv /\ StampInv /\ QueueInv /\ PrintInv
  BY DEF PastInv, StampInv, QueueInv, PrintInv
<1> QED BY <1>1, <1>2, <1>3 DEF LogInv

(* A call: the new line has the highest number of its caller.              *)
LEMMA CallStep == ASSUME LogInv, NEW c \in Callers, LogCall(c) PROVE LogInv'
<1> USE DEF LogInv
<1>1. PICK level \in LogLevels :
        calling' = [calling EXCEPT ![c] =
          IF Wanted(level) THEN <<[by |-> c, nr |-> calls'[c], level |-> level,
                                   since |-> passed, at |-> called', sent |-> 0]>> ELSE <<>>]
  BY DEF LogCall
<1>2. called' = called + 1 /\ passed' = passed /\ calls' = [calls EXCEPT ![c] = @ + 1] /\ calling[c] = <<>>
  BY DEF LogCall
<1>3. UNCHANGED <<logReady, logQueue, inHand, printed, panicked>>
  BY DEF LogCall
<1>4. called' \in Nat /\ called < called' /\ calls' \in [Callers -> Nat]
      /\ calls'[c] = calls[c] + 1 /\ \A d \in Callers : calls[d] <= calls'[d]
  BY <1>2 DEF LogTypeOK
<1>5. calling' \in [Callers -> Seq(Line)]
  <2>1. [by |-> c, nr |-> calls'[c], level |-> level,
         since |-> passed, at |-> called', sent |-> 0] \in Line
    BY <1>4 DEF Line, LogTypeOK
  <2> QED BY <1>1, <2>1 DEF LogTypeOK
<1>6. LogTypeOK' BY <1>2, <1>3, <1>4, <1>5 DEF LogTypeOK
<1>7. CallingInv'
  <2> SUFFICES ASSUME NEW d \in Callers, calling'[d] # <<>>
               PROVE  /\ calling'[d][1].by = d /\ calling'[d][1].nr = calls'[d]
                      /\ calling'[d][1].at <= called' /\ calling'[d][1].since <= passed'
    BY DEF CallingInv
  <2>1. CASE d = c BY <1>1, <1>2, <1>4, <2>1 DEF LogTypeOK
  <2>2. CASE d # c
    <3>1. calling'[d] = calling[d] /\ calls'[d] = calls[d] BY <1>1, <1>2, <2>2 DEF LogTypeOK
    <3>2. calling[d][1].at \in Nat
      BY <3>1, Lines DEF Line
    <3> QED BY <3>1, <3>2, <1>2 DEF CallingInv, LogTypeOK
  <2> QED BY <2>1, <2>2
<1>8. ASSUME NEW l \in Line, Past(l) PROVE Past(l)'
  <2>1. l.by \in Callers /\ l.nr \in Nat /\ l.at \in Nat BY DEF Line
  <2>2. l.at <= called' /\ l.since <= passed' /\ l.nr <= calls'[l.by]
    BY <1>8, <1>2, <1>4, <2>1 DEF Past, LogTypeOK
  <2>3. calling'[l.by] # <<>> => l.nr < calls'[l.by]
    BY <1>8, <1>1, <1>2, <1>4, <2>1 DEF Past, LogTypeOK
  <2> QED BY <2>2, <2>3 DEF Past
<1>9. PastInv'
  BY <1>3, <1>8, Lines DEF PastInv
<1>10. StampInv'
  BY <1>2, <1>3, Lines DEF StampInv, LogTypeOK
<1>11. HandInv' /\ QueueInv' /\ PrintInv'
  BY <1>3 DEF HandInv, QueueInv, PrintInv, Follows
<1> QED BY <1>6, <1>7, <1>9, <1>10, <1>11

(* A send: the line goes to the end of the queue, or is lost; whatever is  *)
(* before it was called for by now.                                        *)
LEMMA SendStep == ASSUME LogInv, NEW c \in Callers, LogSend(c) PROVE LogInv'
<1> USE DEF LogInv
<1> DEFINE l == [calling[c][1] EXCEPT !.sent = called]
           PastAfter(m) == /\ m.at <= called' /\ m.since <= passed' /\ m.nr <= calls'[m.by]
                           /\ calling'[m.by] # <<>> => m.nr < calls'[m.by]
<1>1. /\ calling[c] # <<>> /\ calling' = [calling EXCEPT ![c] = <<>>]
      /\ logQueue' = logQueue \/ logQueue' = Append(logQueue, l)
      /\ UNCHANGED <<logReady, calls, called, inHand, printed, passed, panicked>>
  BY DEF LogSend, Enqueued
<1>2. calling[c][1] \in Line
  BY <1>1 DEF LogTypeOK
<1>3. /\ l \in Line /\ l.by = c /\ l.nr = calls[c] /\ l.at <= called /\ l.since <= passed
      /\ l.sent = called
  BY <1>1, <1>2 DEF Line, CallingInv, LogTypeOK
<1>4. calling' \in [Callers -> Seq(Line)] /\ calling'[c] = <<>>
      /\ \A d \in Callers \ {c} : calling'[d] = calling[d]
  BY <1>1 DEF LogTypeOK
<1> HIDE DEF l
<1>9. /\ logQueue \in Seq(Line) /\ logQueue' \in Seq(Line)
      /\ \A i \in DOMAIN logQueue' : \/ i = Len(logQueue) + 1 /\ logQueue'[i] = l
                                     \/ /\ i \in DOMAIN logQueue /\ i <= Len(logQueue)
                                        /\ logQueue'[i] = logQueue[i]
  BY <1>1, <1>3, MaybeLonger DEF LogTypeOK
<1>5. LogTypeOK' /\ CallingInv'
  BY <1>1, <1>4, <1>9 DEF LogTypeOK, CallingInv
<1>6. PastAfter(l)
  BY <1>1, <1>3, <1>4 DEF LogTypeOK
<1>7. ASSUME NEW m \in Line, Past(m)
      PROVE  PastAfter(m) /\ Follows(l, m)
  <2>1. m.by \in Callers /\ m.nr \in Nat /\ m.at \in Nat BY DEF Line
  <2>2. PastAfter(m) BY <1>7, <1>1, <1>4, <2>1 DEF Past
  <2>3. Follows(l, m) BY <1>7, <1>1, <1>3, <2>1 DEF Past, Follows
  <2> QED BY <2>2, <2>3
<1>8. /\ \A i \in DOMAIN logQueue : logQueue[i] \in Line /\ Past(logQueue[i])
      /\ inHand # <<>> => inHand[1] \in Line /\ Past(inHand[1])
      /\ \A i \in DOMAIN printed : printed[i].line \in Line /\ Past(printed[i].line)
  BY Lines DEF PastInv
<1>10. PastInv'
  <2>1. \A i \in DOMAIN logQueue' : PastAfter(logQueue'[i]) BY <1>6, <1>7, <1>8, <1>9
  <2>2. inHand # <<>> => PastAfter(inHand[1]) BY <1>7, <1>8
  <2>3. \A i \in DOMAIN printed : PastAfter(printed[i].line) BY <1>7, <1>8
  <2> QED BY <1>1, <2>1, <2>2, <2>3 DEF PastInv, Past
<1>11. QueueInv'
  <2>1. ASSUME NEW i \in DOMAIN logQueue', NEW j \in DOMAIN logQueue', i < j
        PROVE  Follows(logQueue'[j], logQueue'[i])
    <3>1. i \in Nat /\ j \in Nat /\ Len(logQueue) \in Nat BY <1>9, Within
    <3>2. i \in DOMAIN logQueue /\ logQueue'[i] = logQueue[i] BY <2>1, <3>1, <1>9
    <3>3. CASE logQueue'[j] = l BY <3>2, <3>3, <1>7, <1>8
    <3>4. CASE j \in DOMAIN logQueue /\ logQueue'[j] = logQueue[j]
      BY <2>1, <3>2, <3>4 DEF QueueInv
    <3> QED BY <3>3, <3>4, <1>9
  <2>2. ASSUME inHand # <<>>, NEW j \in DOMAIN logQueue'
        PROVE  Follows(logQueue'[j], inHand[1])
    BY <2>2, <1>7, <1>8, <1>9 DEF QueueInv
  <2>3. ASSUME NEW i \in DOMAIN printed, NEW j \in DOMAIN logQueue'
        PROVE  Follows(logQueue'[j], printed[i].line)
    BY <2>3, <1>7, <1>8, <1>9 DEF QueueInv
  <2> QED BY <1>1, <2>1, <2>2, <2>3 DEF QueueInv, Follows
<1>12. HandInv' /\ StampInv' /\ PrintInv'
  BY <1>1 DEF HandInv, StampInv, PrintInv, Follows
<1> QED BY <1>5, <1>10, <1>11, <1>12

(* The reader takes the first line; the rest of the queue comes after it.  *)
LEMMA ReceiveStep == ASSUME LogInv, LogReceive PROVE LogInv'
<1> USE DEF LogInv
<1>1. /\ logQueue # <<>> /\ inHand = <<>> /\ inHand' = <<logQueue[1]>>
      /\ logQueue' = Tail(logQueue) /\ logQueue \in Seq(Line)
      /\ UNCHANGED <<logReady, calling, calls, called, printed, passed, panicked>>
  BY DEF LogReceive, LogTypeOK
<1>2. /\ logQueue[1] \in Line /\ logQueue' \in Seq(Line) /\ 1 \in DOMAIN logQueue
      /\ \A i \in DOMAIN logQueue' : i + 1 \in DOMAIN logQueue /\ logQueue'[i] = logQueue[i + 1]
                                     /\ i \in Nat /\ i >= 1
  BY <1>1
<1>3. inHand' # <<>> /\ inHand'[1] = logQueue[1] /\ Len(inHand') = 1 /\ inHand' \in Seq(Line)
  BY <1>1, <1>2
<1>4. LogTypeOK' /\ CallingInv' /\ HandInv'
  BY <1>1, <1>2, <1>3 DEF LogTypeOK, CallingInv, HandInv
<1>5. PastInv'
  BY <1>1, <1>2, <1>3 DEF PastInv, Past
<1>6. QueueInv'
  <2>1. ASSUME NEW i \in DOMAIN logQueue', NEW j \in DOMAIN logQueue', i < j
        PROVE  Follows(logQueue'[j], logQueue'[i])
    BY <2>1, <1>2 DEF QueueInv
  <2>2. ASSUME NEW j \in DOMAIN logQueue'
        PROVE  Follows(logQueue'[j], logQueue[1])
    <3>1. 1 < j + 1 /\ j + 1 \in DOMAIN logQueue /\ logQueue'[j] = logQueue[j + 1] BY <1>2
    <3> QED BY <3>1, <1>2 DEF QueueInv
  <2>3. ASSUME NEW i \in DOMAIN printed, NEW j \in DOMAIN logQueue'
        PROVE  Follows(logQueue'[j], printed[i].line)
    BY <1>2 DEF QueueInv
  <2> QED BY <1>1, <1>3, <2>1, <2>2, <2>3 DEF QueueInv, Follows
<1>7. StampInv' /\ PrintInv'
  BY <1>1, <1>2, <1>3 DEF StampInv, PrintInv, QueueInv, Follows
<1> QED BY <1>4, <1>5, <1>6, <1>7

(* The line in hand is printed last, or the system stops without it.       *)
LEMMA PrintStep == ASSUME LogInv, LogPrint PROVE LogInv'
<1> USE DEF LogInv
<1> DEFINE entry == [line |-> inHand[1], time |-> Stamp(passed), when |-> passed]
<1>1. /\ inHand # <<>> /\ inHand' = <<>>
      /\ printed' = printed \/ printed' = Append(printed, entry)
      /\ panicked' \in BOOLEAN
      /\ UNCHANGED <<logReady, calling, calls, called, logQueue, passed>>
  BY DEF LogPrint, LogTypeOK
<1>2. inHand[1] \in Line /\ passed \in Nat /\ Past(inHand[1])
  BY <1>1, Lines DEF LogTypeOK, PastInv
<1>3. entry \in Entry /\ entry.line = inHand[1] /\ entry.when = passed
      /\ entry.time = Stamp(entry.when)
  <2>1. Stamp(passed) \in Nat BY <1>2, Stamps
  <2> QED BY <1>2, <2>1 DEF Entry
<1> HIDE DEF entry
<1>4. /\ printed' \in Seq(Entry) /\ Len(printed) \in Nat
      /\ \A i \in DOMAIN printed' : \/ i = Len(printed) + 1 /\ printed'[i] = entry
                                    \/ /\ i \in DOMAIN printed /\ i <= Len(printed)
                                       /\ printed'[i] = printed[i]
  BY <1>1, <1>3, MaybeLonger DEF LogTypeOK
<1>5. LogTypeOK' /\ CallingInv' /\ HandInv'
  <2>1. <<>> \in Seq(Line) OBVIOUS
  <2> QED BY <1>1, <1>4, <2>1 DEF LogTypeOK, CallingInv, HandInv
<1>6. PastInv'
  BY <1>1, <1>2, <1>3, <1>4 DEF PastInv, Past
<1>7. \A i \in DOMAIN printed : printed[i].line \in Line /\ printed[i].when \in Nat
                               /\ printed[i].when <= passed
  BY Lines DEF StampInv
<1>8. ASSUME NEW i \in DOMAIN printed', NEW j \in DOMAIN printed', i < j
      PROVE  /\ i \in DOMAIN printed /\ printed'[i] = printed[i]
             /\ \/ printed'[j] = entry
                \/ j \in DOMAIN printed /\ printed'[j] = printed[j]
  <2>1. i \in Nat /\ j \in Nat BY <1>4, Within
  <2> QED BY <1>4, <1>8, <2>1
<1>9. StampInv'
  <2>1. ASSUME NEW i \in DOMAIN printed'
        PROVE  /\ printed'[i].line.since <= printed'[i].when /\ printed'[i].when <= passed
               /\ printed'[i].time = Stamp(printed'[i].when)
    BY <1>2, <1>3, <1>4 DEF StampInv, Past
  <2>2. ASSUME NEW i \in DOMAIN printed', NEW j \in DOMAIN printed', i < j
        PROVE  printed'[i].when <= printed'[j].when
    BY <1>3, <1>7, <1>8, <2>2 DEF StampInv
  <2> QED BY <1>1, <2>1, <2>2 DEF StampInv
<1>10. QueueInv'
  BY <1>1, <1>3, <1>4 DEF QueueInv, Follows
<1>11. PrintInv'
  <2>1. ASSUME NEW i \in DOMAIN printed', NEW j \in DOMAIN printed', i < j
        PROVE  Follows(printed'[j].line, printed'[i].line)
    BY <2>1, <1>1, <1>3, <1>8 DEF PrintInv
  <2> QED BY <1>1, <2>1 DEF PrintInv, Follows
<1> QED BY <1>5, <1>6, <1>9, <1>10, <1>11

LEMMA StartStep == ASSUME LogInv, LogStart \/ UNCHANGED logVars PROVE LogInv'
<1>1. UNCHANGED <<calling, calls, called, logQueue, inHand, printed, passed, panicked>>
      /\ logReady' \in BOOLEAN
  BY DEF LogStart, logVars, LogInv, LogTypeOK
<1>2. LogTypeOK' /\ CallingInv' /\ HandInv' BY <1>1 DEF LogInv, LogTypeOK, CallingInv, HandInv
<1>3. PastInv' BY <1>1 DEF LogInv, PastInv, Past
<1>4. StampInv' /\ QueueInv' /\ PrintInv' BY <1>1 DEF LogInv, StampInv, QueueInv, PrintInv, Follows
<1> QED BY <1>2, <1>3, <1>4 DEF LogInv

(* Time passes. *)
LEMMA LogTickStep == ASSUME LogInv, LogTick PROVE LogInv'
<1>1. /\ UNCHANGED <<logReady, calling, calls, called, logQueue, inHand, printed, panicked>>
      /\ passed' = passed + 1 /\ passed \in Nat
  BY DEF LogTick, LogInv, LogTypeOK
<1>2. \A l \in Line : l.since <= passed => l.since <= passed'
  BY <1>1 DEF Line
<1>3. LogTypeOK' /\ CallingInv' /\ HandInv'
  BY <1>1, <1>2, Lines DEF LogInv, LogTypeOK, CallingInv, HandInv
<1>4. PastInv' BY <1>1, <1>2, Lines DEF LogInv, PastInv, Past
<1>5. StampInv'
  <2>1. \A i \in DOMAIN printed : printed[i].when \in Nat BY Lines DEF LogInv
  <2> QED BY <1>1, <2>1 DEF LogInv, StampInv
<1>6. QueueInv' /\ PrintInv' BY <1>1 DEF LogInv, QueueInv, PrintInv, Follows
<1> QED BY <1>3, <1>4, <1>5, <1>6 DEF LogInv

LEMMA LogInvStep == LogInv /\ [LogNext]_logVars => LogInv'
BY CallStep, SendStep, ReceiveStep, PrintStep, StartStep, LogTickStep DEF LogNext

(* logging.c: whatever the callers, the queue's length and the moments at  *)
(* which it is full, the printed lines are linearizable; and but for the   *)
(* wrap of the 32-bit uptime they are stamped in order.                    *)
THEOREM LogIsOrdered == LogSpec => []PrintedInOrder
<1>1. LogInv => PrintedInOrder
  <2> SUFFICES ASSUME LogInv PROVE PrintedInOrder
    OBVIOUS
  <2>1. ASSUME NEW i \in DOMAIN printed
        PROVE  \/ Stamp(printed[i].line.since) <= printed[i].time
               \/ WrapBetween(printed[i].line.since, printed[i].when)
    <3>1. printed[i].line.since \in Nat /\ printed[i].when \in Nat BY Lines DEF LogInv, Line
    <3>2. /\ printed[i].line.since <= printed[i].when
          /\ printed[i].time = Stamp(printed[i].when)
      BY DEF LogInv, StampInv
    <3> QED BY <3>1, <3>2, Stamps
  <2>2. ASSUME NEW i \in DOMAIN printed, NEW j \in DOMAIN printed, i < j
        PROVE  /\ printed[j].line.sent >= printed[i].line.at
               /\ printed[i].line.by = printed[j].line.by
                    => printed[i].line.nr < printed[j].line.nr
    <3>1. printed[i].line \in Line /\ printed[j].line \in Line BY Lines DEF LogInv
    <3> QED BY <2>2, <3>1 DEF LogInv, PrintInv, Follows, Line
  <2>3. ASSUME NEW i \in DOMAIN printed, NEW j \in DOMAIN printed, i < j
        PROVE  printed[i].time <= printed[j].time \/ WrapBetween(printed[i].when, printed[j].when)
    <3>1. printed[i].when \in Nat /\ printed[j].when \in Nat BY Lines DEF LogInv
    <3>2. /\ printed[i].when <= printed[j].when
          /\ printed[i].time = Stamp(printed[i].when) /\ printed[j].time = Stamp(printed[j].when)
      BY <2>3 DEF LogInv, StampInv
    <3> QED BY <3>1, <3>2, Stamps
  <2> QED BY <2>1, <2>2, <2>3 DEF PrintedInOrder
<1> QED BY <1>1, LogInvInit, LogInvStep, PTL DEF LogSpec
=============================================================================
