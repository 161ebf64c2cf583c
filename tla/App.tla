-------------------------------- MODULE App --------------------------------
(***************************************************************************)
(* The demonstration firmware (app/main.c, app/telemetry.c): app_task      *)
(* brings up Wi-Fi, waits for the clock, creates the client and starts the *)
(* telemetry task, which dates its documents with MongoTime's clock.       *)
(* (MongoClient models what the two tasks do to the client.)               *)
(***************************************************************************)
EXTENDS MongoTime

CONSTANTS Telemetry   \* the telemetry task, a reader of the clock

AppAssumption == Telemetry \in Readers
ASSUME AppAssumption

VARIABLES
  appPc,     \* app_task
  telPc,     \* telemetry_task
  inserted   \* the ts of the document last inserted, and when it was read

appVars == <<appPc, telPc, inserted>>

NoDocument == [Nothing EXCEPT !.at = -1]
AppInit == TimeInit /\ appPc = "wifi" /\ telPc = "none" /\ inserted = NoDocument

(* mongo_wifi_connect: on failure the task sleeps for ever. *)
Wifi == /\ appPc = "wifi" /\ appPc' \in {"sync", "stuck"}
        /\ UNCHANGED <<timeVars, telPc, inserted>>

(* mongo_time_sync; whatever it returns, the task goes on. *)
Sync == /\ appPc = "sync" /\ SyncStep
        /\ appPc' = IF syncPc' = "wait" THEN "sync" ELSE "client"
        /\ UNCHANGED <<telPc, inserted>>

(* mongo_client_new, then the two tasks; a task that cannot be created     *)
(* panics.                                                                 *)
NewClient == /\ appPc = "client" /\ appPc' \in {"start", "stuck"}
             /\ UNCHANGED <<timeVars, telPc, inserted>>
StartTasks == /\ appPc = "start"
              /\ \/ appPc' = "sleep" /\ telPc' = "gate"
                 \/ appPc' = "panic" /\ telPc' \in {telPc, "gate"}
              /\ UNCHANGED <<timeVars, inserted>>

(* The telemetry loop: no document without a clock. *)
OpenGate == TRUE  \* mutant: is_synced is not asked
Gate == synced
TelemetryGate ==
  /\ telPc = "gate" /\ Gate
  /\ telPc' = "now" /\ UNCHANGED <<timeVars, appPc, inserted>>
TelemetryNow ==
  /\ telPc = "now" /\ NowStep(Telemetry)
  /\ telPc' = IF reader'[Telemetry].pc = "idle" THEN "insert" ELSE "now"
  /\ UNCHANGED <<appPc, inserted>>
TelemetryInsert ==
  /\ telPc = "insert"
  /\ inserted' = told[Telemetry] /\ telPc' = "gate"
  /\ UNCHANGED <<timeVars, appPc>>

AppNext ==
  /\ appPc # "panic"
  /\ \/ Wifi \/ Sync \/ NewClient \/ StartTasks
     \/ TelemetryGate \/ TelemetryNow \/ TelemetryInsert
     \/ ((Tick \/ SntpStep) /\ UNCHANGED appVars)
-----------------------------------------------------------------------------
(* Every document carries a time: never the 0 that now_ms returns without  *)
(* a clock, however late the first SNTP reply, and never a time ahead of   *)
(* the true one.                                                           *)
DocumentsDated ==
  inserted # NoDocument => inserted.time \in 1..(Epoch + inserted.at)
=============================================================================
