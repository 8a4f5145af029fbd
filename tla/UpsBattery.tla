----------------------------- MODULE UpsBattery -----------------------------
(***************************************************************************)
(* One UPS asset (hardware/ups_asset.py): the handlers the event loop runs *)
(* on it, its battery drain thread and its battery charge thread, and the  *)
(* state they share through redis (api/ups.py): the power status, the      *)
(* transfer reason (the UPS is on battery unless it is "noTransfer") and   *)
(* the battery level.                                                      *)
(*                                                                         *)
(* Only the event loop starts the threads, and each launch first joins the *)
(* thread of the opposite kind; nothing locks the shared values.  Each     *)
(* thread holds the charge in a float of its own and stores it in redis as *)
(* an int: the threads count steps of charge, Grain of them to one unit of *)
(* the stored level.  A power state change published by a thread or by a   *)
(* client comes back to the event loop as a power button event.            *)
(*                                                                         *)
(* Abstracted: voltages to three classes, brownout and blackout to         *)
(* "lasting", the two momentary sags to "momentary", load and remaining    *)
(* time, SNMP objects other than the transfer reason.                      *)
(*                                                                         *)
(* Operators marked FAULT are not part of the specification: each is the   *)
(* definition below it with a mistake, and shows which property would tell.*)
(***************************************************************************)
EXTENDS Integers, Sequences

CONSTANTS
  MaxBattery,      \* stored level of a full battery (battery_max_level)
  Grain,           \* steps of the threads' float per unit of the stored level
  MinRestore,      \* minPowerOnBatteryLevel
  MomentaryPeriod, \* drain steps before a momentary sag counts as an outage
  Volts,           \* classes of input voltage that may occur
  MaxPresses,      \* bound: power requests made by clients
  MaxPending,      \* bound: the input changes only while fewer events wait
  MayStop,         \* the engine may be stopped
  PromptEngine     \* the event loop outruns the threads' one-second period

Voltages == {"low", "normal", "high"}

ASSUME UpsAssumption ==
  /\ MaxBattery \in Nat \ {0} /\ Grain \in Nat \ {0}
  /\ MinRestore \in 0 .. MaxBattery - 1
  /\ MomentaryPeriod \in Nat \ {0}
  /\ Volts \subseteq Voltages /\ "normal" \in Volts
  /\ MaxPresses \in Nat /\ MaxPending \in Nat \ {0}
  /\ MayStop \in BOOLEAN /\ PromptEngine \in BOOLEAN

VARIABLES
  status,    \* redis :state
  reason,    \* the transfer reason
  battery,   \* redis :battery
  input,     \* class of the voltage of the last input event the UPS handled
  drain,     \* the drain thread: where it is, and its local variables
  charge,    \* the charge thread: where it is, and its local variables
  engine,    \* the event loop: where it is in a handler of this UPS
  pending,   \* published power states that have not reached the UPS yet
  presses,   \* power requests clients have made
  stopper    \* UPS.stop, run by the thread that stops the engine: where it is,
             \* and the battery threads it has yet to join

redisVars == <<status, reason, battery>>
threadVars == <<drain, charge>>
outsideVars == <<pending, presses, stopper>>
vars == <<redisVars, input, threadVars, engine, outsideVars>>

Reasons == {"noTransfer", "momentary", "lasting", "highLine"}
FullCharge == MaxBattery * Grain

OnBattery == reason # "noTransfer"
Stopping == stopper.pc # "running"

\* Thread.isAlive()
DrainAlive == drain.pc # "dead"
ChargeAlive == charge.pc # "dead"

\* What update_battery stores of a thread's float.
Stored(level) == level \div Grain

\* The transfer process_voltage asks for ("noTransfer": none is needed).
TransferFor(v) == IF v = "low" THEN "momentary"
                  ELSE IF v = "high" THEN "highLine" ELSE "noTransfer"

\* The thread t ends: who has captured it to join it stops waiting for it.
Ends(t) == stopper' = [stopper EXCEPT !.awaits = @ \ {t}]

\* _increase_transfer_severity has an effect on momentary reasons only.
Severer(r) == IF r = "momentary" THEN "lasting" ELSE r

Idle == [pc |-> "idle", reason |-> "noTransfer", restore |-> FALSE,
         resume |-> FALSE]

Init ==
  /\ status = 1 /\ reason = "noTransfer" /\ battery = MaxBattery
  /\ input = "normal"
  /\ drain = [pc |-> "dead", level |-> 0, ticks |-> 0]
  /\ charge = [pc |-> "dead", level |-> 0, restore |-> FALSE,
               powered |-> FALSE, old |-> 0]
  /\ engine = Idle
  /\ pending = <<>> /\ presses = 0
  /\ stopper = [pc |-> "running", awaits |-> {}]

-----------------------------------------------------------------------------
(* The event loop: UPS handlers and the launch of the battery threads.     *)

\* Entering _launch_battery_drain(t_reason): a live thread only gets the reason
\* updated.  The test of the thread and the update are not one step.
EnterDrainLaunch(r) ==
  engine' = [pc |-> IF DrainAlive THEN "renewReason" ELSE "setReason",
             reason |-> r, restore |-> FALSE, resume |-> FALSE]

\* FAULT: power_up_on_charge is not passed on.
EnterChargeWithoutRestore(restore, resume) ==
  engine' = [pc |-> IF ChargeAlive THEN "resume" ELSE "clearReason",
             reason |-> "noTransfer", restore |-> FALSE, resume |-> resume]

\* Entering _launch_battery_charge(power_up_on_charge), followed by power_up()
\* when the handler asks for it.
EnterChargeLaunch(restore, resume) ==
  engine' = [pc |-> IF ChargeAlive THEN "resume" ELSE "clearReason",
             reason |-> "noTransfer", restore |-> restore, resume |-> resume]

\* on_input_voltage_up
VoltageUp(v) ==
  /\ engine.pc = "idle" /\ Len(pending) < MaxPending
  /\ \/ v = input \/ input = "low" \/ v = "high"
  /\ \/ /\ v = "normal" /\ OnBattery
        /\ EnterChargeLaunch(battery = 0, battery # 0)
     \/ /\ v = "high"
        /\ EnterDrainLaunch("highLine")
     \/ /\ \/ v = "low"
           \/ v = "normal" /\ ~OnBattery
        /\ UNCHANGED engine
  /\ input' = v
  /\ UNCHANGED <<redisVars, threadVars, outsideVars>>

\* on_input_voltage_down
VoltageDown(v) ==
  /\ engine.pc = "idle" /\ Len(pending) < MaxPending
  /\ \/ v = input \/ input = "high" \/ v = "low"
  /\ LET transfer == v # "normal" /\ battery # 0
         back == ~transfer /\ reason = "highLine" /\ v # "high"
     IN  \/ /\ transfer
            /\ EnterDrainLaunch(TransferFor(v))
         \/ /\ back
            /\ EnterChargeLaunch(battery = 0, FALSE)
         \/ /\ ~transfer /\ ~back
            /\ UNCHANGED engine
  /\ input' = v
  /\ UNCHANGED <<redisVars, threadVars, outsideVars>>

\* set_redis_state_on_btn_press and on_power_button_press
PowerButton ==
  /\ engine.pc = "idle" /\ pending # <<>>
  /\ status' = Head(pending)
  /\ pending' = Tail(pending)
  /\ IF Head(pending) = 1 /\ OnBattery THEN EnterDrainLaunch(reason)
                                       ELSE UNCHANGED engine
  /\ UNCHANGED <<reason, battery, input, threadVars, presses, stopper>>

\* _launch_battery_drain, the drain thread already running: update the reason,
\* then read it back and raise it.
RenewReason ==
  /\ engine.pc = "renewReason"
  /\ reason' = engine.reason
  /\ engine' = [engine EXCEPT !.pc = "raiseReason"]
  /\ UNCHANGED <<status, battery, input, threadVars, outsideVars>>

RaiseReason ==
  /\ engine.pc = "raiseReason"
  /\ reason' = Severer(reason)
  /\ engine' = Idle
  /\ UNCHANGED <<status, battery, input, threadVars, outsideVars>>

\* _launch_battery_drain: set the reason, join the charge thread, start.
SetReason ==
  /\ engine.pc = "setReason"
  /\ reason' = engine.reason
  /\ engine' = [engine EXCEPT !.pc = "joinCharge"]
  /\ UNCHANGED <<status, battery, input, threadVars, outsideVars>>

\* FAULT: the charge thread is not joined.
StartDrainAtOnce ==
  /\ engine.pc = "joinCharge"
  /\ drain' = [drain EXCEPT !.pc = "begin"]
  /\ engine' = Idle
  /\ UNCHANGED <<redisVars, input, charge, outsideVars>>

StartDrain ==
  /\ engine.pc = "joinCharge" /\ ~ChargeAlive
  /\ drain' = [drain EXCEPT !.pc = "begin"]
  /\ engine' = Idle
  /\ UNCHANGED <<redisVars, input, charge, outsideVars>>

\* FAULT: the reason is not reset.
ClearNothing ==
  /\ engine.pc = "clearReason"
  /\ engine' = [engine EXCEPT !.pc = "joinDrain"]
  /\ UNCHANGED <<redisVars, input, threadVars, outsideVars>>

\* _launch_battery_charge: reset the reason, join the drain thread, start.
ClearReason ==
  /\ engine.pc = "clearReason"
  /\ reason' = "noTransfer"
  /\ engine' = [engine EXCEPT !.pc = "joinDrain"]
  /\ UNCHANGED <<status, battery, input, threadVars, outsideVars>>

\* FAULT: the drain thread is not joined.
StartChargeAtOnce ==
  /\ engine.pc = "joinDrain"
  /\ charge' = [charge EXCEPT !.pc = "begin", !.restore = engine.restore]
  /\ engine' = [engine EXCEPT !.pc = "resume"]
  /\ UNCHANGED <<redisVars, input, drain, outsideVars>>

StartCharge ==
  /\ engine.pc = "joinDrain" /\ ~DrainAlive
  /\ charge' = [charge EXCEPT !.pc = "begin", !.restore = engine.restore]
  /\ engine' = [engine EXCEPT !.pc = "resume"]
  /\ UNCHANGED <<redisVars, input, drain, outsideVars>>

\* power_up() called by on_input_voltage_up when the battery was not empty.
Resume ==
  /\ engine.pc = "resume"
  /\ status' = IF engine.resume /\ battery # 0 THEN 1 ELSE status
  /\ engine' = Idle
  /\ UNCHANGED <<reason, battery, input, threadVars, outsideVars>>

EngineMoves ==
  \/ PowerButton
  \/ RenewReason \/ RaiseReason \/ SetReason \/ StartDrain
  \/ ClearReason \/ StartCharge \/ Resume

\* The event loop has something to do that does not wait for a thread.
EngineIsDue ==
  \/ engine.pc = "idle" /\ pending # <<>>
  \/ engine.pc \notin {"idle", "joinDrain", "joinCharge"}

\* The stop event ends the wait of a battery thread at once.
ASecondPasses == PromptEngine => ~EngineIsDue \/ Stopping

-----------------------------------------------------------------------------
(* The drain thread, _drain_battery.                                       *)

\* FAULT: the thread goes on from the charge the last one had.
DrainBeginFromMemory ==
  /\ drain.pc = "begin"
  /\ drain' = [drain EXCEPT !.pc = "test", !.ticks = 0]
  /\ UNCHANGED <<redisVars, input, charge, engine, outsideVars>>

DrainBegin ==
  /\ drain.pc = "begin"
  /\ drain' = [pc |-> "test", level |-> battery * Grain, ticks |-> 0]
  /\ UNCHANGED <<redisVars, input, charge, engine, outsideVars>>

\* FAULT: stops at the last unit of charge.
DrainTestTooSoon ==
  /\ drain.pc = "test"
  /\ LET again == drain.level > Grain /\ status = 1 /\ OnBattery /\ ~Stopping
     IN  drain' = [drain EXCEPT !.pc = IF again THEN "tick" ELSE "kill"]
  /\ UNCHANGED <<redisVars, input, charge, engine, outsideVars>>

\* The condition of the loop.
DrainTest ==
  /\ drain.pc = "test"
  /\ LET again == drain.level > 0 /\ status = 1 /\ OnBattery /\ ~Stopping
     IN  drain' = [drain EXCEPT !.pc = IF again THEN "tick" ELSE "kill"]
  /\ UNCHANGED <<redisVars, input, charge, engine, outsideVars>>

\* Steps the drain thread has made with this one, not counted beyond the moment
\* at which the sag counts as an outage.
Passed == IF drain.ticks < MomentaryPeriod THEN drain.ticks + 1 ELSE drain.ticks
Outage == drain.ticks + 1 = MomentaryPeriod

\* FAULT: the new charge is stored, but not kept for the next step.
DrainTickForgets ==
  /\ drain.pc = "tick"
  /\ battery' = Stored(drain.level - 1)
  /\ drain' = [drain EXCEPT !.ticks = Passed,
                            !.pc = IF Outage THEN "readReason" ELSE "wait"]
  /\ UNCHANGED <<status, reason, input, charge, engine, outsideVars>>

\* One step of discharge; after MomentaryPeriod of them a sag is an outage.
DrainTick ==
  /\ drain.pc = "tick"
  /\ battery' = Stored(drain.level - 1)
  /\ drain' = [level |-> drain.level - 1, ticks |-> Passed,
               pc |-> IF Outage THEN "readReason" ELSE "wait"]
  /\ UNCHANGED <<status, reason, input, charge, engine, outsideVars>>

\* _increase_transfer_severity: read the reason ...
DrainReadReason ==
  /\ drain.pc = "readReason"
  /\ drain' = [drain EXCEPT !.pc = IF reason = "momentary" THEN "writeReason"
                                                         ELSE "wait"]
  /\ UNCHANGED <<redisVars, input, charge, engine, outsideVars>>

\* ... and write the severer one, whatever the reason is by now.
DrainWriteReason ==
  /\ drain.pc = "writeReason"
  /\ reason' = "lasting"
  /\ drain' = [drain EXCEPT !.pc = "wait"]
  /\ UNCHANGED <<status, battery, input, charge, engine, outsideVars>>

\* A second passes between two steps.
DrainWait ==
  /\ drain.pc = "wait" /\ ASecondPasses
  /\ drain' = [drain EXCEPT !.pc = "test"]
  /\ UNCHANGED <<redisVars, input, charge, engine, outsideVars>>

\* FAULT: the thread ends without taking the UPS down.
DrainKillNothing ==
  /\ drain.pc = "kill"
  /\ drain' = [drain EXCEPT !.pc = "ending"]
  /\ UNCHANGED <<redisVars, input, charge, engine, outsideVars>>

\* "kill the thing if still breathing"
DrainKill ==
  /\ drain.pc = "kill"
  /\ drain' = [drain EXCEPT !.pc = IF status = 1 /\ OnBattery THEN "publish"
                                                               ELSE "ending"]
  /\ UNCHANGED <<redisVars, input, charge, engine, outsideVars>>

DrainPublish ==
  /\ drain.pc = "publish"
  /\ pending' = Append(pending, 0)
  /\ drain' = [drain EXCEPT !.pc = "ending"]
  /\ UNCHANGED <<redisVars, input, charge, engine, presses, stopper>>

\* A thread with nothing left to do is alive until it has ended.
DrainEnd ==
  /\ drain.pc = "ending"
  /\ drain' = [drain EXCEPT !.pc = "dead"]
  /\ Ends("drain")
  /\ UNCHANGED <<redisVars, input, charge, engine, pending, presses>>

DrainMoves ==
  \/ DrainBegin \/ DrainTest \/ DrainTick \/ DrainReadReason
  \/ DrainWriteReason \/ DrainWait \/ DrainKill \/ DrainPublish \/ DrainEnd

-----------------------------------------------------------------------------
(* The charge thread, _charge_battery.                                     *)

ChargeBegin ==
  /\ charge.pc = "begin"
  /\ charge' = [charge EXCEPT !.pc = "test", !.level = battery * Grain,
                              !.powered = FALSE]
  /\ UNCHANGED <<redisVars, input, drain, engine, outsideVars>>

\* FAULT: charges one step beyond the full battery.
ChargeTestTooFar ==
  /\ charge.pc = "test"
  /\ LET again == charge.level <= FullCharge /\ ~OnBattery /\ ~Stopping
     IN  \/ /\ again
            /\ charge' = [charge EXCEPT !.pc = "tick"]
            /\ UNCHANGED stopper
         \/ /\ ~again
            /\ charge' = [charge EXCEPT !.pc = "dead"]
            /\ Ends("charge")
  /\ UNCHANGED <<redisVars, input, drain, engine, pending, presses>>

\* The condition of the loop.
ChargeTest ==
  /\ charge.pc = "test"
  /\ LET again == charge.level < FullCharge /\ ~OnBattery /\ ~Stopping
     IN  \/ /\ again
            /\ charge' = [charge EXCEPT !.pc = "tick"]
            /\ UNCHANGED stopper
         \/ /\ ~again
            /\ charge' = [charge EXCEPT !.pc = "dead"]
            /\ Ends("charge")
  /\ UNCHANGED <<redisVars, input, drain, engine, pending, presses>>

ChargeTick ==
  /\ charge.pc = "tick"
  /\ LET level == charge.level + 1
         restore == /\ charge.restore /\ ~charge.powered
                    /\ level > MinRestore * Grain
     IN  /\ battery' = Stored(level)
         /\ charge' = [charge EXCEPT !.level = level,
                                     !.pc = IF restore THEN "powerUp"
                                                       ELSE "wait"]
  /\ UNCHANGED <<status, reason, input, drain, engine, outsideVars>>

\* power_up(), then the status that is published is read again.
ChargePowerUp ==
  /\ charge.pc = "powerUp"
  /\ LET new == IF battery # 0 THEN 1 ELSE status
     IN  /\ status' = new
         /\ charge' = [charge EXCEPT !.pc = "publish", !.old = status,
                                     !.powered = (new = 1)]
  /\ UNCHANGED <<reason, battery, input, drain, engine, outsideVars>>

\* publish_power; the engine ignores an update that changes nothing.
ChargePublish ==
  /\ charge.pc = "publish"
  /\ pending' = IF status # charge.old THEN Append(pending, status) ELSE pending
  /\ charge' = [charge EXCEPT !.pc = "wait"]
  /\ UNCHANGED <<redisVars, input, drain, engine, presses, stopper>>

ChargeWait ==
  /\ charge.pc = "wait" /\ ASecondPasses
  /\ charge' = [charge EXCEPT !.pc = "test"]
  /\ UNCHANGED <<redisVars, input, drain, engine, outsideVars>>

ChargeMoves ==
  \/ ChargeBegin \/ ChargeTest \/ ChargeTick
  \/ ChargePowerUp \/ ChargePublish \/ ChargeWait

-----------------------------------------------------------------------------
(* Clients and the thread that stops the engine.                           *)

\* power_off and power_up of the state manager a client uses: they publish.
PressOff ==
  /\ presses < MaxPresses /\ status = 1
  /\ presses' = presses + 1
  /\ pending' = Append(pending, 0)
  /\ UNCHANGED <<redisVars, input, threadVars, engine, stopper>>

PressOn ==
  /\ presses < MaxPresses /\ status = 0 /\ battery # 0
  /\ presses' = presses + 1
  /\ pending' = Append(pending, 1)
  /\ UNCHANGED <<redisVars, input, threadVars, engine, stopper>>

\* FAULT: the drain thread is forgotten.
StopSetJoinsCharge ==
  /\ MayStop /\ stopper.pc = "running"
  /\ stopper' = [pc |-> "joining",
                 awaits |-> IF ChargeAlive THEN {"charge"} ELSE {}]
  /\ UNCHANGED <<redisVars, input, threadVars, engine, pending, presses>>

\* UPS.stop: raise the stop event, then join the threads that are alive by then.
StopSet ==
  /\ MayStop /\ stopper.pc = "running"
  /\ stopper' = [pc |-> "joining",
                 awaits |-> (IF DrainAlive THEN {"drain"} ELSE {})
                            \cup (IF ChargeAlive THEN {"charge"} ELSE {})]
  /\ UNCHANGED <<redisVars, input, threadVars, engine, pending, presses>>

StopJoined ==
  /\ stopper.pc = "joining" /\ stopper.awaits = {}
  /\ stopper' = [stopper EXCEPT !.pc = "stopped"]
  /\ UNCHANGED <<redisVars, input, threadVars, engine, pending, presses>>

Next ==
  \/ \E v \in Volts : VoltageUp(v) \/ VoltageDown(v)
  \/ EngineMoves \/ DrainMoves \/ ChargeMoves
  \/ PressOff \/ PressOn
  \/ StopSet \/ StopJoined

\* Threads and the event loop are scheduled; iterations are first-in first-out,
\* so no flood of input events keeps a button event waiting; a second passes
\* however busy the event loop is.  The input, the clients and the decision to
\* stop the engine are free.
Fairness ==
  /\ WF_vars(EngineMoves) /\ WF_vars(DrainMoves) /\ WF_vars(ChargeMoves)
  /\ SF_vars(PowerButton) /\ SF_vars(DrainWait) /\ SF_vars(ChargeWait)
  /\ WF_vars(StopJoined)

Spec == Init /\ [][Next]_vars /\ Fairness

-----------------------------------------------------------------------------
(* Properties.                                                             *)

DrainPCs == {"dead", "begin", "test", "tick", "readReason", "writeReason",
             "wait", "kill", "publish", "ending"}
ChargePCs == {"dead", "begin", "test", "tick", "powerUp", "publish",
              "wait"}
EnginePCs == {"idle", "renewReason", "raiseReason", "setReason", "joinCharge",
              "clearReason", "joinDrain", "resume"}

\* Every variable holds a value of its kind; a charge is between empty and full.
TypeOK ==
  /\ status \in {0, 1} /\ reason \in Reasons /\ battery \in 0 .. MaxBattery
  /\ input \in Voltages
  /\ drain \in [pc : DrainPCs, level : 0 .. FullCharge,
                ticks : 0 .. MomentaryPeriod]
  /\ charge \in [pc : ChargePCs, level : 0 .. FullCharge, restore : BOOLEAN,
                 powered : BOOLEAN, old : {0, 1}]
  /\ engine \in [pc : EnginePCs, reason : Reasons, restore : BOOLEAN,
                 resume : BOOLEAN]
  /\ pending \in Seq({0, 1}) /\ presses \in 0 .. MaxPresses
  /\ stopper \in [pc : {"running", "joining", "stopped"},
                  awaits : SUBSET {"drain", "charge"}]

\* "wait for other thread to finish" (:242, :270): the battery is never drained
\* and charged at the same time, whatever the order of input changes, button
\* presses and thread steps.
OneThread == ~(DrainAlive /\ ChargeAlive)

\* A running thread's own charge and the stored level agree: no update of
\* another thread or of an earlier launch is lost or comes late.
StoredLevelIsCurrent ==
  /\ drain.pc \notin {"dead", "begin"} => battery = Stored(drain.level)
  /\ charge.pc \notin {"dead", "begin"} => battery = Stored(charge.level)

\* Between two events a UPS that is not on battery has no drain thread left, one
\* that waits for its period to end included (the join before charging).
NoDrainOnLine == engine.pc = "idle" /\ ~OnBattery => ~DrainAlive

\* Once UPS.stop has returned the battery level does not change any more: a
\* thread the event loop starts after that finds the stop event raised.
StoppedBatteryIsStill == [][stopper.pc = "stopped" => UNCHANGED battery]_vars

\* The event loop never waits for a battery thread for ever.
JoinReturns == engine.pc \in {"joinCharge", "joinDrain"} ~> engine.pc = "idle"

\* A UPS that stays on battery goes offline some day, and stays so: the battery
\* drains, and when it is empty the UPS goes down (power_ups.feature:12).
RunsOut == <>[]OnBattery => <>[](status = 0)

\* A UPS whose input is and stays within the thresholds goes back online, and
\* stays online ("it goes back online when power source is restored",
\* features/power_ups.feature:13).
Recovers == <>[](input = "normal") => <>[](status = 1)

\* Between two events a UPS whose input is within the thresholds is not on
\* battery ("drains battery when upstream power becomes unavailable, charges
\* battery when upstream power is restored", ups_asset.py:30).
BackOnInput == engine.pc = "idle" /\ input = "normal" => ~OnBattery

\* The drain thread takes the UPS down when its charge has hit zero, not before
\* (features/power_ups.feature:12).
OfflineWhenEmpty == drain.pc = "publish" => battery = 0
=============================================================================
