-------------------------- MODULE UpsBatteryProofs --------------------------
(***************************************************************************)
(* Proofs about UpsBattery for every battery size, grain, sag period and   *)
(* input, with any number of button presses, and with stop() or without;   *)
(* the last two theorems name what they need in addition.                  *)
(***************************************************************************)
EXTENDS UpsBattery, TLAPS

(* A handler has looked at the threads before it goes on: while it starts  *)
(* one, the other kind is dead or being joined, and its own kind is dead.  *)
LaunchView ==
  /\ engine.pc \in {"setReason", "joinCharge"} => ~DrainAlive
  /\ engine.pc \in {"clearReason", "joinDrain"} => ~ChargeAlive
  /\ engine.pc \in {"setReason", "renewReason"} => engine.reason # "noTransfer"
  /\ engine.pc = "joinCharge" => OnBattery

(* Off battery, the only drain thread is one that is being joined.         *)
DrainIsJoined == ~OnBattery /\ engine.pc # "joinDrain" => ~DrainAlive

(* A thread about to make a step has a charge that allows it.              *)
StepsAreLegal ==
  /\ drain.pc = "tick" => drain.level > 0
  /\ charge.pc = "tick" => charge.level < FullCharge

(* A step still to be made after the stop event is one stop() waits for.   *)
StepsAreAwaited ==
  /\ Stopping /\ drain.pc = "tick" => "drain" \in stopper.awaits
  /\ Stopping /\ charge.pc = "tick" => "charge" \in stopper.awaits
  /\ stopper.pc = "stopped" => stopper.awaits = {}

UInv ==
  /\ TypeOK
  /\ OneThread
  /\ LaunchView
  /\ DrainIsJoined
  /\ StepsAreLegal
  /\ StoredLevelIsCurrent
  /\ StepsAreAwaited

(* What is stored of a float between empty and full is a battery level.    *)
LEMMA StoredType ==
  ASSUME NEW level \in 0 .. FullCharge
  PROVE  Stored(level) \in 0 .. MaxBattery
<1>1. MaxBattery \in Nat /\ Grain \in Nat \ {0}
  BY UpsAssumption DEF UpsAssumption
<1>2. QED BY <1>1, SMTT(30) DEF FullCharge, Stored

(* A thread that reads the stored level back has what is stored.           *)
LEMMA StoredExactly ==
  ASSUME NEW b \in 0 .. MaxBattery
  PROVE  b * Grain \in 0 .. FullCharge /\ Stored(b * Grain) = b
<1>1. MaxBattery \in Nat /\ Grain \in Nat \ {0}
  BY UpsAssumption DEF UpsAssumption
<1>2. QED BY <1>1, SMTT(30) DEF FullCharge, Stored

(* A full battery can be counted.                                          *)
LEMMA FullChargeType == FullCharge \in Nat \ {0}
<1>1. MaxBattery \in Nat \ {0} /\ Grain \in Nat \ {0}
  BY UpsAssumption DEF UpsAssumption
<1>2. QED BY <1>1, SMTT(30) DEF FullCharge

(* The power-up states with which UPS.__init__ begins.                     *)
LEMMA InitUInv == Init => UInv
<1> SUFFICES ASSUME Init PROVE UInv
  OBVIOUS
<1>1. FullCharge \in Nat /\ MaxBattery \in Nat /\ MomentaryPeriod \in Nat
      /\ MaxPresses \in Nat
  BY UpsAssumption, FullChargeType DEF UpsAssumption
<1>2. TypeOK
  BY <1>1 DEF Init, TypeOK, Idle, Reasons, Voltages, DrainPCs, ChargePCs,
              EnginePCs
<1>3. QED
  BY <1>2 DEF Init, UInv, Idle, OneThread, LaunchView, DrainIsJoined,
              StepsAreLegal, StoredLevelIsCurrent, StepsAreAwaited,
              DrainAlive, ChargeAlive, OnBattery, Stopping

(* The event loop, idle, enters a handler that may launch a thread: every  *)
(* other variable of the invariant but the status stays as it is.          *)
LEMMA Enter ==
  ASSUME UInv, engine.pc = "idle",
         \/ UNCHANGED engine
         \/ \E r \in Reasons \ {"noTransfer"} : EnterDrainLaunch(r)
         \/ \E restore, resume \in BOOLEAN : EnterChargeLaunch(restore, resume),
         UNCHANGED <<reason, battery, threadVars, presses, stopper>>,
         status' \in {0, 1}, input' \in Voltages, pending' \in Seq({0, 1})
  PROVE  UInv'
<1>1. engine' \in [pc : EnginePCs, reason : Reasons, restore : BOOLEAN,
                   resume : BOOLEAN]
  <2>1. CASE UNCHANGED engine
    BY <2>1 DEF UInv, TypeOK
  <2>2. CASE \E r \in Reasons \ {"noTransfer"} : EnterDrainLaunch(r)
    BY <2>2 DEF EnterDrainLaunch, EnginePCs
  <2>3. CASE \E restore, resume \in BOOLEAN : EnterChargeLaunch(restore, resume)
    <3>1. PICK restore, resume \in BOOLEAN :
            engine' = [pc |-> IF ChargeAlive THEN "resume" ELSE "clearReason",
                       reason |-> "noTransfer", restore |-> restore,
                       resume |-> resume]
      BY <2>3 DEF EnterChargeLaunch
    <3>2. QED BY <3>1 DEF EnginePCs, Reasons
  <2>4. QED BY <2>1, <2>2, <2>3
<1>2. TypeOK'
  BY <1>1 DEF UInv, TypeOK, threadVars
<1>3. LaunchView'
  BY DEF UInv, LaunchView, EnterDrainLaunch, EnterChargeLaunch, threadVars,
         OnBattery, DrainAlive, ChargeAlive
<1>4. DrainIsJoined'
  BY DEF UInv, DrainIsJoined, threadVars, OnBattery, DrainAlive
<1>5. OneThread' /\ StepsAreLegal' /\ StoredLevelIsCurrent' /\ StepsAreAwaited'
  BY DEF UInv, OneThread, StepsAreLegal, StoredLevelIsCurrent, StepsAreAwaited,
         DrainAlive, ChargeAlive, Stopping, threadVars
<1>6. QED BY <1>2, <1>3, <1>4, <1>5 DEF UInv

(* Every handler of the UPS is such an entry.                              *)
LEMMA HandlerStep ==
  ASSUME UInv,
         \/ \E v \in Volts : VoltageUp(v) \/ VoltageDown(v)
         \/ PowerButton
  PROVE  UInv'
<1>1. Volts \subseteq Voltages
  BY UpsAssumption DEF UpsAssumption
<1>2. status \in {0, 1} /\ reason \in Reasons /\ pending \in Seq({0, 1})
  BY DEF UInv, TypeOK
<1>3. ASSUME NEW v \in Volts, VoltageUp(v)
      PROVE  UInv'
  <2>1. \/ UNCHANGED engine
        \/ EnterDrainLaunch("highLine")
        \/ EnterChargeLaunch(battery = 0, battery # 0)
    BY <1>3 DEF VoltageUp
  <2>2. "highLine" \in Reasons \ {"noTransfer"}
    BY DEF Reasons
  <2>3. QED
    BY <1>1, <1>2, <1>3, <2>1, <2>2, Enter
       DEF VoltageUp, redisVars, outsideVars
<1>4. ASSUME NEW v \in Volts, VoltageDown(v)
      PROVE  UInv'
  <2>1. \/ UNCHANGED engine
        \/ v # "normal" /\ EnterDrainLaunch(TransferFor(v))
        \/ EnterChargeLaunch(battery = 0, FALSE)
    BY <1>4 DEF VoltageDown
  <2>2. v # "normal" => TransferFor(v) \in Reasons \ {"noTransfer"}
    BY <1>1 DEF TransferFor, Reasons, Voltages
  <2>3. QED
    BY <1>1, <1>2, <1>4, <2>1, <2>2, Enter
       DEF VoltageDown, redisVars, outsideVars
<1>5. CASE PowerButton
  <2>1. Head(pending) \in {0, 1} /\ Tail(pending) \in Seq({0, 1})
    BY <1>2, <1>5 DEF PowerButton
  <2>2. UNCHANGED engine \/ (reason # "noTransfer" /\ EnterDrainLaunch(reason))
    BY <1>5 DEF PowerButton, OnBattery
  <2>3. input' \in Voltages
    BY <1>5 DEF PowerButton, UInv, TypeOK
  <2>4. QED BY <1>2, <1>5, <2>1, <2>2, <2>3, Enter DEF PowerButton
<1>6. QED BY <1>3, <1>4, <1>5

(* The statements of the two launches, and power_up().                     *)
LEMMA EngineStep ==
  ASSUME UInv,
         \/ RenewReason \/ RaiseReason \/ SetReason \/ StartDrain
         \/ ClearReason \/ StartCharge \/ Resume
  PROVE  UInv'
<1>0. /\ engine \in [pc : EnginePCs, reason : Reasons, restore : BOOLEAN,
                     resume : BOOLEAN]
      /\ drain \in [pc : DrainPCs, level : 0 .. FullCharge,
                    ticks : 0 .. MomentaryPeriod]
      /\ charge \in [pc : ChargePCs, level : 0 .. FullCharge,
                     restore : BOOLEAN, powered : BOOLEAN, old : {0, 1}]
      /\ reason \in Reasons
  BY DEF UInv, TypeOK
<1>1. CASE RenewReason
  BY <1>0, <1>1
     DEF UInv, RenewReason, TypeOK, EnginePCs, OneThread, LaunchView,
         DrainIsJoined, StepsAreLegal, StoredLevelIsCurrent, StepsAreAwaited,
         DrainAlive, ChargeAlive, OnBattery, Stopping, threadVars, outsideVars
<1>2. CASE RaiseReason
  BY <1>0, <1>2
     DEF UInv, RaiseReason, Severer, Idle, TypeOK, EnginePCs, Reasons,
         OneThread, LaunchView, DrainIsJoined, StepsAreLegal,
         StoredLevelIsCurrent, StepsAreAwaited, DrainAlive, ChargeAlive,
         OnBattery, Stopping, threadVars, outsideVars
<1>3. CASE SetReason
  BY <1>0, <1>3
     DEF UInv, SetReason, TypeOK, EnginePCs, OneThread, LaunchView,
         DrainIsJoined, StepsAreLegal, StoredLevelIsCurrent, StepsAreAwaited,
         DrainAlive, ChargeAlive, OnBattery, Stopping, threadVars, outsideVars
<1>4. CASE StartDrain
  BY <1>0, <1>4
     DEF UInv, StartDrain, Idle, TypeOK, EnginePCs, DrainPCs, Reasons,
         OneThread, LaunchView, DrainIsJoined, StepsAreLegal,
         StoredLevelIsCurrent, StepsAreAwaited, DrainAlive, ChargeAlive,
         OnBattery, Stopping, redisVars, outsideVars
<1>5. CASE ClearReason
  BY <1>0, <1>5
     DEF UInv, ClearReason, TypeOK, EnginePCs, Reasons, OneThread, LaunchView,
         DrainIsJoined, StepsAreLegal, StoredLevelIsCurrent, StepsAreAwaited,
         DrainAlive, ChargeAlive, OnBattery, Stopping, threadVars, outsideVars
<1>6. CASE StartCharge
  BY <1>0, <1>6
     DEF UInv, StartCharge, TypeOK, EnginePCs, ChargePCs, OneThread,
         LaunchView, DrainIsJoined, StepsAreLegal, StoredLevelIsCurrent,
         StepsAreAwaited, DrainAlive, ChargeAlive, OnBattery, Stopping,
         redisVars, outsideVars
<1>7. CASE Resume
  BY <1>0, <1>7
     DEF UInv, Resume, Idle, TypeOK, EnginePCs, Reasons, OneThread, LaunchView,
         DrainIsJoined, StepsAreLegal, StoredLevelIsCurrent, StepsAreAwaited,
         DrainAlive, ChargeAlive, OnBattery, Stopping, threadVars, outsideVars
<1>8. QED BY <1>1, <1>2, <1>3, <1>4, <1>5, <1>6, <1>7

(* The drain thread.                                                       *)
LEMMA DrainStep ==
  ASSUME UInv, DrainMoves
  PROVE  UInv'
<1>0. /\ drain \in [pc : DrainPCs, level : 0 .. FullCharge,
                    ticks : 0 .. MomentaryPeriod]
      /\ stopper \in [pc : {"running", "joining", "stopped"},
                      awaits : SUBSET {"drain", "charge"}]
      /\ battery \in 0 .. MaxBattery /\ pending \in Seq({0, 1})
      /\ FullCharge \in Nat /\ MomentaryPeriod \in Nat \ {0}
  BY UpsAssumption, FullChargeType DEF UInv, TypeOK, UpsAssumption
<1>1. CASE DrainBegin
  <2>1. battery * Grain \in 0 .. FullCharge /\ Stored(battery * Grain) = battery
    BY <1>0, StoredExactly
  <2>2. QED
    BY <1>0, <1>1, <2>1
       DEF UInv, DrainBegin, TypeOK, DrainPCs, OneThread, LaunchView,
           DrainIsJoined, StepsAreLegal, StoredLevelIsCurrent, StepsAreAwaited,
           DrainAlive, ChargeAlive, OnBattery, Stopping, redisVars, outsideVars
<1>2. CASE DrainTest
  BY <1>0, <1>2
     DEF UInv, DrainTest, TypeOK, DrainPCs, OneThread, LaunchView,
         DrainIsJoined, StepsAreLegal, StoredLevelIsCurrent, StepsAreAwaited,
         DrainAlive, ChargeAlive, OnBattery, Stopping, redisVars, outsideVars
<1>3. CASE DrainTick
  <2>1. drain.level > 0 /\ drain.level - 1 \in 0 .. FullCharge
    BY <1>0, <1>3 DEF DrainTick, UInv, StepsAreLegal
  <2>2. Stored(drain.level - 1) \in 0 .. MaxBattery
    BY <2>1, StoredType
  <2>3. Passed \in 0 .. MomentaryPeriod
    BY <1>0 DEF Passed
  <2>4. charge.pc = "dead"
    BY <1>3 DEF DrainTick, UInv, OneThread, DrainAlive, ChargeAlive
  <2>5. QED
    BY <1>0, <1>3, <2>1, <2>2, <2>3, <2>4
       DEF UInv, DrainTick, TypeOK, DrainPCs, OneThread, LaunchView,
           DrainIsJoined, StepsAreLegal, StoredLevelIsCurrent, StepsAreAwaited,
           DrainAlive, ChargeAlive, OnBattery, Stopping, outsideVars
<1>4. CASE DrainReadReason \/ DrainWait
  BY <1>0, <1>4
     DEF UInv, DrainReadReason, DrainWait, TypeOK, DrainPCs, OneThread,
         LaunchView, DrainIsJoined, StepsAreLegal, StoredLevelIsCurrent,
         StepsAreAwaited, DrainAlive, ChargeAlive, OnBattery, Stopping,
         redisVars, outsideVars
<1>5. CASE DrainWriteReason
  BY <1>0, <1>5
     DEF UInv, DrainWriteReason, TypeOK, DrainPCs, Reasons, OneThread,
         LaunchView, DrainIsJoined, StepsAreLegal, StoredLevelIsCurrent,
         StepsAreAwaited, DrainAlive, ChargeAlive, OnBattery, Stopping,
         outsideVars
<1>6. CASE DrainKill
  BY <1>0, <1>6
     DEF UInv, DrainKill, TypeOK, DrainPCs, OneThread, LaunchView,
         DrainIsJoined, StepsAreLegal, StoredLevelIsCurrent, StepsAreAwaited,
         DrainAlive, ChargeAlive, OnBattery, Stopping, redisVars, outsideVars
<1>7. CASE DrainPublish
  BY <1>0, <1>7
     DEF UInv, DrainPublish, TypeOK, DrainPCs, OneThread, LaunchView,
         DrainIsJoined, StepsAreLegal, StoredLevelIsCurrent, StepsAreAwaited,
         DrainAlive, ChargeAlive, OnBattery, Stopping, redisVars
<1>8. CASE DrainEnd
  BY <1>0, <1>8
     DEF UInv, DrainEnd, Ends, TypeOK, DrainPCs, OneThread, LaunchView,
         DrainIsJoined, StepsAreLegal, StoredLevelIsCurrent, StepsAreAwaited,
         DrainAlive, ChargeAlive, OnBattery, Stopping, redisVars
<1>9. QED
  BY <1>1, <1>2, <1>3, <1>4, <1>5, <1>6, <1>7, <1>8 DEF DrainMoves

(* The charge thread.                                                      *)
LEMMA ChargeStep ==
  ASSUME UInv, ChargeMoves
  PROVE  UInv'
<1>0. /\ charge \in [pc : ChargePCs, level : 0 .. FullCharge,
                     restore : BOOLEAN, powered : BOOLEAN, old : {0, 1}]
      /\ stopper \in [pc : {"running", "joining", "stopped"},
                      awaits : SUBSET {"drain", "charge"}]
      /\ battery \in 0 .. MaxBattery /\ pending \in Seq({0, 1})
      /\ status \in {0, 1} /\ FullCharge \in Nat
  BY FullChargeType DEF UInv, TypeOK
<1>1. CASE ChargeBegin
  <2>1. battery * Grain \in 0 .. FullCharge /\ Stored(battery * Grain) = battery
    BY <1>0, StoredExactly
  <2>2. QED
    BY <1>0, <1>1, <2>1
       DEF UInv, ChargeBegin, TypeOK, ChargePCs, OneThread, LaunchView,
           DrainIsJoined, StepsAreLegal, StoredLevelIsCurrent, StepsAreAwaited,
           DrainAlive, ChargeAlive, OnBattery, Stopping, redisVars, outsideVars
<1>2. CASE ChargeTest
  BY <1>0, <1>2
     DEF UInv, ChargeTest, Ends, TypeOK, ChargePCs, OneThread, LaunchView,
         DrainIsJoined, StepsAreLegal, StoredLevelIsCurrent, StepsAreAwaited,
         DrainAlive, ChargeAlive, OnBattery, Stopping, redisVars
<1>3. CASE ChargeTick
  <2>1. charge.level + 1 \in 0 .. FullCharge
    BY <1>0, <1>3 DEF ChargeTick, UInv, StepsAreLegal
  <2>2. Stored(charge.level + 1) \in 0 .. MaxBattery
    BY <2>1, StoredType
  <2>3. drain.pc = "dead"
    BY <1>3 DEF ChargeTick, UInv, OneThread, DrainAlive, ChargeAlive
  <2>4. QED
    BY <1>0, <1>3, <2>1, <2>2, <2>3
       DEF UInv, ChargeTick, TypeOK, ChargePCs, OneThread, LaunchView,
           DrainIsJoined, StepsAreLegal, StoredLevelIsCurrent, StepsAreAwaited,
           DrainAlive, ChargeAlive, OnBattery, Stopping, outsideVars
<1>4. CASE ChargePowerUp
  BY <1>0, <1>4
     DEF UInv, ChargePowerUp, TypeOK, ChargePCs, OneThread, LaunchView,
         DrainIsJoined, StepsAreLegal, StoredLevelIsCurrent, StepsAreAwaited,
         DrainAlive, ChargeAlive, OnBattery, Stopping, outsideVars
<1>5. CASE ChargePublish
  BY <1>0, <1>5
     DEF UInv, ChargePublish, TypeOK, ChargePCs, OneThread, LaunchView,
         DrainIsJoined, StepsAreLegal, StoredLevelIsCurrent, StepsAreAwaited,
         DrainAlive, ChargeAlive, OnBattery, Stopping, redisVars
<1>6. CASE ChargeWait
  BY <1>0, <1>6
     DEF UInv, ChargeWait, TypeOK, ChargePCs, OneThread, LaunchView,
         DrainIsJoined, StepsAreLegal, StoredLevelIsCurrent, StepsAreAwaited,
         DrainAlive, ChargeAlive, OnBattery, Stopping, redisVars, outsideVars
<1>7. QED
  BY <1>1, <1>2, <1>3, <1>4, <1>5, <1>6 DEF ChargeMoves

(* Clients, and the thread that stops the engine.                          *)
LEMMA OutsideStep ==
  ASSUME UInv, PressOff \/ PressOn \/ StopSet \/ StopJoined
  PROVE  UInv'
<1>0. /\ pending \in Seq({0, 1}) /\ presses \in 0 .. MaxPresses
      /\ MaxPresses \in Nat
      /\ stopper \in [pc : {"running", "joining", "stopped"},
                      awaits : SUBSET {"drain", "charge"}]
  BY UpsAssumption DEF UInv, TypeOK, UpsAssumption
<1>1. CASE PressOff \/ PressOn
  <2>1. /\ presses' \in 0 .. MaxPresses /\ pending' \in Seq({0, 1})
        /\ UNCHANGED <<redisVars, input, threadVars, engine, stopper>>
    BY <1>0, <1>1 DEF PressOff, PressOn
  <2>2. QED
    BY <2>1
       DEF UInv, TypeOK, OneThread, LaunchView, DrainIsJoined, StepsAreLegal,
           StoredLevelIsCurrent, StepsAreAwaited, DrainAlive, ChargeAlive,
           OnBattery, Stopping, redisVars, threadVars
<1>2. CASE StopSet
  BY <1>0, <1>2
     DEF UInv, StopSet, TypeOK, OneThread, LaunchView, DrainIsJoined,
         StepsAreLegal, StoredLevelIsCurrent, StepsAreAwaited, DrainAlive,
         ChargeAlive, OnBattery, Stopping, redisVars, threadVars
<1>3. CASE StopJoined
  BY <1>0, <1>3
     DEF UInv, StopJoined, TypeOK, OneThread, LaunchView, DrainIsJoined,
         StepsAreLegal, StoredLevelIsCurrent, StepsAreAwaited, DrainAlive,
         ChargeAlive, OnBattery, Stopping, redisVars, threadVars
<1>4. QED BY <1>1, <1>2, <1>3

(* The invariant holds of every step, of whichever actor.                  *)
LEMMA NextUInv == UInv /\ [Next]_vars => UInv'
<1> SUFFICES ASSUME UInv, [Next]_vars
             PROVE  UInv'
  OBVIOUS
<1>1. CASE UNCHANGED vars
  BY <1>1
     DEF UInv, TypeOK, OneThread, LaunchView, DrainIsJoined, StepsAreLegal,
         StoredLevelIsCurrent, StepsAreAwaited, DrainAlive, ChargeAlive,
         OnBattery, Stopping, vars, redisVars, threadVars, outsideVars
<1>2. CASE Next
  BY <1>2, HandlerStep, EngineStep, DrainStep, ChargeStep, OutsideStep
     DEF Next, EngineMoves
<1>3. QED BY <1>1, <1>2

(* UInv is an invariant of the specification.                              *)
LEMMA UpsInvariant == Spec => []UInv
BY InitUInv, NextUInv, PTL DEF Spec

(* Every variable holds a value of its kind, and a charge is between empty *)
(* and full: neither thread makes a step beyond what its own test allowed. *)
THEOREM UpsTypeCorrect == Spec => []TypeOK
<1>1. UInv => TypeOK
  BY DEF UInv
<1>2. QED BY <1>1, UpsInvariant, PTL

(* _launch_battery_drain and _launch_battery_charge never leave the drain  *)
(* and the charge thread running at the same time.                         *)
THEOREM NeverBothThreads == Spec => []OneThread
<1>1. UInv => OneThread
  BY DEF UInv
<1>2. QED BY <1>1, UpsInvariant, PTL

(* The battery level in redis is the one the running thread counts with.   *)
THEOREM LevelIsCurrent == Spec => []StoredLevelIsCurrent
<1>1. UInv => StoredLevelIsCurrent
  BY DEF UInv
<1>2. QED BY <1>1, UpsInvariant, PTL

(* Between two events no drain thread is left of a UPS that is not on      *)
(* battery.                                                                *)
THEOREM OffBatteryNoDrain == Spec => []NoDrainOnLine
<1>1. UInv => NoDrainOnLine
  BY DEF UInv, NoDrainOnLine, DrainIsJoined
<1>2. QED BY <1>1, UpsInvariant, PTL

(* Once stop() has returned no thread, a late one included, changes the    *)
(* battery level.                                                          *)
THEOREM StoppedIsStill == Spec => StoppedBatteryIsStill
<1>1. ASSUME UInv, [Next]_vars, stopper.pc = "stopped"
      PROVE  UNCHANGED battery
  <2>1. drain.pc # "tick" /\ charge.pc # "tick"
    BY <1>1 DEF UInv, StepsAreAwaited, Stopping
  <2>2. ~DrainTick /\ ~ChargeTick
    BY <2>1 DEF DrainTick, ChargeTick
  <2>3. CASE UNCHANGED vars
    BY <2>3 DEF vars, redisVars
  <2>4. CASE \E v \in Volts : VoltageUp(v) \/ VoltageDown(v)
    BY <2>4 DEF VoltageUp, VoltageDown, redisVars
  <2>5. CASE EngineMoves
    BY <2>5 DEF EngineMoves, PowerButton, RenewReason, RaiseReason, SetReason,
                StartDrain, ClearReason, StartCharge, Resume, redisVars
  <2>6. CASE DrainMoves
    BY <2>2, <2>6 DEF DrainMoves, DrainBegin, DrainTest, DrainReadReason,
                      DrainWriteReason, DrainWait, DrainKill, DrainPublish,
                      DrainEnd, redisVars
  <2>7. CASE ChargeMoves
    BY <2>2, <2>7 DEF ChargeMoves, ChargeBegin, ChargeTest, ChargePowerUp,
                      ChargePublish, ChargeWait, redisVars
  <2>8. CASE PressOff \/ PressOn \/ StopSet \/ StopJoined
    BY <2>8 DEF PressOff, PressOn, StopSet, StopJoined, redisVars
  <2>9. QED
    BY <1>1, <2>3, <2>4, <2>5, <2>6, <2>7, <2>8 DEF Next
<1>2. UInv /\ [Next]_vars => [stopper.pc = "stopped" => UNCHANGED battery]_vars
  BY <1>1
<1>3. QED BY <1>2, UpsInvariant, PTL DEF Spec, StoppedBatteryIsStill

-----------------------------------------------------------------------------
(* Back on the input.  A sag that outlasts the battery is never counted as *)
(* an outage by the drain thread, and then only the event loop writes the  *)
(* transfer reason.                                                        *)

(* The drain thread's steps and what is left of its charge make one full   *)
(* battery at most: it never counts as far as MomentaryPeriod.             *)
CountsTooShort ==
  /\ drain.pc \notin {"dead", "begin"} => drain.ticks + drain.level <= FullCharge
  /\ drain.pc \notin {"readReason", "writeReason"}

(* Where the event loop is in a launch tells what the input is, and where  *)
(* the reason to be on battery comes from.                                 *)
ReasonFollowsInput ==
  /\ engine.pc \in {"renewReason", "raiseReason"} => ~ChargeAlive
  /\ engine.pc = "idle" /\ OnBattery => ~ChargeAlive
  /\ engine.pc = "idle" /\ input = "normal" => ~OnBattery
  /\ engine.pc \in {"joinDrain", "resume"} => ~OnBattery
  /\ engine.pc \in {"renewReason", "raiseReason", "setReason", "joinCharge"}
       => input # "normal"
  /\ engine.pc = "idle" /\ input = "high" => reason \in {"noTransfer", "highLine"}
  /\ engine.pc \in {"renewReason", "setReason"} /\ input = "high"
       => engine.reason = "highLine"
  /\ engine.pc \in {"raiseReason", "joinCharge"} /\ input = "high"
       => reason = "highLine"

BInv == UInv /\ CountsTooShort /\ ReasonFollowsInput

(* Only the drain thread has a part in its count.                          *)
LEMMA NextCounts ==
  ASSUME FullCharge < MomentaryPeriod, UInv, CountsTooShort, [Next]_vars
  PROVE  CountsTooShort'
<1>0. /\ drain \in [pc : DrainPCs, level : 0 .. FullCharge,
                    ticks : 0 .. MomentaryPeriod]
      /\ FullCharge \in Nat /\ MomentaryPeriod \in Nat \ {0}
  BY UpsAssumption, FullChargeType DEF UInv, TypeOK, UpsAssumption
<1>1. CASE UNCHANGED drain
  BY <1>1 DEF CountsTooShort
<1>2. CASE StartDrain
  BY <1>0, <1>2 DEF StartDrain, CountsTooShort
<1>3. CASE DrainBegin
  <2>1. battery \in 0 .. MaxBattery
    BY DEF UInv, TypeOK
  <2>2. battery * Grain \in 0 .. FullCharge
    BY <2>1, StoredExactly
  <2>3. QED BY <1>0, <1>3, <2>2 DEF DrainBegin, CountsTooShort
<1>4. CASE DrainTick
  <2>1. drain.level > 0 /\ drain.ticks + drain.level <= FullCharge
    BY <1>0, <1>4 DEF DrainTick, UInv, StepsAreLegal, CountsTooShort
  <2>2. ~Outage /\ Passed = drain.ticks + 1
    BY <1>0, <2>1 DEF Outage, Passed
  <2>3. QED BY <1>0, <1>4, <2>1, <2>2 DEF DrainTick, CountsTooShort
<1>5. CASE DrainTest \/ DrainReadReason \/ DrainWriteReason \/ DrainWait
           \/ DrainKill \/ DrainPublish \/ DrainEnd
  BY <1>0, <1>5 DEF DrainTest, DrainReadReason, DrainWriteReason, DrainWait,
                    DrainKill, DrainPublish, DrainEnd, CountsTooShort
<1>6. ASSUME Next
      PROVE  \/ UNCHANGED drain \/ StartDrain \/ DrainMoves
  BY <1>6 DEF Next, VoltageUp, VoltageDown, EngineMoves, PowerButton,
              RenewReason, RaiseReason, SetReason, ClearReason, StartCharge,
              Resume, ChargeMoves, ChargeBegin, ChargeTest, ChargeTick,
              ChargePowerUp, ChargePublish, ChargeWait, PressOff, PressOn,
              StopSet, StopJoined, threadVars
<1>7. QED
  BY <1>1, <1>2, <1>3, <1>4, <1>5, <1>6 DEF DrainMoves, vars, threadVars

(* The event loop, idle, enters a handler.                                 *)
LEMMA HandlerFollowsInput ==
  ASSUME BInv,
         \/ \E v \in Volts : VoltageUp(v) \/ VoltageDown(v)
         \/ PowerButton
  PROVE  ReasonFollowsInput'
<1>0. Volts \subseteq Voltages /\ input \in Voltages
  BY UpsAssumption DEF UpsAssumption, BInv, UInv, TypeOK
<1>1. ASSUME NEW v \in Volts, VoltageUp(v)
      PROVE  ReasonFollowsInput'
  BY <1>0, <1>1
     DEF VoltageUp, EnterDrainLaunch, EnterChargeLaunch, BInv, UInv, OneThread,
         ReasonFollowsInput, Voltages, OnBattery, DrainAlive, ChargeAlive,
         redisVars, threadVars
<1>2. ASSUME NEW v \in Volts, VoltageDown(v)
      PROVE  ReasonFollowsInput'
  BY <1>0, <1>2
     DEF VoltageDown, TransferFor, EnterDrainLaunch, EnterChargeLaunch, BInv,
         UInv, OneThread, ReasonFollowsInput, Voltages, OnBattery, DrainAlive,
         ChargeAlive, redisVars, threadVars
<1>3. CASE PowerButton
  BY <1>0, <1>3
     DEF PowerButton, EnterDrainLaunch, BInv, UInv, OneThread,
         ReasonFollowsInput, OnBattery, DrainAlive, ChargeAlive, threadVars
<1>4. QED BY <1>1, <1>2, <1>3

(* The statements of the launches.                                         *)
LEMMA EngineFollowsInput ==
  ASSUME BInv,
         \/ RenewReason \/ RaiseReason \/ SetReason \/ StartDrain
         \/ ClearReason \/ StartCharge \/ Resume
  PROVE  ReasonFollowsInput'
<1>0. /\ engine \in [pc : EnginePCs, reason : Reasons, restore : BOOLEAN,
                     resume : BOOLEAN]
      /\ drain \in [pc : DrainPCs, level : 0 .. FullCharge,
                    ticks : 0 .. MomentaryPeriod]
      /\ charge \in [pc : ChargePCs, level : 0 .. FullCharge,
                     restore : BOOLEAN, powered : BOOLEAN, old : {0, 1}]
  BY DEF BInv, UInv, TypeOK
<1>1. CASE RenewReason
  BY <1>0, <1>1 DEF RenewReason, BInv, ReasonFollowsInput, OnBattery,
                    ChargeAlive, threadVars
<1>2. CASE RaiseReason
  BY <1>0, <1>2 DEF RaiseReason, Severer, Idle, BInv, ReasonFollowsInput,
                    OnBattery, ChargeAlive, threadVars
<1>3. CASE SetReason
  BY <1>0, <1>3 DEF SetReason, BInv, ReasonFollowsInput, OnBattery,
                    ChargeAlive, threadVars
<1>4. CASE StartDrain
  BY <1>0, <1>4 DEF StartDrain, Idle, BInv, ReasonFollowsInput, OnBattery,
                    ChargeAlive, redisVars
<1>5. CASE ClearReason
  BY <1>0, <1>5 DEF ClearReason, BInv, ReasonFollowsInput, OnBattery,
                    ChargeAlive, threadVars
<1>6. CASE StartCharge
  BY <1>0, <1>6 DEF StartCharge, BInv, ReasonFollowsInput, OnBattery,
                    ChargeAlive, redisVars
<1>7. CASE Resume
  BY <1>0, <1>7 DEF Resume, Idle, BInv, ReasonFollowsInput, OnBattery,
                    ChargeAlive, threadVars
<1>8. QED BY <1>1, <1>2, <1>3, <1>4, <1>5, <1>6, <1>7

(* No thread and no client writes the reason, or revives a charge thread.  *)
LEMMA OthersFollowInput ==
  ASSUME BInv, DrainMoves \/ ChargeMoves \/ PressOff \/ PressOn
               \/ StopSet \/ StopJoined \/ UNCHANGED vars
  PROVE  ReasonFollowsInput'
<1>1. UNCHANGED <<reason, input, engine>>
  BY DEF BInv, CountsTooShort, DrainMoves, DrainBegin, DrainTest, DrainTick,
         DrainReadReason, DrainWriteReason, DrainWait, DrainKill, DrainPublish,
         DrainEnd, ChargeMoves, ChargeBegin, ChargeTest, ChargeTick,
         ChargePowerUp, ChargePublish, ChargeWait, PressOff, PressOn, StopSet,
         StopJoined, vars, redisVars
<1>2. ~ChargeAlive => ~ChargeAlive'
  BY DEF ChargeAlive, DrainMoves, DrainBegin, DrainTest, DrainTick,
         DrainReadReason, DrainWriteReason, DrainWait, DrainKill, DrainPublish,
         DrainEnd, ChargeMoves, ChargeBegin, ChargeTest, ChargeTick,
         ChargePowerUp, ChargePublish, ChargeWait, PressOff, PressOn, StopSet,
         StopJoined, vars, threadVars
<1>3. QED BY <1>1, <1>2 DEF BInv, ReasonFollowsInput, OnBattery

(* Whatever happens to a UPS whose battery is empty before a sag counts as *)
(* an outage: between two events it is on battery only if its input is not *)
(* within the thresholds.                                                  *)
THEOREM BackOnRestoredInput ==
  FullCharge < MomentaryPeriod => (Spec => []BackOnInput)
<1> SUFFICES ASSUME FullCharge < MomentaryPeriod
             PROVE  Spec => []BackOnInput
  OBVIOUS
<1>1. Init => BInv
  <2> SUFFICES ASSUME Init PROVE BInv
    OBVIOUS
  <2>1. UInv
    BY InitUInv
  <2>2. QED
    BY <2>1 DEF BInv, Init, Idle, CountsTooShort, ReasonFollowsInput,
                OnBattery, ChargeAlive
<1>2. BInv /\ [Next]_vars => BInv'
  <2> SUFFICES ASSUME BInv, [Next]_vars
               PROVE  BInv'
    OBVIOUS
  <2>1. UInv' /\ CountsTooShort'
    BY NextUInv, NextCounts DEF BInv
  <2>2. ReasonFollowsInput'
    BY HandlerFollowsInput, EngineFollowsInput, OthersFollowInput
       DEF Next, EngineMoves
  <2>3. QED BY <2>1, <2>2 DEF BInv
<1>3. BInv => BackOnInput
  BY DEF BInv, ReasonFollowsInput, BackOnInput
<1>4. QED BY <1>1, <1>2, <1>3, PTL DEF Spec

-----------------------------------------------------------------------------
(* Offline when empty.  Nobody presses buttons or stops the engine, the    *)
(* event loop outruns the threads, and an empty battery has to gain more   *)
(* than one step before it may power the UPS (minPowerOnBatteryLevel).     *)
LeftAlone == MaxPresses = 0 /\ ~MayStop /\ PromptEngine /\ MinRestore > 0

OnlyOns == \A i \in 1 .. Len(pending) : pending[i] = 1

(* A power-up is never announced behind a power-off, nor while the UPS is  *)
(* off: handling what is announced does not bring up a UPS that is down.   *)
PendingInOrder ==
  \A j \in 1 .. Len(pending) :
    pending[j] = 1 => status = 1 /\ \A i \in 1 .. j : pending[i] = 1

(* A charge thread that is to power the UPS up began with an empty battery *)
(* and has waited a second since: the power-off announced by the drain     *)
(* thread before it was handled meanwhile.                                 *)
RestoreIsLate ==
  /\ engine.pc \in {"clearReason", "joinDrain"} /\ engine.restore => battery = 0
  /\ charge.pc = "begin" /\ charge.restore => battery = 0
  /\ charge.restore /\ charge.level > 0 =>
       /\ charge.pc = "test" => OnlyOns \/ engine.pc = "joinCharge"
       /\ charge.pc = "tick" => OnlyOns
  /\ charge.pc \in {"powerUp", "publish"} => OnlyOns
  /\ charge.pc = "publish" /\ charge.old = 1 => status = 1

(* The drain thread leaves its loop with charge left only because the UPS  *)
(* is off, or off battery, and nothing undoes that before it has ended.    *)
KillsTheEmpty ==
  /\ engine.pc = "resume" => ~DrainAlive
  /\ drain.pc = "kill" /\ drain.level > 0 => status = 0 \/ ~OnBattery
  /\ drain.pc = "publish" => battery = 0

PInv ==
  /\ UInv
  /\ stopper.pc = "running"
  /\ PendingInOrder
  /\ RestoreIsLate
  /\ KillsTheEmpty

(* A queue that loses its head or gains an element at its end.             *)
LEMMA PendingTail ==
  ASSUME pending \in Seq({0, 1}), pending # <<>>, pending' = Tail(pending)
  PROVE  /\ OnlyOns => OnlyOns'
         /\ PendingInOrder /\ status' = Head(pending) => PendingInOrder'
<1>1. /\ Len(pending) \in Nat \ {0} /\ Len(Tail(pending)) = Len(pending) - 1
      /\ \A i \in 1 .. Len(pending) - 1 : Tail(pending)[i] = pending[i + 1]
      /\ Head(pending) = pending[1]
  OBVIOUS
<1>2. OnlyOns => OnlyOns'
  <2> SUFFICES ASSUME OnlyOns, NEW i \in 1 .. Len(Tail(pending))
               PROVE  Tail(pending)[i] = 1
    BY DEF OnlyOns
  <2>1. i + 1 \in 1 .. Len(pending) /\ Tail(pending)[i] = pending[i + 1]
    BY <1>1
  <2>2. QED BY <2>1 DEF OnlyOns
<1>3. ASSUME PendingInOrder, status' = Head(pending)
      PROVE  PendingInOrder'
  <2> SUFFICES ASSUME NEW j \in 1 .. Len(Tail(pending)), Tail(pending)[j] = 1
               PROVE  status' = 1 /\ \A i \in 1 .. j : Tail(pending)[i] = 1
    BY DEF PendingInOrder
  <2>1. j + 1 \in 1 .. Len(pending) /\ pending[j + 1] = 1
    BY <1>1
  <2>2. \A i \in 1 .. j + 1 : pending[i] = 1
    BY <1>3, <2>1 DEF PendingInOrder
  <2>3. pending[1] = 1
    BY <2>2, <1>1
  <2>4. ASSUME NEW i \in 1 .. j
        PROVE  Tail(pending)[i] = 1
    <3>1. i + 1 \in 1 .. j + 1 /\ i \in 1 .. Len(pending) - 1
      BY <1>1
    <3>2. QED BY <1>1, <2>2, <3>1
  <2>5. QED BY <1>1, <1>3, <2>3, <2>4
<1>4. QED BY <1>2, <1>3

LEMMA PendingAppend ==
  ASSUME pending \in Seq({0, 1}), NEW st \in {0, 1},
         pending' = Append(pending, st), UNCHANGED status, PendingInOrder
  PROVE  st = 0 \/ (OnlyOns /\ status = 1) => PendingInOrder'
<1>1. /\ Len(pending) \in Nat /\ Len(pending') = Len(pending) + 1
      /\ \A i \in 1 .. Len(pending) : pending'[i] = pending[i]
      /\ pending'[Len(pending) + 1] = st
  OBVIOUS
<1> SUFFICES ASSUME st = 0 \/ (OnlyOns /\ status = 1),
                    NEW j \in 1 .. Len(pending'), pending'[j] = 1
             PROVE  status' = 1 /\ \A i \in 1 .. j : pending'[i] = 1
  BY DEF PendingInOrder
<1>2. CASE st = 0
  <2>1. j \in 1 .. Len(pending) /\ pending[j] = 1
    BY <1>1, <1>2
  <2>2. QED BY <1>1, <2>1 DEF PendingInOrder
<1>3. CASE OnlyOns /\ status = 1 /\ st = 1
  BY <1>1, <1>3 DEF OnlyOns
<1>4. QED BY <1>2, <1>3

(* Less charge is not stored as more.                                      *)
LEMMA StoredFalls ==
  ASSUME NEW level \in 1 .. FullCharge, Stored(level) = 0
  PROVE  Stored(level - 1) = 0
<1>1. Grain \in Nat \ {0} /\ FullCharge \in Nat
  BY UpsAssumption, FullChargeType DEF UpsAssumption
<1>2. QED BY <1>1, SMTT(30) DEF Stored

(* The event loop: a handler, the launches, and power_up().                *)
LEMMA EngineKillsTheEmpty ==
  ASSUME LeftAlone, PInv,
         \/ \E v \in Volts : VoltageUp(v) \/ VoltageDown(v)
         \/ EngineMoves
  PROVE  PInv'
<1>0. /\ engine \in [pc : EnginePCs, reason : Reasons, restore : BOOLEAN,
                     resume : BOOLEAN]
      /\ drain \in [pc : DrainPCs, level : 0 .. FullCharge,
                    ticks : 0 .. MomentaryPeriod]
      /\ charge \in [pc : ChargePCs, level : 0 .. FullCharge,
                     restore : BOOLEAN, powered : BOOLEAN, old : {0, 1}]
      /\ pending \in Seq({0, 1}) /\ status \in {0, 1}
  BY DEF PInv, UInv, TypeOK
<1>1. UInv'
  BY HandlerStep, EngineStep DEF PInv, EngineMoves
<1>2. CASE \E v \in Volts : VoltageUp(v) \/ VoltageDown(v)
  <2>1. /\ UNCHANGED <<redisVars, threadVars, outsideVars>>
        /\ engine.pc = "idle"
        /\ \/ UNCHANGED engine
           \/ \E r : EnterDrainLaunch(r)
           \/ \E resume : EnterChargeLaunch(battery = 0, resume)
    BY <1>2 DEF VoltageUp, VoltageDown
  <2>2. RestoreIsLate'
    <3>1. engine'.pc \in {"clearReason", "joinDrain"} /\ engine'.restore
            => battery = 0
      <4>1. CASE UNCHANGED engine \/ \E r : EnterDrainLaunch(r)
        BY <2>1, <4>1 DEF EnterDrainLaunch
      <4>2. ASSUME NEW resume, EnterChargeLaunch(battery = 0, resume)
            PROVE  engine'.restore = (battery = 0)
        BY <4>2 DEF EnterChargeLaunch
      <4>3. QED BY <2>1, <4>1, <4>2
    <3>2. UNCHANGED <<status, battery, charge, OnlyOns>>
      BY <2>1 DEF OnlyOns, redisVars, threadVars, outsideVars
    <3>3. QED BY <2>1, <3>1, <3>2 DEF PInv, RestoreIsLate
  <2>3. KillsTheEmpty'
    BY <1>0, <2>1 DEF PInv, UInv, OneThread, KillsTheEmpty, EnterDrainLaunch,
                 EnterChargeLaunch, DrainAlive, ChargeAlive, OnBattery,
                 redisVars, threadVars
  <2>4. QED BY <1>1, <2>1, <2>2, <2>3
               DEF PInv, PendingInOrder, redisVars, outsideVars
<1>3. CASE PowerButton
  <2>1. PendingInOrder' /\ (OnlyOns => OnlyOns')
    BY <1>0, <1>3, PendingTail DEF PowerButton, PInv
  <2>2. Head(pending) = 1 => status = 1
    <3>1. 1 \in 1 .. Len(pending) /\ Head(pending) = pending[1]
      BY <1>0, <1>3 DEF PowerButton
    <3>2. QED BY <3>1 DEF PInv, PendingInOrder
  <2>3. OnlyOns => Head(pending) = 1
    BY <1>0, <1>3 DEF PowerButton, OnlyOns
  <2>4. RestoreIsLate'
    BY <1>0, <1>3, <2>1, <2>3
       DEF PInv, PowerButton, RestoreIsLate, EnterDrainLaunch, threadVars
  <2>5. KillsTheEmpty'
    BY <1>0, <1>3, <2>2 DEF PInv, PowerButton, KillsTheEmpty,
       EnterDrainLaunch, DrainAlive, OnBattery, threadVars
  <2>6. QED BY <1>1, <1>3, <2>1, <2>4, <2>5 DEF PInv, PowerButton
<1>4. CASE RenewReason \/ RaiseReason \/ SetReason \/ ClearReason
  <2>1. UNCHANGED <<status, battery, threadVars, outsideVars>>
    BY <1>4 DEF RenewReason, RaiseReason, SetReason, ClearReason
  <2>2. RestoreIsLate'
    BY <1>0, <1>4, <2>1
       DEF PInv, RenewReason, RaiseReason, SetReason, ClearReason, Idle,
           RestoreIsLate, OnlyOns, threadVars, outsideVars
  <2>3. drain.pc = "kill" /\ ~OnBattery => ~OnBattery'
    BY <1>4 DEF PInv, UInv, DrainIsJoined, LaunchView, DrainAlive, OnBattery,
                RenewReason, RaiseReason, SetReason, ClearReason
  <2>4. KillsTheEmpty'
    BY <1>0, <1>4, <2>1, <2>3
       DEF PInv, KillsTheEmpty, RenewReason, RaiseReason, SetReason,
           ClearReason, Idle, DrainAlive, threadVars
  <2>5. QED BY <1>1, <2>1, <2>2, <2>4
               DEF PInv, PendingInOrder, outsideVars
<1>5. CASE StartDrain
  BY <1>0, <1>1, <1>5
     DEF PInv, StartDrain, Idle, PendingInOrder, RestoreIsLate, KillsTheEmpty,
         OnlyOns, OnBattery, DrainAlive, ChargeAlive, redisVars, outsideVars
<1>6. CASE StartCharge
  BY <1>0, <1>1, <1>6
     DEF PInv, StartCharge, PendingInOrder, RestoreIsLate, KillsTheEmpty,
         OnlyOns, OnBattery, DrainAlive, redisVars, outsideVars
<1>7. CASE Resume
  <2>1. drain.pc = "dead"
    BY <1>7 DEF Resume, PInv, KillsTheEmpty, DrainAlive
  <2>2. status = 1 => status' = 1
    BY <1>7 DEF Resume
  <2>3. QED
    BY <1>0, <1>1, <1>7, <2>1, <2>2
       DEF PInv, Resume, Idle, PendingInOrder, RestoreIsLate, KillsTheEmpty,
           OnlyOns, OnBattery, DrainAlive, threadVars, outsideVars
<1>8. QED
  BY <1>2, <1>3, <1>4, <1>5, <1>6, <1>7 DEF EngineMoves

(* The drain thread.                                                       *)
LEMMA DrainKillsTheEmpty ==
  ASSUME LeftAlone, PInv, DrainMoves
  PROVE  PInv'
<1>0. /\ drain \in [pc : DrainPCs, level : 0 .. FullCharge,
                    ticks : 0 .. MomentaryPeriod]
      /\ pending \in Seq({0, 1}) /\ status \in {0, 1}
      /\ FullCharge \in Nat
  BY FullChargeType DEF PInv, UInv, TypeOK
<1>1. UInv'
  BY DrainStep DEF PInv
<1>2. UNCHANGED <<status, charge, engine>> /\ charge.pc = "dead"
  BY DEF DrainMoves, DrainBegin, DrainTest, DrainTick, DrainReadReason,
         DrainWriteReason, DrainWait, DrainKill, DrainPublish, DrainEnd,
         redisVars, PInv, UInv, OneThread, DrainAlive, ChargeAlive
<1>3. engine.pc # "resume"
  BY DEF DrainMoves, DrainBegin, DrainTest, DrainTick, DrainReadReason,
         DrainWriteReason, DrainWait, DrainKill, DrainPublish, DrainEnd,
         PInv, KillsTheEmpty, DrainAlive
<1>4. CASE DrainTick
  <2>1. drain.level \in 1 .. FullCharge /\ battery = Stored(drain.level)
    BY <1>0, <1>4 DEF DrainTick, PInv, UInv, StepsAreLegal, StoredLevelIsCurrent
  <2>2. battery = 0 => battery' = 0
    BY <1>4, <2>1, StoredFalls DEF DrainTick
  <2>3. QED
    BY <1>0, <1>1, <1>2, <1>3, <1>4, <2>2
       DEF PInv, DrainTick, PendingInOrder, RestoreIsLate, KillsTheEmpty,
           OnlyOns, OnBattery, outsideVars
<1>5. CASE DrainTest
  BY <1>0, <1>1, <1>2, <1>3, <1>5
     DEF PInv, DrainTest, PendingInOrder, RestoreIsLate, KillsTheEmpty,
         OnlyOns, OnBattery, Stopping, redisVars, outsideVars
<1>6. CASE DrainKill
  <2>1. drain.level = 0 => battery = 0
    <3>1. battery = Stored(drain.level) /\ Grain \in Nat \ {0}
      BY <1>6, UpsAssumption
         DEF DrainKill, PInv, UInv, StoredLevelIsCurrent, UpsAssumption
    <3>2. QED BY <3>1 DEF Stored
  <2>2. QED
    BY <1>0, <1>1, <1>2, <1>3, <1>6, <2>1
       DEF PInv, DrainKill, PendingInOrder, RestoreIsLate, KillsTheEmpty,
           OnlyOns, OnBattery, redisVars, outsideVars
<1>7. CASE DrainPublish
  <2>1. PendingInOrder'
    BY <1>0, <1>2, <1>7, PendingAppend DEF DrainPublish, PInv
  <2>2. QED
    BY <1>0, <1>1, <1>2, <1>3, <1>7, <2>1
       DEF PInv, DrainPublish, RestoreIsLate, KillsTheEmpty, redisVars
<1>8. CASE DrainEnd
  BY <1>0, <1>1, <1>2, <1>3, <1>8
     DEF PInv, DrainEnd, Ends, PendingInOrder, RestoreIsLate, KillsTheEmpty,
         OnlyOns, redisVars
<1>9. CASE DrainBegin \/ DrainReadReason \/ DrainWriteReason \/ DrainWait
  BY <1>0, <1>1, <1>2, <1>3, <1>9
     DEF PInv, DrainBegin, DrainReadReason, DrainWriteReason, DrainWait,
         PendingInOrder, RestoreIsLate, KillsTheEmpty, OnlyOns, OnBattery,
         redisVars, outsideVars
<1>10. QED
  BY <1>4, <1>5, <1>6, <1>7, <1>8, <1>9 DEF DrainMoves

(* The charge thread.                                                      *)
LEMMA ChargeKillsTheEmpty ==
  ASSUME LeftAlone, PInv, ChargeMoves
  PROVE  PInv'
<1>0. /\ charge \in [pc : ChargePCs, level : 0 .. FullCharge,
                     restore : BOOLEAN, powered : BOOLEAN, old : {0, 1}]
      /\ stopper \in [pc : {"running", "joining", "stopped"},
                      awaits : SUBSET {"drain", "charge"}]
      /\ engine.pc \in EnginePCs
      /\ pending \in Seq({0, 1}) /\ status \in {0, 1} /\ battery \in 0 .. MaxBattery
      /\ FullCharge \in Nat
  BY FullChargeType DEF PInv, UInv, TypeOK
<1>1. UInv'
  BY ChargeStep DEF PInv
<1>2. UNCHANGED <<reason, drain, engine>> /\ drain.pc = "dead"
  BY DEF ChargeMoves, ChargeBegin, ChargeTest, ChargeTick, ChargePowerUp,
         ChargePublish, ChargeWait, redisVars, PInv, UInv, OneThread,
         DrainAlive, ChargeAlive
<1>3. KillsTheEmpty'
  BY <1>2 DEF KillsTheEmpty, DrainAlive
<1>4. engine.pc \notin {"clearReason", "joinDrain"}
  BY DEF ChargeMoves, ChargeBegin, ChargeTest, ChargeTick, ChargePowerUp,
         ChargePublish, ChargeWait, PInv, UInv, LaunchView, ChargeAlive
<1>5. CASE ChargeBegin
  <2>1. battery = 0 => battery * Grain = 0
    BY UpsAssumption DEF UpsAssumption
  <2>2. QED
    BY <1>0, <1>1, <1>2, <1>3, <1>4, <1>5, <2>1
       DEF PInv, ChargeBegin, PendingInOrder, RestoreIsLate, OnlyOns,
           redisVars, outsideVars
<1>6. CASE ChargeTest
  BY <1>0, <1>1, <1>2, <1>3, <1>4, <1>6
     DEF PInv, UInv, ChargeTest, Ends, PendingInOrder, RestoreIsLate,
         LaunchView, OnlyOns, OnBattery, Stopping, redisVars
<1>7. CASE ChargeTick
  <2>1. Grain \in Nat \ {0} /\ MinRestore \in Nat \ {0}
    BY UpsAssumption DEF UpsAssumption, LeftAlone
  <2>2. MinRestore * Grain >= 1
    BY <2>1, SMTT(30)
  <2>3. charge'.pc = "powerUp" => charge.restore /\ charge.level > 0
    <3>1. charge'.pc = "powerUp" => charge.restore
                                    /\ charge.level + 1 > MinRestore * Grain
      BY <1>0, <1>7 DEF ChargeTick
    <3>2. MinRestore * Grain \in Int
      BY <2>1
    <3>3. QED BY <1>0, <2>2, <3>1, <3>2
  <2>4. QED
    BY <1>0, <1>1, <1>2, <1>3, <1>4, <1>7, <2>3
       DEF PInv, ChargeTick, PendingInOrder, RestoreIsLate, OnlyOns, outsideVars
<1>8. CASE ChargePowerUp
  BY <1>0, <1>1, <1>2, <1>3, <1>4, <1>8
     DEF PInv, ChargePowerUp, PendingInOrder, RestoreIsLate, OnlyOns,
         outsideVars
<1>9. CASE ChargePublish
  <2>1. OnlyOns /\ (status # charge.old => status = 1)
    BY <1>0, <1>9 DEF ChargePublish, PInv, RestoreIsLate
  <2>2. PendingInOrder'
    BY <1>0, <1>9, <2>1, PendingAppend
       DEF ChargePublish, PInv, PendingInOrder, redisVars
  <2>3. QED
    BY <1>0, <1>1, <1>2, <1>3, <1>4, <1>9, <2>2
       DEF PInv, ChargePublish, RestoreIsLate, redisVars
<1>10. CASE ChargeWait
  <2>1. engine.pc = "joinCharge" \/ pending = <<>>
    BY <1>0, <1>4, <1>10
       DEF ChargeWait, ASecondPasses, EngineIsDue, LeftAlone, PInv, Stopping
  <2>2. pending = <<>> => OnlyOns
    BY DEF OnlyOns
  <2>3. QED
    BY <1>0, <1>1, <1>2, <1>3, <1>4, <1>10, <2>1, <2>2
       DEF PInv, ChargeWait, PendingInOrder, RestoreIsLate, OnlyOns,
           redisVars, outsideVars
<1>11. QED
  BY <1>5, <1>6, <1>7, <1>8, <1>9, <1>10 DEF ChargeMoves

(* The drain thread takes a UPS down that is left alone only when it has   *)
(* used up its charge: a loop that ends early, since the UPS is off or     *)
(* back on its input, is never taken for one that ran out.                 *)
THEOREM OfflineOnlyWhenEmpty == LeftAlone => (Spec => []OfflineWhenEmpty)
<1> SUFFICES ASSUME LeftAlone
             PROVE  Spec => []OfflineWhenEmpty
  OBVIOUS
<1>1. Init => PInv
  <2> SUFFICES ASSUME Init PROVE PInv
    OBVIOUS
  <2>1. UInv
    BY InitUInv
  <2>2. QED
    BY <2>1 DEF PInv, Init, Idle, PendingInOrder, RestoreIsLate,
                KillsTheEmpty, OnlyOns
<1>2. PInv /\ [Next]_vars => PInv'
  <2> SUFFICES ASSUME PInv, [Next]_vars
               PROVE  PInv'
    OBVIOUS
  <2>1. CASE UNCHANGED vars
    <3>1. UInv'
      BY NextUInv DEF PInv
    <3>2. QED
      BY <2>1, <3>1 DEF PInv, PendingInOrder, RestoreIsLate, KillsTheEmpty,
         OnlyOns, OnBattery, DrainAlive, vars, redisVars, threadVars, outsideVars
  <2>2. ~PressOff /\ ~PressOn
    BY DEF PressOff, PressOn, LeftAlone, PInv, UInv, TypeOK
  <2>3. ~StopSet /\ ~StopJoined
    BY DEF StopSet, StopJoined, LeftAlone, PInv
  <2>4. QED
    BY <2>1, <2>2, <2>3, EngineKillsTheEmpty, DrainKillsTheEmpty,
       ChargeKillsTheEmpty DEF Next
<1>3. PInv => OfflineWhenEmpty
  BY DEF PInv, KillsTheEmpty, OfflineWhenEmpty
<1>4. QED BY <1>1, <1>2, <1>3, PTL DEF Spec
=============================================================================
