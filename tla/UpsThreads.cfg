SPECIFICATION Spec
CONSTANTS
  MaxBattery = 2
  Grain = 2
  MinRestore = 1
  MomentaryPeriod <- ShortPeriod
  Volts <- AllVolts
  MaxPresses = 2
  MaxPending = 1
  MayStop = TRUE
  PromptEngine = FALSE
INVARIANT TypeOK
INVARIANT OneThread
INVARIANT StoredLevelIsCurrent
INVARIANT NoDrainOnLine
PROPERTY StoppedBatteryIsStill
PROPERTY JoinReturns
