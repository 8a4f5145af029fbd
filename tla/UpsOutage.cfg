SPECIFICATION Spec
CONSTANTS
  MaxBattery = 2
  Grain = 2
  MinRestore = 1
  MomentaryPeriod <- LongPeriod
  Volts <- Sags
  MaxPresses = 0
  MaxPending = 2
  MayStop = FALSE
  PromptEngine = TRUE
 
INVARIANT BackOnInput
 
 
