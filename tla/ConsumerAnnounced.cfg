SPECIFICATION Spec
CONSTANTS
  i1 = i1
  i2 = i2
  i3 = i3
  w1 = w1
  w2 = w2
  Iteration <- ThreeIterations
  Worker <- OneWorker
  FirstWorker = w1
  Engine = engine
  Caller = tester
  NoIteration = NoIteration
  StopItem = StopItem
  MaxBranches = 2
  Patience = "announced"
  MayStop = TRUE
  MayReload = FALSE
INVARIANT AssertionHolds
 
CHECK_DEADLOCK FALSE
