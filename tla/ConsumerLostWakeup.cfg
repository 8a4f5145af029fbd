SPECIFICATION Spec
CONSTANTS
  i1 = i1
  i2 = i2
  i3 = i3
  w1 = w1
  w2 = w2
  Iteration <- TwoIterations
  Worker <- OneWorker
  FirstWorker = w1
  Engine = engine
  Caller = tester
  NoIteration = NoIteration
  StopItem = StopItem
  MaxBranches = 2
  Patience = "announced"
  MayStop = FALSE
  MayReload = FALSE
PROPERTY QueuedIsDequeued
CHECK_DEADLOCK FALSE
