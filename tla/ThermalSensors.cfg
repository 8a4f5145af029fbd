SPECIFICATION Spec
CONSTANTS
  memory = memory
  processor = processor
  fan = fan
  c1 = c1
  c2 = c2
  Sensors <- Order
  Hot = processor
  Fan = fan
  FanSpeed = 1
  Link <- Links
  Target <- Targets
  Event <- Events
  Heats <- Heating
  PauseAt <- Limits
  Degrees <- Steps
  Impact <- CpuModel
  Configured <- Links
  Warm = 6
  RoomLimit <- RoomLimits
  Temps = {7}
  CpuThread = {c1, c2}
  MaxRequests = 2
  Patient = TRUE
INVARIANT TypeOK
 
INVARIANT RelationsHaveTheirThread
 
CHECK_DEADLOCK FALSE
