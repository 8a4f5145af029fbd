SPECIFICATION Spec
CONSTANTS
  Client = {dashboard}
  Replayer = {replay}
  Volts <- OnOrOut
  Temps <- RoomTemps
  Standard = 120
  Warm = 21
  Call <- Calls
  MaxHistory = 3
  Slice <- Ranges
  MaxRequests = 3
  Patient = TRUE
INVARIANT TypeOK
 
 
 
CHECK_DEADLOCK FALSE
