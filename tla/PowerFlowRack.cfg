SPECIFICATION Spec
CONSTANTS
  wall1 = wall1
  wall2 = wall2
  pdu = pdu
  out1 = out1
  out2 = out2
  lamp = lamp
  psu1 = psu1
  psu2 = psu2
  server = server
  Asset <- Rack
  Kind <- KindOf
  Parents <- RackParents
  Consumption <- RackWatts
  MinVoltage <- Zero
  Draw <- Half
  Whole = 2
  OnAc <- Rack
  Switched <- PduOutlets
  Volts <- Voltages
  Nominal = 2
  Pressable <- Rack
  MaxRequests = 1
  Patient = TRUE
  Apart = TRUE
INVARIANT TypeOK
INVARIANT ParentsCarryTheirChildren
INVARIANT PsusCarryTheServer
INVARIANT StateFollowsSupply
