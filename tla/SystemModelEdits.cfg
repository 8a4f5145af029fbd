SPECIFICATION Spec
CONSTANTS
  Asset <- Keys
  Kind <- KindOf
  Owner <- OwnerOf
  Nodes0 <- Rack
  Powers0 <- RackLinks
  Busy <- Feeding
  Cli = {cli1, cli2}
  MaxEdits = 3
  Patient = TRUE
  Reread = FALSE
SYMMETRY Processes
INVARIANT TypeOK
 
INVARIANT EngineKnowsTheGraph
CHECK_DEADLOCK FALSE
