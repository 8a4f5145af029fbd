SPECIFICATION Spec
CONSTANTS
  wall = wall
  pdu = pdu
  left = left
  right = right
  psu1 = psu1
  psu2 = psu2
  server = server
  wall2 = wall2
  lamp1 = lamp1
  lamp2 = lamp2
  ups = ups
  Asset <- Rack
  Parents <- RackParents
  Mains <- None
  Rebootable <- None
  Raising <- None
INVARIANT TypeOK
INVARIANT EventsOwnTheirBranch
INVARIANT NoBranchIsAbandoned
INVARIANT QuietWhenDone
INVARIANT AnnouncedOnce
INVARIANT VoltageFront
PROPERTY IterationEnds
