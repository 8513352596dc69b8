SPECIFICATION Spec
CONSTANTS
  A = A
  B = B
  Hosts <- OneHost
  Joiners <- OneJoiner
  BROADCAST = BROADCAST
  NONE = NONE
  MaxSeq = 1
  MaxJoin = 1
  MaxHost = 1
  MaxFlap = 1
INVARIANTS
  UnplugEnds
CHECK_DEADLOCK FALSE
