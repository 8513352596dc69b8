SPECIFICATION Spec
CONSTANTS
  Slots = 3
  GroupSize = 2
  MaxFrames = 7
INVARIANTS
  SpotIsFree
CHECK_DEADLOCK FALSE
