SPECIFICATION Spec
CONSTANTS
  Slots = {0, 1}
  Names = {smap, other}
  NULL = NULL
  MaxId = 3
  MaxEvents = 3
INVARIANTS
  
  LinkFollows
  ReportsAreOwn
  WaitsForThePresent
CHECK_DEADLOCK FALSE
