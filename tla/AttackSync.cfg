SPECIFICATION FairSpec
CONSTANTS
  A = A
  B = B
  Kinds = {"miss", "great"}
  Width = 2
  Start = 2
  MaxHits = 3
INVARIANTS
  DamageOnce
  NoPhantomHits
PROPERTIES
  CatchesUp
CHECK_DEADLOCK FALSE
