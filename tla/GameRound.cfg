SPECIFICATION FairSpec
CONSTANTS
  MaxRounds = 2
  MaxTries = 1
  MaxUnderWay = 2
INVARIANTS
  TypeOK
  FollowsPlayerOne
  BarrierHolds
PROPERTIES
  LoadingEnds
  RetryTogether
CHECK_DEADLOCK FALSE
