SPECIFICATION WaitFairSpec
CONSTANTS
  Game = Game
  Waiter = Waiter
  NONE = NONE
  MaxWakeups = 2
INVARIANTS
  NobodyIsForgotten
PROPERTIES
  FrameHasPassed
  FrameWaitReturns
