SPECIFICATION RingsSpec
CONSTANTS
  Slots = 3
  GroupSize = 2
  MaxFrames = 6
INVARIANTS
  InOrder
  RingAligned
  NoneLeftInRing
  DeliveredInOrder
  NoneMissing
  ChannelGoesOn
  NoneLeftBehind
PROPERTIES
  EveryFrameIsSent
  EveryFrameIsDelivered
CHECK_DEADLOCK FALSE
