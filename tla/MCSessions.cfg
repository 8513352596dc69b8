SPECIFICATION SessionsSpec
CONSTANTS
  A = A
  B = B
  Hosts <- OneHost
  Joiners <- OneJoiner
  BROADCAST = BROADCAST
  NONE = NONE
  MaxSeq = 1
  MaxJoin = 2
  MaxHost = 2
  MaxFlap = 1
  Host = A
  Joiner = B
  MaxStates = 5
INVARIANTS
  OneMaster
  SeqInSync
  SessionWasAcked
  OnePlayerOne
  RoleNotLost
PROPERTIES
  HandshakeCompletes
  ImplementsToken
CHECK_DEADLOCK FALSE
