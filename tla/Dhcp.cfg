SPECIFICATION FairSpec
CONSTANTS
  Servers = {s1, s2}
  ANY = ANY
  BROADCAST = BROADCAST
  MaxRetries = 1
  MaxExchange = 2
  MaxFlap = 3
INVARIANTS
  LinkUpMeansExchange
  LeaseWasAcked
PROPERTIES
  ExchangeEnds
CHECK_DEADLOCK FALSE
