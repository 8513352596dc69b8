SPECIFICATION FairSpec
CONSTANTS
  Threads = {Game, Rx}
  NUM_TX_PACKET_BUFFERS = 4
  Priorities = {0, 1}
  StaleRegister = {0, 1, 2, 3, 4}
  MaxPackets = 5
INVARIANTS
  Partition
  InFlight
  UrgentServed
PROPERTIES
  EveryPacketLeaves
CHECK_DEADLOCK FALSE
