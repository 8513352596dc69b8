SPECIFICATION Spec
CONSTANTS
  Leftover = {0}
  GAME_PORT = 13437
  MaxPress = 1
INVARIANTS
  EntryAsShown
CHECK_DEADLOCK FALSE
