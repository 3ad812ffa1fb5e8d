CONSTANTS
  Conns = {c1, c2}
  None = None
  MIN_PLAYER_COUNT = 2
  MAX_PLAYER_COUNT = 3
  Rejoins = TRUE
  EVENT_CAPACITY = 1
  PROCESSING_CAPACITY = 2
  MaxStarts = 3
  MaxLeavers = 2
SPECIFICATION FairSpec
PROPERTIES
  LeaversRemoved
  DoorAnswered
CHECK_DEADLOCK FALSE
