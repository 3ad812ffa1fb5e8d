CONSTANTS
  Conns = {c1, c2, c3}
  None = None
  MIN_PLAYER_COUNT = 2
  MAX_PLAYER_COUNT = 3
  Rejoins = FALSE
  EVENT_CAPACITY = 1
  PROCESSING_CAPACITY = 1
  MaxStarts = 1
  MaxLeavers = 2
SPECIFICATION Spec
INVARIANT
  EnterFirst
CHECK_DEADLOCK FALSE
