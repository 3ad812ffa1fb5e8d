CONSTANTS
  Conns = {c1, c2, c3}
  None = None
  MIN_PLAYER_COUNT = 2
  MAX_PLAYER_COUNT = 3
  Rejoins = TRUE
  EVENT_CAPACITY = 1
  PROCESSING_CAPACITY = 1
  MaxStarts = 1
  MaxLeavers = 2
SPECIFICATION Spec
SYMMETRY Symmetry
INVARIANTS
  TypeOK
  EnoughPlayers
  StreamsArePlayers
PROPERTIES
  OnlyLeaversRemoved
  RosterSpec
CHECK_DEADLOCK FALSE
