CONSTANTS
  DeckSize = 5
  Deals = {2, 5}
  Needed = 2
  MAX_DECISION_TIME = 2
  MAX_SNAP_TIME = 1
  MAX_NEW_ROUND_CONFIRM_TIME = 1
  MaxRound = 2
SPECIFICATION FairSpec
INVARIANTS
  TypeOK
  DeckInv
  DeckAccounting
PROPERTIES
  RoundLength
  StreamSpec
  RoundEnds
  DriverStops
CHECK_DEADLOCK FALSE
