CONSTANTS
  DeckSize = 4
  MAX_DECISION_TIME = 1
  MAX_SNAP_TIME = 1
  MAX_NEW_ROUND_CONFIRM_TIME = 1
  MaxRound = 1
  NumPlayers = 2
  STARTING_DECK_LEN = 1
  MailboxCap = 3
  IncomingCap = 2
  Leavers = {}
  Behind = {0, 1}
SPECIFICATION Spec
INVARIANT
  CardsReset
CHECK_DEADLOCK FALSE
