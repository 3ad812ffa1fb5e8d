CONSTANTS
  Decks <- MCDecks
  NumPlayers = 3
  STARTING_DECK_LEN = 2
SPECIFICATION Spec
INVARIANTS
  TypeOK
  CardsInOnePlace
  WinnerBeatsAll
  ActionByNumber
CHECK_DEADLOCK FALSE
