-------------------------------- MODULE Game --------------------------------
(***************************************************************************)
(* The rules engine of game/src/lib.rs: the enum State, the queue of       *)
(* Events it emits, and every method that moves it.  The module gives the  *)
(* operations only; who calls them, and when, is the business of the       *)
(* modules that extend it (GameDriver, GameLoop).                          *)
(*                                                                         *)
(* The variants of State are tags, and the fields of the variants are      *)
(* variables of their own that keep their value while the tag does not     *)
(* carry them.  The deck is the number of cards left in it: no rule of     *)
(* the engine looks at a card (playing a decision and snapping a card are  *)
(* both unwritten, lines 159 and 189), and shuffling changes no count.     *)
(* An Instant is the number of clock ticks since `started`.                *)
(***************************************************************************)
EXTENDS Integers, Sequences

CONSTANTS
  DeckSize,                    \* FULL_DECK.len()
  MAX_DECISION_TIME,           \* the three deadlines, in ticks
  MAX_SNAP_TIME,
  MAX_NEW_ROUND_CONFIRM_TIME,
  MaxRound                     \* bound: the last round that may be started

ASSUME GameAssumption ==
  /\ DeckSize \in Nat
  /\ MAX_DECISION_TIME \in Nat
  /\ MAX_SNAP_TIME \in Nat
  /\ MAX_NEW_ROUND_CONFIRM_TIME \in Nat
  /\ MaxRound \in Nat

VARIABLES
  state,          \* the variant of State
  round,          \* its field `round`
  turn,           \* its field `turn`
  reset_deck,     \* the field of StartRound
  confirmations,  \* the field of WaitingForNewRound
  waited,         \* now - `started` in a waiting state, 0 in the others
  deck,           \* number of cards left in `deck`
  events          \* the queue of events not polled yet

gameVars ==
  <<state, round, turn, reset_deck, confirmations, waited, deck, events>>

-----------------------------------------------------------------------------
(* Types. *)

States ==
  {"Pregame", "StartRound", "StartTurn", "DrawCard", "WaitingForDecision",
   "PlayDecision", "WaitingForSnaps", "Snapped", "EndTurn", "EndRound",
   "FindWinner", "WaitingForNewRound", "CambioCall", "Finished"}

WaitStates == {"WaitingForDecision", "WaitingForSnaps", "WaitingForNewRound"}

EventNames ==
  {"Setup", "StartRound", "StartTurn", "DrawCard", "WaitForDecision",
   "WaitForSnap", "EndTurn", "WaitForNewRound", "EndRound", "Cambio",
   "FindWinner", "Exit"}

\* An event and the round, turn or count it carries (0 when it has none).
Event == [name : EventNames, arg : Nat]
Ev(name, arg) == [name |-> name, arg |-> arg]

\* The deadline of each waiting state, as the distance from `started`.
MaxWait ==
  [s \in WaitStates |->
     CASE s = "WaitingForDecision" -> MAX_DECISION_TIME
       [] s = "WaitingForSnaps"    -> MAX_SNAP_TIME
       [] s = "WaitingForNewRound" -> MAX_NEW_ROUND_CONFIRM_TIME]

GameTypeOK ==
  /\ state \in States
  /\ round \in 0..MaxRound
  /\ turn \in Nat
  /\ reset_deck \in BOOLEAN
  /\ confirmations \in Nat
  /\ waited \in Nat
  /\ deck \in 0..DeckSize
  /\ events \in Seq(Event)

-----------------------------------------------------------------------------
(* Helpers shared by the operations. *)

GameInit ==
  /\ state = "Pregame"
  /\ round = 0 /\ turn = 0 /\ reset_deck = FALSE
  /\ confirmations = 0 /\ waited = 0
  /\ deck = DeckSize
  /\ events = <<>>

\* Enter a state.  A waiting state starts its clock when it is entered.
Goto(s) == state' = s /\ waited' = 0

Emit(evs) == events' = events \o evs

\* advance() gives up from the deadline on; a handler still accepts at it.
Expired == waited >= MaxWait[state]
InTime  == waited <= MaxWait[state]

\* The clock of a waiting state, which stops one tick past the deadline.
Tick ==
  /\ state \in WaitStates
  /\ waited <= MaxWait[state]
  /\ waited' = waited + 1
  /\ UNCHANGED <<state, round, turn, reset_deck, confirmations, deck, events>>

-----------------------------------------------------------------------------
(* advance(), one action per arm of its match. *)

AdvancePregame ==
  /\ state = "Pregame"
  /\ Goto("StartRound")
  /\ round' = 0
  /\ reset_deck' = FALSE
  /\ UNCHANGED <<turn, confirmations, deck, events>>

AdvanceStartRound ==
  /\ state = "StartRound"
  /\ Emit(<<Ev("Setup", 0), Ev("StartRound", round)>>)
  /\ deck' = IF reset_deck THEN DeckSize ELSE deck
  /\ turn' = round
  /\ Goto("StartTurn")
  /\ UNCHANGED <<round, reset_deck, confirmations>>

\* Mutated form: a turn without a card to draw is not announced.
AdvanceStartTurnWithCard ==
  /\ state = "StartTurn"
  /\ \/ deck > 0 /\ deck' = deck - 1 /\ Goto("DrawCard") /\ Emit(<<Ev("StartTurn", turn)>>)
     \/ deck = 0 /\ deck' = deck     /\ Goto("EndRound") /\ UNCHANGED events
  /\ UNCHANGED <<round, turn, reset_deck, confirmations>>

AdvanceStartTurn ==
  /\ state = "StartTurn"
  /\ Emit(<<Ev("StartTurn", turn)>>)
  /\ \/ deck > 0 /\ deck' = deck - 1 /\ Goto("DrawCard")
     \/ deck = 0 /\ deck' = deck     /\ Goto("EndRound")
  /\ UNCHANGED <<round, turn, reset_deck, confirmations>>

\* Mutated form: the decision is asked for before the card is sent.
AdvanceDrawCardPromptFirst ==
  /\ state = "DrawCard"
  /\ Emit(<<Ev("WaitForDecision", 0), Ev("DrawCard", turn)>>)
  /\ Goto("WaitingForDecision")
  /\ UNCHANGED <<round, turn, reset_deck, confirmations, deck>>

AdvanceDrawCard ==
  /\ state = "DrawCard"
  /\ Emit(<<Ev("DrawCard", turn), Ev("WaitForDecision", 0)>>)
  /\ Goto("WaitingForDecision")
  /\ UNCHANGED <<round, turn, reset_deck, confirmations, deck>>

\* Mutated form: the wait that goes on starts its clock afresh.
KeepWaitingAfresh(ev) ==
  /\ ~Expired
  /\ Emit(<<ev>>)
  /\ Goto(state)

\* A wait that goes on is announced again and keeps its deadline.
KeepWaiting(ev) ==
  /\ ~Expired
  /\ Emit(<<ev>>)
  /\ UNCHANGED <<state, waited>>

AdvanceWaitingForDecision ==
  /\ state = "WaitingForDecision"
  /\ \/ Expired /\ Goto("EndTurn") /\ UNCHANGED events
     \/ KeepWaiting(Ev("WaitForDecision", 0))
  /\ UNCHANGED <<round, turn, reset_deck, confirmations, deck>>

AdvancePlayDecision ==
  /\ state = "PlayDecision"
  /\ Emit(<<Ev("WaitForSnap", 0)>>)
  /\ Goto("WaitingForSnaps")
  /\ UNCHANGED <<round, turn, reset_deck, confirmations, deck>>

AdvanceWaitingForSnaps ==
  /\ state = "WaitingForSnaps"
  /\ \/ Expired /\ Goto("EndTurn") /\ UNCHANGED events
     \/ KeepWaiting(Ev("WaitForSnap", 0))
  /\ UNCHANGED <<round, turn, reset_deck, confirmations, deck>>

AdvanceSnapped ==
  /\ state = "Snapped"
  /\ Goto("EndTurn")
  /\ UNCHANGED <<round, turn, reset_deck, confirmations, deck, events>>

\* Mutated form: the last card of the deck is left undrawn.
AdvanceEndTurnEarly ==
  /\ state = "EndTurn"
  /\ Emit(<<Ev("EndTurn", turn)>>)
  /\ \/ deck <= 1 /\ Goto("EndRound")  /\ UNCHANGED turn
     \/ deck > 1 /\ Goto("StartTurn") /\ turn' = turn + 1
  /\ UNCHANGED <<round, reset_deck, confirmations, deck>>

AdvanceEndTurn ==
  /\ state = "EndTurn"
  /\ Emit(<<Ev("EndTurn", turn)>>)
  /\ \/ deck = 0 /\ Goto("EndRound")  /\ UNCHANGED turn
     \/ deck > 0 /\ Goto("StartTurn") /\ turn' = turn + 1
  /\ UNCHANGED <<round, reset_deck, confirmations, deck>>

AdvanceCambioCall ==
  /\ state = "CambioCall"
  /\ Emit(<<Ev("Cambio", 0)>>)
  /\ Goto("EndRound")
  /\ UNCHANGED <<round, turn, reset_deck, confirmations, deck>>

AdvanceEndRound ==
  /\ state = "EndRound"
  /\ Emit(<<Ev("EndRound", round)>>)
  /\ Goto("FindWinner")
  /\ UNCHANGED <<round, turn, reset_deck, confirmations, deck>>

AdvanceFindWinner ==
  /\ state = "FindWinner"
  /\ confirmations' = 0
  /\ Emit(<<Ev("FindWinner", 0), Ev("WaitForNewRound", 0)>>)
  /\ Goto("WaitingForNewRound")
  /\ UNCHANGED <<round, turn, reset_deck, deck>>

\* Mutated form: the wait for a new round has no deadline.
AdvanceWaitingForNewRoundForever ==
  /\ state = "WaitingForNewRound"
  /\ Emit(<<Ev("WaitForNewRound", confirmations)>>)
  /\ UNCHANGED <<state, round, turn, reset_deck, confirmations, waited, deck>>

AdvanceWaitingForNewRound ==
  /\ state = "WaitingForNewRound"
  /\ \/ Expired /\ Goto("Finished") /\ UNCHANGED events
     \/ KeepWaiting(Ev("WaitForNewRound", confirmations))
  /\ UNCHANGED <<round, turn, reset_deck, confirmations, deck>>

\* Mutated form: the finished game never tells its driver to leave.
AdvanceFinishedSilently ==
  /\ state = "Finished"
  /\ Goto("Finished")
  /\ UNCHANGED <<round, turn, reset_deck, confirmations, deck, events>>

AdvanceFinished ==
  /\ state = "Finished"
  /\ Emit(<<Ev("Exit", 0)>>)
  /\ Goto("Finished")
  /\ UNCHANGED <<round, turn, reset_deck, confirmations, deck>>

Advance ==
  \/ AdvancePregame      \/ AdvanceStartRound         \/ AdvanceStartTurn
  \/ AdvanceDrawCard     \/ AdvanceWaitingForDecision \/ AdvancePlayDecision
  \/ AdvanceSnapped      \/ AdvanceWaitingForSnaps    \/ AdvanceEndTurn
  \/ AdvanceCambioCall   \/ AdvanceEndRound           \/ AdvanceFindWinner
  \/ AdvanceFinished     \/ AdvanceWaitingForNewRound

-----------------------------------------------------------------------------
(* The calls that report what the players did.  Each is a no-op, a stutter *)
(* of these variables, in the states its action does not name.             *)

\* In PlayDecision the call first takes the one advance() that resolves it.
CambioCall ==
  /\ \/ state \in {"WaitingForDecision", "WaitingForSnaps"} /\ UNCHANGED events
     \/ state = "PlayDecision" /\ Emit(<<Ev("WaitForSnap", 0)>>)
  /\ Goto("CambioCall")
  /\ UNCHANGED <<round, turn, reset_deck, confirmations, deck>>

HandleDecision ==
  /\ state = "WaitingForDecision"
  /\ \/ InTime  /\ Goto("PlayDecision")
     \/ ~InTime /\ Goto("EndTurn")
  /\ UNCHANGED <<round, turn, reset_deck, confirmations, deck, events>>

HandleSnap ==
  /\ state = "WaitingForSnaps"
  /\ \/ InTime  /\ Goto("Snapped")
     \/ ~InTime /\ Goto("EndTurn")
  /\ UNCHANGED <<round, turn, reset_deck, confirmations, deck, events>>

Enough(needed) == confirmations + 1 >= needed

\* Mutated form: the next round is started with what is left of the deck.
StartNextRoundSameDeck == reset_deck' = FALSE /\ round' = round + 1

StartNextRound == reset_deck' = TRUE /\ round' = round + 1

ConfirmNewRound(needed) ==
  /\ state = "WaitingForNewRound"
  /\ confirmations' = confirmations + 1
  /\ \/ /\ InTime /\ Enough(needed)
        /\ round < MaxRound
        /\ Goto("StartRound")
        /\ StartNextRound
     \/ /\ InTime /\ ~Enough(needed)
        /\ UNCHANGED <<state, waited, round, reset_deck>>
     \/ /\ ~InTime
        /\ Goto("Finished")
        /\ UNCHANGED <<round, reset_deck>>
  /\ UNCHANGED <<turn, deck, events>>

SkipNewRound ==
  /\ state = "WaitingForNewRound"
  /\ Goto("Finished")
  /\ UNCHANGED <<round, turn, reset_deck, confirmations, deck, events>>

=============================================================================
