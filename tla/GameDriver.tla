------------------------------ MODULE GameDriver ------------------------------
(***************************************************************************)
(* The engine of module Game under the one discipline both its drivers     *)
(* keep, the test one_round_finish of game/src/lib.rs and the loop of      *)
(* server/src/game.rs: poll until no event is left, then either report     *)
(* something a player did or advance, and leave on Exit.  When it polls    *)
(* Setup the driver takes the starting cards out of the deck.              *)
(*                                                                         *)
(* The driver is otherwise free: it may advance before a deadline, let any *)
(* amount of time pass, and make every call in every state.                *)
(***************************************************************************)
EXTENDS Game

CONSTANTS
  Deals,   \* the numbers of cards a game may take out of the deck at Setup
  Needed   \* confirmations a new round needs

ASSUME DriverAssumption ==
  /\ Deals \subseteq 0..DeckSize
  /\ Needed \in Nat

VARIABLES
  running, \* the driver has not seen Exit
  dealt    \* cards this game deals at every Setup

vars == <<gameVars, running, dealt>>

TypeOK ==
  /\ GameTypeOK
  /\ running \in BOOLEAN
  /\ dealt \in 0..DeckSize

-----------------------------------------------------------------------------

Init ==
  /\ GameInit
  /\ running = TRUE
  /\ dealt \in Deals

Poll ==
  /\ running /\ events # <<>>
  /\ events' = Tail(events)
  /\ LET e == Head(events)
     IN /\ deck' = IF e.name = "Setup" THEN deck - dealt ELSE deck
        /\ running' = (e.name # "Exit")
  /\ UNCHANGED <<state, round, turn, reset_deck, confirmations, waited, dealt>>

Idle == running /\ events = <<>>

Step ==
  /\ Idle
  /\ Advance
  /\ UNCHANGED <<running, dealt>>

Report ==
  /\ Idle
  /\ \/ HandleDecision
     \/ HandleSnap
     \/ ConfirmNewRound(Needed)
     \/ SkipNewRound
     \/ CambioCall
  /\ UNCHANGED <<running, dealt>>

Time == running /\ Tick /\ UNCHANGED <<running, dealt>>

Next == Poll \/ Step \/ Report \/ Time

Spec == Init /\ [][Next]_vars

\* The driver keeps looping and the clock keeps running.  Nothing is asked
\* of the players: Report has no fairness.
Fairness == WF_vars(Poll) /\ WF_vars(Step) /\ WF_vars(Time)

-----------------------------------------------------------------------------
(* Properties. *)

\* The states of a turn whose card has been drawn.
Drawn == {"DrawCard", "WaitingForDecision", "PlayDecision",
          "WaitingForSnaps", "Snapped", "EndTurn"}

DealPending == events # <<>> /\ Head(events).name = "Setup"

\* The turn number tells how many cards are left: in every round, whatever
\* was decided, snapped, missed or timed out in it and however many rounds
\* came before, the deck lacks the cards dealt and one card per turn begun.
DeckAccounting ==
  /\ state = "StartTurn" =>
       deck + (IF DealPending THEN 0 ELSE dealt) + (turn - round) = DeckSize
  /\ state \in Drawn =>
       deck + dealt + (turn - round) + 1 = DeckSize

\* A round that is not cut short by a call of Cambio ends by itself after
\* exactly as many turns as the deal left cards in the deck.
RoundLength ==
  [][state = "EndTurn" /\ state' = "EndRound"
       => turn - round + 1 = DeckSize - dealt]_vars

\* The inductive strengthening of TypeOK, DeckAccounting and RoundLength.  A
\* pending Setup is the first event after a round was started, and the deck
\* it is dealt from is whole; turns count up from the number of the round.
WholeDeck ==
  /\ state = "Pregame" \/ (state = "StartRound" /\ ~reset_deck)
       => deck = DeckSize
  /\ \A i \in 1..Len(events) :
       events[i].name = "Setup"
         => i = 1 /\ state = "StartTurn" /\ turn = round /\ deck = DeckSize

DeckInv == TypeOK /\ WholeDeck /\ DeckAccounting

\* No round hangs on its players: one that starts reaches the count of its
\* cards even if nobody ever decides or snaps, and also if somebody keeps
\* the driver advancing without ever giving an answer.
RoundEnds == (state = "StartRound") ~> (state = "FindWinner")

\* When the players stop confirming new rounds the driver leaves its loop,
\* as the test one_round_finish asserts of a game that is skipped.
DriverStops == <>~running

=============================================================================
