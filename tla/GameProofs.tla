------------------------------ MODULE GameProofs ------------------------------
(***************************************************************************)
(* Proofs about GameDriver: types, the account of the cards and the length *)
(* of a round, for every deck, deal, deadline, number of confirmations and *)
(* bound on the rounds.                                                    *)
(***************************************************************************)
EXTENDS GameDriver, GameTheorems

-----------------------------------------------------------------------------
(* Initial states. *)

LEMMA InitDeckInv == Init => DeckInv
<1> SUFFICES ASSUME Init PROVE DeckInv
  OBVIOUS
<1> USE DEF Init, GameInit
<1>1. GameTypeOK
  BY InitType DEF Init
<1>2. TypeOK
  <2>1. dealt \in 0..DeckSize
    BY DriverAssumption
  <2>2. running = TRUE
    OBVIOUS
  <2>3. running \in BOOLEAN
    BY <2>2, Zenon
  <2>4. QED
    BY <1>1, <2>1, <2>2, <2>3 DEF TypeOK
<1>3. WholeDeck
  BY DEF WholeDeck
<1>4. DeckAccounting
  BY DEF DeckAccounting, Drawn
<1>5. QED
  BY <1>2, <1>3, <1>4 DEF DeckInv

-----------------------------------------------------------------------------
(* Steps. *)

\* Advancing keeps the account of the cards.
LEMMA AdvanceDeck ==
  ASSUME DeckInv, Idle, Advance, dealt' = dealt
  PROVE  WholeDeck' /\ DeckAccounting'
<1>0. /\ GameTypeOK /\ events = <<>> /\ ~DealPending /\ NoSetup(events)
      /\ WholeDeck /\ DeckAccounting
      /\ {0, turn, round, confirmations} \subseteq Nat
      /\ DeckSize \in Nat /\ dealt \in 0..DeckSize
  BY GameAssumption, DriverAssumption
  DEF DeckInv, TypeOK, GameTypeOK, Idle, DealPending, NoSetup
<1> DEFINE Deal == events' # <<>> /\ Head(events').name = "Setup"
<1>1. CASE AdvancePregame
  BY <1>0, <1>1 DEF AdvancePregame, Goto, WholeDeck, DeckAccounting, Drawn
<1>2. CASE AdvanceStartRound
  <2>1. Deal /\ NoSetup(Tail(events')) /\ events' \in Seq(Event)
    <3>1. Emit(<<Ev("Setup", 0), Ev("StartRound", round)>>)
      BY <1>2 DEF AdvanceStartRound
    <3>2. QED
      BY <1>0, <3>1, EmitTwo DEF EventNames
  <2>2. \A i \in 1..Len(events') : events'[i].name = "Setup" => i = 1
    <3>1. /\ Len(Tail(events')) = Len(events') - 1
          /\ \A j \in 1..Len(events') - 1 : Tail(events')[j] = events'[j + 1]
      BY <2>1
    <3>2. ASSUME NEW i \in 1..Len(events'), i # 1
          PROVE  events'[i].name # "Setup"
      <4>1. i - 1 \in 1..Len(Tail(events')) /\ events'[i] = Tail(events')[i - 1]
        BY <2>1, <3>1, <3>2
      <4>2. QED
        BY <2>1, <4>1 DEF NoSetup
    <3>3. QED
      BY <3>2
  <2>3. state' = "StartTurn" /\ turn' = round' /\ deck' = DeckSize
    BY <1>0, <1>2 DEF AdvanceStartRound, Goto, WholeDeck
  <2>4. WholeDeck'
    BY <2>2, <2>3 DEF WholeDeck
  <2>5. DeckAccounting'
    BY <1>0, <1>2, <2>1, <2>3 DEF AdvanceStartRound, DeckAccounting, DealPending, Drawn
  <2>6. QED
    BY <2>4, <2>5
<1>3. CASE ~(AdvancePregame \/ AdvanceStartRound)
  <2>1. NoSetup(events')
    BY <1>0, <1>3, EmitOne, EmitTwo
    DEF EventNames, KeepWaiting, Advance, AdvanceStartTurn, AdvanceDrawCard,
        AdvanceWaitingForDecision, AdvancePlayDecision, AdvanceSnapped,
        AdvanceWaitingForSnaps, AdvanceEndTurn, AdvanceCambioCall,
        AdvanceEndRound, AdvanceFindWinner, AdvanceFinished,
        AdvanceWaitingForNewRound
  <2>2. ~Deal
    <3>1. events' \in Seq(Event)
      BY <1>0, AdvanceType DEF GameTypeOK
    <3>2. QED
      BY <2>1, <3>1 DEF NoSetup
  <2>3. state' \notin {"Pregame", "StartRound"}
    BY <1>3
    DEF Goto, KeepWaiting, Advance, AdvanceStartTurn, AdvanceDrawCard,
        AdvanceWaitingForDecision, AdvancePlayDecision, AdvanceSnapped,
        AdvanceWaitingForSnaps, AdvanceEndTurn, AdvanceCambioCall,
        AdvanceEndRound, AdvanceFindWinner, AdvanceFinished,
        AdvanceWaitingForNewRound
  <2>4. WholeDeck'
    BY <2>1, <2>3 DEF WholeDeck, NoSetup
  <2>5. DeckAccounting'
    <3>1. CASE AdvanceStartTurn
      BY <1>0, <3>1 DEF AdvanceStartTurn, Goto, GameTypeOK, DeckAccounting, Drawn
    <3>2. CASE AdvanceEndTurn
      BY <1>0, <2>2, <3>2
      DEF AdvanceEndTurn, Goto, GameTypeOK, DeckAccounting, DealPending, Drawn
    <3>3. CASE ~(AdvanceStartTurn \/ AdvanceEndTurn)
      <4>1. /\ deck' = deck /\ turn' = turn /\ round' = round
            /\ state' # "StartTurn"
            /\ state' \in Drawn => state \in Drawn
        BY <1>3, <3>3
        DEF Drawn, Goto, KeepWaiting, Advance, AdvanceDrawCard,
            AdvanceWaitingForDecision, AdvancePlayDecision, AdvanceSnapped,
            AdvanceWaitingForSnaps, AdvanceCambioCall, AdvanceEndRound,
            AdvanceFindWinner, AdvanceFinished, AdvanceWaitingForNewRound
      <4>2. QED
        BY <1>0, <4>1 DEF DeckAccounting
    <3>4. QED
      BY <3>1, <3>2, <3>3
  <2>6. QED
    BY <2>4, <2>5
<1>4. QED
  BY <1>1, <1>2, <1>3

\* Polling Setup deals from a whole deck, so the deal never runs out.
LEMMA PollDeckInv ==
  ASSUME DeckInv, Poll
  PROVE  DeckInv'
<1>0. /\ TypeOK /\ GameTypeOK /\ WholeDeck /\ DeckAccounting
      /\ DeckSize \in Nat /\ dealt \in 0..DeckSize
      /\ events \in Seq(Event) /\ events # <<>>
  BY GameAssumption, DriverAssumption DEF DeckInv, TypeOK, GameTypeOK, Poll
<1>1. /\ Head(events) \in Event /\ events' = Tail(events)
      /\ events' \in Seq(Event) /\ Len(events') = Len(events) - 1
      /\ Head(events) = events[1]
      /\ \A i \in 1..Len(events') : events'[i] = events[i + 1]
  BY <1>0 DEF Poll
<1>3. DealPending => state = "StartTurn" /\ turn = round /\ deck = DeckSize
  BY <1>0, <1>1 DEF DealPending, WholeDeck
<1>4. NoSetup(events')
  BY <1>0, <1>1 DEF WholeDeck, NoSetup
<1>5. deck' = IF DealPending THEN deck - dealt ELSE deck
  BY <1>0 DEF Poll, DealPending
<1>6. ~(events' # <<>> /\ Head(events').name = "Setup")
  BY <1>1, <1>4 DEF NoSetup
<1>7. GameTypeOK'
  BY <1>0, <1>1, <1>3, <1>5 DEF GameTypeOK, Poll
<1>8. TypeOK'
  BY <1>0, <1>1, <1>7 DEF TypeOK, Poll
<1>9. WholeDeck'
  BY <1>0, <1>3, <1>4, <1>5 DEF WholeDeck, Poll, NoSetup
<1>10. DeckAccounting'
  BY <1>0, <1>3, <1>5, <1>6 DEF DeckAccounting, DealPending, Poll, Drawn
<1>11. QED
  BY <1>8, <1>9, <1>10 DEF DeckInv

\* What the players report changes no card, and emits at most a request for
\* snaps.
LEMMA ReportDeckInv ==
  ASSUME DeckInv, Report
  PROVE  DeckInv'
<1>0. /\ TypeOK /\ GameTypeOK /\ WholeDeck /\ DeckAccounting
      /\ 0 \in Nat /\ events = <<>> /\ NoSetup(events) /\ ~DealPending
      /\ UNCHANGED <<deck, turn, dealt>>
  BY DEF DeckInv, TypeOK, Report, Idle, NoSetup, DealPending, HandleDecision,
         HandleSnap, ConfirmNewRound, SkipNewRound, CambioCall
<1>1. GameTypeOK' /\ NoSetup(events')
  BY <1>0, ReportType DEF Report
<1>2. TypeOK'
  BY <1>0, <1>1 DEF TypeOK, Report
<1>3. /\ state' = "StartRound" => reset_deck' = TRUE
      /\ state' # "Pregame" /\ state' # "StartTurn"
  BY DEF Goto, Report, HandleDecision, HandleSnap, ConfirmNewRound,
         SkipNewRound, CambioCall, StartNextRound
<1>4. state' \in Drawn => state \in Drawn /\ round' = round
  BY DEF Drawn, Goto, Report, HandleDecision, HandleSnap, ConfirmNewRound,
         SkipNewRound, CambioCall
<1>5. WholeDeck'
  BY <1>1, <1>3 DEF WholeDeck, NoSetup
<1>6. DeckAccounting'
  BY <1>0, <1>3, <1>4 DEF DeckAccounting
<1>7. QED
  BY <1>2, <1>5, <1>6 DEF DeckInv

-----------------------------------------------------------------------------
(* Theorems. *)

LEMMA NextDeckInv == DeckInv /\ [Next]_vars => DeckInv'
<1> SUFFICES ASSUME DeckInv, [Next]_vars PROVE DeckInv'
  OBVIOUS
<1>1. CASE Poll
  BY <1>1, PollDeckInv
<1>2. CASE Step
  <2>1. Idle /\ Advance /\ UNCHANGED <<running, dealt>>
    BY <1>2 DEF Step
  <2>2. TypeOK'
    BY <2>1, AdvanceType DEF DeckInv, TypeOK, Idle
  <2>3. QED
    BY <2>1, <2>2, AdvanceDeck DEF DeckInv
<1>3. CASE Report
  BY <1>3, ReportDeckInv
<1>4. CASE Time
  BY <1>4 DEF Time, Tick, DeckInv, TypeOK, GameTypeOK, WholeDeck,
              DeckAccounting, DealPending
<1>5. CASE UNCHANGED vars
  BY <1>5 DEF vars, gameVars, DeckInv, TypeOK, GameTypeOK, WholeDeck,
              DeckAccounting, DealPending
<1>6. QED
  BY <1>1, <1>2, <1>3, <1>4, <1>5 DEF Next

\* The inductive invariant holds in every reachable state.
THEOREM DeckInvariant == Spec => []DeckInv
<1>1. Init => DeckInv
  BY InitDeckInv
<1>2. DeckInv /\ [Next]_vars => DeckInv'
  BY NextDeckInv
<1>3. QED
  BY <1>1, <1>2, PTL DEF Spec

\* Every variable of the engine and of its driver keeps its type: the deck
\* never goes below zero, whatever take_starting_cards drains from it.
THEOREM TypeCorrect == Spec => []TypeOK
<1>1. DeckInv => TypeOK
  BY DEF DeckInv
<1>2. QED
  BY <1>1, DeckInvariant, PTL

\* In every round the cards left are told by the number of the turn.
THEOREM CardsAccounted == Spec => []DeckAccounting
<1>1. DeckInv => DeckAccounting
  BY DEF DeckInv
<1>2. QED
  BY <1>1, DeckInvariant, PTL

\* A round that runs out of cards had as many turns as the deal left cards.
THEOREM RoundsFullLength == Spec => RoundLength
<1>1. ASSUME DeckInv, [Next]_vars, state = "EndTurn", state' = "EndRound"
      PROVE  turn - round + 1 = DeckSize - dealt
  <2>1. AdvanceEndTurn
    BY <1>1 DEF Next, Poll, Step, Report, Time, vars, gameVars, Tick,
       Advance, Goto, KeepWaiting, HandleDecision, HandleSnap, ConfirmNewRound,
       SkipNewRound, CambioCall, AdvancePregame, AdvanceStartRound,
       AdvanceStartTurn, AdvanceDrawCard, AdvanceWaitingForDecision,
       AdvancePlayDecision, AdvanceSnapped, AdvanceWaitingForSnaps,
       AdvanceCambioCall, AdvanceEndRound, AdvanceFindWinner, AdvanceFinished,
       AdvanceWaitingForNewRound
  <2>2. deck = 0
    BY <1>1, <2>1 DEF AdvanceEndTurn, Goto
  <2>3. /\ deck + dealt + (turn - round) + 1 = DeckSize
        /\ {deck, turn, round, dealt} \subseteq Nat /\ DeckSize \in Nat
    BY <1>1, GameAssumption DEF DeckInv, DeckAccounting, Drawn, TypeOK, GameTypeOK
  <2>4. QED
    BY <2>2, <2>3
<1>2. DeckInv /\ [Next]_vars
        => [state = "EndTurn" /\ state' = "EndRound"
              => turn - round + 1 = DeckSize - dealt]_vars
  BY <1>1
<1>3. QED
  BY <1>2, DeckInvariant, PTL DEF Spec, RoundLength

=============================================================================
