----------------------------- MODULE GameTheorems -----------------------------
(***************************************************************************)
(* What the operations of module Game do to its types and its queue, for   *)
(* the proofs about the modules that call them.                            *)
(***************************************************************************)
EXTENDS Game, TLAPS

-----------------------------------------------------------------------------
(* The queue. *)

NoSetup(q) == \A i \in 1..Len(q) : q[i].name # "Setup"

\* What Emit leaves in the queue of a driver that polls before it advances.
LEMMA EmitOne ==
  ASSUME events = <<>>, NEW name \in EventNames, NEW arg \in Nat,
         Emit(<<Ev(name, arg)>>)
  PROVE  /\ events' \in Seq(Event)
         /\ events' # <<>> /\ Head(events').name = name
         /\ name # "Setup" => NoSetup(events')
<1>1. events' = <<Ev(name, arg)>>
  BY DEF Emit
<1>2. Ev(name, arg) \in Event /\ Ev(name, arg).name = name
  BY DEF Ev, Event
<1>3. QED
  BY <1>1, <1>2 DEF NoSetup

LEMMA EmitTwo ==
  ASSUME events = <<>>, NEW name \in EventNames, NEW arg \in Nat,
         NEW name2 \in EventNames \ {"Setup"}, NEW arg2 \in Nat,
         Emit(<<Ev(name, arg), Ev(name2, arg2)>>)
  PROVE  /\ events' \in Seq(Event)
         /\ events' # <<>> /\ Head(events').name = name
         /\ NoSetup(Tail(events'))
         /\ name # "Setup" => NoSetup(events')
<1>1. events' = <<Ev(name, arg), Ev(name2, arg2)>>
  BY DEF Emit
<1>2. /\ Ev(name, arg) \in Event /\ Ev(name, arg).name = name
      /\ Ev(name2, arg2) \in Event /\ Ev(name2, arg2).name = name2
  BY DEF Ev, Event
<1>3. QED
  BY <1>1, <1>2 DEF NoSetup

-----------------------------------------------------------------------------
(* Types. *)

LEMMA InitType == GameInit => GameTypeOK
<1> SUFFICES ASSUME GameInit PROVE GameTypeOK
  OBVIOUS
<1> USE DEF GameInit
<1>1. reset_deck \in BOOLEAN
  BY Zenon
<1>2. state \in States /\ round \in 0..MaxRound /\ deck \in 0..DeckSize
  BY GameAssumption DEF States
<1>3. events \in Seq(Event) /\ {turn, confirmations, waited} \subseteq Nat
  OBVIOUS
<1>4. QED
  BY <1>1, <1>2, <1>3 DEF GameTypeOK

\* Advancing keeps the engine's types: the queue is what was emitted.
LEMMA AdvanceType ==
  ASSUME GameTypeOK, events = <<>>, Advance
  PROVE  GameTypeOK'
<1>0. /\ GameTypeOK /\ events = <<>> /\ events \in Seq(Event)
      /\ DeckSize \in Nat /\ {0, turn, round, confirmations} \subseteq Nat
  BY GameAssumption DEF GameTypeOK
<1>1. events' \in Seq(Event)
  <2>1. CASE AdvanceStartRound
    BY <1>0, <2>1, EmitTwo DEF AdvanceStartRound, EventNames
  <2>2. CASE AdvanceStartTurn
    BY <1>0, <2>2, EmitOne DEF AdvanceStartTurn, EventNames
  <2>3. CASE AdvanceDrawCard
    BY <1>0, <2>3, EmitTwo DEF AdvanceDrawCard, EventNames
  <2>4. CASE AdvanceWaitingForDecision
    BY <1>0, <2>4, EmitOne DEF AdvanceWaitingForDecision, KeepWaiting, EventNames
  <2>5. CASE AdvancePlayDecision
    BY <1>0, <2>5, EmitOne DEF AdvancePlayDecision, EventNames
  <2>6. CASE AdvanceWaitingForSnaps
    BY <1>0, <2>6, EmitOne DEF AdvanceWaitingForSnaps, KeepWaiting, EventNames
  <2>7. CASE AdvanceEndTurn
    BY <1>0, <2>7, EmitOne DEF AdvanceEndTurn, EventNames
  <2>8. CASE AdvanceCambioCall
    BY <1>0, <2>8, EmitOne DEF AdvanceCambioCall, EventNames
  <2>9. CASE AdvanceEndRound
    BY <1>0, <2>9, EmitOne DEF AdvanceEndRound, EventNames
  <2>10. CASE AdvanceFindWinner
    BY <1>0, <2>10, EmitTwo DEF AdvanceFindWinner, EventNames
  <2>11. CASE AdvanceWaitingForNewRound
    BY <1>0, <2>11, EmitOne DEF AdvanceWaitingForNewRound, KeepWaiting, EventNames
  <2>12. CASE AdvanceFinished
    BY <1>0, <2>12, EmitOne DEF AdvanceFinished, EventNames
  <2>13. CASE AdvancePregame \/ AdvanceSnapped
    BY <1>0, <2>13 DEF AdvancePregame, AdvanceSnapped
  <2>14. QED
    BY <2>1, <2>2, <2>3, <2>4, <2>5, <2>6, <2>7, <2>8, <2>9, <2>10, <2>11,
       <2>12, <2>13 DEF Advance
<1>2. /\ state' \in States /\ round' \in 0..MaxRound /\ deck' \in 0..DeckSize
      /\ turn' \in Nat /\ confirmations' \in Nat /\ waited' \in Nat
  BY <1>0, GameAssumption
  DEF GameTypeOK, States, Goto, KeepWaiting, Advance, AdvancePregame,
      AdvanceStartRound, AdvanceStartTurn, AdvanceDrawCard,
      AdvanceWaitingForDecision, AdvancePlayDecision, AdvanceSnapped,
      AdvanceWaitingForSnaps, AdvanceEndTurn, AdvanceCambioCall,
      AdvanceEndRound, AdvanceFindWinner, AdvanceFinished,
      AdvanceWaitingForNewRound
<1>3. reset_deck' \in BOOLEAN
  BY <1>0 DEF GameTypeOK, KeepWaiting, Advance, AdvancePregame,
      AdvanceStartRound, AdvanceStartTurn, AdvanceDrawCard,
      AdvanceWaitingForDecision, AdvancePlayDecision, AdvanceSnapped,
      AdvanceWaitingForSnaps, AdvanceEndTurn, AdvanceCambioCall,
      AdvanceEndRound, AdvanceFindWinner, AdvanceFinished,
      AdvanceWaitingForNewRound
<1>4. QED
  BY <1>1, <1>2, <1>3 DEF GameTypeOK

\* What the players report keeps them, and queues at most a request for snaps.
LEMMA ReportType ==
  ASSUME GameTypeOK, events = <<>>, NEW needed,
         HandleDecision \/ HandleSnap \/ ConfirmNewRound(needed) \/ SkipNewRound
           \/ CambioCall
  PROVE  GameTypeOK' /\ NoSetup(events')
<1>0. 0 \in Nat /\ NoSetup(events) /\ UNCHANGED <<deck, turn>>
  BY DEF NoSetup, HandleDecision, HandleSnap, ConfirmNewRound, SkipNewRound, CambioCall
<1>1. events' \in Seq(Event) /\ NoSetup(events')
  <2>1. CASE UNCHANGED events
    BY <1>0, <2>1 DEF GameTypeOK
  <2>2. CASE Emit(<<Ev("WaitForSnap", 0)>>)
    BY <1>0, <2>2, EmitOne DEF EventNames
  <2>3. QED
    BY <2>1, <2>2 DEF HandleDecision, HandleSnap, ConfirmNewRound, SkipNewRound,
                      CambioCall
<1>2. /\ state' \in States /\ round' \in 0..MaxRound
      /\ confirmations' \in Nat /\ waited' \in Nat
  BY <1>0, GameAssumption
  DEF GameTypeOK, States, Goto, HandleDecision, HandleSnap, ConfirmNewRound,
      SkipNewRound, CambioCall, StartNextRound
<1>3. reset_deck' \in BOOLEAN
  BY <1>0 DEF GameTypeOK, HandleDecision, HandleSnap, ConfirmNewRound, SkipNewRound,
              CambioCall, StartNextRound
<1>4. QED
  BY <1>0, <1>1, <1>2, <1>3 DEF GameTypeOK

=============================================================================
