----------------------------- MODULE StreamProofs -----------------------------
(***************************************************************************)
(* Proof that GameDriver, by the record of EventRecord, implements         *)
(* EventStream: whatever the players do and whenever the driver advances,  *)
(* the events it polls come in the order and with the numbers of the       *)
(* abstract specification.                                                 *)
(***************************************************************************)
EXTENDS EventRecord, GameProofs

-----------------------------------------------------------------------------
(* The inductive invariant: what may still be in the queue in each state of *)
(* the engine, and what the driver has seen before it.                      *)

Queued(q, seen) == events = q /\ last.name \in seen

InRound  == rounds = round + 1
Prompted == {"WaitForDecision", "WaitForSnap"}

StartTurnQueue ==
  \/ /\ rounds = round /\ turn = round
     /\ \/ Queued(<<Ev("Setup", 0), Ev("StartRound", round)>>, {"Nothing", "WaitForNewRound"})
        \/ Queued(<<Ev("StartRound", round)>>, {"Setup"})
  \/ /\ InRound
     /\ \/ due = turn     /\ Queued(<<>>, {"StartRound", "EndTurn"})
        \/ due = turn - 1 /\ Queued(<<Ev("EndTurn", turn - 1)>>, Prompted)

DrawCardQueue ==
  \/ Queued(<<Ev("StartTurn", turn)>>, {"StartRound", "EndTurn"})
  \/ Queued(<<>>, {"StartTurn"})

DecisionQueue ==
  \/ Queued(<<Ev("DrawCard", turn), Ev("WaitForDecision", 0)>>, {"StartTurn"})
  \/ Queued(<<Ev("WaitForDecision", 0)>>, {"DrawCard", "WaitForDecision"})
  \/ Queued(<<>>, {"WaitForDecision"})

SnapsQueue ==
  \/ Queued(<<Ev("WaitForSnap", 0)>>, Prompted)
  \/ Queued(<<>>, {"WaitForSnap"})

CambioQueue ==
  \/ Queued(<<Ev("WaitForSnap", 0)>>, {"WaitForDecision"})
  \/ Queued(<<>>, Prompted)

EndRoundQueue ==
  \/ /\ due = turn
     /\ \/ Queued(<<Ev("StartTurn", turn)>>, {"StartRound", "EndTurn"})
        \/ Queued(<<Ev("EndTurn", turn)>>, Prompted)
  \/ Queued(<<Ev("Cambio", 0)>>, Prompted)
  \/ Queued(<<>>, {"StartTurn", "EndTurn", "Cambio"})

WinnerQueue ==
  \/ Queued(<<Ev("EndRound", round)>>, {"StartTurn", "EndTurn", "Cambio"})
  \/ Queued(<<>>, {"EndRound"})

NewRoundQueue ==
  \/ /\ confirmations = 0
     /\ \/ Queued(<<Ev("FindWinner", 0), Ev("WaitForNewRound", 0)>>, {"EndRound"})
        \/ Queued(<<Ev("WaitForNewRound", 0)>>, {"FindWinner"})
  \/ /\ last.arg <= confirmations
     /\ \/ Queued(<<Ev("WaitForNewRound", confirmations)>>, {"WaitForNewRound"})
        \/ Queued(<<>>, {"WaitForNewRound"})

FinishedQueue ==
  \/ Queued(<<Ev("Exit", 0)>>, {"WaitForNewRound"})
  \/ Queued(<<>>, {"WaitForNewRound"})

RecordType ==
  /\ last \in Event \union {Ev("Nothing", 0)}
  /\ {rounds, due} \subseteq Nat

StreamInv ==
  /\ RecordType
  /\ state = "Pregame" => rounds = 0 /\ Queued(<<>>, {"Nothing"})
  /\ state = "StartRound" =>
       rounds = round /\ Queued(<<>>, {"Nothing", "WaitForNewRound"})
  /\ state = "StartTurn" => StartTurnQueue
  /\ state \in Drawn => InRound /\ due = turn
  /\ state = "DrawCard" => DrawCardQueue
  /\ state = "WaitingForDecision" => DecisionQueue
  /\ state = "PlayDecision" => Queued(<<>>, {"WaitForDecision"})
  /\ state = "WaitingForSnaps" => SnapsQueue
  /\ state = "Snapped" => Queued(<<>>, {"WaitForSnap"})
  /\ state = "EndTurn" => Queued(<<>>, Prompted)
  /\ state = "CambioCall" => InRound /\ CambioQueue
  /\ state = "EndRound" => InRound /\ EndRoundQueue
  /\ state = "FindWinner" => InRound /\ WinnerQueue
  /\ state = "WaitingForNewRound" => InRound /\ NewRoundQueue
  /\ state = "Finished" /\ running => FinishedQueue

-----------------------------------------------------------------------------
(* Polling. *)

\* What polling does to the driver's record, by the event at the head.
Polls(name, arg) ==
  /\ last' = [name |-> name, arg |-> arg]
  /\ rounds' = IF name = "StartRound" THEN arg + 1 ELSE rounds
  /\ due' = CASE name = "StartRound" -> arg
              [] name = "EndTurn"    -> arg + 1
              [] OTHER               -> due
  /\ running' = (name # "Exit")
  /\ UNCHANGED <<state, round, turn, confirmations>>

LEMMA PollLast ==
  ASSUME Poll, See(Head(events)), NEW name, NEW arg, events = <<Ev(name, arg)>>
  PROVE  events' = <<>> /\ Polls(name, arg)
<1>1. Head(events) = Ev(name, arg) /\ Tail(events) = <<>>
  OBVIOUS
<1>2. QED
  BY <1>1 DEF Poll, See, Polls, Ev

LEMMA PollFirst ==
  ASSUME Poll, See(Head(events)), NEW name, NEW arg, NEW e, events = <<Ev(name, arg), e>>
  PROVE  events' = <<e>> /\ Polls(name, arg)
<1>1. Head(events) = Ev(name, arg) /\ Tail(events) = <<e>>
  OBVIOUS
<1>2. QED
  BY <1>1 DEF Poll, See, Polls, Ev

\* Every poll is a step of the abstract specification.
LEMMA PollStream ==
  ASSUME TypeOK, StreamInv, Poll, See(Head(events))
  PROVE  Stream!Next /\ StreamInv'
<1>0. /\ events # <<>> /\ running /\ state \in States
      /\ {round, turn, rounds, due, confirmations} \subseteq Nat
  BY DEF TypeOK, GameTypeOK, StreamInv, RecordType, Poll
<1>types. RecordType'
  <2>1. Head(events) \in Event
    BY <1>0 DEF TypeOK, GameTypeOK
  <2>2. Head(events).arg \in Nat
    BY <2>1 DEF Event
  <2>3. QED
    BY <1>0, <2>1, <2>2 DEF See, RecordType
<1> USE DEF Queued, InRound, Prompted, Drawn, Polls
<1>1. CASE state = "StartTurn"
  <2>1. StartTurnQueue
    BY <1>1 DEF StreamInv
  <2>2. CASE events = <<Ev("Setup", 0), Ev("StartRound", round)>>
    BY <1>0, <1>types, <1>1, <2>1, <2>2, PollFirst
    DEF StreamInv, StartTurnQueue, Stream!Next, Stream!Setup, Stream!Then
  <2>3. CASE events = <<Ev("StartRound", round)>>
    BY <1>0, <1>types, <1>1, <2>1, <2>3, PollLast
    DEF StreamInv, StartTurnQueue, Ev, Stream!Next, Stream!StartRound, Stream!Then
  <2>4. CASE events = <<Ev("EndTurn", turn - 1)>>
    BY <1>0, <1>types, <1>1, <2>1, <2>4, PollLast
    DEF StreamInv, StartTurnQueue, Ev, Stream!Next, Stream!EndTurn, Stream!Then
  <2>5. QED
    BY <1>0, <1>types, <2>1, <2>2, <2>3, <2>4 DEF StartTurnQueue
<1>2. CASE state = "DrawCard"
  BY <1>0, <1>types, <1>2, PollLast
  DEF StreamInv, DrawCardQueue, Stream!Next, Stream!StartTurn, Stream!Then
<1>3. CASE state = "WaitingForDecision"
  <2>1. DecisionQueue /\ InRound /\ due = turn
    BY <1>3 DEF StreamInv
  <2>2. CASE events = <<Ev("DrawCard", turn), Ev("WaitForDecision", 0)>>
    BY <1>0, <1>types, <1>3, <2>1, <2>2, PollFirst
    DEF StreamInv, DecisionQueue, Stream!Next, Stream!PlayTurn, Stream!Then
  <2>3. CASE events = <<Ev("WaitForDecision", 0)>>
    BY <1>0, <1>types, <1>3, <2>1, <2>3, PollLast
    DEF StreamInv, DecisionQueue, Ev, Stream!Next, Stream!PlayTurn, Stream!Then
  <2>4. QED
    BY <1>0, <1>types, <2>1, <2>2, <2>3 DEF DecisionQueue
<1>4. CASE state = "WaitingForSnaps"
  BY <1>0, <1>types, <1>4, PollLast
  DEF StreamInv, SnapsQueue, Stream!Next, Stream!PlayTurn, Stream!Then
<1>5. CASE state = "CambioCall"
  BY <1>0, <1>types, <1>5, PollLast
  DEF StreamInv, CambioQueue, Stream!Next, Stream!PlayTurn, Stream!Then
<1>6. CASE state = "EndRound"
  <2>1. EndRoundQueue /\ InRound
    BY <1>6 DEF StreamInv
  <2>2. CASE events = <<Ev("StartTurn", turn)>>
    BY <1>0, <1>types, <1>6, <2>1, <2>2, PollLast
    DEF StreamInv, EndRoundQueue, Ev, Stream!Next, Stream!StartTurn, Stream!Then
  <2>3. CASE events = <<Ev("EndTurn", turn)>>
    BY <1>0, <1>types, <1>6, <2>1, <2>3, PollLast
    DEF StreamInv, EndRoundQueue, Ev, Stream!Next, Stream!EndTurn, Stream!Then
  <2>4. CASE events = <<Ev("Cambio", 0)>>
    BY <1>0, <1>types, <1>6, <2>1, <2>4, PollLast
    DEF StreamInv, EndRoundQueue, Ev, Stream!Next, Stream!PlayTurn, Stream!Then
  <2>5. QED
    BY <1>0, <1>types, <2>1, <2>2, <2>3, <2>4 DEF EndRoundQueue
<1>7. CASE state = "FindWinner"
  BY <1>0, <1>types, <1>7, PollLast
  DEF StreamInv, WinnerQueue, Stream!Next, Stream!CloseRound, Stream!Then
<1>8. CASE state = "WaitingForNewRound"
  <2>1. NewRoundQueue /\ InRound
    BY <1>8 DEF StreamInv
  <2>2. CASE events = <<Ev("FindWinner", 0), Ev("WaitForNewRound", 0)>>
    BY <1>0, <1>types, <1>8, <2>1, <2>2, PollFirst
    DEF StreamInv, NewRoundQueue, Stream!Next, Stream!CloseRound, Stream!Then
  <2>3. CASE events = <<Ev("WaitForNewRound", 0)>> /\ last.name = "FindWinner"
    BY <1>0, <1>types, <1>8, <2>1, <2>3, PollLast
    DEF StreamInv, NewRoundQueue, Ev, Stream!Next, Stream!CloseRound, Stream!Then
  <2>4. CASE /\ events = <<Ev("WaitForNewRound", confirmations)>>
             /\ last.name = "WaitForNewRound" /\ last.arg <= confirmations
    BY <1>0, <1>types, <1>8, <2>4, PollLast
    DEF StreamInv, NewRoundQueue, Ev, Stream!Next, Stream!CloseRound, Stream!Then
  <2>5. QED
    BY <1>0, <1>types, <2>1, <2>2, <2>3, <2>4 DEF NewRoundQueue
<1>9. CASE state = "Finished"
  BY <1>0, <1>types, <1>9, PollLast
  DEF StreamInv, FinishedQueue, Stream!Next, Stream!CloseRound, Stream!Then
<1>10. CASE state \in {"Pregame", "StartRound", "PlayDecision", "Snapped", "EndTurn"}
  BY <1>0, <1>types, <1>10 DEF StreamInv
<1>11. QED
  BY <1>0, <1>types, <1>1, <1>2, <1>3, <1>4, <1>5, <1>6, <1>7, <1>8, <1>9, <1>10 DEF States

-----------------------------------------------------------------------------
(* The other steps leave the record alone, and queue what may follow it. *)

LEMMA InitStream == RecordInit => Stream!Init /\ StreamInv
<1> SUFFICES ASSUME RecordInit PROVE Stream!Init /\ StreamInv
  OBVIOUS
<1>1. /\ state = "Pregame" /\ events = <<>> /\ last = [name |-> "Nothing", arg |-> 0]
      /\ rounds = 0 /\ due = 0
  BY DEF RecordInit, Init, GameInit, Ev
<1>2. Stream!Init
  BY <1>1 DEF Stream!Init
<1>3. StreamInv
  BY <1>1 DEF StreamInv, RecordType, Ev, Queued, Drawn
<1>4. QED
  BY <1>2, <1>3

LEMMA AdvanceStream ==
  ASSUME TypeOK, StreamInv, Idle, Advance, UNCHANGED seenVars, running' = running
  PROVE  StreamInv'
<1>0. /\ events = <<>> /\ running /\ running' /\ round \in Nat /\ turn \in Nat
      /\ UNCHANGED <<last, rounds, due>>
      /\ \A e : Emit(<<e>>) => events' = <<e>>
      /\ \A e, f : Emit(<<e, f>>) => events' = <<e, f>>
  BY DEF TypeOK, GameTypeOK, Idle, seenVars, Emit
<1> USE DEF Queued, InRound, Prompted, Drawn, Goto, RecordType
<1>1. CASE AdvancePregame
  BY <1>0, <1>1 DEF AdvancePregame, StreamInv
<1>2. CASE AdvanceStartRound
  BY <1>0, <1>2 DEF AdvanceStartRound, StreamInv, StartTurnQueue
<1>3. CASE AdvanceStartTurn
  BY <1>0, <1>3
  DEF AdvanceStartTurn, StreamInv, StartTurnQueue, DrawCardQueue, EndRoundQueue
<1>4. CASE AdvanceDrawCard
  BY <1>0, <1>4 DEF AdvanceDrawCard, StreamInv, DrawCardQueue, DecisionQueue
<1>5. CASE AdvanceWaitingForDecision
  BY <1>0, <1>5
  DEF AdvanceWaitingForDecision, KeepWaiting, StreamInv, DecisionQueue
<1>6. CASE AdvancePlayDecision
  BY <1>0, <1>6 DEF AdvancePlayDecision, StreamInv, SnapsQueue
<1>7. CASE AdvanceWaitingForSnaps
  BY <1>0, <1>7 DEF AdvanceWaitingForSnaps, KeepWaiting, StreamInv, SnapsQueue
<1>8. CASE AdvanceSnapped
  BY <1>0, <1>8 DEF AdvanceSnapped, StreamInv
<1>9. CASE AdvanceEndTurn
  BY <1>0, <1>9 DEF AdvanceEndTurn, StreamInv, StartTurnQueue, EndRoundQueue
<1>10. CASE AdvanceCambioCall
  BY <1>0, <1>10 DEF AdvanceCambioCall, StreamInv, CambioQueue, EndRoundQueue
<1>11. CASE AdvanceEndRound
  BY <1>0, <1>11 DEF AdvanceEndRound, StreamInv, EndRoundQueue, WinnerQueue
<1>12. CASE AdvanceFindWinner
  BY <1>0, <1>12 DEF AdvanceFindWinner, StreamInv, WinnerQueue, NewRoundQueue
<1>13. CASE AdvanceWaitingForNewRound
  BY <1>0, <1>13
  DEF AdvanceWaitingForNewRound, KeepWaiting, StreamInv, NewRoundQueue, FinishedQueue
<1>14. CASE AdvanceFinished
  BY <1>0, <1>14 DEF AdvanceFinished, StreamInv, FinishedQueue
<1>15. QED
  BY <1>1, <1>2, <1>3, <1>4, <1>5, <1>6, <1>7, <1>8, <1>9, <1>10, <1>11, <1>12,
     <1>13, <1>14 DEF Advance

LEMMA ReportStream ==
  ASSUME TypeOK, StreamInv, Report, UNCHANGED seenVars
  PROVE  StreamInv'
<1>0. /\ events = <<>> /\ round \in Nat /\ confirmations \in Nat
      /\ UNCHANGED <<last, rounds, due, running>>
      /\ Emit(<<Ev("WaitForSnap", 0)>>) => events' = <<Ev("WaitForSnap", 0)>>
  BY DEF TypeOK, GameTypeOK, Report, Idle, seenVars, Emit
<1> USE DEF Queued, InRound, Prompted, Drawn, Goto, RecordType
<1>1. CASE HandleDecision
  BY <1>0, <1>1 DEF HandleDecision, StreamInv, DecisionQueue
<1>2. CASE HandleSnap
  BY <1>0, <1>2 DEF HandleSnap, StreamInv, SnapsQueue
<1>3. CASE ConfirmNewRound(Needed)
  <2>1. /\ state = "WaitingForNewRound" /\ events' = <<>> /\ rounds = round + 1
        /\ last.name = "WaitForNewRound" /\ last.arg <= confirmations
    BY <1>0, <1>3 DEF ConfirmNewRound, StreamInv, NewRoundQueue
  <2>2. last.arg \in Int
    BY DEF StreamInv, RecordType, Event, Ev
  <2>3. QED
    BY <1>0, <1>3, <2>1, <2>2
    DEF ConfirmNewRound, StartNextRound, StreamInv, NewRoundQueue, FinishedQueue
<1>4. CASE SkipNewRound
  BY <1>0, <1>4 DEF SkipNewRound, StreamInv, NewRoundQueue, FinishedQueue
<1>5. CASE CambioCall
  BY <1>0, <1>5 DEF CambioCall, StreamInv, DecisionQueue, SnapsQueue, CambioQueue
<1>6. QED
  BY <1>1, <1>2, <1>3, <1>4, <1>5 DEF Report

-----------------------------------------------------------------------------
(* Theorem. *)

\* The engine under its driver implements the promised order of events: rounds
\* and turns are numbered without gaps, each prompt belongs to the turn that
\* was announced last, and Exit comes after a wait for a new round only.
THEOREM EventsInOrder == RecordSpec => StreamSpec
<1>1. RecordInit => Stream!Init /\ StreamInv
  BY InitStream
<1>2. TypeOK /\ StreamInv /\ [RecordNext]_<<vars, seenVars>>
        => StreamInv' /\ [Stream!Next]_Stream!streamVars
  <2> SUFFICES ASSUME TypeOK, StreamInv, [RecordNext]_<<vars, seenVars>>
               PROVE  StreamInv' /\ [Stream!Next]_Stream!streamVars
    OBVIOUS
  <2>1. CASE Poll /\ See(Head(events))
    BY <2>1, PollStream
  <2>2. CASE Step /\ UNCHANGED seenVars
    BY <2>2, AdvanceStream DEF Step, seenVars, Stream!streamVars
  <2>3. CASE Report /\ UNCHANGED seenVars
    BY <2>3, ReportStream DEF seenVars, Stream!streamVars
  <2>4. CASE (Time \/ UNCHANGED vars) /\ UNCHANGED seenVars
    <3>1. UNCHANGED <<state, round, turn, confirmations, events, running, last, rounds, due>>
      BY <2>4 DEF Time, Tick, vars, gameVars, seenVars
    <3>2. QED
      BY <3>1 DEF seenVars, Stream!streamVars, StreamInv, RecordType, Queued, InRound,
        StartTurnQueue, DrawCardQueue, DecisionQueue, SnapsQueue, CambioQueue,
        EndRoundQueue, WinnerQueue, NewRoundQueue, FinishedQueue
  <2>5. QED
    BY <2>1, <2>2, <2>3, <2>4 DEF RecordNext
<1>3. RecordSpec => []TypeOK
  <2>1. RecordInit => Init
    BY DEF RecordInit
  <2>2. [RecordNext]_<<vars, seenVars>> => [Next]_vars
    BY DEF RecordNext, Next
  <2>3. RecordSpec => Spec
    BY <2>1, <2>2, PTL DEF RecordSpec, Spec
  <2>4. QED
    BY <2>3, TypeCorrect, PTL
<1>4. QED
  BY <1>1, <1>2, <1>3, PTL DEF RecordSpec, StreamSpec, Stream!Spec

=============================================================================
