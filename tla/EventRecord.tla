----------------------------- MODULE EventRecord -----------------------------
(***************************************************************************)
(* GameDriver with a record of the events it has polled.  The driver never *)
(* reads the record: it is there to say in which order the events come.    *)
(***************************************************************************)
EXTENDS GameDriver

VARIABLES
  last,    \* the last event polled
  rounds,  \* how many rounds were started
  due      \* which turn is being played or comes next

seenVars == <<last, rounds, due>>

RecordInit ==
  /\ Init
  /\ last = Ev("Nothing", 0)
  /\ rounds = 0
  /\ due = 0

See(e) ==
  /\ last' = e
  /\ rounds' = IF e.name = "StartRound" THEN e.arg + 1 ELSE rounds
  /\ due' = CASE e.name = "StartRound" -> e.arg
              [] e.name = "EndTurn"    -> e.arg + 1
              [] OTHER                 -> due

RecordNext ==
  \/ Poll /\ See(Head(events))
  \/ (Step \/ Report \/ Time) /\ UNCHANGED seenVars

RecordSpec == RecordInit /\ [][RecordNext]_<<vars, seenVars>>

FairSpec == RecordSpec /\ Fairness

-----------------------------------------------------------------------------
(* Properties. *)

\* The events come in the order, and with the numbers, of EventStream.
Stream == INSTANCE EventStream WITH last <- last, rounds <- rounds, due <- due
StreamSpec == Stream!Spec

=============================================================================
