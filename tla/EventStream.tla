----------------------------- MODULE EventStream -----------------------------
(***************************************************************************)
(* What game/src/lib.rs promises to whoever polls its events: the order in *)
(* which they come and the numbers they carry.  The server forwards them   *)
(* to the clients in this order, so it is also the protocol a client may   *)
(* rely on.  Nothing here knows of states, queues, clocks or cards.        *)
(*                                                                         *)
(* Rounds are numbered from 0 without gaps, the turns of round r count up  *)
(* from r without gaps, and every turn that is started is closed by an     *)
(* EndTurn of the same number, by Cambio, or by the round running out of   *)
(* cards before one could be drawn.                                        *)
(***************************************************************************)
EXTENDS Naturals

VARIABLES
  last,    \* the last event polled
  rounds,  \* how many rounds have been announced
  due      \* the number of the current turn, or of the next one

Init ==
  /\ last = [name |-> "Nothing", arg |-> 0]
  /\ rounds = 0
  /\ due = 0

\* The next event is `name`, it carries `arg`, and it may follow `after`.
Then(name, arg, after) ==
  /\ last.name \in after
  /\ last' = [name |-> name, arg |-> arg]

Setup ==
  /\ Then("Setup", 0, {"Nothing", "WaitForNewRound"})
  /\ UNCHANGED <<rounds, due>>

StartRound ==
  /\ Then("StartRound", rounds, {"Setup"})
  /\ rounds' = rounds + 1
  /\ due' = rounds

StartTurn ==
  /\ Then("StartTurn", due, {"StartRound", "EndTurn"})
  /\ UNCHANGED <<rounds, due>>

PlayTurn ==
  /\ \/ Then("DrawCard", due, {"StartTurn"})
     \/ Then("WaitForDecision", 0, {"DrawCard", "WaitForDecision"})
     \/ Then("WaitForSnap", 0, {"WaitForDecision", "WaitForSnap"})
     \/ Then("Cambio", 0, {"WaitForDecision", "WaitForSnap"})
  /\ UNCHANGED <<rounds, due>>

EndTurn ==
  /\ Then("EndTurn", due, {"WaitForDecision", "WaitForSnap"})
  /\ due' = due + 1
  /\ UNCHANGED rounds

CloseRound ==
  /\ \/ Then("EndRound", rounds - 1, {"StartTurn", "EndTurn", "Cambio"})
     \/ Then("FindWinner", 0, {"EndRound"})
     \/ Then("WaitForNewRound", 0, {"FindWinner"})
     \/ /\ Then("WaitForNewRound", last'.arg, {"WaitForNewRound"})
        /\ last'.arg \in Nat /\ last'.arg >= last.arg
     \/ Then("Exit", 0, {"WaitForNewRound"})
  /\ UNCHANGED <<rounds, due>>

Next == Setup \/ StartRound \/ StartTurn \/ PlayTurn \/ EndTurn \/ CloseRound

streamVars == <<last, rounds, due>>

Spec == Init /\ [][Next]_streamVars

=============================================================================
