--------------------------------- MODULE Roster ---------------------------------
(***************************************************************************)
(* What the lobby promises about the players of the game it sets up:       *)
(*                                                                         *)
(*   - who comes is added behind those who are there, with an id nobody    *)
(*     had before, and keeps the place while others leave: the first       *)
(*     player is the one who has been there longest, the host;             *)
(*   - only who has left is taken out, and nobody once the game has begun; *)
(*   - the game begins with enough players, asked for by the player who is *)
(*     first at that moment, or because everybody is there.                *)
(*                                                                         *)
(* Nothing here knows of tasks, mailboxes, channels or the door.  That     *)
(* players still come after the game has begun is not excluded.            *)
(***************************************************************************)
EXTENDS Naturals, SequencesExt

CONSTANTS
  Ids,
  MIN_PLAYER_COUNT,
  MAX_PLAYER_COUNT

VARIABLES
  roster,   \* the players, in the order they came
  known,    \* the ids there have been
  leaving,  \* those whose player has left
  asking,   \* those whose request to begin is on its way
  begun

rosterVars == <<roster, known, leaving, asking, begun>>

Init ==
  /\ roster = <<>>
  /\ known = {} /\ leaving = {} /\ asking = {}
  /\ begun = FALSE

\* A player may be gone before it is added.
Join(i) ==
  /\ i \notin known
  /\ known' = known \union {i}
  /\ roster' = Append(roster, i)
  /\ leaving' \in {leaving, leaving \union {i}}
  /\ UNCHANGED <<asking, begun>>

Leave(i) ==
  /\ i \in known
  /\ leaving' = leaving \union {i}
  /\ UNCHANGED <<roster, known, asking, begun>>

TakeOut(k) ==
  /\ ~begun
  /\ roster[k] \in leaving
  /\ roster' = RemoveAt(roster, k)
  /\ UNCHANGED <<known, leaving, asking, begun>>

\* A request may displace others that nobody has looked at.
Ask(i) ==
  /\ i \in known
  /\ i \in asking' /\ asking' \in SUBSET (asking \union {i})
  /\ UNCHANGED <<roster, known, leaving, begun>>

\* Requests are refused, or nobody waits for them any more.
Refuse ==
  /\ asking' \in SUBSET asking
  /\ UNCHANGED <<roster, known, leaving, begun>>

Begin ==
  /\ ~begun
  /\ Len(roster) >= MIN_PLAYER_COUNT
  /\ roster[1] \in asking \/ Len(roster) = MAX_PLAYER_COUNT
  /\ begun' = TRUE
  /\ asking' \in SUBSET asking
  /\ UNCHANGED <<roster, known, leaving>>

Next ==
  \/ Refuse \/ Begin
  \/ \E i \in Ids : Join(i) \/ Leave(i) \/ Ask(i)
  \/ \E k \in DOMAIN roster : TakeOut(k)

Spec == Init /\ [][Next]_rosterVars

=============================================================================
