---------------------------------- MODULE Bus ----------------------------------
(***************************************************************************)
(* What Channels promises to the tasks that send server events through it, *)
(* and to the players they send them to:                                   *)
(*                                                                         *)
(*   - a call returns when everybody it was for, and who was there when it *)
(*     began and still is, has the event;                                  *)
(*   - nobody gets an event twice, or an event that was for others;        *)
(*   - each player gets the events of one caller in the order of the calls.*)
(*                                                                         *)
(* Calls of different callers overlap and reach two players in different   *)
(* orders, and who joins during a call may get its event or miss it.       *)
(* Nothing here knows of requests, tasks, mailboxes or room in them.       *)
(***************************************************************************)
CONSTANTS
  Callers,
  Conns,    \* the connections of players
  Targets   \* the sets of connections a call may be for

VARIABLES
  members,  \* the connections that are there
  calling,  \* the callers whose call has not returned
  open,     \* who may still get the event of each call
  owed      \* who has to get it before the call returns

busVars == <<members, calling, open, owed>>

Init ==
  /\ members = {}
  /\ calling = {}
  /\ open = [k \in Callers |-> {}]
  /\ owed = [k \in Callers |-> {}]

Begin(k, S) ==
  /\ k \notin calling
  /\ calling' = calling \union {k}
  /\ open' = [open EXCEPT ![k] = S]
  /\ owed' = [owed EXCEPT ![k] = S \intersect members]
  /\ UNCHANGED members

Deliver(k, c) ==
  /\ c \in open[k]
  /\ open' = [open EXCEPT ![k] = @ \ {c}]
  /\ owed' = [owed EXCEPT ![k] = @ \ {c}]
  /\ UNCHANGED <<members, calling>>

Return(k) ==
  /\ k \in calling /\ owed[k] = {}
  /\ calling' = calling \ {k}
  /\ open' = [open EXCEPT ![k] = {}]
  /\ UNCHANGED <<members, owed>>

\* Some connections join and others go, who are owed nothing any more.
Change(joining, going) ==
  /\ members' = (members \ going) \union joining
  /\ owed' = [k \in Callers |-> owed[k] \ going]
  /\ UNCHANGED <<calling, open>>

Next ==
  \/ \E k \in Callers :
       \/ \E S \in Targets : Begin(k, S)
       \/ \E c \in Conns : Deliver(k, c)
       \/ Return(k)
  \/ \E joining, going \in SUBSET Conns : Change(joining, going)

Spec == Init /\ [][Next]_busVars

=============================================================================
