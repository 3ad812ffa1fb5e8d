------------------------------ MODULE GameLoop ------------------------------
(***************************************************************************)
(* The server's game loop (server/src/game.rs) driving the engine of       *)
(* module Game, and the clients (client/src/lib.rs) it plays with, over    *)
(* the channels of server/src/channels.rs:                                 *)
(*                                                                         *)
(*   - inbox[p], what the server sent to player p and p has not read: the  *)
(*     mailbox of its player task and the socket behind it, in order; a    *)
(*     broadcast waits until every mailbox has room;                       *)
(*   - incoming, the broadcast channel of client events as the game loop   *)
(*     receives it: when it is full the oldest event is dropped and the    *)
(*     next receive reports Lagged.                                        *)
(*                                                                         *)
(* Players are numbered as in GameData.  Reading a message and answering   *)
(* it is one step of a client; any delay of the answer is a delay of the   *)
(* reading.  Events the clients ignore are not put in their mailboxes.     *)
(*                                                                         *)
(* The lobby may close while try_connect (server/src/client.rs) still      *)
(* serves the player that was listed last: its mailbox and its Enter may   *)
(* come in the middle of the game, and `joiner` says how far it is.  A     *)
(* client whose first message is not Enter gives up, so to one that has    *)
(* not got it yet the events that clients ignore are put in the mailbox.   *)
(***************************************************************************)
EXTENDS Game, FiniteSets

CONSTANTS
  NumPlayers,         \* players in GameData when the game starts
  STARTING_DECK_LEN,  \* cards dealt to each player
  MailboxCap,         \* EVENT_CAPACITY of a player task
  IncomingCap,        \* PROCESSING_CAPACITY of the broadcast channel
  Leavers,            \* bound: the players that may leave before the game ends
  Behind              \* bound: those that may have a message of the lobby unread

Players == 0..(NumPlayers - 1)
Newcomer == NumPlayers - 1  \* connections are served one at a time

ASSUME LoopAssumption ==
  /\ NumPlayers \in Nat /\ NumPlayers >= 2  \* the lobby waits for two
  /\ STARTING_DECK_LEN \in Nat
  /\ NumPlayers * STARTING_DECK_LEN <= DeckSize
  /\ MailboxCap \in Nat \ {0}
  /\ IncomingCap \in Nat \ {0}
  /\ Leavers \subseteq Players /\ Behind \subseteq Players

VARIABLES
  pc,         \* where run() is
  confirmed,  \* the players whose confirmation was counted
  hands,      \* number of cards of each player
  incoming,   \* client events the loop has not received
  lagged,     \* an event was dropped since the last receive
  inbox,      \* server events each client has not read
  seat,       \* each client's `turn`: whose turn it believes it is
  card,       \* each client's card_in_hand, by the stamp it came with
  gone,       \* players that left; GameData keeps them
  joiner,     \* what try_connect has still to do for the newcomer
  told        \* history: the players that a TurnStart was sent to

serverVars == <<pc, confirmed, hands>>
clientVars == <<seat, card>>
channelVars == <<incoming, lagged, inbox>>
presence == <<gone, joiner, told>>
vars == <<gameVars, serverVars, channelVars, clientVars, presence>>

-----------------------------------------------------------------------------
(* Messages.  What is sent during a turn is stamped with round and turn,   *)
(* and its answer repeats the stamp.  It is not on the wire, where only    *)
(* TurnStart names the owner of the turn: it tells the properties what a   *)
(* client was answering.                                                   *)

Stamps == Nat \X Nat
Stamp(t) == <<round, t>>
NoStamp == <<0, 0>>

ServerEvent ==
  [name : {"TurnStart", "DrawCard", "WaitingForDecision", "WaitingForSnap",
           "ConfirmNewRound", "GameEnd", "LobbyChange", "Enter", "Ignored"},
   stamp : Stamps]

ClientEvent ==
  [from : Players,
   kind : {"Decision", "Snap", "ConfirmNewRound", "SkipNewRound", "Start"},
   stamp : Stamps]

Msg(name, stamp) == [name |-> name, stamp |-> stamp]

NoCard == <<>>

TypeOK ==
  /\ GameTypeOK
  /\ pc \in {"loop", "advance", "ended", "done"}
  /\ confirmed \subseteq Players
  /\ hands \in [Players -> Nat]
  /\ incoming \in Seq(ClientEvent) /\ Len(incoming) <= IncomingCap
  /\ lagged \in BOOLEAN
  /\ inbox \in [Players -> Seq(ServerEvent)]
  /\ \A p \in Players : Len(inbox[p]) <= MailboxCap
  /\ seat \in [Players -> Players]
  /\ card \in [Players -> Stamps \union {NoCard}]
  /\ gone \subseteq Leavers \union {Newcomer}
  /\ joiner \in {"announce", "register", "enter", "entering", "in"}
  /\ told \subseteq Players

\* The players that are listed and have no mailbox yet, and those that have
\* one.
Absent == {p \in {Newcomer} : joiner \in {"announce", "register"}}
Listening == Players \ (gone \union Absent)

\* The newcomer when Enter was not sent to it.
NotEntered == {p \in {Newcomer} : joiner = "enter"}

\* The game starts with everybody that is listed.  Some may have left, which
\* the lobby did not get to read; a client may still have to read that
\* somebody joined or left the lobby.
Init ==
  /\ GameInit
  /\ pc = "loop"
  /\ confirmed = {}
  /\ hands = [p \in Players |-> 0]
  /\ incoming = <<>> /\ lagged = FALSE
  /\ seat = [p \in Players |-> p]
  /\ card = [p \in Players |-> NoCard]
  /\ gone \in SUBSET Leavers
  /\ joiner \in {"announce", "register", "enter", "in"}
  /\ Newcomer \in gone => joiner = "in"
  /\ told = {}
  /\ inbox \in [Players -> {<<>>, <<Msg("LobbyChange", NoStamp)>>}]
  /\ \A p \in Players \ (Listening \intersect Behind) : inbox[p] = <<>>

Owner(t) == t % NumPlayers  \* get_id_from_turn

\* Mutated form: the mailboxes take any number of messages.
DeliverAtOnce(m, to) ==
  inbox' = [p \in Players |-> IF p \in to \intersect Listening
                              THEN Append(inbox[p], m) ELSE inbox[p]]

\* Mutated form: nobody waits for room, a full mailbox misses the message.
DeliverOrDrop(m, to) ==
  inbox' = [p \in Players |->
              IF p \in to \intersect Listening /\ Len(inbox[p]) < MailboxCap
              THEN Append(inbox[p], m) ELSE inbox[p]]

\* Put a message in the mailbox of every player in `to` that has one.
Deliver(m, to) ==
  /\ \A p \in to \intersect Listening : Len(inbox[p]) < MailboxCap
  /\ inbox' = [p \in Players |-> IF p \in to \intersect Listening
                                 THEN Append(inbox[p], m) ELSE inbox[p]]

Broadcast(m) == Deliver(m, Players)

-----------------------------------------------------------------------------
(* Polling: one action per kind of game event. *)

Polled(names) ==
  /\ pc = "loop"
  /\ events # <<>> /\ Head(events).name \in names
  /\ events' = Tail(events)
  /\ UNCHANGED <<state, round, turn, reset_deck, confirmations, waited,
                 incoming, lagged, clientVars, gone, joiner>>

\* setup: drain() panics when the deck is shorter than the deal, which is
\* the case DealSuffices excludes.
PollSetup ==
  /\ Polled({"Setup"})
  /\ deck >= NumPlayers * STARTING_DECK_LEN
  /\ deck' = deck - NumPlayers * STARTING_DECK_LEN
  /\ hands' = [p \in Players |-> hands[p] + STARTING_DECK_LEN]
  /\ UNCHANGED <<pc, confirmed, inbox, told>>

PollStartTurn ==
  /\ Polled({"StartTurn"})
  /\ Broadcast(Msg("TurnStart", Stamp(Head(events).arg)))
  /\ told' = told \union Listening
  /\ UNCHANGED <<deck, serverVars>>

PollDrawCard ==
  /\ Polled({"DrawCard"})
  /\ Deliver(Msg("DrawCard", Stamp(Head(events).arg)), {Owner(Head(events).arg)})
  /\ UNCHANGED <<deck, serverVars, told>>

PollWait ==
  /\ \/ Polled({"WaitForDecision"}) /\ Broadcast(Msg("WaitingForDecision", Stamp(turn)))
     \/ Polled({"WaitForSnap"})     /\ Broadcast(Msg("WaitingForSnap", Stamp(turn)))
  /\ UNCHANGED <<deck, serverVars, told>>

\* Mutated form: every announcement of the wait asks, and forgets who
\* confirmed before.
PollWaitForNewRoundAlways ==
  /\ Polled({"WaitForNewRound"})
  /\ confirmed' = {}
  /\ Broadcast(Msg("ConfirmNewRound", Stamp(turn)))
  /\ UNCHANGED <<deck, pc, hands, told>>

\* ask_to_confirm
PollWaitForNewRound ==
  /\ Polled({"WaitForNewRound"})
  /\ \/ /\ Head(events).arg = 0
        /\ confirmed' = {}
        /\ Broadcast(Msg("ConfirmNewRound", Stamp(turn)))
     \/ /\ Head(events).arg > 0
        /\ UNCHANGED <<confirmed, inbox>>
  /\ UNCHANGED <<deck, pc, hands, told>>

\* Forwarded to the clients, which ignore them once they have entered.
PollOther ==
  /\ Polled({"StartRound", "EndTurn", "EndRound", "Cambio", "FindWinner"})
  /\ Deliver(Msg("Ignored", NoStamp), NotEntered)
  /\ UNCHANGED <<deck, serverVars, told>>

PollExit ==
  /\ Polled({"Exit"})
  /\ pc' = "ended"
  /\ UNCHANGED <<deck, confirmed, hands, inbox, told>>

Poll ==
  \/ PollSetup \/ PollStartTurn \/ PollDrawCard \/ PollWait
  \/ PollWaitForNewRound \/ PollOther \/ PollExit

-----------------------------------------------------------------------------
(* Waiting for a client event until the deadline, and handling it.  The    *)
(* receive is tried before the timer, so an event that is there is taken   *)
(* even when the deadline has passed.                                      *)

Waiting == pc = "loop" /\ events = <<>> /\ state \in WaitStates

Unhandled == UNCHANGED <<gameVars, confirmed>>

\* Mutated form: a confirmation counts however often a player gave it.
CountConfirmationTwice(from) ==
  /\ confirmed' = confirmed \union {from}
  /\ ConfirmNewRound(NumPlayers)

CountConfirmation(from) ==
  \/ /\ from \notin confirmed
     /\ confirmed' = confirmed \union {from}
     /\ \/ ConfirmNewRound(NumPlayers)
        \/ state # "WaitingForNewRound" /\ UNCHANGED gameVars
  \/ from \in confirmed /\ Unhandled

\* handle_incoming_event; the engine ignores what its state does not expect.
Handle(m) ==
  \/ m.kind = "Snap" /\ HandleSnap /\ UNCHANGED confirmed
  \/ m.kind = "Decision" /\ HandleDecision /\ UNCHANGED confirmed
  \/ m.kind = "ConfirmNewRound" /\ CountConfirmation(m.from)
  \/ m.kind = "SkipNewRound" /\ SkipNewRound /\ UNCHANGED confirmed
  \/ /\ \/ m.kind = "Snap" /\ state # "WaitingForSnaps"
        \/ m.kind = "Decision" /\ state # "WaitingForDecision"
        \/ m.kind = "SkipNewRound" /\ state # "WaitingForNewRound"
        \/ m.kind = "Start"
     /\ Unhandled

Receive ==
  /\ Waiting
  /\ \/ lagged /\ lagged' = FALSE /\ Unhandled /\ UNCHANGED incoming
     \/ /\ ~lagged /\ incoming # <<>>
        /\ incoming' = Tail(incoming)
        /\ Handle(Head(incoming))
        /\ UNCHANGED lagged
  /\ pc' = "advance"
  /\ UNCHANGED <<hands, inbox, clientVars, presence>>

Timeout ==
  /\ Waiting
  /\ ~lagged /\ incoming = <<>> /\ Expired
  /\ pc' = "advance"
  /\ UNCHANGED <<gameVars, confirmed, hands, channelVars, clientVars, presence>>

\* Mutated form: the game is advanced while events of it are still queued.
AdvanceGameUnpolled ==
  /\ \/ pc = "advance"
     \/ pc = "loop" /\ state \notin WaitStates
  /\ Advance
  /\ pc' = "loop"
  /\ UNCHANGED <<confirmed, hands, channelVars, clientVars, presence>>

AdvanceGame ==
  /\ \/ pc = "advance"
     \/ pc = "loop" /\ events = <<>> /\ state \notin WaitStates
  /\ Advance
  /\ pc' = "loop"
  /\ UNCHANGED <<confirmed, hands, channelVars, clientVars, presence>>

EndGame ==
  /\ pc = "ended"
  /\ Broadcast(Msg("GameEnd", NoStamp))
  /\ pc' = "done"
  /\ UNCHANGED <<gameVars, confirmed, hands, incoming, lagged, clientVars, presence>>

Server == Poll \/ Receive \/ Timeout \/ AdvanceGame \/ EndGame

Time == Tick /\ UNCHANGED <<serverVars, channelVars, clientVars, presence>>

-----------------------------------------------------------------------------
(* The clients. *)

\* A player task puts the client's event in the broadcast channel, which the
\* game loop stops reading when it is done.
Send(p, kind, stamp) ==
  LET m == [from |-> p, kind |-> kind, stamp |-> stamp]
  IN \/ /\ pc \in {"ended", "done"}
        /\ UNCHANGED <<incoming, lagged>>
     \/ /\ pc \in {"loop", "advance"} /\ Len(incoming) < IncomingCap
        /\ incoming' = Append(incoming, m)
        /\ UNCHANGED lagged
     \/ /\ pc \in {"loop", "advance"} /\ Len(incoming) = IncomingCap
        /\ incoming' = Append(Tail(incoming), m)
        /\ lagged' = TRUE

Silent == UNCHANGED <<incoming, lagged>>

\* Mutated form: the card stays in hand, so every prompt is answered.
DecideKeepingCard(p, stamp) ==
  \/ /\ seat[p] = p /\ card[p] # NoCard
     /\ UNCHANGED card
     /\ Send(p, "Decision", stamp)
  \/ (seat[p] # p \/ card[p] = NoCard) /\ UNCHANGED card /\ Silent

\* The client decides once per card it drew, when it is its turn.
Decide(p, stamp) ==
  \/ /\ seat[p] = p /\ card[p] # NoCard
     /\ card' = [card EXCEPT ![p] = NoCard]
     /\ Send(p, "Decision", stamp)
  \/ (seat[p] # p \/ card[p] = NoCard) /\ UNCHANGED card /\ Silent

\* A player declines another round by SkipNewRound, or confirms it.
Answer(p, m) ==
  \/ /\ m.name = "TurnStart"
     /\ seat' = [seat EXCEPT ![p] = Owner(m.stamp[2])]
     /\ UNCHANGED card /\ Silent
  \/ /\ m.name = "DrawCard"
     /\ card' = IF seat[p] = p THEN [card EXCEPT ![p] = m.stamp] ELSE card
     /\ UNCHANGED seat /\ Silent
  \/ /\ m.name = "WaitingForDecision"
     /\ Decide(p, m.stamp)
     /\ UNCHANGED seat
  \/ /\ m.name = "WaitingForSnap"
     /\ \/ seat[p] # p /\ Send(p, "Snap", m.stamp)
        \/ seat[p] = p /\ Silent
     /\ UNCHANGED clientVars
  \/ /\ m.name = "ConfirmNewRound"
     /\ \E kind \in {"ConfirmNewRound", "SkipNewRound"} : Send(p, kind, m.stamp)
     /\ UNCHANGED clientVars
  \* The client asks for the lobby's size and, told that it is two or more,
  \* requests the start of the game.
  \/ /\ m.name \in {"Enter", "LobbyChange"}
     /\ Send(p, "Start", NoStamp)
     /\ UNCHANGED clientVars
  \/ m.name = "GameEnd" /\ UNCHANGED clientVars /\ Silent

Client(p) ==
  /\ p \notin gone /\ inbox[p] # <<>>
  /\ p = Newcomer /\ joiner # "in" => Head(inbox[p]).name = "Enter"
  /\ inbox' = [inbox EXCEPT ![p] = Tail(@)]
  /\ Answer(p, Head(inbox[p]))
  /\ joiner' = IF p = Newcomer THEN "in" ELSE joiner
  /\ UNCHANGED <<gameVars, serverVars, gone, told>>

\* A connection ends: the mailbox goes, the others are told, and GameData
\* still counts the player.
Disconnect(p) ==
  /\ gone' = gone \union {p}
  /\ \A q \in Listening \ {p} : Len(inbox[q]) < MailboxCap
  /\ inbox' = [q \in Players |->
                 CASE q = p                -> <<>>
                   [] q \in Listening \ {p} -> Append(inbox[q], Msg("LobbyChange", NoStamp))
                   [] OTHER                -> inbox[q]]
  /\ UNCHANGED <<gameVars, serverVars, incoming, lagged, clientVars, joiner, told>>

Leave(p) == p \in Leavers \intersect Listening /\ Disconnect(p)

\* "never received enter": the client stops at any other first message.
GiveUp ==
  /\ Newcomer \notin gone /\ inbox[Newcomer] # <<>>
  /\ joiner # "in" /\ Head(inbox[Newcomer]).name # "Enter"
  /\ Disconnect(Newcomer)

-----------------------------------------------------------------------------
(* try_connect, for the newcomer: the others are told that it joined, it    *)
(* gets its mailbox, and in it Enter.  A broadcast that waits for room when *)
(* the mailbox is registered does not reach it: it comes before the        *)
(* registration here.                                                      *)

JoinStep(from, to) ==
  /\ joiner = from /\ joiner' = to
  /\ UNCHANGED <<gameVars, serverVars, incoming, lagged, clientVars, gone, told>>

AnnounceJoin ==
  JoinStep("announce", "register") /\ Broadcast(Msg("LobbyChange", NoStamp))

RegisterJoin == JoinStep("register", "enter") /\ UNCHANGED inbox

EnterJoin ==
  JoinStep("enter", "entering") /\ Deliver(Msg("Enter", NoStamp), {Newcomer})

Connect == AnnounceJoin \/ RegisterJoin \/ EnterJoin

Next ==
  \/ Server \/ Time
  \/ \E p \in Players : Client(p) \/ Leave(p)
  \/ GiveUp \/ Connect

Spec == Init /\ [][Next]_vars

\* The runtime keeps scheduling the game loop, the clock runs, and clients
\* that have not left keep reading.  How soon a connection is served is left
\* open.
FairSpec ==
  /\ Spec
  /\ WF_vars(Server) /\ WF_vars(Time)
  /\ \A p \in Players : WF_vars(Client(p))
  /\ WF_vars(GiveUp)

-----------------------------------------------------------------------------
(* Properties the code has. *)

\* No deal asks for more cards than are left, so drain() never panics,
\* however the round before it ended.
DealSuffices ==
  events # <<>> /\ Head(events).name = "Setup"
    => deck >= NumPlayers * STARTING_DECK_LEN

\* The engine's count of confirmations and the loop's set of the players who
\* gave one, two records of the same thing that are reset by different code,
\* agree whenever the loop waits for a new round.
ConfirmationsMatch ==
  Waiting /\ state = "WaitingForNewRound"
    => confirmations = Cardinality(confirmed)

\* Another round is only started when every player confirmed, even though
\* answers may be repeated, dropped or left over from an earlier question.
UnanimousRestart ==
  [][round' > round => confirmed' = Players]_vars

\* The loop drives the engine with the discipline of GameDriver, whatever it
\* receives: it advances and reports only when every event was polled, deals
\* every round the same, and touches the engine no more after Exit.
Driver == INSTANCE GameDriver WITH
  Deals <- {NumPlayers * STARTING_DECK_LEN},
  Needed <- NumPlayers,
  running <- pc \notin {"ended", "done"},
  dealt <- NumPlayers * STARTING_DECK_LEN
DriverSpec == Driver!Spec

\* A client that is about to decide holds the card drawn in the very turn it
\* is asked about, also when it let the deadline of its last turn pass.
DecidesOnDrawnCard ==
  \A p \in Players \ gone :
    (inbox[p] # <<>> /\ seat[p] = p /\ card[p] # NoCard) =>
      LET m == Head(inbox[p])
      IN m.name = "WaitingForDecision" => card[p] = m.stamp

\* However often a wait is announced, a turn is decided at most once.
OneDecisionPerTurn ==
  \A i, j \in DOMAIN incoming :
    incoming[i].kind = "Decision" /\ incoming[j] = incoming[i] => i = j

\* Every decision on its way to the engine was made by the owner of the turn
\* it is about and every snap by somebody else, however far a client was
\* behind when it answered: each judges by its own `turn`.
AnswersInRole ==
  \A i \in DOMAIN incoming :
    LET e == incoming[i]
    IN /\ e.kind = "Decision" => e.from = Owner(e.stamp[2])
       /\ e.kind = "Snap" => e.from # Owner(e.stamp[2])

\* While the engine waits within a turn, every client that has no TurnStart
\* left to read believes that the turn belongs to the player that the loop
\* takes for its owner.  The exception is the player that was listed before
\* the game began and got its mailbox after the turn did: it believes that
\* the turn is its own, and has no card to decide on.
SeatsAgree ==
  Waiting /\ state \in {"WaitingForDecision", "WaitingForSnaps"} =>
    \A p \in Listening :
      (\A i \in DOMAIN inbox[p] : inbox[p][i].name # "TurnStart")
        => \/ seat[p] = Owner(turn)
           \/ p \notin told /\ seat[p] = p /\ card[p] = NoCard

\* No round hangs: while messages keep coming that the engine does not
\* expect, are lost or come late, and players leave, each round is followed
\* by the next or by the end of the game.
RoundsGoOn ==
  \A r \in 0..(MaxRound - 1) : (round = r) ~> (round > r \/ pc = "done")

-----------------------------------------------------------------------------
(* Properties the code's comments state and the code does not have. *)

\* "Reset cards and shuffle": at a new round all cards are in the deck or in
\* the hands that were just dealt, each in one place only.
CardsReset ==
  state = "DrawCard" =>
    \A p \in Players : hands[p] = STARTING_DECK_LEN

\* "Waiting for the player to make a decision": a decision is taken from the
\* player whose turn it is.
DecisionByTurnPlayer ==
  [][state = "WaitingForDecision" /\ state' = "PlayDecision"
       => Head(incoming).from = Owner(turn)]_vars

=============================================================================
