-------------------------------- MODULE Lobby --------------------------------
(***************************************************************************)
(* The lobby of the game server: the tasks of server/src that let players  *)
(* in and out before the game, running concurrently over shared state.     *)
(*                                                                         *)
(*   acceptor  client::connect and try_connect, one connection at a time   *)
(*   tasks     player::spawn, one per registered connection, and the       *)
(*             watcher that reports the end of its task                    *)
(*   closer    client::disconnect, one report at a time                    *)
(*   lobby     lobby::run, until the game starts                           *)
(*                                                                         *)
(* They share `enabled`, the players of GameData and the map of mailboxes  *)
(* of channels.rs: a send waits for room in every mailbox it is meant for. *)
(* A player id is named by the connection it was created for.  A client    *)
(* may close its socket at any time, or stop reading, and asks for the     *)
(* start of the game when it is told of two players.                       *)
(***************************************************************************)
EXTENDS Naturals, SequencesExt

CONSTANTS
  Conns,                \* the connections clients make
  None,
  MIN_PLAYER_COUNT,
  MAX_PLAYER_COUNT,
  EVENT_CAPACITY,       \* events a mailbox holds
  PROCESSING_CAPACITY,  \* events a broadcast channel keeps for its receiver
  Rejoins,              \* clients also join with Existing ids
  MaxStarts,            \* bound: with so many Start requests unread none is sent
  MaxLeavers            \* bound: no client closes when so many sockets are closed

ASSUME LobbyAssumption ==
  /\ None \notin Conns
  /\ MIN_PLAYER_COUNT \in Nat /\ MAX_PLAYER_COUNT \in Nat
  /\ 0 < MIN_PLAYER_COUNT /\ MIN_PLAYER_COUNT <= MAX_PLAYER_COUNT
  /\ EVENT_CAPACITY \in Nat \ {0} /\ PROCESSING_CAPACITY \in Nat \ {0}
  /\ Rejoins \in BOOLEAN
  /\ MaxStarts \in Nat /\ MaxLeavers \in Nat

VARIABLES
  enabled,      \* connect_enabled
  players,      \* GameData's players, in order
  mailbox,      \* the map of send_aggregator: id -> connection
  sock,         \* each client's end: "idle", "open" or "closed"
  backlog,      \* connections the listener has not accepted
  acceptor,     \* [at, conn]: where the accept loop is
  pid,          \* the id a connection was given
  task,         \* the player task of a connection
  held,         \* how many events the mailbox of a connection holds
  first,        \* the first event a client finds after AssignId
  calls,        \* the tasks that wait in a send
  undelivered,  \* what they wait for: <<task, connection>>
  disconnects,  \* ids reported to the closer
  closer,       \* the id the closer is busy with, or None
  conns,        \* Connect and Disconnect events the lobby has not received
  starts,       \* Start requests the lobby has not received, by player id
  lagged,       \* which of these two lost its oldest event
  lobby,        \* where lobby::run is
  waits         \* which of the two its select! still waits for

acceptVars == <<sock, backlog, acceptor, pid>>
sendVars == <<calls, undelivered>>
taskVars == <<task, held, first>>
queueVars == <<conns, starts, lagged>>
lobbyVars == <<lobby, waits>>
vars == <<enabled, players, mailbox, acceptVars, taskVars, sendVars,
          disconnects, closer, queueVars, lobbyVars>>

NoneOr(S) == S \union {None}
Senders == {"acceptor", "closer", "game"}
Queues == {"conns", "starts"}

TypeOK ==
  /\ enabled \in BOOLEAN
  /\ players \in Seq(Conns) /\ IsInjective(players)
  /\ mailbox \in [Conns -> NoneOr(Conns)]
  /\ sock \in [Conns -> {"idle", "open", "closed"}]
  /\ backlog \in Seq(Conns)
  /\ acceptor \in [at : {"accept", "handshake", "recheck", "assign",
                         "announce", "register", "enter", "dead"},
                   conn : NoneOr(Conns)]
  /\ pid \in [Conns -> NoneOr(Conns)]
  /\ task \in [Conns -> {"none", "running", "leaving", "ended", "panicked"}]
  /\ held \in [Conns -> 0..EVENT_CAPACITY]
  /\ first \in [Conns -> {"none", "Enter", "other"}]
  /\ calls \subseteq Senders
  /\ undelivered \subseteq Senders \X Conns
  /\ disconnects \in Seq(Conns)
  /\ closer \in NoneOr(Conns)
  /\ conns \in Seq([kind : {"Connect", "Disconnect"}, id : Conns])
  /\ starts \in Seq(Conns)
  /\ Len(conns) <= PROCESSING_CAPACITY /\ Len(starts) <= PROCESSING_CAPACITY
  /\ lagged \subseteq Queues
  /\ lobby \in {"enable", "subscribe", "top", "select", "full", "close", "game"}
  /\ waits \subseteq Queues

Init ==
  /\ enabled = FALSE
  /\ players = <<>>
  /\ mailbox = [i \in Conns |-> None]
  /\ sock = [c \in Conns |-> "idle"]
  /\ backlog = <<>>
  /\ acceptor = [at |-> "accept", conn |-> None]
  /\ pid = [c \in Conns |-> None]
  /\ task = [c \in Conns |-> "none"]
  /\ held = [c \in Conns |-> 0]
  /\ first = [c \in Conns |-> "none"]
  /\ calls = {} /\ undelivered = {}
  /\ disconnects = <<>>
  /\ closer = None
  /\ conns = <<>> /\ starts = <<>> /\ lagged = {}
  /\ lobby = "enable"
  /\ waits = {}

-----------------------------------------------------------------------------
(* Sending: handle_send of channels.rs.  A send is meant for the mailboxes *)
(* whose task runs when it begins, and ends when each of them had room for *)
(* the event or its task ended.  What a client finds first after AssignId  *)
(* decides whether it stays.                                               *)

Streams == {mailbox[i] : i \in Conns} \ {None}

BeginSend(s, cs) ==
  /\ s \notin calls
  /\ calls' = calls \union {s}
  /\ undelivered' = undelivered \union {<<s, c>> : c \in {x \in cs : task[x] = "running"}}

EndSend(s) ==
  /\ s \in calls
  /\ \A c \in Conns : <<s, c>> \notin undelivered
  /\ calls' = calls \ {s}
  /\ UNCHANGED undelivered

EventOf(s) == IF s = "acceptor" /\ acceptor.at = "enter" THEN "Enter" ELSE "other"

\* Mutated form: the end of a task does not free who waits for its mailbox.
DeliverToRunning(s, c) ==
  /\ <<s, c>> \in undelivered
  /\ undelivered' = undelivered \ {<<s, c>>}
  /\ task[c] = "running" /\ held[c] < EVENT_CAPACITY
  /\ held' = [held EXCEPT ![c] = @ + 1]
  /\ first' = [first EXCEPT ![c] = IF @ = "none" THEN EventOf(s) ELSE @]
  /\ UNCHANGED <<enabled, players, mailbox, acceptVars, task, calls,
                 disconnects, closer, queueVars, lobbyVars>>

Deliver(s, c) ==
  /\ <<s, c>> \in undelivered
  /\ undelivered' = undelivered \ {<<s, c>>}
  /\ \/ /\ task[c] = "running" /\ held[c] < EVENT_CAPACITY
        /\ held' = [held EXCEPT ![c] = @ + 1]
        /\ first' = [first EXCEPT ![c] = IF @ = "none" THEN EventOf(s) ELSE @]
     \/ /\ task[c] # "running"
        /\ UNCHANGED <<held, first>>
  /\ UNCHANGED <<enabled, players, mailbox, acceptVars, task, calls,
                 disconnects, closer, queueVars, lobbyVars>>

\* The broadcast channels reach the lobby while it has its receivers.  A full
\* one drops its oldest event, of which its receiver is told by Lagged.
Subscribed == lobby \in {"top", "select", "full", "close"}

Offer(queue, e) ==
  IF Len(queue) < PROCESSING_CAPACITY THEN Append(queue, e) ELSE Append(Tail(queue), e)

LaggedBy(queue, name) ==
  IF Len(queue) < PROCESSING_CAPACITY THEN lagged ELSE lagged \union {name}

Publish(kind, i) ==
  /\ IF Subscribed
     THEN /\ conns' = Offer(conns, [kind |-> kind, id |-> i])
          /\ lagged' = LaggedBy(conns, "conns")
     ELSE UNCHANGED <<conns, lagged>>
  /\ UNCHANGED starts

-----------------------------------------------------------------------------
(* Clients. *)

Connect(c) ==
  /\ sock[c] = "idle"
  /\ sock' = [sock EXCEPT ![c] = "open"]
  /\ backlog' = Append(backlog, c)
  /\ UNCHANGED <<enabled, players, mailbox, acceptor, pid, taskVars,
                 sendVars, disconnects, closer, queueVars, lobbyVars>>

\* Leaving, crashing or losing the network.
Disconnect(c) ==
  /\ sock[c] = "open"
  /\ Cardinality({d \in Conns : sock[d] = "closed"}) < MaxLeavers
  /\ sock' = [sock EXCEPT ![c] = "closed"]
  /\ UNCHANGED <<enabled, players, mailbox, backlog, acceptor, pid, taskVars,
                 sendVars, disconnects, closer, queueVars, lobbyVars>>

\* A client in its event loop that was told of two players asks to start; its
\* task forwards the request to the lobby, if that is listening.
RequestStart(c) ==
  /\ sock[c] = "open" /\ task[c] = "running" /\ first[c] = "Enter"
  /\ Len(players) >= 2
  /\ Subscribed
  /\ Len(starts) < MaxStarts
  /\ starts' = Offer(starts, pid[c])
  /\ lagged' = LaggedBy(starts, "starts")
  /\ UNCHANGED <<enabled, players, mailbox, acceptVars, taskVars, sendVars,
                 disconnects, closer, conns, lobbyVars>>

-----------------------------------------------------------------------------
(* The acceptor: one action per await of try_connect, two where it sends. *)

AcceptorUnchanged ==
  UNCHANGED <<enabled, disconnects, closer, lobbyVars>>

AcceptNext(c) == [at |-> c, conn |-> acceptor.conn]
Idle == [at |-> "accept", conn |-> None]

\* An error of listener.accept() ends the accept loop.
Accept ==
  /\ acceptor.at = "accept" /\ backlog # <<>>
  /\ \/ /\ enabled
        /\ backlog' = Tail(backlog)
        /\ acceptor' = [at |-> "handshake", conn |-> Head(backlog)]
        /\ UNCHANGED sock
     \/ /\ ~enabled
        /\ backlog' = Tail(backlog)
        /\ sock' = [sock EXCEPT ![Head(backlog)] = "closed"]
        /\ UNCHANGED acceptor
     \/ /\ acceptor' = [at |-> "dead", conn |-> None]
        /\ UNCHANGED <<backlog, sock>>
  /\ AcceptorUnchanged
  /\ UNCHANGED <<players, mailbox, pid, taskVars, sendVars, queueVars>>

CreateNew(c) ==
  /\ players' = Append(players, c)
  /\ pid' = [pid EXCEPT ![c] = c]
  /\ acceptor' = AcceptNext("assign")

\* id_handshake reads the Join, and retrieve_or_create_id checks the id of
\* Existing under one lock and asserts it under the next.
Handshake ==
  /\ acceptor.at = "handshake"
  /\ LET c == acceptor.conn
     IN \/ CreateNew(c)
        \/ /\ Rejoins
           /\ \E i \in Conns \ {c} :
                /\ pid[i] = i
                /\ \/ i \notin Range(players) /\ CreateNew(c)
                   \/ /\ i \in Range(players)
                      /\ pid' = [pid EXCEPT ![c] = i]
                      /\ acceptor' = AcceptNext("recheck")
                      /\ UNCHANGED players
        \/ /\ sock[c] = "closed"
           /\ acceptor' = Idle
           /\ UNCHANGED <<players, pid>>
  /\ AcceptorUnchanged
  /\ UNCHANGED <<mailbox, sock, backlog, taskVars, sendVars, queueVars>>

\* Mutated form: a player that joins again is added again.
RecheckAddsAgain ==
  /\ acceptor.at = "recheck"
  /\ players' = Append(players, pid[acceptor.conn])
  /\ acceptor' = AcceptNext("assign")
  /\ AcceptorUnchanged
  /\ UNCHANGED <<mailbox, sock, backlog, pid, taskVars, sendVars, queueVars>>

\* A failed debug_assert! takes the accept loop with it.
Recheck ==
  /\ acceptor.at = "recheck"
  /\ acceptor' = IF pid[acceptor.conn] \in Range(players)
                 THEN AcceptNext("assign")
                 ELSE AcceptNext("dead")
  /\ AcceptorUnchanged
  /\ UNCHANGED <<players, mailbox, sock, backlog, pid, taskVars, sendVars, queueVars>>

\* Mutated form: an id that cannot be sent is tried again.
AssignIdUntilSent ==
  /\ acceptor.at = "assign" /\ sock[acceptor.conn] # "closed"
  /\ acceptor' = AcceptNext("announce")
  /\ AcceptorUnchanged
  /\ UNCHANGED <<players, mailbox, sock, backlog, pid, taskVars, sendVars, queueVars>>

\* Writing to a closed socket may fail at once or only later.
AssignId ==
  /\ acceptor.at = "assign"
  /\ \/ acceptor' = AcceptNext("announce")
     \/ sock[acceptor.conn] = "closed" /\ acceptor' = Idle
  /\ AcceptorUnchanged
  /\ UNCHANGED <<players, mailbox, sock, backlog, pid, taskVars, sendVars, queueVars>>

Announce ==
  /\ acceptor.at = "announce"
  /\ BeginSend("acceptor", Streams)
  /\ AcceptorUnchanged
  /\ UNCHANGED <<players, mailbox, acceptVars, taskVars, queueVars>>

Announced ==
  /\ acceptor.at = "announce"
  /\ EndSend("acceptor")
  /\ Publish("Connect", pid[acceptor.conn])
  /\ acceptor' = AcceptNext("register")
  /\ AcceptorUnchanged
  /\ UNCHANGED <<players, mailbox, sock, backlog, pid, taskVars>>

Register ==
  /\ acceptor.at = "register"
  /\ LET c == acceptor.conn
     IN /\ mailbox' = [mailbox EXCEPT ![pid[c]] = c]
        /\ task' = [task EXCEPT ![c] = "running"]
  /\ acceptor' = AcceptNext("enter")
  /\ AcceptorUnchanged
  /\ UNCHANGED <<players, sock, backlog, pid, held, first, sendVars, queueVars>>

Enter ==
  /\ acceptor.at = "enter"
  /\ BeginSend("acceptor", {mailbox[pid[acceptor.conn]]} \ {None})
  /\ AcceptorUnchanged
  /\ UNCHANGED <<players, mailbox, acceptVars, taskVars, queueVars>>

Entered ==
  /\ acceptor.at = "enter"
  /\ EndSend("acceptor")
  /\ acceptor' = Idle
  /\ AcceptorUnchanged
  /\ UNCHANGED <<players, mailbox, sock, backlog, pid, taskVars, queueVars>>

Acceptor ==
  \/ Accept \/ Handshake \/ Recheck \/ AssignId \/ Announce \/ Announced
  \/ Register \/ Enter \/ Entered

-----------------------------------------------------------------------------
(* Player tasks. *)

TaskUnchanged ==
  UNCHANGED <<enabled, players, mailbox, backlog, acceptor, pid, first,
              sendVars, closer, queueVars, lobbyVars>>

\* Writing the next event, which takes a client that reads once the socket's
\* buffers are full: to a closed socket it may fail, and expect() panics the
\* task.
Write(c) ==
  /\ task[c] = "running" /\ held[c] > 0
  /\ held' = [held EXCEPT ![c] = @ - 1]
  /\ \/ UNCHANGED task
     \/ sock[c] = "closed" /\ task' = [task EXCEPT ![c] = "panicked"]
  /\ TaskUnchanged
  /\ UNCHANGED <<sock, disconnects>>

\* The loop is left when the client is gone, or when the mailbox is empty and
\* its senders were dropped; then the task drops its end of the socket.
Finish(c) ==
  /\ task[c] = "running"
  /\ \/ sock[c] = "closed"
     \/ /\ mailbox[pid[c]] # c /\ held[c] = 0
        /\ \A s \in Senders : <<s, c>> \notin undelivered
  /\ task' = [task EXCEPT ![c] = "leaving"]
  /\ sock' = [sock EXCEPT ![c] = "closed"]
  /\ held' = [held EXCEPT ![c] = 0]
  /\ TaskUnchanged
  /\ UNCHANGED disconnects

\* Mutated form: the watcher does not wait for the end of the task.
WatchAtOnce(c) ==
  /\ task[c] \in {"running", "leaving"}
  /\ task' = [task EXCEPT ![c] = "ended"]
  /\ disconnects' = Append(disconnects, pid[c])
  /\ TaskUnchanged
  /\ UNCHANGED <<sock, held>>

\* The watcher only reports tasks that end by leaving their loop.
Watch(c) ==
  /\ task[c] = "leaving"
  /\ task' = [task EXCEPT ![c] = "ended"]
  /\ disconnects' = Append(disconnects, pid[c])
  /\ TaskUnchanged
  /\ UNCHANGED <<sock, held>>

-----------------------------------------------------------------------------
(* The closer. *)

CloserUnchanged ==
  UNCHANGED <<enabled, players, acceptVars, taskVars, lobbyVars>>

\* Mutated form: the mailbox outlives the report of its player's leaving.
RemoveNothing ==
  /\ closer = None /\ disconnects # <<>>
  /\ disconnects' = Tail(disconnects)
  /\ closer' = Head(disconnects)
  /\ CloserUnchanged
  /\ UNCHANGED <<mailbox, sendVars, queueVars>>

RemoveMailbox ==
  /\ closer = None /\ disconnects # <<>>
  /\ disconnects' = Tail(disconnects)
  /\ closer' = Head(disconnects)
  /\ mailbox' = [mailbox EXCEPT ![Head(disconnects)] = None]
  /\ CloserUnchanged
  /\ UNCHANGED <<sendVars, queueVars>>

AnnounceLeft ==
  /\ closer # None
  /\ BeginSend("closer", Streams)
  /\ CloserUnchanged
  /\ UNCHANGED <<mailbox, disconnects, closer, queueVars>>

LeftAnnounced ==
  /\ closer # None
  /\ EndSend("closer")
  /\ Publish("Disconnect", closer)
  /\ closer' = None
  /\ CloserUnchanged
  /\ UNCHANGED <<mailbox, disconnects>>

Closer == RemoveMailbox \/ AnnounceLeft \/ LeftAnnounced

-----------------------------------------------------------------------------
(* lobby::run, and the events of the game after it. *)

LobbyUnchanged ==
  UNCHANGED <<mailbox, acceptVars, taskVars, disconnects, closer>>

Enable ==
  /\ lobby = "enable"
  /\ enabled' = TRUE
  /\ lobby' = "subscribe"
  /\ LobbyUnchanged
  /\ UNCHANGED <<players, sendVars, queueVars, waits>>

Subscribe ==
  /\ lobby = "subscribe"
  /\ lobby' = "top"
  /\ LobbyUnchanged
  /\ UNCHANGED <<enabled, players, sendVars, queueVars, waits>>

can_start == "starts" \in waits

CountPlayers ==
  /\ lobby = "top"
  /\ waits' = IF Len(players) >= MIN_PLAYER_COUNT THEN Queues ELSE {"conns"}
  /\ lobby' = "select"
  /\ LobbyUnchanged
  /\ UNCHANGED <<enabled, players, sendVars, queueVars>>

\* Lagged does not match the pattern of its branch, which is then not waited
\* for any more; without a branch left the loop goes round.
ReceiveLagged(q) ==
  /\ lobby = "select" /\ q \in waits /\ q \in lagged
  /\ lagged' = lagged \ {q}
  /\ waits' = waits \ {q}
  /\ lobby' = IF waits \subseteq {q} THEN "top" ELSE "select"
  /\ LobbyUnchanged
  /\ UNCHANGED <<enabled, players, sendVars, conns, starts>>

\* try_start_game: only the host, the first of the players, starts the game.
ReceiveStart ==
  /\ lobby = "select" /\ can_start /\ starts # <<>> /\ "starts" \notin lagged
  /\ starts' = Tail(starts)
  /\ lobby' = IF players # <<>> /\ players[1] = Head(starts) THEN "close" ELSE "top"
  /\ waits' = {}
  /\ LobbyUnchanged
  /\ UNCHANGED <<enabled, players, sendVars, conns, lagged>>

\* Mutated form: the last player takes the place of the removed one.
remove_player_swapped(ids, i) ==
  IF i \in Range(ids)
  THEN [k \in 1..(Len(ids) - 1) |-> IF ids[k] = i THEN Last(ids) ELSE ids[k]]
  ELSE ids

\* No player is listed twice.
remove_player(ids, i) ==
  IF i \in Range(ids) THEN RemoveAt(ids, CHOOSE k \in DOMAIN ids : ids[k] = i)
  ELSE ids

\* Mutated form: the select! is waited in again without a new count.
ReceiveConnectionAndStay ==
  /\ lobby = "select" /\ "conns" \in waits /\ conns # <<>> /\ "conns" \notin lagged
  /\ conns' = Tail(conns)
  /\ players' = IF Head(conns).kind = "Disconnect"
                THEN remove_player(players, Head(conns).id)
                ELSE players
  /\ LobbyUnchanged
  /\ UNCHANGED <<enabled, sendVars, starts, lagged, lobbyVars>>

ReceiveConnection ==
  /\ lobby = "select" /\ "conns" \in waits /\ conns # <<>> /\ "conns" \notin lagged
  /\ conns' = Tail(conns)
  /\ players' = IF Head(conns).kind = "Disconnect"
                THEN remove_player(players, Head(conns).id)
                ELSE players
  /\ lobby' = "full" /\ waits' = {}
  /\ LobbyUnchanged
  /\ UNCHANGED <<enabled, sendVars, starts, lagged>>

CheckFull ==
  /\ lobby = "full"
  /\ lobby' = IF Len(players) = MAX_PLAYER_COUNT THEN "close" ELSE "top"
  /\ LobbyUnchanged
  /\ UNCHANGED <<enabled, players, sendVars, queueVars, waits>>

\* The lobby drops its receivers and closes the door.
Close ==
  /\ lobby = "close"
  /\ enabled' = FALSE
  /\ lobby' = "game"
  /\ conns' = <<>> /\ starts' = <<>> /\ lagged' = {}
  /\ LobbyUnchanged
  /\ UNCHANGED <<players, sendVars, waits>>

LobbyRun ==
  \/ Enable \/ Subscribe \/ CountPlayers \/ ReceiveStart \/ ReceiveConnection
  \/ CheckFull \/ Close
  \/ \E q \in Queues : ReceiveLagged(q)

GameUnchanged ==
  /\ LobbyUnchanged
  /\ UNCHANGED <<enabled, players, queueVars, lobbyVars>>

GameBroadcast ==
  /\ lobby = "game"
  /\ BeginSend("game", Streams)
  /\ GameUnchanged

GameBroadcastEnds ==
  /\ EndSend("game")
  /\ GameUnchanged

Next ==
  \/ Acceptor \/ Closer \/ LobbyRun \/ GameBroadcast \/ GameBroadcastEnds
  \/ \E s \in Senders, c \in Conns : Deliver(s, c)
  \/ \E c \in Conns :
       \/ Connect(c) \/ Disconnect(c) \/ RequestStart(c)
       \/ Write(c) \/ Finish(c) \/ Watch(c)

Spec == Init /\ [][Next]_vars

\* What the acceptor can do without a client that sends its Join.
AcceptorGoes ==
  acceptor.at = "handshake" => sock[acceptor.conn] = "closed"

DeliverSome(s) == \E c \in Conns : Deliver(s, c)

\* Every task of the runtime keeps being scheduled; clients do as they like,
\* so that nothing is assumed of Write.  Senders that wait for room get it in
\* turn, and the select! of the lobby tries its branches in random order, so
\* requests to start cannot keep it from its connection events for ever.
FairSpec ==
  /\ Spec
  /\ WF_vars(Acceptor /\ AcceptorGoes) /\ WF_vars(Closer) /\ WF_vars(LobbyRun)
  /\ SF_vars(DeliverSome("acceptor")) /\ SF_vars(DeliverSome("closer"))
  /\ SF_vars(ReceiveConnection)
  /\ \A c \in Conns : WF_vars(Finish(c)) /\ WF_vars(Watch(c))

-----------------------------------------------------------------------------
(* Properties the code has. *)

\* The game is never started, by its host or by the lobby filling up, with
\* fewer players than it needs, although players leave between the count, the
\* request and its handling.
EnoughPlayers ==
  lobby \in {"close", "game"} => Len(players) >= MIN_PLAYER_COUNT

\* No second connection has joined as player i.  The next two properties need
\* it: a report about the connection a player had before removes the mailbox
\* of the one it rejoined with, and both are named by the same id.
NeverRejoined(i) == \A c \in Conns \ {i} : pid[c] # i

\* Who has a mailbox is a player: a leaver loses the mailbox before the lobby
\* forgets the player.
StreamsArePlayers ==
  \A i \in Conns :
    mailbox[i] # None /\ NeverRejoined(i) => i \in Range(players)

\* The report of a player's end takes away no live player's mailbox.
OnlyLeaversRemoved ==
  [][\A i \in Conns :
       mailbox[i] # None /\ mailbox'[i] = None /\ NeverRejoined(i)
         => sock[mailbox[i]] = "closed"]_vars

\* The list of players, which the acceptor and the lobby change while clients
\* come, go, rejoin and ask for the start, is that of Roster.  Who has joined
\* once more counts there as having left, as its first connection may be.
PlayersRoster == INSTANCE Roster WITH
  Ids <- Conns,
  roster <- players,
  known <- {i \in Conns : pid[i] = i},
  leaving <- {i \in Conns : pid[i] = i /\ (sock[i] = "closed" \/ ~NeverRejoined(i))},
  asking <- Range(starts),
  begun <- lobby \in {"close", "game"}
RosterSpec == PlayersRoster!Spec

\* What the next two properties ask of the clients that have joined: they read
\* on, or close their socket.  One that does neither keeps its mailbox full, and
\* every sender waiting (channels.rs:198).
ClientsRead == \A c \in Conns : WF_vars(Write(c))

\* The lobby reads its connection events before there are too many of them.
NoneMissed == []("conns" \notin lagged)

\* A player whose task ends while the lobby listens does not stay among the
\* players the game waits for, unless the game starts first: if the clients that
\* have joined read, as the others are told of the leaving before the lobby is,
\* and no event about a connection is dropped, as the lobby ignores Lagged.
LeaversRemoved ==
  ClientsRead /\ NoneMissed =>
    \A c \in Conns :
      (task[c] = "leaving" /\ Subscribed)
        ~> (lobby = "game" \/ pid[c] \notin Range(players))

\* The acceptor is done with everybody who connects, whom it lets in or turns
\* away, with the door open or closed, if those who are accepted send their Join
\* or go (client.rs:116 waits for that without a timeout) and those who have
\* joined read (they are told of the next one before it is let in), unless the
\* accept loop has ended.
DoorAnswered ==
  WF_vars(Handshake) /\ ClientsRead =>
    \A c \in Conns :
      (c \in Range(backlog))
        ~> \/ c \notin Range(backlog) /\ acceptor.conn # c
           \/ acceptor.at = "dead"

-----------------------------------------------------------------------------
(* Properties the code's comments and assertions state and it does not have. *)

\* "Maximum number of players able to play cambio."
AtMostMaxPlayers == lobby = "game" => Len(players) <= MAX_PLAYER_COUNT

\* "Signal to the player that they can join the event loop": the client takes
\* anything but Enter after AssignId for a failure and leaves.
EnterFirst == \A c \in Conns : first[c] # "other"

\* "When someone leaves during the lobby phase, we remove them from the game
\* data", whichever way their task ends, and even if all others read and
\* nothing is dropped.
EveryLeaverRemoved ==
  ClientsRead /\ NoneMissed =>
    \A c \in Conns :
      (sock[c] = "closed" /\ task[c] = "running" /\ Subscribed)
        ~> (lobby = "game" \/ pid[c] \notin Range(players))

=============================================================================
