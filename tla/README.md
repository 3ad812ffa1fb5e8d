# Cambio, in TLA+

Cambio is a card game played over TCP: `server` hosts one game, `client` joins
it, `game` holds the rules, `common` the cards and the messages, and `router` is
an HTTP service that keeps accounts and a list of running servers. This
directory holds TLA+ models of the program, the TLC runs that check them and
TLAPS proofs about them. Paths below are relative to `src/`.

## The system

| component | source | state | operations |
|---|---|---|---|
| rules engine | `game/src/lib.rs` | `deck`, `state`, queue `events` | `advance`, `poll_events`, `handle_decision`, `handle_snap`, `confirm_new_round`, `skip_new_round`, `cambio_call`, `poll_wait_deadline` |
| game loop | `server/src/game.rs` | `incoming`, `confirmed` | one round of the loop: handle a polled event, or wait for a client event until the deadline and advance |
| lobby | `server/src/lobby.rs` | `can_start` and its two receivers | enable, count, receive a start request or a connection event, close |
| connections | `server/src/client.rs` | `enabled`, one accept loop, one disconnect task | accept, handshake, announce, register, `Enter`; remove the mailbox, announce `Left`, report to the lobby |
| player tasks | `server/src/player.rs` | a mailbox of 32 events, the socket | write an event, forward a client event, end, be watched |
| channels | `server/src/channels.rs` | channel `out` of requests, map of mailboxes, two broadcast channels of 128 | `register`, `remove`, `send`, `broadcast_*`, `incoming`, `connections` |
| player data | `common/src/data.rs` | the players in order and their cards | add, remove, count, deal, score |
| cards, decisions | `common/src/lib.rs`, `decisions.rs` | none | values, colours, decision sets |
| client | `client/src/lib.rs` | `turn`, `card_in_hand` | join, answer each server event |
| start and stop | `server/src/lib.rs`, `cli/src/main.rs` | the cancellation token | start everything, run lobby and game or be cancelled, announce the end |
| router | `router/src/` | users and games in a database, tokens at the clients | register, login, refresh, create, join, list |

How they interact. `GameServer::run` starts the channels, the disconnect task
and the accept loop, then awaits `lobby::run` and after it `game::run`.
All of them share the `Arc<Mutex<GameData>>`, the channels, and the flag
`enabled`. Server events go through one aggregator task into the mailboxes and
from there, by the player tasks, to the sockets; client events go from the
player tasks into one broadcast channel which the lobby, then the game loop,
subscribes to. Connections and disconnections go to the lobby by a second one.
The router shares nothing with the servers it lists; its handlers share the
database with one another.

What is hard here:

- *time*: three deadlines, told apart by `>=` in `advance` and `<=` in the
  handlers, carried along by a wait that is announced again and again;
- *late, repeated and dropped messages*: a client answers a prompt whose turn is
  over, a question is asked twice, the broadcast channel drops its oldest events
  and the loop takes the error for a timeout;
- *unlocked sequences*: the lobby counts, then selects, then decides; the
  acceptor checks `enabled`, then shakes hands, then adds a player; a player is
  registered before `Enter` is sent; a leaver's mailbox is removed before the
  lobby hears of it;
- *overlapping calls*: a send is a task of its own that reads the map of
  mailboxes when it runs and then waits for room in each; the acceptor, the
  closer, the game and the shutdown send at the same time, and a cancelled game
  leaves its last send behind; a client that stops reading holds all of them, the
  accept loop and the disconnect task included;
- *a game that begins while a player is let in*: it is listed, and counted, before it
  has a mailbox, and the first thing it may find there is the game's;
- *failure*: a write to a closed socket panics the player task, whose watcher
  then stays silent; an error of `accept` ends the accept loop; a broadcast channel that
  is full drops its oldest event, also for the lobby; the router may stop between insert, commit and answer;
- *time that passes between two transactions*: an id is found free in one and
  used in another, a token is good when it is read and not when it is used;
- *state that lives across rounds*: deck, hands, turn numbers, confirmations.

What makes each part correct:

- engine: events come in one order with consecutive numbers; the cards left
  always match the turn; rounds end whatever the players do, and the game ends
  when nobody confirms another one;
- game loop and clients: a deal never meets a short deck; a confirmation counts
  once per player and asking; a new round needs everybody; a client decides once
  per turn, on the card of that turn; loop and clients agree on whose turn it is, so
  that only its owner decides and only others snap; rounds do not hang;
- lobby: no game with too few players, nobody listed twice, players keep their order
  and the first of them is the host, mailboxes belong to players and are taken from
  leavers only, leavers do not stay in the lobby and everybody at the door is answered,
  while the clients that joined read;
- channels: a call returns when everybody who was there has the event, nobody has
  it twice, mailboxes come and go even while sends wait, and nobody waits for ever
  for players that read or leave;
- router: what a client was told is stored is there, under its key, for ever;
  tokens lead to the account's owner and sessions end; requests end;
- cards: every card is in one place, the winner is right, and a decision set
  lists what its card allows.

## The modules

    Game          the engine
    |- GameDriver     the engine polled and advanced by one loop
    |   |- EventRecord    with a record of the events it polled
    |        refines EventStream, the order of its events (StreamSpec)
    |- GameLoop       the engine in the server's loop, with clients and channels
    |    refines GameDriver (DriverSpec)
    |- GameTheorems   lemmas about the engine's steps
    GameProofs        GameDriver + GameTheorems: types, cards, length of rounds
    StreamProofs      EventRecord + GameProofs: GameDriver implements EventStream
    LoopProofs        GameLoop + GameTheorems: types, deals, confirmations, turns,
                      GameLoop implements GameDriver
    Lobby             acceptor, player tasks, disconnect task, lobby
    |  refines Roster, who plays and who is the host (RosterSpec)
    |- LobbyProofs    types, enough players, mailboxes of players,
                      Lobby implements Roster
    Channels          requests, aggregator, sends, mailboxes, and their callers
    |  refines Bus, what a call promises (BusSpec)
    |- ChannelsProofs mailboxes never overflow, Channels implements Bus
    Router            accounts, tokens and games over transactions
    |  refines Registry, keys that are taken once (RegistrySpec)
    |- RouterProofs   answers are kept, sessions end, Router implements Registry
    Scoring           cards, decision sets, deal, winner
    |- ScoringProofs  each card is in one place, the winner is the best

Lobby and Channels look at the same tasks from two sides. Lobby follows what players,
lobby and acceptor make of the calls of the channels: registering and removing a mailbox are
one step each there, and a send begins with a set of mailboxes and ends when each had room.
Channels takes the callers for programs that call one thing after another and
follows the call through `out` and the aggregator.

`MC*.tla` instantiate them for TLC. An operator marked *Mutated form* is a
plausible bug of the definition after it; nothing uses it but `PROJECT.json`,
which names the property that finds it.

### Game, GameDriver, EventRecord, EventStream

`Game` is the engine. The variant of `State` is `state`; its fields are the
variables `round`, `turn`, `reset_deck` and `confirmations`, which keep their
value while the tag does not carry them. Each arm of `advance()` is an action,
each public method that reports an act of a player is an action, and
`events` is the queue. Left out: which card is which (`deck` is a count; no rule
of the engine looks at a card, and shuffling keeps the count), the payload of a
decision (playing one is a TODO at `game/src/lib.rs:159`), and absolute time:
`waited` is the time since `started`, `Tick` moves it and stops one tick past the
deadline, where no comparison can change any more.

`GameDriver` is the engine under the discipline that its test
`one_round_finish` and the server's loop share: poll until the queue is empty,
then report something or advance, until `Exit`. In every other respect the
driver is free: it may advance before a deadline and report anything at any
moment. `dealt` is how many cards it takes out at `Setup`.

`EventStream` is the abstract specification: what someone who only sees the
polled events may rely on. It knows neither states nor clocks nor cards.
`EventRecord` is `GameDriver` with a record of the events it saw (`last`, `rounds`,
`due`), which the driver never reads. The record is the mapping under which
`StreamSpec` shows the detailed specification to implement the abstract one.

### GameLoop

The engine inside `game::run`. `pc` is where the loop is, `Poll...` are the arms
of its match, `Receive` and `Timeout` the two ends of `timeout_at`,
`Handle` is `handle_incoming_event`. `inbox[p]` is what the server sent to
player `p` and `p` has not read: the mailbox of its task and the socket behind
it. A broadcast waits until every mailbox has room. `incoming` is the broadcast
channel as the loop receives it; when it is full the oldest event goes and the
next receive reports `Lagged`, which the loop treats as nothing received.
`Client(p)` reads and answers one message, as `client/src/lib.rs:71-110` does,
or sends `SkipNewRound`, which the protocol has and this client never chooses.
Messages carry the round and turn they are about as a *stamp*. It stands for the
owner's id in `TurnStart`; in the other messages no action reads it, only
properties do.

`Driver` is `GameDriver` read in the loop's state: `dealt` is the cards taken out at
`Setup`, and the driver runs until the loop ends. `DriverSpec` says that the loop
implements it, so that what is proved of the engine in any driver holds in the server.

Players in `Leavers` may leave at any time, or have left when the game begins without the lobby
having read it. `GameData` keeps them, as in the code. `Disconnect` is the end of a connection: the
mailbox goes and the others are told.

The lobby may close while `try_connect` still serves a connection, so a player may be listed
(`server/src/client.rs:137`) that has not been announced (96), registered (102) or sent `Enter`
(112) when the game begins. It is the `Newcomer`: connections are served one at a time and players
are added at the end, so that there is one at most, the last of the list. `joiner` says how far it
is, `AnnounceJoin`, `RegisterJoin` and `EnterJoin` are what is left to do, and `Listening` are the
players with a mailbox, whom a broadcast reaches. A newcomer may miss any number of turns. If
anything comes before its `Enter` it gives up (`GiveUp`, `client/src/lib.rs:53`); for that reason
the events that clients ignore are put in its mailbox until `Enter` is, and in nobody else's. A
broadcast that waits for room when the newcomer is registered does not reach it: `handle_send` has
read the map by then. In the model, where a broadcast is one step, that is the order broadcast,
then `RegisterJoin`. `told` is a history: who was sent a `TurnStart`. No action tests it, only
`SeatsAgree` and the invariants do.

Players that are listed after the game began (see the finding `at_most_max_players`) are not in
this model: `NumPlayers` is fixed.

`SeatsAgree` and `AnswersInRole` relate the client's own `turn` (`seat[p]`) to the owner
that the loop works out from the number of the turn, anew for every message. The first is
about what a client believes once it has read what was sent, the second about every answer
under way, however far behind the client was that gave it. They do not agree without
exception: a newcomer registered after the `TurnStart` of a turn believes that the turn is its own,
since `turn` begins as its own id (`client/src/lib.rs:65`), and stays with that until the next
`TurnStart`. `SeatsAgree` says that this is the only exception, and that it does no harm to a
decision: such a client holds no card to decide on. It may miss a snap. An answer may still be taken
in a later turn than its own: that is the finding `decision_by_turn_player`.
Both are about games after whose start nobody is listed: a player added by a handshake that
outlasts the lobby would change `player_count` and with it the owner of the turn, even between its
`TurnStart` and its `DrawCard` (`server/src/game.rs:80`). So is `DealSuffices`: it rests on
`NumPlayers * STARTING_DECK_LEN <= DeckSize`, which holds of eight players and 54 cards, and
which the code does not enforce when more than the maximum get in.

### Lobby and Roster

One action per await of `try_connect`, two where it sends, the player tasks with every way they
end, the disconnect task in three steps, and `lobby::run` cut at each point where it
takes and releases the lock. A player id is the connection it was created for. Clients connect,
leave, stop reading, ask for the start, and, when `Rejoins` is `TRUE`, join with an id that exists
or existed.

A send is `BeginSend`, which picks the mailboxes it is meant for, a `Deliver` for each, which waits
for room or for the end of the task that would make it, and `EndSend`: `handle_send` of
`channels.rs`. So `Announce`/`Announced` is the `Joined` broadcast at `server/src/client.rs:96` with
the `Connect` event behind it, `Enter`/`Entered` the send at line 112,
`AnnounceLeft`/`LeftAnnounced` the `Left` broadcast at line 69 with the `Disconnect` event behind it,
and `GameBroadcast` any broadcast of the game, which competes for the same room. `held[c]` counts
the events in a mailbox and `first[c]` is the first one after `AssignId`; nothing else of the content
changes what the tasks do. `Write(c)` is the player task writing to its socket, which takes a client
that reads once the buffers are full.

The events of connections and the requests to start go through broadcast channels of
`PROCESSING_CAPACITY`. A full one drops its oldest event (`Offer`), and its receiver meets `Lagged`
first. The pattern `Ok(..)` of the `select!` does not match that: `ReceiveLagged` takes the branch out
of `waits`, and without a branch left `else` goes back to a new count. An error of
`listener.accept()` ends the accept loop (`Accept`), as does the assertion in `Recheck`.

The acceptor reads the Join whenever it gets to it, and there is no fairness that makes
a client send one: `AcceptorGoes` is what the acceptor does by itself. `DoorAnswered` says under which
premises everybody is accepted or turned away: the clients that are accepted send their Join or go, the
clients that have joined read or go, since the accept loop waits for room in the mailboxes
of all of them, and no error of `accept` has ended it. Clients that break the first two hold
the door for ever, by the design of the accept loop. `LeaversRemoved` likewise has the premise that
clients read, because the disconnect task reports to the lobby only when the others have been
told, and that no connection event is dropped, because the lobby ignores `Lagged`. It is about tasks
that end while the lobby is subscribed: a report sent between `enabled.store(true)` and
`subscribe()` (`server/src/lobby.rs:19-22`) is lost, which the model has and no property excludes.

`Roster` is the abstract specification: the list of players as somebody sees it who knows
nothing of tasks, mailboxes and the door. Ids are new, newcomers go to the end, the others
keep their order, only who has left is taken out and nobody once the game has begun; and
it begins with enough players, when the one who is first at that moment has asked for it
or the lobby is full. In the code each of these is spread over three tasks: the acceptor
adds, the disconnect task reports, the lobby removes, counts and decides. A player whose id a
second connection has joined with counts as having left in the mapping (`leaving`), since the
report about its first connection removes it. A request to start may displace another that the lobby
has not read (`Ask`). That more players than the maximum may come,
and come late, `Roster` allows, as the code does.

### Channels and Bus

`Call` puts a request in `out`, `InsertMailbox`, `RemoveMailbox` and `Spawn` are the
arms of `send_aggregator`, `ReadMap`, `Deliver` and `FinishSend` are `handle_send`,
one instance for each caller. A delivery waits for room, and fails when the
task that would receive it is gone. The callers are the acceptor after a
handshake, the disconnect task, the game, which makes any calls, and
`GameServer::run` at its end: `EndGame` may come at any moment, since cancelling
drops the game wherever it waits, while its send goes on. Connections are of players
by `idOf`, so that a player may come back while its first connection lives, in which
case the mailbox is replaced. What an event says is left out: an event is the call
that sent it, and `held` counts those that wait.

`given` and `owed` record who has the event of a call and who is owed it. No action
tests them; they are what `Bus` is about. `Bus` is the abstract specification: a call is
for some set of connections, reaches each at most once, and returns when everybody
who was there at its beginning, and still is, has it. Since a caller makes one
call at a time, each player gets the events of one caller in their order; calls of
different callers may reach two players in different orders.

### Router and Registry

Requests to register or to create a game are the ones with an interior:
`DrawId`, `OpenWrite`, `Commit` or `Refuse`, and `Answer`. `Slots` are requests
in progress. A request that is refused before it starts one (bad password, bad
token) changes nothing and is no step; login and refresh change only the client's
tokens and are one step. A password is the client that knows it, a game's server that of
the client that lists it. `since` is when the owner of a token logged in,
which no token says: only `SessionsEnd` reads it. `Restart` forgets everything but
the database and the tokens, which are with the clients; `Answer` may be lost.
That a read sees one committed state and that one write transaction excludes the others is
what the database promises, and what `Leeway` stands for is the token library's
tolerance of a minute.

`Registry` is the abstract specification, a store where a key is taken once and for ever
and where nobody is told that something is stored unless it is.

### Scoring

Values, colours, decision sets as bits of a number, the deal, the draw of a card
and `find_winner`. The deck is a set: it is shuffled, so the cards taken from it
may be any of it.

## The runs

| run | question | instance |
|---|---|---|
| `driver` | account of the cards, length of rounds, event order, rounds end, driver stops | 5 cards, deals of 2 and 5, deadlines 2, 1 and 1 ticks, 3 rounds |
| `loop` | deals, confirmations, decisions, whose turn it is, unanimity, no round hangs, GameLoop implements GameDriver | 2 players, both of which may leave, one perhaps still joining, 5 cards, 2 rounds, mailboxes of 3, broadcast of 2 |
| `lobby_safety` | enough players, mailboxes and players agree, Lobby implements Roster | 3 connections with rejoining, mailboxes and broadcast channels of 1 |
| `lobby_liveness` | a leaver does not stay in the lobby, who connects is answered | 2 connections with rejoining, mailboxes of 1, broadcast channels of 2 |
| `channels` | Channels implements Bus, no mailbox overflows, calls return | 2 connections of two players or of one that comes back, 1 call of the game, mailboxes of 1 |
| `router` | answers are kept, sessions end, requests end, Router implements Registry | 2 clients, 1 name, 2 ids, 2 requests at a time, expiries 1 and 2, time up to 4 |
| `scoring` | cards in one place, winner, decision sets | 3 players, 2 cards each, 7 decks |
| `cards_reset`, `decision_by_turn_player` | findings about the game loop | 2 players, 4 cards |
| `at_most_max_players`, `enter_first`, `every_leaver_removed` | findings about the lobby | 2 or 3 connections |

All bounds, and why they are enough:

- `DeckSize`, `STARTING_DECK_LEN`, `Deals`: the engine only asks whether a card
  is left. After the deal there are cards for two or three turns, so a turn can
  be first, in between and last; with `Deals = {2, 5}` one game in two has no
  card to draw at all, the way `StartTurn` goes straight to `EndRound`.
- `MaxRound` bounds the rounds: `ConfirmNewRound` cannot start a round past it.
  Three rounds in `driver`, two in `loop`, show what one round leaves to
  the next. At the bound the last confirmation is never taken, so `RoundsGoOn` is
  stated of the rounds before the last one.
- Deadlines of one or two ticks: before it, at it (where `>=` and `<=` overlap)
  and past it.
- `MailboxCap` (32 in the code) and `IncomingCap` (128): small, so that they fill
  up, block and drop. The pattern does not depend on the number.
- `NumPlayers = 2` in `loop`: one who is in and one who may still be joining. Each may be the
  owner of the turn or another, and there are three turns in the first round, so that a newcomer can
  miss a turn of either. Three players of which one may leave, with mailboxes of two, pass
  too (1.8 million states), in more time than a kept run should take.
- `Leavers` and `Behind` are who may leave and who may have a message of the lobby
  unread when the game begins; `loop` leaves both open for both players.
- `EVENT_CAPACITY` (32) and `PROCESSING_CAPACITY` (128) of the lobby are 1, or 2: with 1 every
  second event blocks or drops. In `lobby_liveness` the connection events may be two, so that
  behaviours in which none is dropped, the premise of `LeaversRemoved`, include those
  where two are under way.
- `MaxStarts`: with so many start requests unread no other is sent. It is 1, or 3 in
  `lobby_liveness`, more than the channel holds, so that requests are dropped. The client sends
  one for every change of the lobby.
- `MIN_PLAYER_COUNT = 2` as in the code; `MAX_PLAYER_COUNT` is 3, or 2, instead of
  8, so that three connections reach it or pass it.
- `Joins` of `channels`: both assignments of two connections to players. Three
  requests at a time can overlap for them (a join, a leave and the end of the game,
  with the game's call left behind), in every order. `MaxCalls = 1`: the game's calls
  follow one another and differ in nothing else. The capacity of `out`, 128, is
  left out: each of the four callers has one request in it at most, and a game that is dropped
  one more.
- `Slots`, `Names`, `GameIds` of `router`: two requests collide on a name or on an
  id, and with two ids a draw can find one of them taken; a third request would
  wait like the second. `MaxTime` lets a session that is refreshed in its last
  instant end. `Leeway = 0` in the run; the proofs are for any.
- `Decks`: seven decks of eight cards, a low face with a high one in three suits and
  the jokers. All faces occur, and hands tie in many ways. One card is drawn in a
  round, as no decision changes a player's cards yet.

The theorems hold without these bounds: for any decks, deals and deadlines of the engine,
any players, connections, keys and capacities.

`SYMMETRY` is used in `lobby_safety` only, which checks no liveness. Deadlock is
not checked: all these systems may stop, when the game is over or when no client
does anything any more. A deadlock of the channels would violate `CallsReturn`, one of the router
`RequestsEnd`.

## Fairness

- `GameDriver`: weak fairness of polling, of advancing and of the clock: a loop
  that does nothing else, and time. None for the players' reports.
- `GameLoop`: weak fairness of the server's loop, of the clock and of each client's
  reading, unless it left. That a client which stays keeps reading is an assumption
  about the network and the client's loop; without it a full mailbox stops the game
  loop past every deadline: `Channels` is about that. Leaving has no fairness.
  The accept loop has none either (`Connect`): how soon it serves the newcomer depends on the
  mailboxes it waits for. That a client gives up has, being one that reads.
- `Lobby`: weak fairness of the accept loop, the disconnect task, the lobby, and of the
  end of each player task and its report: the runtime schedules tasks that are ready.
  `ReceiveConnection` has strong fairness since `tokio::select!` tries its branches in random order:
  start requests that keep coming cannot win for ever. The deliveries of the acceptor and of
  the disconnect task have strong fairness: a tokio channel gives its room to those who wait
  in their order, so that others who send cannot take it for ever. Clients have none,
  and with them `Write`, which depends on their reading: what is said about clients that
  read is a premise of the property (`ClientsRead`). The acceptor is only taken to go on when
  it does not wait for a Join (`AcceptorGoes`); `DoorAnswered` adds the premise that it is sent
  or the client goes. `NoneMissed` is the premise of `LeaversRemoved` and of the finding
  `every_leaver_removed` that no connection event is dropped.
- `Channels`: weak fairness of `Runtime` as a whole, which is less than the runtime
  gives each task. Nothing makes a client read: `MailboxCallsReturn` holds without
  it, `CallsReturn` has the premise that somebody reads while anything is there to read.
- `Router`: weak fairness of each request. The lock of the database is not known to
  be fair, so `RequestsEnd` has the premise that whoever waits for it gets it in the
  end. Draws of an id are independent, so a free one is drawn in the end with
  probability one; the model draws among the free ones.

## What is proved

Every theorem is proved for all values of the constants, from the assumptions the
modules name: `GameAssumption` (deck size, deadlines and the bound of rounds are natural
numbers), `DriverAssumption` (a deal takes no more cards than a full deck has) and
`LoopAssumption` (two players or more, who can all be dealt to from a full deck; channels
hold at least one message; leavers are players), `LobbyAssumption` (a game needs a player
and no more than there may be; mailboxes and broadcast channels hold an event), `ChannelsAssumption` (mailboxes hold an event),
`RouterAssumption` (names and ids differ, times are natural numbers) and
`ScoringAssumption` (decks are parts of the full one). No theorem uses fairness.

**The engine's cards** (`GameProofs`, of `GameDriver!Spec`).

- `DeckInvariant`: `[]DeckInv`.
- `TypeCorrect`: `[]TypeOK`. The content is `deck \in 0..DeckSize`: a deal never
  takes more cards than there are.
- `CardsAccounted`: `[]DeckAccounting`, cards left against turns played.
- `RoundsFullLength`: `RoundLength`, a round that is not cut short by a call of
  Cambio has as many turns as the deal leaves cards.

`TypeOK` is not inductive: polling `Setup` subtracts the deal, and nothing in `TypeOK`
says the deck is whole then. `WholeDeck` says it: a `Setup` in the queue is its head,
was emitted by the step that led to `StartTurn`, and the deck is full, because the
state it came from is the first `StartRound` (nothing was taken yet) or one
with `reset_deck`. `DeckAccounting` counts from there, with a pending deal and a
performed one told apart, and is what bounds the turns of a round.
`AdvanceDeck`, `PollDeckInv` and `ReportDeckInv` show that each kind of step preserves
the conjunction. What holds of the engine whoever drives it, `AdvanceType`,
`ReportType`, and the content of a queue after an emission, is in `GameTheorems`.

**The order of the events** (`StreamProofs`). `EventsInOrder` is `RecordSpec => StreamSpec`:
the engine under its driver implements `EventStream`. The states of the driver's record alone
do not tell which event comes next, since up to two events wait in the queue while the
engine's state is already past them. `StreamInv` relates the three: for each state, what
may be in the queue, what the last polled event then was, and how `round` and `turn`
stand to the numbers of rounds and turns the record has seen. `PollStream` shows that
taking the head of such a queue is a step of `EventStream`; `AdvanceStream` and
`ReportStream` that all other steps stutter and keep `StreamInv`.

**The game loop** (`LoopProofs`, of `GameLoop!Spec`, any number of players and any
capacities).

- `LoopTypeCorrect`: `[]TypeOK`, with the capacities of mailboxes and broadcast channel.
- `DealsSuffice`: `[]DealSuffices`, so `drain()` does not panic.
- `ConfirmationsAgree`: `[]ConfirmationsMatch`.
- `RestartUnanimous`: `UnanimousRestart`.
- `DecidesOnTurnsCard`: `[]DecidesOnDrawnCard`.
- `TurnDecidedOnce`: `[]OneDecisionPerTurn`.
- `SeatsAgreed`: `[]SeatsAgree`, with the newcomers that the turn was not announced to as the only
  exception; `AnsweredInRole`: `[]AnswersInRole`, without one.
- `LoopDrives`: `DriverSpec`, the loop implements `GameDriver`.
- `LoopCards`: `[]Driver!DeckAccounting` and `Driver!RoundLength`, the account of the cards
  and the length of a round in the server's own rounds.

The first four follow from `LoopInv`, the conjunction of `TypeOK` with three parts (`LoopInvariant`).
`AdvancesEmpty`: the loop never advances an engine that has events left, which keeps
queues short enough to speak about. `DealsWhole`: the argument of `WholeDeck` for any
clients. `CountsAgree`: while the engine waits for a new round, its count is the number of
confirmed players, or it is still zero and the first `WaitForNewRound` is in the queue.
The second case is why `ConfirmationsMatch` alone is not inductive: `FindWinner` clears the
engine's count, the loop clears its set only when it polls that event, and in between
the set is the one of the round before. That the event carries the engine's present count
is also needed, since the loop clears the set exactly when the number it carries is zero.
`RestartUnanimous` then is a fact of cardinalities: the restart is the `Receive` that counts
a player not yet in `confirmed` and brings the count to the number of players.

The four about decisions, snaps and seats need `TurnInv`, which is about the order of the
messages of a turn on their way from the engine to a client. `TurnEvents` and `TurnAnnounced`
are the engine's end: which of `StartTurn`, `DrawCard`, `WaitForDecision` and `WaitForSnap` are
still queued in each state, so which of the turn's messages were sent. `PromptsInv` is the
client's end, for every message in a mailbox that asks for a decision or a snap: between it
and the client's present `seat` and `card`, the mailbox holds what makes the client answer in
its role, with the right card, or not at all. `Informed` says what a client finds at the end of its
mailbox once a turn was announced: `OnTurn`, the owner of that turn, or, if it has been told of none,
`Late`, its own seat without a card and without one in its mailbox. `AbsentFresh`
is where a late client comes from: who has no mailbox has read nothing. `SeatsAgree` is the case of
a mailbox without a `TurnStart`. `AnswersInRole` needs `RolesInv` besides, the same about what was already sent,
which no later step can change but by dropping it. Reading from the front and writing at the back preserve such statements, which
the lemmas `AppendBefore`, `TailBefore`, `SendInOrder` and `ReadInOrder` say once. A client
whose turn timed out keeps its card; it is seated out of the turn by the `TurnStart` that is
in its mailbox before any later prompt. `CardsOnce` counts: the card of a turn is in one
place at most, in a mailbox, in its owner's hand or in a decision on its way, and in no
place before it was sent; `Sent` never becomes false again, and a turn is announced once.

`LoopDrives` maps `running` to the loop not having seen `Exit`, and `dealt` to a hand for
everybody. Polls are polls, a `Receive` reports or stutters, and what the clients do, the
timeout and the last broadcast stutter. It needs `AdvancesEmpty`, and `ExitIsFinal`: an `Exit`
is only queued in a game that is finished, so that no clock runs after it. `LoopCards` is
then the theorems of `GameProofs` at these numbers, whose assumptions follow from
`LoopAssumption`.

**The lobby** (`LobbyProofs`, of `Lobby!Spec`, any number of connections, rejoining or not).

- `LobbyTypeCorrect`: `[]TypeOK`; `GamesHaveEnoughPlayers`: `[]EnoughPlayers`;
  `MailboxOwnersArePlayers`: `[]StreamsArePlayers`. They are parts of `LobbyInvariant`.
- `LeaversOnly`: `OnlyLeaversRemoved`.
- `LobbyImplementsRoster`: `Spec => RosterSpec`.

`LobbyInv` adds to the types what the tasks have in common. `CountInv`: the permission to
start is only as old as the last count, and every way to lose a player leads back
to a count. `ConnInv` is the life of a connection, from the backlog to the acceptor to a
task, with an id from the handshake on: this is what makes a player new when it is
added, so nobody is listed twice. `LeavingInv` follows a report: its task has ended
while it is under way, and its mailbox is gone when the lobby can hear of it.
`JoinedInv`: who joins is a player before there is a mailbox, and stays one, since the
report that would remove it is about a task that ended. All but `CountInv` and
`ConnInv` are about players that did not rejoin; where they did, the report of the first
connection does all that the invariants exclude.

`LobbyImplementsRoster` needs one more fact, `IdsInv`: whatever id a connection joins or asks
with was created for the connection that names it. Adding a player then is `Join`, the
end of a socket or a second connection is `Leave`, the receipt of a `Disconnect` is `TakeOut`,
by `LeavingInv`, and `CountInv` makes each decision of the lobby a `Begin`: the permission was
computed earlier, but who is the host is looked up when the request is handled.

**The channels** (`ChannelsProofs`, of `Channels!Spec`, any number of connections and players
and any assignment of the one to the other).

- `ChannelsSafe`: `[]TypeOK`, with `held` within the capacity of a mailbox.
- `ChannelsImplementBus`: `Spec => BusSpec`.

`ChannelsInv` says where a call is (`CallInv`), that each caller is in `out` at most once
(`QueueInv`), and what the callers do in between (`CallerInv`). The core is that
whoever is owed the event of a call being sent is among those its send still waits for:
mailboxes that came after the snapshot are owed nothing, since they were not there when
the call began, and those that went are forgotten. A send is done when it waits for
nobody, so a call returns with nobody owed.

**The router** (`RouterProofs`, of `Router!Spec`).

- `RouterTypeCorrect`: `[]TypeOK`; `AnswersStayTrue`: `[]ToldIsKept`; `SessionsExpire`:
  `[]SessionsEnd`. They follow from `RouterInvariant`.
- `RouterImplementsRegistry`: `Spec => RegistrySpec`.

`RequestInv` ties a request to what it stored, `ToldInv` is `ToldIsKept` in terms
of the database, and `SessionInv` bounds each token by its login: a refresh token
by one expiry, an access token by that, the leeway and the other expiry, which is the
reason `SessionsEnd` has the sum of both.

**The cards of a round** (`ScoringProofs`, of `Scoring!Spec`, any decks, players and sizes of
a deal).

- `CardsApart`: `[]CardsInOnePlace`, from what is in hands or drawn having come out
  of the deck.
- `ScoringTypeCorrect`: `[]TypeOK`, with every hand empty or of the size of a deal: the
  cards drained are an injective image of `1..STARTING_DECK_LEN`.
- `WinnerIsBest`: `[]WinnerBeatsAll`.
- `ActionsFollowNumbers`: `[]ActionByNumber`.

`WinnerIsBest` needs every score to be a number and the scores to have a least one. A score is a
sum over a set, the fold of a recursive function, and no induction theorem can be cited about
it. `SumOfInts` argues by least counterexamples instead: the library's `WFMin`, for the
strict subsets of a finite set, gives a least number (`LeastNumber`) and a least member
(`LeastOfSet`); with the first, solutions of the recursion on sets of at most `n` members are
extended to `n + 1`, so the function exists, and no set is the smallest one whose sum is no
number.

`ActionsFollowNumbers` goes through the arms of `valid_set`: each set is a sum of two or three
powers of two (`Bits`, `ValidSet`), which the divisions of `contains` tell apart
(`SetContains`), and `IntoVec` and `SetListed` unroll the filter over the list of all
decisions one by one.

Only model-checked: liveness (`RoundEnds`, `DriverStops`, `RoundsGoOn`,
`LeaversRemoved`, `DoorAnswered`, `MailboxCallsReturn`, `CallsReturn`, `RequestsEnd`),
which TLAPS does not prove. Every invariant, action property and refinement that a passing
run checks is a theorem.

## Findings

Each is a run that must fail, with the line it disagrees with in `PROJECT.json`.

- `cards_reset`: hands are extended at every deal and never emptied, so cards of
  earlier rounds exist twice and count in every later score.
- `decision_by_turn_player`: a decision that arrives after its turn timed out is taken
  as that of the next player's turn; nothing looks at who sent it.
- `at_most_max_players`: `enabled` is read at accept, the player is added after the
  handshake, and the lobby closes on equality only.
- `enter_first`: `Left` may reach a registered client before its `Enter`, and the client
  then gives up.
- `every_leaver_removed`: a panicked player task reports nothing, so its player stays in
  the lobby, perhaps as the host.

More behaviours that the models reach and no run is about. Whatever the game loop
receives before the first confirmation makes it ask all clients again
(`server/src/game.rs:68`). A client whose answer from the router was lost and that asks
again lists its game twice. A snap sent in one turn is
accepted in the next one's wait (`game/src/lib.rs:338`). A player that rejoins may
lose the new mailbox to the report of the old connection (`server/src/client.rs:68`) or
fail the assertion at `server/src/client.rs:149` if the lobby removes it between the
two locks. The repository's client never rejoins.

## What is not modelled

- `first_peek` and the event `FirstDraw`: the engine never emits the events they serve.
- That the game's events and the channels' calls are one system: `GameLoop` has its own,
  simpler mailboxes, with the waiting for room that the two have in common.
- A property of games with a client that stays silent in the handshake or stops reading: everybody
  at the door waits, by design of the accept loop, and `DoorAnswered` has the opposite as a premise.
- Players that are listed after the game began, in the game loop.
- The bound of 16 reports that wait for the disconnect task, and the system's of connections that
  wait for the accept loop: who meets a full one waits, and nobody waits for the watchers.
- Of the router: password hashing, the text of ids, rate limits (a library's), logging,
  and errors of the disk. A request that fails by one changes nothing.
- Framing and JSON (`common/src/stream.rs`), configuration files, logging, the command
  line and the empty `web`: no protocol state.

## Plan

Done, in this order: `Game`, `EventStream`, `GameDriver`, `GameProofs`, `GameLoop`, `Lobby`,
`Scoring`, `GameTheorems`, `StreamProofs`, `LoopProofs`, `Bus`, `Channels`, `ChannelsProofs`,
`Registry`, `Router`, `RouterProofs`, `LobbyProofs`, `ScoringProofs`, `EventRecord`, and in
`LoopProofs` the turns, the refinement of `GameDriver` and whose turn it is for each client,
and `Roster` with its refinement in `LobbyProofs`. What would come next:

1. What a client sees: `EventStream` as each client reads it from its mailbox, from the
   order `TurnInv` already has for the messages of a turn.
2. `GameLoop` with players listed after its start (`at_most_max_players`): `player_count`
   changing under `get_id_from_turn` and `confirm_new_round`.
3. `GameLoop` over `Bus` in place of its own mailboxes.
4. What a decision does to the cards, when `game/src/lib.rs:159` is written.
