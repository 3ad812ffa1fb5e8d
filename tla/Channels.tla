------------------------------- MODULE Channels -------------------------------
(***************************************************************************)
(* The channels of the game server (server/src/channels.rs) with the tasks *)
(* that use them.  A call puts a request in the channel `out` and waits    *)
(* for its acknowledgement.  The aggregator takes one request at a time:   *)
(* it inserts and removes mailboxes itself and leaves every send to a task *)
(* of its own, which reads the map when it first runs, then waits for room *)
(* in each mailbox.                                                        *)
(*                                                                         *)
(*   acceptor  client::try_connect after the handshake: announce the       *)
(*             player, register its mailbox, let it enter                  *)
(*   closer    client::disconnect: remove the mailbox, announce            *)
(*   main      the game loop: any broadcasts and sends                     *)
(*   stop      GameServer::run when the game is over or was cancelled      *)
(*                                                                         *)
(* A cancelled call is abandoned, not undone: its request or its send goes *)
(* on.  Lobby takes each of these calls for one step; this module is what  *)
(* they consist of.                                                        *)
(***************************************************************************)
EXTENDS Naturals, Sequences

CONSTANTS
  Conns,        \* the connections clients make
  Ids,          \* players
  Joins,        \* which player each connection may be for
  None,
  MailboxCap,   \* EVENT_CAPACITY
  MaxCalls      \* bound: calls of the game loop

ASSUME ChannelsAssumption ==
  /\ None \notin Conns
  /\ Joins \subseteq [Conns -> Ids]
  /\ MailboxCap \in Nat \ {0}
  /\ MaxCalls \in Nat

Callers == {"acceptor", "closer", "main", "stop"}
Sends == {"All", "One"}

VARIABLES
  pc,           \* where each caller is
  busy,         \* the connection the acceptor is busy with
  calls,        \* how many calls the game loop made
  call,         \* the request of each caller
  stage,        \* how far it got
  todo,         \* the mailboxes its send still waits for
  out,          \* the requests the aggregator has not taken, by caller
  mailbox,      \* its map: id -> connection
  idOf,         \* the player each connection is for
  held,         \* how many events wait in the mailbox of each connection
  task,         \* the player task of a connection
  disconnects,  \* ids reported to the closer
  given,        \* who has the event of each call in progress
  owed          \* who has been there since it began and does not have it

programVars == <<pc, busy, calls>>
requestVars == <<call, stage, todo, out>>
mapVars == <<mailbox, idOf>>
taskVars == <<held, task, disconnects>>
eventVars == <<given, owed>>
vars == <<programVars, requestVars, mapVars, taskVars, eventVars>>

NoneOr(S) == S \union {None}

Request == [op : Sends \union {"Insert", "Remove", "None"}, id : NoneOr(Ids)]
Req(op, id) == [op |-> op, id |-> id]
NoRequest == Req("None", None)

TypeOK ==
  /\ pc \in [Callers -> {"idle", "announce", "register", "enter", "remove",
                         "closing", "stopped"}]
  /\ busy \in NoneOr(Conns) /\ calls \in 0..MaxCalls
  /\ call \in [Callers -> Request]
  /\ stage \in [Callers -> {"none", "queued", "spawned", "sending"}]
  /\ todo \in [Callers -> SUBSET Conns]
  /\ out \in Seq(Callers)
  /\ mailbox \in [Ids -> NoneOr(Conns)]
  /\ idOf \in Joins
  /\ held \in [Conns -> 0..MailboxCap]
  /\ task \in [Conns -> {"none", "running", "ended"}]
  /\ disconnects \in Seq(Ids)
  /\ given \in [Callers -> SUBSET Conns]
  /\ owed \in [Callers -> SUBSET Conns]

Init ==
  /\ pc = [k \in Callers |-> "idle"]
  /\ busy = None /\ calls = 0
  /\ call = [k \in Callers |-> NoRequest]
  /\ stage = [k \in Callers |-> "none"]
  /\ todo = [k \in Callers |-> {}]
  /\ out = <<>>
  /\ mailbox = [i \in Ids |-> None]
  /\ idOf \in Joins
  /\ held = [c \in Conns |-> 0]
  /\ task = [c \in Conns |-> "none"]
  /\ disconnects = <<>>
  /\ given = [k \in Callers |-> {}]
  /\ owed = [k \in Callers |-> {}]

\* The receiver of a mailbox goes with its task.
Closed == {c \in Conns : task[c] = "ended"}

Members == {c \in Conns \ Closed : mailbox[idOf[c]] = c}

\* Whom a request sends an event to, whatever connections they have.
Addressees(r) ==
  CASE r.op = "All" -> Conns
    [] r.op = "One" -> {c \in Conns : idOf[c] = r.id}
    [] OTHER        -> {}

\* Whoever goes is owed nothing any more.
Forget(going) == owed' = [k \in Callers |-> owed[k] \ going]

-----------------------------------------------------------------------------
(* Calls and their acknowledgement. *)

Call(k, r) ==
  /\ call' = [call EXCEPT ![k] = r]
  /\ stage' = [stage EXCEPT ![k] = "queued"]
  /\ out' = Append(out, k)
  /\ owed' = [owed EXCEPT ![k] = Addressees(r) \intersect Members]
  /\ UNCHANGED <<todo, given>>

\* The caller's last call was acknowledged.
Returned(k) == stage[k] = "none"

Acknowledge(k) ==
  /\ stage' = [stage EXCEPT ![k] = "none"]
  /\ call' = [call EXCEPT ![k] = NoRequest]
  /\ given' = [given EXCEPT ![k] = {}]

Goto(k, place) == pc' = [pc EXCEPT ![k] = place]

-----------------------------------------------------------------------------
(* The aggregator, and handle_send, one instance per call. *)

Taken(op) == out # <<>> /\ call[Head(out)].op \in op /\ out' = Tail(out)

InsertMailbox ==
  /\ Taken({"Insert"})
  /\ mailbox' = [mailbox EXCEPT ![idOf[busy]] = busy]
  /\ Forget({mailbox[idOf[busy]]})
  /\ Acknowledge(Head(out))
  /\ UNCHANGED <<programVars, todo, idOf, taskVars>>

RemoveMailbox ==
  /\ Taken({"Remove"})
  /\ mailbox' = [mailbox EXCEPT ![call[Head(out)].id] = None]
  /\ Forget({mailbox[call[Head(out)].id]})
  /\ Acknowledge(Head(out))
  /\ UNCHANGED <<programVars, todo, idOf, taskVars>>

\* Mutated form: the aggregator sends by itself, one event after the other.
SpawnInTurn ==
  /\ \A k \in Callers : stage[k] \in {"none", "queued"}
  /\ Taken(Sends)
  /\ stage' = [stage EXCEPT ![Head(out)] = "spawned"]
  /\ UNCHANGED <<programVars, call, todo, mapVars, taskVars, eventVars>>

Spawn ==
  /\ Taken(Sends)
  /\ stage' = [stage EXCEPT ![Head(out)] = "spawned"]
  /\ UNCHANGED <<programVars, call, todo, mapVars, taskVars, eventVars>>

Aggregator == InsertMailbox \/ RemoveMailbox \/ Spawn

ReadMap(k) ==
  /\ stage[k] = "spawned"
  /\ stage' = [stage EXCEPT ![k] = "sending"]
  /\ todo' = [todo EXCEPT ![k] = Addressees(call[k]) \intersect Members]
  /\ UNCHANGED <<programVars, call, out, mapVars, taskVars, eventVars>>

\* Mutated form: who has no room is passed over.
DeliverOrDrop(k, c) ==
  /\ c \in todo[k]
  /\ todo' = [todo EXCEPT ![k] = @ \ {c}]
  /\ \/ /\ c \notin Closed /\ held[c] < MailboxCap
        /\ held' = [held EXCEPT ![c] = @ + 1]
        /\ given' = [given EXCEPT ![k] = @ \union {c}]
        /\ owed' = [owed EXCEPT ![k] = @ \ {c}]
     \/ /\ c \in Closed \/ held[c] = MailboxCap
        /\ UNCHANGED <<held, given, owed>>
  /\ UNCHANGED <<programVars, call, stage, out, mapVars, task, disconnects>>

\* Mutated form: the sender of a mailbox is not told that its receiver went.
DeliverOpen(k, c) ==
  /\ c \in todo[k]
  /\ todo' = [todo EXCEPT ![k] = @ \ {c}]
  /\ c \notin Closed /\ held[c] < MailboxCap
  /\ held' = [held EXCEPT ![c] = @ + 1]
  /\ given' = [given EXCEPT ![k] = @ \union {c}]
  /\ owed' = [owed EXCEPT ![k] = @ \ {c}]
  /\ UNCHANGED <<programVars, call, stage, out, mapVars, task, disconnects>>

\* Mutated form: an event is put in a mailbox that has no room.
DeliverAtOnce(k, c) ==
  /\ c \in todo[k]
  /\ todo' = [todo EXCEPT ![k] = @ \ {c}]
  /\ held' = [held EXCEPT ![c] = @ + 1]
  /\ given' = [given EXCEPT ![k] = @ \union {c}]
  /\ owed' = [owed EXCEPT ![k] = @ \ {c}]
  /\ UNCHANGED <<programVars, call, stage, out, mapVars, task, disconnects>>

\* Put the event in a mailbox that has room; the send to a closed one fails.
Deliver(k, c) ==
  /\ c \in todo[k]
  /\ todo' = [todo EXCEPT ![k] = @ \ {c}]
  /\ \/ /\ c \notin Closed /\ held[c] < MailboxCap
        /\ held' = [held EXCEPT ![c] = @ + 1]
        /\ given' = [given EXCEPT ![k] = @ \union {c}]
        /\ owed' = [owed EXCEPT ![k] = @ \ {c}]
     \/ c \in Closed /\ UNCHANGED <<held, given, owed>>
  /\ UNCHANGED <<programVars, call, stage, out, mapVars, task, disconnects>>

FinishSend(k) ==
  /\ stage[k] = "sending" /\ todo[k] = {}
  /\ Acknowledge(k)
  /\ UNCHANGED <<programVars, todo, out, mapVars, taskVars, owed>>

-----------------------------------------------------------------------------
(* Clients and player tasks. *)

TaskUnchanged == UNCHANGED <<programVars, requestVars, mapVars, given>>

\* The task writes the next event, which waits until the client reads.
Write(c) ==
  /\ task[c] = "running" /\ held[c] > 0
  /\ held' = [held EXCEPT ![c] = @ - 1]
  /\ TaskUnchanged /\ UNCHANGED <<task, disconnects, owed>>

\* The sender of the mailbox was dropped, and every copy a send still holds.
Unreachable(c) ==
  mailbox[idOf[c]] # c /\ \A k \in Callers : c \notin todo[k]

EndTask(c) ==
  /\ task[c] = "running"
  /\ task' = [task EXCEPT ![c] = "ended"]
  /\ held' = [held EXCEPT ![c] = 0]
  /\ Forget({c})
  /\ TaskUnchanged

Report(c) == disconnects' = Append(disconnects, idOf[c])

\* The task sees that its client asked to leave or closed its connection; if it
\* learns of that from a write that fails it panics, and nothing is reported.
Leave(c) ==
  /\ EndTask(c)
  /\ Report(c) \/ (held[c] > 0 /\ UNCHANGED disconnects)

\* Nothing can come any more: the mailbox was replaced or removed.
RunDry(c) == Unreachable(c) /\ held[c] = 0 /\ EndTask(c) /\ Report(c)

-----------------------------------------------------------------------------
(* The callers. *)

\* A player may come back with another connection at any time.
Accept(c) ==
  /\ pc["acceptor"] \in {"idle", "enter"} /\ Returned("acceptor")
  /\ task[c] = "none"
  /\ busy' = c
  /\ Goto("acceptor", "announce")
  /\ Call("acceptor", Req("All", None))
  /\ UNCHANGED <<calls, mapVars, taskVars>>

Register ==
  /\ pc["acceptor"] = "announce" /\ Returned("acceptor")
  /\ Goto("acceptor", "register")
  /\ Call("acceptor", Req("Insert", idOf[busy]))
  /\ UNCHANGED <<busy, calls, mapVars, taskVars>>

\* The player task is spawned when its mailbox is registered.
Enter ==
  /\ pc["acceptor"] = "register" /\ Returned("acceptor")
  /\ task' = [task EXCEPT ![busy] = "running"]
  /\ Goto("acceptor", "enter")
  /\ Call("acceptor", Req("One", idOf[busy]))
  /\ UNCHANGED <<busy, calls, mapVars, held, disconnects>>

Unregister ==
  /\ pc["closer"] \in {"idle", "announce"} /\ Returned("closer")
  /\ disconnects # <<>>
  /\ disconnects' = Tail(disconnects)
  /\ Goto("closer", "remove")
  /\ Call("closer", Req("Remove", Head(disconnects)))
  /\ UNCHANGED <<busy, calls, mapVars, held, task>>

AnnounceLeft ==
  /\ pc["closer"] = "remove" /\ Returned("closer")
  /\ Goto("closer", "announce")
  /\ Call("closer", Req("All", None))
  /\ UNCHANGED <<busy, calls, mapVars, taskVars>>

GameCall ==
  /\ pc["stop"] = "idle" /\ Returned("main") /\ calls < MaxCalls
  /\ calls' = calls + 1
  /\ \E r \in {Req("All", None)} \union {Req("One", i) : i \in Ids} : Call("main", r)
  /\ UNCHANGED <<pc, busy, mapVars, taskVars>>

\* The game is over, or it is cancelled and dropped wherever it waits.
EndGame ==
  /\ pc["stop"] = "idle"
  /\ Goto("stop", "closing")
  /\ Call("stop", Req("All", None))
  /\ UNCHANGED <<busy, calls, mapVars, taskVars>>

\* Everything the program runs ends with it.
Stop ==
  /\ pc["stop"] = "closing" /\ Returned("stop")
  /\ Goto("stop", "stopped")
  /\ UNCHANGED <<busy, calls, requestVars, mapVars, taskVars, eventVars>>

Up == pc["stop"] # "stopped"

\* What the runtime does when it can: nothing of it waits for a client to act.
Runtime ==
  /\ Up
  /\ \/ Aggregator
     \/ Register \/ Enter \/ Unregister \/ AnnounceLeft \/ Stop
     \/ \E k \in Callers : ReadMap(k) \/ FinishSend(k) \/ \E c \in Conns : Deliver(k, c)
     \/ \E c \in Conns : RunDry(c)

ClientsAct == Up /\ \E c \in Conns : Accept(c) \/ Leave(c)
ClientsRead == Up /\ \E c \in Conns : Write(c)

Next == Runtime \/ GameCall \/ EndGame \/ ClientsAct \/ ClientsRead

Spec == Init /\ [][Next]_vars

\* The runtime does not rest while a task is ready.  It is fairer than that, to
\* each task and to each that waits for room in a channel, but connections and
\* game calls are bounded and this is enough.  Nothing makes a client read.
FairSpec == Spec /\ WF_vars(Runtime)

-----------------------------------------------------------------------------
(* Properties the code has. *)

\* Everybody, or the connections of one player.
Groups == {Conns} \union UNION {{{c \in Conns : f[c] = i} : i \in Ids} : f \in Joins}

\* The channels keep the promises of Bus to callers and players.
TheBus ==
  INSTANCE Bus WITH
    Targets <- Groups,
    members <- Members,
    calling <- {k \in Callers : call[k].op \in Sends},
    open <- [k \in Callers |-> Addressees(call[k]) \ given[k]]
BusSpec == TheBus!Spec

Idle(k) == Returned(k) \/ ~Up

\* Mailboxes are inserted and removed even while sends wait for clients that
\* do not read: nothing but the aggregator has to run.
MailboxCallsReturn ==
  \A k \in Callers : []<>(Idle(k) \/ call[k].op \in Sends)

\* If the clients keep reading, or leave, every call returns: no caller waits
\* for a player that is gone, and no two calls wait for one another.
CallsReturn == WF_vars(ClientsRead) => \A k \in Callers : []<>Idle(k)

=============================================================================
