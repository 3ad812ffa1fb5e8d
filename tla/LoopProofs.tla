------------------------------ MODULE LoopProofs ------------------------------
(***************************************************************************)
(* Proofs about GameLoop: types, the deal, the confirmations of a new      *)
(* round, the prompts, cards and decisions of a turn, and that the loop is *)
(* a GameDriver, for any number of players, the last of which may still be *)
(* joining, any capacities of the channels and any deck that holds the     *)
(* cards of one deal.                                                      *)
(***************************************************************************)
EXTENDS GameLoop, GameTheorems, FiniteSetTheorems

-----------------------------------------------------------------------------
(* Types. *)

ChannelTypeOK ==
  /\ incoming \in Seq(ClientEvent) /\ Len(incoming) <= IncomingCap
  /\ lagged \in BOOLEAN
  /\ inbox \in [Players -> Seq(ServerEvent)]
  /\ \A p \in Players : Len(inbox[p]) <= MailboxCap

LEMMA PlayersType == Newcomer \in Players /\ \A t \in Nat : Owner(t) \in Players
<1>1. NumPlayers \in Nat /\ NumPlayers > 0
  BY LoopAssumption
<1>2. \A t \in Nat : t % NumPlayers \in 0..(NumPlayers - 1)
  BY <1>1
<1>3. Newcomer \in Players
  BY <1>1 DEF Players, Newcomer
<1>4. QED
  BY <1>2, <1>3 DEF Players, Owner

\* A message put in mailboxes that have room leaves them within their bounds.
LEMMA DeliverType ==
  ASSUME TypeOK, NEW m \in ServerEvent, NEW to, Deliver(m, to)
  PROVE  /\ inbox' \in [Players -> Seq(ServerEvent)]
         /\ \A p \in Players : Len(inbox'[p]) <= MailboxCap
<1>0. MailboxCap \in Nat
  BY LoopAssumption
<1>1. ASSUME NEW p \in Players
      PROVE  /\ inbox'[p] \in Seq(ServerEvent)
             /\ Len(inbox'[p]) <= MailboxCap
  <2>1. CASE p \in to \intersect Listening
    <3>1. inbox'[p] = Append(inbox[p], m) /\ Len(inbox[p]) < MailboxCap
      BY <2>1 DEF Deliver
    <3>2. inbox[p] \in Seq(ServerEvent)
      BY DEF TypeOK
    <3>3. QED
      BY <1>0, <3>1, <3>2
  <2>2. CASE p \notin to \intersect Listening
    BY <2>2 DEF Deliver, TypeOK
  <2>3. QED
    BY <2>1, <2>2
<1>2. QED
  BY <1>1 DEF Deliver

LEMMA MsgType ==
  ASSUME NEW name \in {"TurnStart", "DrawCard", "WaitingForDecision", "WaitingForSnap",
                       "ConfirmNewRound", "GameEnd", "LobbyChange", "Enter", "Ignored"},
         NEW stamp \in Stamps
  PROVE  Msg(name, stamp) \in ServerEvent
BY DEF Msg, ServerEvent

\* A client event fits in the channel, whether it pushes another one out or not.
LEMMA SendType ==
  ASSUME TypeOK, NEW p \in Players, NEW stamp \in Stamps,
         NEW kind \in {"Decision", "Snap", "ConfirmNewRound", "SkipNewRound", "Start"},
         Send(p, kind, stamp)
  PROVE  /\ incoming' \in Seq(ClientEvent) /\ Len(incoming') <= IncomingCap
         /\ lagged' \in BOOLEAN
<1>0. IncomingCap \in Nat /\ IncomingCap > 0 /\ incoming \in Seq(ClientEvent)
      /\ Len(incoming) <= IncomingCap
  BY LoopAssumption DEF TypeOK
<1> DEFINE m == [from |-> p, kind |-> kind, stamp |-> stamp]
<1>1. m \in ClientEvent
  BY DEF ClientEvent
<1>2. CASE UNCHANGED <<incoming, lagged>>
  BY <1>2 DEF TypeOK
<1>3. CASE Len(incoming) < IncomingCap /\ incoming' = Append(incoming, m) /\ UNCHANGED lagged
  <2>1. lagged' \in BOOLEAN
    BY <1>3 DEF TypeOK
  <2>2. QED
    BY <1>0, <1>1, <1>3, <2>1
<1>4. CASE Len(incoming) = IncomingCap /\ incoming' = Append(Tail(incoming), m) /\ lagged' = TRUE
  <2>1. lagged' \in BOOLEAN
    BY <1>4, Zenon
  <2>2. Tail(incoming) \in Seq(ClientEvent) /\ Len(Tail(incoming)) = Len(incoming) - 1
    BY <1>0, <1>4
  <2>3. QED
    BY <1>0, <1>1, <1>4, <2>1, <2>2
<1>5. QED
  BY <1>2, <1>3, <1>4 DEF Send

LEMMA InitTypeOK == Init => TypeOK
<1> SUFFICES ASSUME Init PROVE TypeOK
  OBVIOUS
<1>1. GameTypeOK
  BY InitType DEF Init
<1>2. lagged \in BOOLEAN
  BY Zenon DEF Init
<1>3. inbox \in [Players -> Seq(ServerEvent)] /\ \A p \in Players : Len(inbox[p]) <= MailboxCap
  <2>1. Msg("LobbyChange", NoStamp) \in ServerEvent
    BY MsgType DEF NoStamp, Stamps
  <2>2. MailboxCap \in Nat /\ MailboxCap >= 1
    BY LoopAssumption
  <2>3. inbox \in [Players -> {<<>>, <<Msg("LobbyChange", NoStamp)>>}]
    BY DEF Init
  <2>4. ASSUME NEW p \in Players
        PROVE  inbox[p] \in Seq(ServerEvent) /\ Len(inbox[p]) <= MailboxCap
    <3>1. inbox[p] = <<>> \/ inbox[p] = <<Msg("LobbyChange", NoStamp)>>
      BY <2>3
    <3>2. CASE inbox[p] = <<>>
      <4>1. <<>> \in Seq(ServerEvent) /\ Len(<<>>) = 0
        OBVIOUS
      <4>2. QED
        BY <2>2, <3>2, <4>1
    <3>3. CASE inbox[p] = <<Msg("LobbyChange", NoStamp)>>
      BY <2>1, <2>2, <3>3
    <3>4. QED
      BY <3>1, <3>2, <3>3
  <2>5. QED
    BY <2>3, <2>4
<1>4. incoming \in Seq(ClientEvent) /\ Len(incoming) <= IncomingCap
  BY LoopAssumption DEF Init
<1>5. /\ pc \in {"loop", "advance", "ended", "done"} /\ confirmed \subseteq Players
      /\ hands \in [Players -> Nat] /\ seat \in [Players -> Players]
      /\ card \in [Players -> Stamps \union {NoCard}] /\ gone \subseteq Leavers
      /\ joiner \in {"announce", "register", "enter", "entering", "in"} /\ told \subseteq Players
  BY DEF Init
<1>6. QED
  BY <1>1, <1>2, <1>3, <1>4, <1>5 DEF TypeOK

\* What polling has in common, whatever event is at the head.
LEMMA PolledType ==
  ASSUME TypeOK, NEW names, Polled(names)
  PROVE  /\ Head(events) \in Event /\ Head(events).arg \in Nat
         /\ events' \in Seq(Event) /\ Len(events') = Len(events) - 1
         /\ \A i \in 1..Len(events') : events'[i] = events[i + 1]
         /\ Head(events) = events[1] /\ Len(events) > 0
         /\ Stamp(turn) \in Stamps /\ Stamp(Head(events).arg) \in Stamps
<1>1. events \in Seq(Event) /\ events # <<>> /\ events' = Tail(events)
      /\ round \in Nat /\ turn \in Nat
  BY GameAssumption DEF TypeOK, GameTypeOK, Polled
<1>2. Head(events) \in Event
  BY <1>1
<1>3. Head(events).arg \in Nat
  BY <1>2 DEF Event
<1>4. QED
  BY <1>1, <1>2, <1>3 DEF Stamp, Stamps

LEMMA PollType ==
  ASSUME TypeOK, Poll
  PROVE  TypeOK'
<1>0. /\ events' \in Seq(Event)
      /\ UNCHANGED <<state, round, turn, reset_deck, confirmations, waited,
                     incoming, lagged, clientVars, gone, joiner>>
  BY PolledType DEF Poll, Polled, PollSetup, PollStartTurn, PollDrawCard, PollWait,
     PollWaitForNewRound, PollOther, PollExit
<1>1. deck' \in 0..DeckSize
  <2>1. CASE PollSetup
    <3> DEFINE cards == NumPlayers * STARTING_DECK_LEN
    <3>1. cards \in Nat
      BY LoopAssumption
    <3>2. deck >= cards /\ deck' = deck - cards /\ deck \in 0..DeckSize
      BY <2>1 DEF PollSetup, TypeOK, GameTypeOK
    <3> HIDE DEF cards
    <3>3. QED
      BY <3>1, <3>2, GameAssumption
  <2>2. CASE ~PollSetup
    BY <2>2 DEF Poll, PollStartTurn, PollDrawCard, PollWait, PollWaitForNewRound,
                PollOther, PollExit, TypeOK, GameTypeOK
  <2>3. QED
    BY <2>1, <2>2
<1>2. /\ pc' \in {"loop", "advance", "ended", "done"} /\ confirmed' \subseteq Players
      /\ hands' \in [Players -> Nat]
  BY LoopAssumption
  DEF Poll, PollSetup, PollStartTurn, PollDrawCard, PollWait, PollWaitForNewRound,
      PollOther, PollExit, TypeOK, serverVars
<1>3. /\ inbox' \in [Players -> Seq(ServerEvent)]
      /\ \A p \in Players : Len(inbox'[p]) <= MailboxCap
  <2>1. CASE UNCHANGED inbox
    BY <2>1 DEF TypeOK
  <2>2. CASE \E m \in ServerEvent : \E to : Deliver(m, to)
    BY <2>2, DeliverType
  <2>3. NoStamp \in Stamps
    BY DEF NoStamp, Stamps
  <2>4. QED
    BY <2>1, <2>2, <2>3, PolledType, MsgType
    DEF Poll, PollSetup, PollStartTurn, PollDrawCard, PollWait, PollWaitForNewRound,
        PollOther, PollExit, Broadcast
<1>4. told' \subseteq Players
  BY DEF Poll, PollSetup, PollStartTurn, PollDrawCard, PollWait, PollWaitForNewRound,
         PollOther, PollExit, TypeOK, Listening
<1>5. QED
  BY <1>0, <1>1, <1>2, <1>3, <1>4 DEF TypeOK, GameTypeOK, clientVars

LEMMA ReceiveType ==
  ASSUME TypeOK, Receive
  PROVE  TypeOK'
<1>0. events = <<>> /\ GameTypeOK /\ incoming \in Seq(ClientEvent)
      /\ Len(incoming) <= IncomingCap /\ IncomingCap \in Nat
      /\ UNCHANGED <<hands, inbox, clientVars, presence>> /\ pc' = "advance"
  BY LoopAssumption DEF TypeOK, Receive, Waiting
<1>1. CASE lagged /\ lagged' = FALSE /\ Unhandled /\ UNCHANGED incoming
  <2>1. lagged' \in BOOLEAN
    BY <1>1, Zenon
  <2>2. QED
    BY <1>0, <1>1, <2>1 DEF Unhandled, gameVars, TypeOK, GameTypeOK, clientVars, presence
<1>2. CASE incoming # <<>> /\ incoming' = Tail(incoming) /\ Handle(Head(incoming))
             /\ UNCHANGED lagged
  <2>1. /\ Head(incoming) \in ClientEvent /\ incoming' \in Seq(ClientEvent)
        /\ Len(incoming') <= IncomingCap
    BY <1>0, <1>2
  <2>2. Head(incoming).from \in Players
    BY <2>1 DEF ClientEvent
  <2>3. confirmed' \subseteq Players
    BY <1>2, <2>2 DEF Handle, CountConfirmation, Unhandled, TypeOK
  <2>4. GameTypeOK'
    <3>1. CASE UNCHANGED gameVars
      BY <1>0, <3>1 DEF gameVars, GameTypeOK
    <3>2. CASE HandleDecision \/ HandleSnap \/ ConfirmNewRound(NumPlayers) \/ SkipNewRound
      BY <1>0, <3>2, ReportType
    <3>3. QED
      BY <1>2, <3>1, <3>2 DEF Handle, CountConfirmation, Unhandled
  <2>5. QED
    BY <1>0, <1>2, <2>1, <2>3, <2>4 DEF TypeOK, clientVars, presence
<1>3. QED
  BY <1>1, <1>2 DEF Receive

LEMMA ClientType ==
  ASSUME TypeOK, NEW p \in Players, Client(p)
  PROVE  TypeOK'
<1> DEFINE m == Head(inbox[p])
<1>0. /\ inbox[p] \in Seq(ServerEvent) /\ inbox[p] # <<>>
      /\ Len(inbox[p]) <= MailboxCap /\ MailboxCap \in Nat
      /\ UNCHANGED <<gameVars, serverVars, gone, told>>
  BY LoopAssumption DEF TypeOK, Client
<1>1. m \in ServerEvent /\ Tail(inbox[p]) \in Seq(ServerEvent)
      /\ Len(Tail(inbox[p])) <= MailboxCap
  BY <1>0
<1>2. m.stamp \in Stamps /\ NoStamp \in Stamps /\ m.stamp[2] \in Nat
  BY <1>1 DEF ServerEvent, Stamps, NoStamp
<1>3. /\ inbox' \in [Players -> Seq(ServerEvent)]
      /\ \A q \in Players : Len(inbox'[q]) <= MailboxCap
  BY <1>1 DEF Client, TypeOK
<1>4. seat' \in [Players -> Players] /\ card' \in [Players -> Stamps \union {NoCard}]
  <2>1. seat \in [Players -> Players] /\ card \in [Players -> Stamps \union {NoCard}]
    BY DEF TypeOK
  <2>2. Answer(p, m)
    BY DEF Client
  <2>3. \/ UNCHANGED seat
        \/ seat' = [seat EXCEPT ![p] = Owner(m.stamp[2])]
    BY <2>2 DEF Answer, clientVars
  <2>4. \/ UNCHANGED card
        \/ card' = [card EXCEPT ![p] = m.stamp]
        \/ card' = [card EXCEPT ![p] = NoCard]
    BY <2>2 DEF Answer, Decide, clientVars
  <2>5. Owner(m.stamp[2]) \in Players
    BY <1>2, PlayersType
  <2>6. QED
    BY <1>2, <2>1, <2>3, <2>4, <2>5
<1>5. /\ incoming' \in Seq(ClientEvent) /\ Len(incoming') <= IncomingCap
      /\ lagged' \in BOOLEAN
  <2>1. CASE Silent
    BY <2>1 DEF Silent, TypeOK
  <2>2. CASE \E kind \in {"Decision", "Snap", "ConfirmNewRound", "SkipNewRound", "Start"},
                stamp \in Stamps : Send(p, kind, stamp)
    BY <2>2, SendType
  <2>3. QED
    BY <1>2, <2>1, <2>2 DEF Client, Answer, Decide
<1>6. joiner' \in {"announce", "register", "enter", "entering", "in"}
  BY DEF Client, TypeOK
<1>7. QED
  BY <1>0, <1>3, <1>4, <1>5, <1>6 DEF TypeOK, GameTypeOK, gameVars, serverVars

LEMMA DisconnectType ==
  ASSUME TypeOK, NEW p \in Players, p \in Leavers \union {Newcomer}, Disconnect(p)
  PROVE  TypeOK'
<1>0. MailboxCap \in Nat /\ Msg("LobbyChange", NoStamp) \in ServerEvent
  BY LoopAssumption, MsgType DEF NoStamp, Stamps
<1>1. ASSUME NEW q \in Players
      PROVE  inbox'[q] \in Seq(ServerEvent) /\ Len(inbox'[q]) <= MailboxCap
  <2>1. inbox[q] \in Seq(ServerEvent) /\ Len(inbox[q]) <= MailboxCap
    BY DEF TypeOK
  <2>2. CASE q = p
    BY <1>0, <2>2 DEF Disconnect
  <2>3. CASE q # p /\ q \notin Listening
    BY <2>1, <2>3 DEF Disconnect
  <2>4. CASE q # p /\ q \in Listening
    <3>1. Len(inbox[q]) < MailboxCap /\ inbox'[q] = Append(inbox[q], Msg("LobbyChange", NoStamp))
      BY <2>4 DEF Disconnect
    <3>2. QED
      BY <1>0, <2>1, <3>1
  <2>5. QED
    BY <2>2, <2>3, <2>4
<1>2. inbox' \in [Players -> Seq(ServerEvent)]
  BY <1>1 DEF Disconnect
<1>3. gone' \subseteq Leavers \union {Newcomer}
  BY DEF Disconnect, TypeOK
<1>4. QED
  BY <1>1, <1>2, <1>3 DEF Disconnect, TypeOK, GameTypeOK, gameVars, serverVars, clientVars

LEMMA LeaveType ==
  ASSUME TypeOK, (\E p \in Players : Leave(p)) \/ GiveUp
  PROVE  TypeOK' /\ \E p \in Players : Disconnect(p)
<1>1. CASE \E p \in Players : Leave(p)
  BY <1>1, DisconnectType DEF Leave
<1>2. CASE GiveUp
  BY <1>2, DisconnectType, PlayersType DEF GiveUp
<1>3. QED
  BY <1>1, <1>2

LEMMA ConnectType ==
  ASSUME TypeOK, Connect
  PROVE  TypeOK'
<1>1. NoStamp \in Stamps
  BY DEF NoStamp, Stamps
<1>2. Msg("LobbyChange", NoStamp) \in ServerEvent /\ Msg("Enter", NoStamp) \in ServerEvent
  BY <1>1, MsgType
<1>3. /\ inbox' \in [Players -> Seq(ServerEvent)]
      /\ \A p \in Players : Len(inbox'[p]) <= MailboxCap
  <2>1. CASE RegisterJoin
    BY <2>1 DEF RegisterJoin, TypeOK
  <2>2. CASE AnnounceJoin \/ EnterJoin
    BY <1>2, <2>2, DeliverType DEF AnnounceJoin, EnterJoin, Broadcast
  <2>3. QED
    BY <2>1, <2>2 DEF Connect
<1>4. /\ joiner' \in {"register", "enter", "entering"}
      /\ UNCHANGED <<gameVars, serverVars, incoming, lagged, clientVars, gone, told>>
  BY DEF Connect, AnnounceJoin, RegisterJoin, EnterJoin, JoinStep
<1>5. QED
  BY <1>3, <1>4 DEF TypeOK, GameTypeOK, gameVars, serverVars, clientVars

LEMMA EndGameType ==
  ASSUME TypeOK, EndGame
  PROVE  TypeOK'
<1>1. Msg("GameEnd", NoStamp) \in ServerEvent
  BY MsgType DEF NoStamp, Stamps
<1>2. /\ inbox' \in [Players -> Seq(ServerEvent)]
      /\ \A p \in Players : Len(inbox'[p]) <= MailboxCap
  BY <1>1, DeliverType DEF EndGame, Broadcast
<1>3. QED
  BY <1>2 DEF EndGame, TypeOK, GameTypeOK, gameVars, clientVars, presence

LEMMA AdvanceGameType ==
  ASSUME TypeOK, events = <<>>, AdvanceGame
  PROVE  TypeOK'
<1>1. GameTypeOK'
  BY AdvanceType DEF AdvanceGame, TypeOK
<1>2. QED
  BY <1>1 DEF AdvanceGame, TypeOK, channelVars, clientVars, presence

-----------------------------------------------------------------------------
(* The inductive invariant. *)

\* Nothing is queued while the loop is between an event it received and the
\* advance that follows it.
AdvancesEmpty == pc = "advance" => events = <<>>

\* A deal is the first event after a round was started, from a whole deck.
DealsWhole ==
  /\ state = "Pregame" \/ (state = "StartRound" /\ ~reset_deck)
       => deck = DeckSize
  /\ \A i \in 1..Len(events) :
       events[i].name = "Setup" => i = 1 /\ state = "StartTurn" /\ deck = DeckSize

\* The question about a new round waits in the queue with the count the engine
\* has now.  Before it is polled for the first time, and the set of the players
\* that confirmed is cleared, the set may be left from the round before.
CountsAgree ==
  /\ \A i \in 1..Len(events) :
       events[i].name = "WaitForNewRound"
         => state = "WaitingForNewRound" /\ events[i].arg = confirmations
  /\ state = "WaitingForNewRound" =>
       \/ confirmations = Cardinality(confirmed)
       \/ /\ confirmations = 0
          /\ \E i \in 1..Len(events) : events[i].name = "WaitForNewRound"

LoopInv == TypeOK /\ AdvancesEmpty /\ DealsWhole /\ CountsAgree

Others == <<state, round, reset_deck, confirmations>>

LEMMA InitLoopInv == Init => LoopInv
<1> SUFFICES ASSUME Init PROVE LoopInv
  OBVIOUS
<1>1. TypeOK
  BY InitTypeOK
<1>2. state = "Pregame" /\ deck = DeckSize /\ events = <<>> /\ pc = "loop"
  BY DEF Init, GameInit
<1>3. QED
  BY <1>1, <1>2 DEF LoopInv, AdvancesEmpty, DealsWhole, CountsAgree

LEMMA PollLoopInv ==
  ASSUME LoopInv, Poll
  PROVE  LoopInv'
<1>0. /\ TypeOK /\ DealsWhole /\ CountsAgree /\ pc = "loop" /\ UNCHANGED Others
      /\ events' \in Seq(Event) /\ Len(events) > 0
      /\ Len(events') = Len(events) - 1 /\ Len(events) \in Nat
      /\ \A i \in 1..Len(events') : events'[i] = events[i + 1]
      /\ Head(events) = events[1]
  <2>1. \E names : Polled(names)
    BY DEF Poll, PollSetup, PollStartTurn, PollDrawCard, PollWait,
           PollWaitForNewRound, PollOther, PollExit
  <2>2. TypeOK /\ DealsWhole /\ CountsAgree
    BY DEF LoopInv
  <2>3. pc = "loop" /\ UNCHANGED Others /\ events \in Seq(Event)
    BY <2>1, <2>2 DEF Polled, Others, TypeOK, GameTypeOK
  <2>4. QED
    BY <2>1, <2>2, <2>3, PolledType
<1>1. TypeOK'
  BY PollType DEF LoopInv
<1>2. AdvancesEmpty'
  BY <1>0 DEF AdvancesEmpty, Poll, PollSetup, PollStartTurn, PollDrawCard, PollWait,
     PollWaitForNewRound, PollOther, PollExit, serverVars
<1>3. DealsWhole'
  <2>1. \A i \in 1..Len(events') : events'[i].name # "Setup"
    BY <1>0 DEF DealsWhole
  <2>2. deck' = deck \/ state = "StartTurn"
    <3>1. CASE PollSetup
      BY <1>0, <3>1 DEF PollSetup, Polled, DealsWhole
    <3>2. CASE ~PollSetup
      BY <3>2 DEF Poll, PollStartTurn, PollDrawCard, PollWait, PollWaitForNewRound,
                  PollOther, PollExit
    <3>3. QED
      BY <3>1, <3>2
  <2>3. QED
    BY <1>0, <2>1, <2>2 DEF DealsWhole, Others
<1>4. CountsAgree'
  <2>1. \A i \in 1..Len(events') :
          events'[i].name = "WaitForNewRound"
            => state' = "WaitingForNewRound" /\ events'[i].arg = confirmations'
    BY <1>0 DEF CountsAgree, Others
  <2>2. CASE PollWaitForNewRound
    <3>1. Head(events).arg = confirmations
      BY <1>0, <2>2 DEF PollWaitForNewRound, Polled, CountsAgree
    <3>2. CASE Head(events).arg = 0
      <4>1. confirmed' = {}
        BY <2>2, <3>2 DEF PollWaitForNewRound
      <4>2. Cardinality({}) = 0
        BY FS_EmptySet
      <4>3. QED
        BY <1>0, <2>1, <3>1, <3>2, <4>1, <4>2 DEF CountsAgree, Others
    <3>3. CASE Head(events).arg # 0
      <4>1. confirmed' = confirmed
        BY <2>2, <3>3 DEF PollWaitForNewRound
      <4>2. QED
        BY <1>0, <2>1, <3>1, <3>3, <4>1 DEF CountsAgree, Others
    <3>4. QED
      BY <3>2, <3>3
  <2>3. CASE ~PollWaitForNewRound
    <3>1. confirmed' = confirmed /\ Head(events).name # "WaitForNewRound"
      BY <2>3 DEF Poll, Polled, PollSetup, PollStartTurn, PollDrawCard, PollWait,
                  PollOther, PollExit, serverVars
    <3>2. ASSUME NEW i \in 1..Len(events), events[i].name = "WaitForNewRound"
          PROVE  i - 1 \in 1..Len(events') /\ events'[i - 1] = events[i]
      BY <1>0, <3>1, <3>2
    <3>3. QED
      BY <1>0, <2>1, <3>1, <3>2 DEF CountsAgree, Others
  <2>4. QED
    BY <2>2, <2>3
<1>5. QED
  BY <1>1, <1>2, <1>3, <1>4 DEF LoopInv

LEMMA ReceiveLoopInv ==
  ASSUME LoopInv, Receive
  PROVE  LoopInv'
<1>0. /\ TypeOK /\ DealsWhole /\ CountsAgree /\ events = <<>> /\ pc' = "advance"
      /\ IsFiniteSet(confirmed)
  <2>1. IsFiniteSet(Players)
    BY LoopAssumption, FS_Interval DEF Players
  <2>2. TypeOK /\ confirmed \in SUBSET Players
    BY DEF LoopInv, TypeOK
  <2>3. QED
    BY <2>1, <2>2, FS_Subset DEF LoopInv, Receive, Waiting
<1>1. events' = <<>>
  BY <1>0 DEF Receive, Handle, CountConfirmation, Unhandled, HandleDecision, HandleSnap,
              ConfirmNewRound, SkipNewRound, gameVars
<1>2. TypeOK'
  BY <1>0, ReceiveType
<1>3. AdvancesEmpty'
  BY <1>1 DEF AdvancesEmpty
<1>4. DealsWhole'
  BY <1>0, <1>1
  DEF DealsWhole, Receive, Handle, CountConfirmation, Unhandled, HandleDecision,
      HandleSnap, ConfirmNewRound, SkipNewRound, StartNextRound, Goto, gameVars
<1>5. CountsAgree'
  <2>1. state = "WaitingForNewRound" => confirmations = Cardinality(confirmed)
    BY <1>0 DEF CountsAgree
  <2>2. CASE UNCHANGED <<state, confirmations, confirmed>>
    BY <1>1, <2>1, <2>2 DEF CountsAgree
  <2>3. CASE state' # "WaitingForNewRound"
    BY <1>1, <2>3 DEF CountsAgree
  <2>4. ASSUME NEW from, from \notin confirmed, confirmed' = confirmed \union {from},
               ConfirmNewRound(NumPlayers)
        PROVE  CountsAgree'
    <3>1. Cardinality(confirmed') = Cardinality(confirmed) + 1
      BY <1>0, <2>4, FS_AddElement
    <3>2. state = "WaitingForNewRound" /\ confirmations' = confirmations + 1
      BY <2>4 DEF ConfirmNewRound
    <3>3. QED
      BY <1>1, <2>1, <3>1, <3>2 DEF CountsAgree
  <2>5. QED
    BY <2>2, <2>3, <2>4
    DEF Receive, Handle, CountConfirmation, Unhandled, HandleDecision, HandleSnap,
        SkipNewRound, Goto, gameVars
<1>6. QED
  BY <1>2, <1>3, <1>4, <1>5 DEF LoopInv

LEMMA AdvanceLoopInv ==
  ASSUME LoopInv, AdvanceGame
  PROVE  LoopInv'
<1>0. /\ TypeOK /\ DealsWhole /\ CountsAgree /\ events = <<>> /\ Advance
      /\ pc' = "loop" /\ confirmed' = confirmed
      /\ {0, turn, round, confirmations} \subseteq Nat
  BY DEF LoopInv, AdvancesEmpty, AdvanceGame, TypeOK, GameTypeOK
<1>1. TypeOK'
  BY <1>0, AdvanceGameType
<1>2. AdvancesEmpty'
  BY <1>0 DEF AdvancesEmpty
<1>3. /\ \A e : Emit(<<e>>) => events' = <<e>>
      /\ \A e, f : Emit(<<e, f>>) => events' = <<e, f>>
  BY <1>0 DEF Emit
<1> USE DEF DealsWhole, CountsAgree, Goto, Ev
<1>4. CASE AdvancePregame \/ AdvanceSnapped
  BY <1>0, <1>4, <1>1, <1>2 DEF AdvancePregame, AdvanceSnapped, LoopInv
<1>5. CASE AdvanceStartRound
  BY <1>0, <1>1, <1>2, <1>3, <1>5 DEF AdvanceStartRound, LoopInv
<1>6. CASE AdvanceStartTurn \/ AdvanceDrawCard \/ AdvancePlayDecision
  BY <1>0, <1>1, <1>2, <1>3, <1>6
  DEF AdvanceStartTurn, AdvanceDrawCard, AdvancePlayDecision, LoopInv
<1>7. CASE AdvanceWaitingForDecision \/ AdvanceWaitingForSnaps
  BY <1>0, <1>1, <1>2, <1>3, <1>7
  DEF AdvanceWaitingForDecision, AdvanceWaitingForSnaps, KeepWaiting, LoopInv
<1>8. CASE AdvanceEndTurn \/ AdvanceCambioCall \/ AdvanceEndRound \/ AdvanceFinished
  BY <1>0, <1>1, <1>2, <1>3, <1>8
  DEF AdvanceEndTurn, AdvanceCambioCall, AdvanceEndRound, AdvanceFinished, LoopInv
<1>9. CASE AdvanceFindWinner
  BY <1>0, <1>1, <1>2, <1>3, <1>9 DEF AdvanceFindWinner, LoopInv
<1>10. CASE AdvanceWaitingForNewRound
  BY <1>0, <1>1, <1>2, <1>3, <1>10
  DEF AdvanceWaitingForNewRound, KeepWaiting, LoopInv
<1>11. QED
  BY <1>0, <1>4, <1>5, <1>6, <1>7, <1>8, <1>9, <1>10 DEF Advance

LEMMA NextLoopInv == LoopInv /\ [Next]_vars => LoopInv'
<1> SUFFICES ASSUME LoopInv, [Next]_vars PROVE LoopInv'
  OBVIOUS
<1>1. CASE Poll
  BY <1>1, PollLoopInv
<1>2. CASE Receive
  BY <1>2, ReceiveLoopInv
<1>3. CASE AdvanceGame
  BY <1>3, AdvanceLoopInv
<1>4. CASE TypeOK' /\ UNCHANGED <<state, round, reset_deck, confirmations, deck, events,
                                  confirmed>>
                   /\ (pc' = "advance" => events = <<>>)
  BY <1>4 DEF LoopInv, AdvancesEmpty, DealsWhole, CountsAgree
<1>5. CASE Timeout
  BY <1>5, <1>4 DEF Timeout, Waiting, LoopInv, TypeOK, GameTypeOK, gameVars, clientVars,
                    channelVars, presence
<1>6. CASE EndGame
  BY <1>6, <1>4, EndGameType DEF EndGame, LoopInv, gameVars
<1>7. CASE Time
  BY <1>7, <1>4 DEF Time, Tick, LoopInv, AdvancesEmpty, TypeOK, GameTypeOK, serverVars,
                    clientVars, channelVars, presence
<1>8. CASE \E p \in Players : Client(p)
  BY <1>8, <1>4, ClientType DEF Client, LoopInv, AdvancesEmpty, gameVars, serverVars
<1>9. CASE (\E p \in Players : Leave(p)) \/ GiveUp
  BY <1>9, <1>4, LeaveType DEF Disconnect, LoopInv, AdvancesEmpty, gameVars, serverVars
<1>10. CASE Connect
  BY <1>10, <1>4, ConnectType DEF Connect, AnnounceJoin, RegisterJoin, EnterJoin, JoinStep,
                                  LoopInv, AdvancesEmpty, gameVars, serverVars
<1>11. CASE UNCHANGED vars
  BY <1>11, <1>4 DEF vars, LoopInv, AdvancesEmpty, TypeOK, GameTypeOK, gameVars,
                     serverVars, clientVars, channelVars, presence
<1>12. QED
  BY <1>1, <1>2, <1>3, <1>5, <1>6, <1>7, <1>8, <1>9, <1>10, <1>11 DEF Next, Server

-----------------------------------------------------------------------------
(* Theorems. *)

\* The inductive invariant holds in every reachable state of loop and clients.
THEOREM LoopInvariant == Spec => []LoopInv
<1>1. QED
  BY InitLoopInv, NextLoopInv, PTL DEF Spec

\* Every variable keeps its type, and no channel exceeds its capacity.
THEOREM LoopTypeCorrect == Spec => []TypeOK
<1>1. LoopInv => TypeOK
  BY DEF LoopInv
<1>2. QED
  BY <1>1, LoopInvariant, PTL

\* drain() never panics: a deal always finds the cards it takes.
THEOREM DealsSuffice == Spec => []DealSuffices
<1>1. LoopInv => DealSuffices
  <2> SUFFICES ASSUME LoopInv, events # <<>>, Head(events).name = "Setup"
               PROVE  deck >= NumPlayers * STARTING_DECK_LEN
    BY DEF DealSuffices
  <2>1. 1 \in 1..Len(events) /\ Head(events) = events[1]
    BY DEF LoopInv, TypeOK, GameTypeOK
  <2>2. deck = DeckSize
    BY <2>1 DEF LoopInv, DealsWhole
  <2>3. NumPlayers * STARTING_DECK_LEN <= DeckSize
    BY LoopAssumption
  <2>4. QED
    BY <2>2, <2>3
<1>2. QED
  BY <1>1, LoopInvariant, PTL

\* The engine's count and the loop's set of confirmations agree.
THEOREM ConfirmationsAgree == Spec => []ConfirmationsMatch
<1>1. LoopInv => ConfirmationsMatch
  BY DEF LoopInv, CountsAgree, ConfirmationsMatch, Waiting
<1>2. QED
  BY <1>1, LoopInvariant, PTL

\* A new round is started only when every player has confirmed it.
THEOREM RestartUnanimous == Spec => UnanimousRestart
<1>1. ASSUME LoopInv, [Next]_vars, round' > round
      PROVE  confirmed' = Players
  <2>1. TypeOK /\ TypeOK'
    BY <1>1, NextLoopInv DEF LoopInv
  <2>2. IsFiniteSet(Players) /\ Cardinality(Players) = NumPlayers
    BY LoopAssumption, FS_Interval DEF Players
  <2>3. /\ confirmed \in SUBSET Players /\ confirmed' \in SUBSET Players
        /\ confirmations \in Nat /\ round \in Nat
    BY <2>1, GameAssumption DEF TypeOK, GameTypeOK
  <2>4. Receive
    <3>1. round' # round
      BY <1>1, <2>3
    <3>2. ~Poll
      BY <3>1 DEF Poll, PollSetup, PollStartTurn, PollDrawCard, PollWait,
                  PollWaitForNewRound, PollOther, PollExit, Polled
    <3>3. ~AdvanceGame
      <4>1. ASSUME Advance PROVE round' = round \/ round' = 0
        BY <4>1
        DEF Advance, AdvancePregame, AdvanceStartRound, AdvanceStartTurn, AdvanceDrawCard,
            AdvanceWaitingForDecision, AdvancePlayDecision, AdvanceSnapped,
            AdvanceWaitingForSnaps, AdvanceEndTurn, AdvanceCambioCall, AdvanceEndRound,
            AdvanceFindWinner, AdvanceFinished, AdvanceWaitingForNewRound
      <4>2. QED
        BY <1>1, <2>3, <4>1 DEF AdvanceGame
    <3>4. ~(Timeout \/ EndGame \/ Time \/ UNCHANGED vars)
      BY <3>1 DEF Timeout, EndGame, Time, Tick, vars, gameVars
    <3>5. ~(Connect \/ GiveUp) /\ \A p \in Players : ~(Client(p) \/ Leave(p))
      BY <3>1 DEF Client, Leave, GiveUp, Disconnect, Connect, AnnounceJoin, RegisterJoin,
                  EnterJoin, JoinStep, gameVars
    <3>6. QED
      BY <1>1, <3>2, <3>3, <3>4, <3>5 DEF Next, Server
  <2>5. PICK m : Handle(m) /\ Waiting
    BY <1>1, <2>3, <2>4 DEF Receive, Unhandled, gameVars
  <2>6. DEFINE from == m.from
  <2>7. /\ from \notin confirmed
        /\ confirmed' = confirmed \union {from}
        /\ ConfirmNewRound(NumPlayers)
    BY <1>1, <2>3, <2>5 DEF Handle, CountConfirmation, Unhandled, HandleSnap, HandleDecision,
                            SkipNewRound, gameVars
  <2>8. /\ state = "WaitingForNewRound"
        /\ confirmations + 1 >= NumPlayers
    BY <1>1, <2>3, <2>7 DEF ConfirmNewRound, Enough
  <2> HIDE DEF from
  <2>9. confirmations = Cardinality(confirmed)
    BY <1>1, <2>5, <2>8 DEF LoopInv, CountsAgree, Waiting
  <2>10. IsFiniteSet(confirmed) /\ Cardinality(confirmed') = Cardinality(confirmed) + 1
    BY <2>2, <2>3, <2>7, FS_Subset, FS_AddElement
  <2>11. Cardinality(confirmed') <= NumPlayers
    BY <2>2, <2>3, FS_Subset
  <2>12. Cardinality(confirmed') = NumPlayers
    BY <2>3, <2>8, <2>9, <2>10, <2>11, LoopAssumption
  <2>13. QED
    BY <2>2, <2>3, <2>12, FS_Subset
<1>2. LoopInv /\ [Next]_vars => [round' > round => confirmed' = Players]_vars
  BY <1>1
<1>3. QED
  BY <1>2, LoopInvariant, PTL DEF Spec, UnanimousRestart

-----------------------------------------------------------------------------
(* The order of the messages in a mailbox. *)

\* The first i - 1 messages of a mailbox hold none of a name, or the last one
\* of its name among them is m.
NoneBefore(q, i, name) == \A j \in 1..(i - 1) : q[j].name # name

LastBefore(q, i, m) ==
  \E k \in 1..(i - 1) : q[k] = m /\ \A j \in (k + 1)..(i - 1) : q[j].name # m.name

LEMMA AppendBefore ==
  ASSUME NEW q \in Seq(ServerEvent), NEW e \in ServerEvent
  PROVE  LET q2 == Append(q, e)
             n == Len(q) + 1
         IN /\ Len(q2) = n /\ q2[n] = e /\ \A i \in 1..Len(q) : q2[i] = q[i]
            /\ \A i \in 1..n : \A name : NoneBefore(q, i, name) => NoneBefore(q2, i, name)
            /\ \A i \in 1..n : \A m : LastBefore(q, i, m) => LastBefore(q2, i, m)
            /\ \A name : NoneBefore(q, n, name) /\ e.name # name => NoneBefore(q2, n + 1, name)
            /\ \A m : LastBefore(q, n, m) /\ e.name # m.name => LastBefore(q2, n + 1, m)
            /\ LastBefore(q2, n + 1, e)
<1> DEFINE q2 == Append(q, e)
           n == Len(q) + 1
<1>1. /\ Len(q2) = n /\ q2[n] = e /\ n \in Nat \ {0} /\ Len(q) = n - 1
      /\ \A i \in 1..(n - 1) : q2[i] = q[i]
  OBVIOUS
<1> HIDE DEF q2, n
<1>2. \A i \in 1..n : \A name : NoneBefore(q, i, name) => NoneBefore(q2, i, name)
  BY <1>1 DEF NoneBefore
<1>3. ASSUME NEW i \in 1..n, NEW m, LastBefore(q, i, m)
      PROVE  LastBefore(q2, i, m)
  <2>1. PICK k \in 1..(i - 1) : q[k] = m /\ \A j \in (k + 1)..(i - 1) : q[j].name # m.name
    BY <1>3 DEF LastBefore
  <2>2. q2[k] = m /\ \A j \in (k + 1)..(i - 1) : q2[j].name # m.name
    BY <1>1, <2>1
  <2>3. QED
    BY <2>1, <2>2 DEF LastBefore
<1>4. \A name : NoneBefore(q, n, name) /\ e.name # name => NoneBefore(q2, n + 1, name)
  BY <1>1 DEF NoneBefore
<1>5. ASSUME NEW m, LastBefore(q, n, m), e.name # m.name
      PROVE  LastBefore(q2, n + 1, m)
  <2>1. PICK k \in 1..(n - 1) : q[k] = m /\ \A j \in (k + 1)..(n - 1) : q[j].name # m.name
    BY <1>5 DEF LastBefore
  <2>2. q2[k] = m /\ \A j \in (k + 1)..n : q2[j].name # m.name
    BY <1>1, <1>5, <2>1
  <2>3. k \in 1..((n + 1) - 1) /\ (n + 1) - 1 = n
    BY <1>1, <2>1
  <2>4. QED
    BY <2>2, <2>3 DEF LastBefore
<1>6. LastBefore(q2, n + 1, e)
  <2>1. n \in 1..((n + 1) - 1) /\ (n + 1)..((n + 1) - 1) = {}
    BY <1>1
  <2>2. QED
    BY <1>1, <2>1 DEF LastBefore
<1>7. QED
  BY <1>1, <1>2, <1>3, <1>4, <1>5, <1>6 DEF q2, n

LEMMA TailBefore ==
  ASSUME NEW q \in Seq(ServerEvent), q # <<>>
  PROVE  LET q2 == Tail(q)
         IN /\ Len(q2) = Len(q) - 1 /\ \A i \in 1..Len(q2) : q2[i] = q[i + 1]
            /\ \A i \in 1..(Len(q2) + 1) : \A name :
                 NoneBefore(q, i + 1, name) => NoneBefore(q2, i, name) /\ q[1].name # name
            /\ \A i \in 1..(Len(q2) + 1) : \A m :
                 LastBefore(q, i + 1, m) =>
                   LastBefore(q2, i, m) \/ (NoneBefore(q2, i, m.name) /\ q[1] = m)
<1> DEFINE q2 == Tail(q)
<1>1. /\ Len(q2) = Len(q) - 1 /\ Len(q) \in Nat \ {0}
      /\ \A i \in 1..(Len(q) - 1) : q2[i] = q[i + 1]
  OBVIOUS
<1> HIDE DEF q2
<1>2. ASSUME NEW i \in 1..(Len(q2) + 1), NEW name, NoneBefore(q, i + 1, name)
      PROVE  NoneBefore(q2, i, name) /\ q[1].name # name
  <2>1. \A j \in 1..i : q[j].name # name
    BY <1>1, <1>2 DEF NoneBefore
  <2>2. 1 \in 1..i /\ \A j \in 1..(i - 1) : j + 1 \in 1..i /\ q2[j] = q[j + 1]
    BY <1>1
  <2>3. QED
    BY <2>1, <2>2 DEF NoneBefore
<1>3. ASSUME NEW i \in 1..(Len(q2) + 1), NEW m, LastBefore(q, i + 1, m)
      PROVE  LastBefore(q2, i, m) \/ (NoneBefore(q2, i, m.name) /\ q[1] = m)
  <2>1. PICK k \in 1..i : q[k] = m /\ \A j \in (k + 1)..i : q[j].name # m.name
    BY <1>1, <1>3 DEF LastBefore
  <2>2. \A j \in k..(i - 1) : j + 1 \in (k + 1)..i /\ q2[j] = q[j + 1]
    BY <1>1, <2>1
  <2>3. \A j \in k..(i - 1) : q2[j].name # m.name
    BY <2>1, <2>2
  <2>4. CASE k = 1
    BY <2>1, <2>3, <2>4 DEF NoneBefore
  <2>5. CASE k # 1
    <3>1. k - 1 \in 1..(i - 1) /\ q2[k - 1] = m /\ (k - 1) + 1 = k
      BY <1>1, <2>1, <2>5
    <3>2. QED
      BY <2>3, <3>1 DEF LastBefore
  <2>6. QED
    BY <2>4, <2>5
<1>4. QED
  BY <1>1, <1>2, <1>3 DEF q2

-----------------------------------------------------------------------------
(* The inductive invariant of the turns. *)

\* When client p gets to message i it believes it is the turn of stamp s, or,
\* having heard of no turn yet, it believes in its own and has no card.
OnTurn(p, i, s) ==
  \/ NoneBefore(inbox[p], i, "TurnStart") /\ seat[p] = Owner(s[2])
  \/ LastBefore(inbox[p], i, Msg("TurnStart", s))

Late(p, i) ==
  /\ NoneBefore(inbox[p], i, "TurnStart") /\ NoneBefore(inbox[p], i, "DrawCard")
  /\ seat[p] = p /\ card[p] = NoCard

AfterStart(p, i, s) == OnTurn(p, i, s) \/ Late(p, i)

\* For its own turn it holds the card of that turn or has decided on it.
AfterDraw(p, i, s) ==
  \/ NoneBefore(inbox[p], i, "DrawCard") /\ card[p] \in {s, NoCard}
  \/ LastBefore(inbox[p], i, Msg("DrawCard", s))

\* What message i of client p finds before it.
InOrder(p, i, m) ==
  /\ m.name \in {"DrawCard", "WaitingForDecision", "WaitingForSnap"} => AfterStart(p, i, m.stamp)
  /\ m.name = "DrawCard" => Owner(m.stamp[2]) = p
  /\ m.name = "WaitingForDecision" /\ Owner(m.stamp[2]) = p => AfterDraw(p, i, m.stamp)

Ordered(p) == \A i \in 1..Len(inbox[p]) : InOrder(p, i, inbox[p][i])

Queued(name) == \E i \in 1..Len(events) : events[i].name = name

\* The events of a turn carry its number, and the loop polls them before the
\* engine leaves the state that follows their emission.
TurnEvents ==
  \A i \in 1..Len(events) :
    /\ events[i].name = "StartTurn" => events[i].arg = turn /\ state \in {"DrawCard", "EndRound"}
    /\ events[i].name = "DrawCard" => i = 1 /\ events[i].arg = turn
    /\ events[i].name \in {"DrawCard", "WaitForDecision"} => state = "WaitingForDecision"
    /\ events[i].name = "WaitForSnap" => state = "WaitingForSnaps"

\* The states of a turn from its announcement to its last wait.
InTurn == {"DrawCard", "WaitingForDecision", "PlayDecision", "WaitingForSnaps"}

\* Whose turn it is was announced to everybody that listens once StartTurn is
\* polled, but for who came after it, and the card was sent to its owner once
\* DrawCard is.
Informed(p) ==
  \/ OnTurn(p, Len(inbox[p]) + 1, Stamp(turn))
  \/ Late(p, Len(inbox[p]) + 1) /\ p \notin told

TurnAnnounced ==
  /\ state \in InTurn /\ ~Queued("StartTurn") => \A p \in Listening : Informed(p)
  /\ state = "WaitingForDecision" /\ ~Queued("DrawCard") =>
       \A p \in Listening :
         Owner(turn) = p => AfterDraw(p, Len(inbox[p]) + 1, Stamp(turn))

\* Who has no mailbox yet was sent nothing and has done nothing.
AbsentFresh ==
  \A p \in Absent : inbox[p] = <<>> /\ seat[p] = p /\ card[p] = NoCard /\ p \notin told

\* The prompts of a turn and what announces it reach every client in this order.
PromptsInv == TurnEvents /\ TurnAnnounced /\ AbsentFresh /\ \A p \in Players : Ordered(p)

-----------------------------------------------------------------------------
(* What is put in a mailbox keeps its order. *)

\* What client p finds at the end of its mailbox it still finds there.
Carries(p) ==
  /\ \A s : OnTurn(p, Len(inbox[p]) + 1, s) => OnTurn(p, Len(inbox[p]) + 1, s)'
  /\ Late(p, Len(inbox[p]) + 1) => Late(p, Len(inbox[p]) + 1)'
  /\ \A s : AfterDraw(p, Len(inbox[p]) + 1, s) => AfterDraw(p, Len(inbox[p]) + 1, s)'

LEMMA SendInOrder ==
  ASSUME TypeOK, NEW p \in Players, Ordered(p), NEW m \in ServerEvent,
         UNCHANGED <<seat, card>>, inbox'[p] = Append(inbox[p], m),
         InOrder(p, Len(inbox[p]) + 1, m)
  PROVE  /\ Ordered(p)'
         /\ \A s : m.name # "TurnStart" /\ OnTurn(p, Len(inbox[p]) + 1, s)
                     => OnTurn(p, Len(inbox[p]) + 1, s)'
         /\ m.name \notin {"TurnStart", "DrawCard"} /\ Late(p, Len(inbox[p]) + 1)
              => Late(p, Len(inbox[p]) + 1)'
         /\ \A s : m = Msg("TurnStart", s) => OnTurn(p, Len(inbox[p]) + 1, s)'
         /\ \A s : m.name # "DrawCard" /\ AfterDraw(p, Len(inbox[p]) + 1, s)
                     => AfterDraw(p, Len(inbox[p]) + 1, s)'
         /\ \A s : m = Msg("DrawCard", s) => AfterDraw(p, Len(inbox[p]) + 1, s)'
<1> DEFINE q == inbox[p]
           q2 == inbox'[p]
           n == Len(q) + 1
<1>0. q \in Seq(ServerEvent) /\ n \in Nat /\ n >= 1 /\ Len(q) = n - 1
  BY DEF TypeOK
<1>1. /\ Len(q2) = n /\ q2[n] = m /\ \A i \in 1..Len(q) : q2[i] = q[i]
      /\ \A i \in 1..n : \A name : NoneBefore(q, i, name) => NoneBefore(q2, i, name)
      /\ \A i \in 1..n : \A x : LastBefore(q, i, x) => LastBefore(q2, i, x)
      /\ \A name : NoneBefore(q, n, name) /\ m.name # name => NoneBefore(q2, n + 1, name)
      /\ \A x : LastBefore(q, n, x) /\ m.name # x.name => LastBefore(q2, n + 1, x)
      /\ LastBefore(q2, n + 1, m)
  <2>1. q2 = Append(q, m)
    OBVIOUS
  <2> HIDE DEF q, q2
  <2>2. QED
    BY <1>0, <2>1, AppendBefore
<1>2. \A s : Msg("TurnStart", s).name = "TurnStart" /\ Msg("DrawCard", s).name = "DrawCard"
  BY DEF Msg
<1> HIDE DEF n
<1>3. \A i \in 1..n : \A s : AfterStart(p, i, s) => AfterStart(p, i, s)'
  BY <1>1 DEF AfterStart, OnTurn, Late
<1>4. \A i \in 1..n : \A s : AfterDraw(p, i, s) => AfterDraw(p, i, s)'
  BY <1>1 DEF AfterDraw
<1>5. Ordered(p)'
  <2>1. ASSUME NEW i \in 1..n PROVE InOrder(p, i, inbox[p][i])'
    <3>1. InOrder(p, i, q2[i])
      <4>1. CASE i = n
        BY <1>1, <4>1 DEF n
      <4>2. CASE i \in 1..Len(q)
        BY <1>1, <4>2 DEF Ordered
      <4>3. QED
        BY <1>0, <4>1, <4>2
    <3>2. QED
      BY <1>3, <1>4, <3>1 DEF InOrder
  <2>2. QED
    BY <1>1, <2>1 DEF Ordered
<1>6. Len(inbox'[p]) + 1 = n + 1
  BY <1>1
<1>7. /\ \A s : m.name # "TurnStart" /\ OnTurn(p, n, s) => OnTurn(p, Len(inbox[p]) + 1, s)'
      /\ m.name \notin {"TurnStart", "DrawCard"} /\ Late(p, n) => Late(p, Len(inbox[p]) + 1)'
  BY <1>1, <1>2, <1>6 DEF OnTurn, Late
<1>8. \A s : m.name # "DrawCard" /\ AfterDraw(p, n, s) => AfterDraw(p, Len(inbox[p]) + 1, s)'
  BY <1>1, <1>2, <1>6 DEF AfterDraw
<1>9. /\ \A s : m = Msg("TurnStart", s) => OnTurn(p, Len(inbox[p]) + 1, s)'
      /\ \A s : m = Msg("DrawCard", s) => AfterDraw(p, Len(inbox[p]) + 1, s)'
  BY <1>1, <1>6 DEF OnTurn, AfterDraw
<1>10. QED
  BY <1>5, <1>7, <1>8, <1>9 DEF n

-----------------------------------------------------------------------------
(* A client that reads keeps it too. *)

\* What reading a message does to the client's own state.
LEMMA ReadMessage ==
  ASSUME TypeOK, NEW p \in Players, Client(p)
  PROVE  LET m == inbox[p][1]
         IN /\ inbox[p] # <<>> /\ inbox'[p] = Tail(inbox[p]) /\ m \in ServerEvent
            /\ m.name = "TurnStart" => seat'[p] = Owner(m.stamp[2])
            /\ m.name # "TurnStart" => seat'[p] = seat[p]
            /\ m.name = "DrawCard" => card'[p] = IF seat[p] = p THEN m.stamp ELSE card[p]
            /\ m.name # "DrawCard" => card'[p] \in {card[p], NoCard}
            /\ \A r \in Players \ {p} :
                 inbox'[r] = inbox[r] /\ seat'[r] = seat[r] /\ card'[r] = card[r]
<1> DEFINE m == inbox[p][1]
<1>1. /\ inbox[p] \in Seq(ServerEvent) /\ inbox[p] # <<>> /\ Head(inbox[p]) = m
      /\ m \in ServerEvent /\ Answer(p, m)
      /\ inbox' = [inbox EXCEPT ![p] = Tail(@)]
  BY DEF TypeOK, Client
<1>2. inbox'[p] = Tail(inbox[p]) /\ \A r \in Players \ {p} : inbox'[r] = inbox[r]
  BY <1>1 DEF TypeOK
<1> HIDE DEF m
<1>3. /\ seat \in [Players -> Players] /\ card \in [Players -> Stamps \union {NoCard}]
  BY DEF TypeOK
<1>4. /\ m.name = "TurnStart" => seat' = [seat EXCEPT ![p] = Owner(m.stamp[2])]
      /\ m.name # "TurnStart" => seat' = seat
  BY <1>1 DEF Answer, Decide, clientVars
<1>5. /\ m.name = "DrawCard" =>
           card' = IF seat[p] = p THEN [card EXCEPT ![p] = m.stamp] ELSE card
      /\ m.name # "DrawCard" => card' = card \/ card' = [card EXCEPT ![p] = NoCard]
  BY <1>1 DEF Answer, Decide, clientVars
<1>6. QED
  BY <1>1, <1>2, <1>3, <1>4, <1>5 DEF m

LEMMA ReadInOrder ==
  ASSUME TypeOK, NEW p \in Players, Ordered(p), Client(p)
  PROVE  /\ Ordered(p)'
         /\ Carries(p)
<1> DEFINE q == inbox[p]
           q2 == inbox'[p]
           m == q[1]
<1>1. /\ q \in Seq(ServerEvent) /\ q # <<>> /\ q2 = Tail(q) /\ m \in ServerEvent
      /\ m.name = "TurnStart" => seat'[p] = Owner(m.stamp[2])
      /\ m.name # "TurnStart" => seat'[p] = seat[p]
      /\ m.name = "DrawCard" => card'[p] = IF seat[p] = p THEN m.stamp ELSE card[p]
      /\ m.name # "DrawCard" => card'[p] \in {card[p], NoCard}
  BY ReadMessage DEF TypeOK
<1>2. /\ Len(q2) = Len(q) - 1 /\ Len(q) \in Nat /\ Len(q) >= 1
      /\ \A i \in 1..Len(q2) : q2[i] = q[i + 1]
      /\ \A i \in 1..(Len(q2) + 1) : \A name :
           NoneBefore(q, i + 1, name) => NoneBefore(q2, i, name) /\ m.name # name
      /\ \A i \in 1..(Len(q2) + 1) : \A x :
           LastBefore(q, i + 1, x) =>
             LastBefore(q2, i, x) \/ (NoneBefore(q2, i, x.name) /\ m = x)
  <2> HIDE DEF q, q2
  <2>1. Len(q) \in Nat /\ Len(q) >= 1
    BY <1>1
  <2>2. QED
    BY <1>1, <2>1, TailBefore DEF m
<1>3. m.name = "DrawCard" => seat[p] = p
  <2>1. m.name = "DrawCard" => AfterStart(p, 1, m.stamp) /\ Owner(m.stamp[2]) = p
    <3>1. InOrder(p, 1, m)
      BY <1>2 DEF Ordered
    <3>2. QED
      BY <3>1 DEF InOrder
  <2>2. \A x : ~LastBefore(q, 1, x)
    BY DEF LastBefore
  <2>3. QED
    BY <2>1, <2>2 DEF AfterStart, OnTurn, Late
<1>4. \A s : /\ Msg("TurnStart", s).name = "TurnStart" /\ Msg("TurnStart", s).stamp = s
             /\ Msg("DrawCard", s).name = "DrawCard" /\ Msg("DrawCard", s).stamp = s
  BY DEF Msg
<1> HIDE DEF m
<1>5. \A i \in 1..(Len(q2) + 1) :
        /\ \A s : OnTurn(p, i + 1, s) => OnTurn(p, i, s)'
        /\ Late(p, i + 1) => Late(p, i)'
  BY <1>1, <1>2, <1>4 DEF OnTurn, Late
<1>6. \A i \in 1..(Len(q2) + 1) : \A s : AfterDraw(p, i + 1, s) => AfterDraw(p, i, s)'
  <2>1. ASSUME NEW i \in 1..(Len(q2) + 1), NEW s, NoneBefore(q, i + 1, "DrawCard"),
               card[p] \in {s, NoCard}
        PROVE  AfterDraw(p, i, s)'
    BY <1>1, <1>2, <2>1 DEF AfterDraw
  <2>2. ASSUME NEW i \in 1..(Len(q2) + 1), NEW s, LastBefore(q, i + 1, Msg("DrawCard", s))
        PROVE  AfterDraw(p, i, s)'
    BY <1>1, <1>2, <1>3, <1>4, <2>2 DEF AfterDraw
  <2>3. QED
    BY <2>1, <2>2 DEF AfterDraw
<1>7. Ordered(p)'
  <2>1. ASSUME NEW i \in 1..Len(q2) PROVE InOrder(p, i, inbox[p][i])'
    <3>1. InOrder(p, i + 1, q[i + 1]) /\ q2[i] = q[i + 1]
      BY <1>2 DEF Ordered
    <3>2. i \in 1..(Len(q2) + 1)
      BY <1>2
    <3>3. \A x : AfterStart(p, i + 1, x) => AfterStart(p, i, x)'
      BY <1>5, <3>2 DEF AfterStart
    <3>4. QED
      BY <1>6, <3>1, <3>2, <3>3 DEF InOrder
  <2>2. QED
    BY <2>1 DEF Ordered
<1>8. QED
  <2>1. /\ Len(q2) + 1 \in 1..(Len(q2) + 1) /\ (Len(q2) + 1) + 1 = Len(q) + 1
    BY <1>2
  <2>2. QED
    BY <1>5, <1>6, <1>7, <2>1 DEF Carries

\* Whoever does not read and is sent nothing finds what it found.
LEMMA StayInOrder ==
  ASSUME NEW p \in Players, Ordered(p),
         inbox'[p] = inbox[p], seat'[p] = seat[p], card'[p] = card[p]
  PROVE  /\ Ordered(p)'
         /\ Carries(p)
BY DEF Ordered, InOrder, AfterStart, OnTurn, Late, AfterDraw, Carries

LEMMA DeliverInOrder ==
  ASSUME TypeOK, \A p \in Players : Ordered(p), NEW m \in ServerEvent, NEW to,
         Deliver(m, to), UNCHANGED <<seat, card>>,
         \A p \in Listening : p \in to => InOrder(p, Len(inbox[p]) + 1, m),
         NEW p \in Players
  PROVE  /\ Ordered(p)'
         /\ m.name \notin {"TurnStart", "DrawCard"} => Carries(p)
         /\ p \notin to \intersect Listening => Carries(p)
         /\ \A s : m.name # "TurnStart" /\ OnTurn(p, Len(inbox[p]) + 1, s)
                     => OnTurn(p, Len(inbox[p]) + 1, s)'
         /\ \A s : p \in to \intersect Listening /\ m = Msg("TurnStart", s)
                     => OnTurn(p, Len(inbox[p]) + 1, s)'
         /\ \A s : p \in to \intersect Listening /\ m = Msg("DrawCard", s)
                     => AfterDraw(p, Len(inbox[p]) + 1, s)'
<1>0. \A s : Msg("TurnStart", s).name = "TurnStart" /\ Msg("DrawCard", s).name = "DrawCard"
  BY DEF Msg
<1>1. CASE p \in to \intersect Listening
  <2>1. inbox'[p] = Append(inbox[p], m)
    BY <1>1 DEF Deliver
  <2>2. QED
    BY <1>0, <1>1, <2>1, SendInOrder DEF Carries
<1>2. CASE p \notin to \intersect Listening
  <2>1. inbox'[p] = inbox[p]
    BY <1>2 DEF Deliver
  <2>2. Ordered(p)' /\ Carries(p)
    BY <1>2, <2>1, StayInOrder
  <2>3. QED
    BY <1>2, <2>2 DEF Carries
<1>3. QED
  BY <1>1, <1>2

-----------------------------------------------------------------------------
(* Every step keeps the order of the prompts. *)

LEMMA InitPrompts == Init => PromptsInv
<1> SUFFICES ASSUME Init PROVE PromptsInv
  OBVIOUS
<1>1. TypeOK /\ events = <<>> /\ state = "Pregame"
  BY InitTypeOK DEF Init, GameInit
<1>2. \A p \in Players : inbox[p] = <<>> \/ inbox[p] = <<Msg("LobbyChange", NoStamp)>>
  BY DEF Init
<1>3. \A p \in Players : Ordered(p)
  BY <1>2 DEF Ordered, InOrder, Msg
<1>4. TurnEvents /\ TurnAnnounced
  BY <1>1 DEF TurnEvents, TurnAnnounced, InTurn
<1>5. AbsentFresh
  BY PlayersType DEF AbsentFresh, Absent, Listening, Init
<1>6. QED
  BY <1>3, <1>4, <1>5 DEF PromptsInv

\* The queue loses its head.
LEMMA PollQueue ==
  ASSUME TypeOK, TurnEvents, Poll
  PROVE  /\ TurnEvents' /\ ~Queued("DrawCard")'
         /\ UNCHANGED <<state, round, turn, seat, card, gone, joiner>>
         /\ \A name : Queued(name)' => Queued(name)
         /\ \A name : Queued(name) /\ Head(events).name # name => Queued(name)'
<1>1. \E names : Polled(names)
  BY DEF Poll, PollSetup, PollStartTurn, PollDrawCard, PollWait,
         PollWaitForNewRound, PollOther, PollExit
<1>2. /\ UNCHANGED <<state, round, turn, seat, card, gone, joiner>>
      /\ Len(events) \in Nat /\ Len(events') = Len(events) - 1 /\ Len(events) > 0
      /\ \A i \in 1..Len(events') : events'[i] = events[i + 1]
      /\ Head(events) = events[1]
  <2>1. Len(events) \in Nat
    BY DEF TypeOK, GameTypeOK
  <2>2. QED
    BY <1>1, <2>1, PolledType DEF Polled, clientVars
<1>3. ASSUME NEW i \in 1..Len(events')
      PROVE  i + 1 \in 1..Len(events) /\ i + 1 # 1 /\ events'[i] = events[i + 1]
  BY <1>2
<1>4. TurnEvents' /\ ~Queued("DrawCard")'
  BY <1>2, <1>3 DEF TurnEvents, Queued
<1>5. \A name : Queued(name)' => Queued(name)
  BY <1>3 DEF Queued
<1>6. ASSUME NEW name, Queued(name), Head(events).name # name  PROVE Queued(name)'
  <2>1. PICK i \in 1..Len(events) : events[i].name = name
    BY <1>6 DEF Queued
  <2>2. i - 1 \in 1..Len(events') /\ events'[i - 1] = events[i]
    BY <1>2, <1>6, <2>1
  <2>3. QED
    BY <2>1, <2>2 DEF Queued
<1>7. QED
  BY <1>2, <1>4, <1>5, <1>6

LEMMA PollPrompts ==
  ASSUME TypeOK, PromptsInv, Poll
  PROVE  PromptsInv'
<1> DEFINE e == Head(events)
           end(p) == Len(inbox[p]) + 1
<1>1. /\ TurnEvents' /\ ~Queued("DrawCard")'
      /\ UNCHANGED <<state, round, turn, seat, card, gone, joiner>>
      /\ \A name : Queued(name)' => Queued(name)
      /\ \A name : Queued(name) /\ e.name # name => Queued(name)'
      /\ TurnEvents /\ TurnAnnounced /\ AbsentFresh /\ \A p \in Players : Ordered(p)
  BY PollQueue DEF PromptsInv
<1>2. e = events[1] /\ 1 \in 1..Len(events)
  BY DEF TypeOK, GameTypeOK, Poll, Polled, PollSetup, PollStartTurn, PollDrawCard, PollWait,
         PollWaitForNewRound, PollOther, PollExit
<1>3. /\ Owner(Stamp(turn)[2]) = Owner(turn) /\ Stamp(turn) \in Stamps
      /\ \A name, s : Msg(name, s).name = name /\ Msg(name, s).stamp = s
      /\ NoStamp \in Stamps
  BY GameAssumption DEF Stamp, Stamps, NoStamp, Msg, TypeOK, GameTypeOK
<1>4. /\ state \in {"WaitingForDecision", "WaitingForSnaps"} => ~Queued("StartTurn")
      /\ {"DrawCard", "WaitingForDecision", "WaitingForSnaps"} \subseteq InTurn
      /\ "EndRound" \notin InTurn
  BY <1>1 DEF TurnEvents, Queued, InTurn
<1>5. PICK s : s = Stamp(turn) /\ s = Stamp(turn)'
  BY <1>1 DEF Stamp
<1>6. Listening' = Listening /\ Listening \subseteq Players /\ Absent' = Absent
      /\ Absent \intersect Listening = {} /\ Absent \subseteq Players
  BY <1>1, PlayersType DEF Listening, Absent
<1>7. AbsentFresh'
  <2>1. \A p \in Absent : inbox'[p] = inbox[p] /\ (p \in told' => p \in told)
    BY <1>6 DEF Poll, PollSetup, PollStartTurn, PollDrawCard, PollWait, PollWaitForNewRound,
                PollOther, PollExit, Broadcast, Deliver
  <2>2. QED
    BY <1>1, <1>6, <2>1 DEF AbsentFresh
<1> HIDE DEF e
<1>8. CASE PollStartTurn
  <2> DEFINE m == Msg("TurnStart", s)
  <2>1. /\ e.name = "StartTurn" /\ e.arg = turn /\ state \in {"DrawCard", "EndRound"}
        /\ Deliver(m, Players)
    BY <1>1, <1>2, <1>5, <1>8 DEF PollStartTurn, Polled, Broadcast, TurnEvents, e
  <2>2. m \in ServerEvent /\ \A p \in Players : InOrder(p, end(p), m)
    BY <1>3, <1>5, MsgType DEF InOrder
  <2>3. \A p \in Players : Ordered(p)' /\ (p \in Listening => OnTurn(p, Len(inbox[p]) + 1, s)')
    BY <1>1, <1>6, <2>1, <2>2, DeliverInOrder
  <2>4. TurnAnnounced'
    <3>1. \A p \in Listening' : Informed(p)'
      BY <1>5, <1>6, <2>3 DEF Informed
    <3>2. QED
      BY <1>1, <2>1, <3>1 DEF TurnAnnounced
  <2>5. QED
    BY <1>1, <1>7, <2>3, <2>4 DEF PromptsInv
<1>9. CASE PollDrawCard
  <2> DEFINE m == Msg("DrawCard", s)
  <2>1. /\ e.name = "DrawCard" /\ e.arg = turn /\ state = "WaitingForDecision"
        /\ Deliver(m, {Owner(turn)}) /\ told' = told
    BY <1>1, <1>2, <1>5, <1>9 DEF PollDrawCard, Polled, TurnEvents, e
  <2>2. m \in ServerEvent /\ \A p \in Listening : Informed(p)
    BY <1>1, <1>3, <1>4, <1>5, <2>1, MsgType DEF TurnAnnounced
  <2>3. \A p \in Listening : p = Owner(turn) => OnTurn(p, end(p), s)
    BY <1>3, <1>5, <2>2 DEF Informed, OnTurn, Late
  <2>4. \A p \in Listening : p = Owner(turn) => InOrder(p, end(p), m)
    BY <1>3, <1>5, <2>3 DEF InOrder, AfterStart
  <2>5. ASSUME NEW p \in Players
        PROVE  /\ Ordered(p)'
               /\ p \in Listening => Informed(p)'
               /\ p \in Listening /\ p = Owner(turn) => AfterDraw(p, Len(inbox[p]) + 1, s)'
    <3>1. /\ Ordered(p)'
          /\ p # Owner(turn) => Carries(p)
          /\ OnTurn(p, end(p), s) => OnTurn(p, Len(inbox[p]) + 1, s)'
          /\ p \in Listening /\ p = Owner(turn) => AfterDraw(p, Len(inbox[p]) + 1, s)'
      BY <1>1, <1>3, <2>1, <2>2, <2>4, DeliverInOrder
    <3>2. p \in Listening => Informed(p)'
      BY <1>5, <2>1, <2>2, <2>3, <3>1 DEF Informed, Carries
    <3>3. QED
      BY <3>1, <3>2
  <2>6. TurnAnnounced'
    BY <1>1, <1>5, <1>6, <2>1, <2>5 DEF TurnAnnounced
  <2>7. QED
    BY <1>1, <1>7, <2>5, <2>6 DEF PromptsInv
<1>10. ASSUME e.name \notin {"StartTurn", "DrawCard"}, told' = told,
              \A p \in Players : Ordered(p)' /\ Carries(p)
       PROVE  PromptsInv'
  <2>1. \A p \in Players : Informed(p) => Informed(p)'
    BY <1>5, <1>10 DEF Informed, Carries
  <2>2. TurnAnnounced'
    BY <1>1, <1>5, <1>6, <1>10, <2>1 DEF TurnAnnounced, Carries
  <2>3. QED
    BY <1>1, <1>7, <1>10, <2>2 DEF PromptsInv
<1>11. ASSUME NEW m \in ServerEvent, NEW to, Deliver(m, to), told' = told,
              m.name \notin {"TurnStart", "DrawCard"},
              e.name \notin {"StartTurn", "DrawCard"},
              m.name = "WaitingForDecision" => e.name = "WaitForDecision" /\ m.stamp = s,
              m.name = "WaitingForSnap" => e.name = "WaitForSnap" /\ m.stamp = s
       PROVE  PromptsInv'
  <2>1. \A p \in Listening : InOrder(p, end(p), m)
    <3>1. CASE m.name \notin {"WaitingForDecision", "WaitingForSnap"}
      BY <1>11, <3>1 DEF InOrder
    <3>2. CASE m.name = "WaitingForDecision"
      <4>1. state = "WaitingForDecision" /\ ~Queued("DrawCard")
        BY <1>1, <1>2, <1>11, <3>2 DEF TurnEvents, Queued
      <4>2. QED
        BY <1>1, <1>3, <1>4, <1>5, <1>11, <3>2, <4>1
        DEF InOrder, TurnAnnounced, Informed, AfterStart
    <3>3. CASE m.name = "WaitingForSnap"
      <4>1. state = "WaitingForSnaps"
        BY <1>1, <1>2, <1>11, <3>3 DEF TurnEvents
      <4>2. \A p \in Listening : AfterStart(p, end(p), s)
        BY <1>1, <1>4, <1>5, <4>1 DEF TurnAnnounced, Informed, AfterStart
      <4>3. QED
        BY <1>11, <3>3, <4>2 DEF InOrder
    <3>4. QED
      BY <3>1, <3>2, <3>3
  <2>2. \A p \in Players : Ordered(p)' /\ Carries(p)
    BY <1>1, <1>11, <2>1, DeliverInOrder
  <2>3. QED
    BY <1>10, <1>11, <2>2
<1>12. CASE UNCHANGED <<inbox, told>> /\ e.name \notin {"StartTurn", "DrawCard"}
  <2>1. \A p \in Players : Ordered(p)' /\ Carries(p)
    BY <1>1, <1>12, StayInOrder
  <2>2. QED
    BY <1>10, <1>12, <2>1
<1>13. CASE PollWait
  <2>1. PICK name \in {"WaitingForDecision", "WaitingForSnap"} :
          /\ Deliver(Msg(name, s), Players)
          /\ e.name \in {"WaitForDecision", "WaitForSnap"}
          /\ name = "WaitingForDecision" => e.name = "WaitForDecision"
          /\ name = "WaitingForSnap" => e.name = "WaitForSnap"
    BY <1>5, <1>13 DEF PollWait, Polled, Broadcast, e
  <2>2. Msg(name, s) \in ServerEvent /\ told' = told
    BY <1>3, <1>5, <1>13, MsgType DEF PollWait
  <2>3. QED
    BY <1>3, <1>11, <2>1, <2>2
<1>14. CASE PollWaitForNewRound
  <2>1. /\ e.name = "WaitForNewRound" /\ told' = told
        /\ Deliver(Msg("ConfirmNewRound", s), Players) \/ UNCHANGED inbox
    BY <1>5, <1>14 DEF PollWaitForNewRound, Polled, Broadcast, e
  <2>2. Msg("ConfirmNewRound", s) \in ServerEvent
    BY <1>3, <1>5, MsgType
  <2>3. QED
    BY <1>3, <1>11, <1>12, <2>1, <2>2
<1>15. CASE PollOther
  <2>1. /\ e.name \notin {"StartTurn", "DrawCard"} /\ told' = told
        /\ Deliver(Msg("Ignored", NoStamp), NotEntered)
    BY <1>15 DEF PollOther, Polled, e
  <2>2. Msg("Ignored", NoStamp) \in ServerEvent
    BY <1>3, MsgType
  <2>3. QED
    BY <1>3, <1>11, <2>1, <2>2
<1>16. CASE PollSetup \/ PollExit
  BY <1>12, <1>16 DEF PollSetup, PollExit, Polled, e
<1>17. QED
  BY <1>8, <1>9, <1>13, <1>14, <1>15, <1>16 DEF Poll

\* Steps that send nothing and read nothing leave the clients where they are.
LEMMA QuietPrompts ==
  ASSUME PromptsInv, UNCHANGED <<inbox, seat, card, presence>>, TurnEvents',
         state' \in InTurn /\ ~Queued("StartTurn")' =>
           turn' = turn /\ round' = round /\ state \in InTurn /\ ~Queued("StartTurn"),
         state' = "WaitingForDecision" /\ ~Queued("DrawCard")' =>
           turn' = turn /\ round' = round
             /\ state = "WaitingForDecision" /\ ~Queued("DrawCard")
  PROVE  PromptsInv'
<1>1. \A p \in Players : Ordered(p)' /\ Carries(p)
  BY StayInOrder DEF PromptsInv
<1>2. Listening' = Listening /\ Listening \subseteq Players /\ Absent' = Absent /\ told' = told
  BY DEF Listening, Absent, presence
<1>3. \A p \in Players : turn' = turn /\ round' = round /\ Informed(p) => Informed(p)'
  BY <1>1, <1>2 DEF Informed, Carries, Stamp
<1>4. TurnAnnounced'
  BY <1>1, <1>2, <1>3 DEF PromptsInv, TurnAnnounced, Carries, Stamp
<1>5. AbsentFresh'
  BY <1>2 DEF PromptsInv, AbsentFresh
<1>6. QED
  BY <1>1, <1>4, <1>5 DEF PromptsInv

\* Steps of the others than the engine that send no prompt and take nobody in.
LEMMA OtherPrompts ==
  ASSUME PromptsInv, UNCHANGED <<events, state, turn, round, told>>,
         \A p \in Players : Ordered(p)', \A p \in Listening' : Carries(p),
         Listening' \subseteq Listening, AbsentFresh'
  PROVE  PromptsInv'
<1>1. \A p \in Listening' : Informed(p) => Informed(p)'
  BY DEF Informed, Carries, Stamp
<1>2. TurnEvents' /\ TurnAnnounced'
  BY <1>1 DEF PromptsInv, TurnEvents, TurnAnnounced, Queued, Carries, Stamp
<1>3. QED
  BY <1>2 DEF PromptsInv

\* Sending a message that is no prompt.
LEMMA DeliverPrompts ==
  ASSUME TypeOK, PromptsInv, NEW m \in ServerEvent, NEW to, Deliver(m, to),
         m.name \in {"GameEnd", "LobbyChange", "Enter"},
         UNCHANGED <<events, state, turn, round, seat, card, gone, told>>,
         Absent' = Absent
  PROVE  PromptsInv'
<1>1. \A r \in Players : Ordered(r) /\ InOrder(r, Len(inbox[r]) + 1, m)
  BY DEF PromptsInv, InOrder
<1>2. Listening' = Listening /\ Listening \subseteq Players
  BY DEF Listening
<1>3. \A r \in Players : Ordered(r)' /\ Carries(r)
  BY <1>1, <1>2, DeliverInOrder
<1>4. AbsentFresh'
  <2>1. \A p \in Absent : inbox'[p] = inbox[p]
    BY PlayersType DEF Deliver, Absent, Listening
  <2>2. QED
    BY <2>1 DEF PromptsInv, AbsentFresh
<1>5. QED
  BY <1>2, <1>3, <1>4, OtherPrompts

LEMMA AdvancePrompts ==
  ASSUME TypeOK, events = <<>>, PromptsInv, AdvanceGame
  PROVE  PromptsInv'
<1>1. /\ Advance /\ UNCHANGED <<inbox, seat, card, presence>> /\ \A name : ~Queued(name)
  BY DEF AdvanceGame, channelVars, clientVars, Queued
<1>2. /\ \A e : Emit(<<e>>) => events' = <<e>>
      /\ \A e, f : Emit(<<e, f>>) => events' = <<e, f>>
      /\ UNCHANGED events => events' = <<>>
  BY DEF Emit
<1>3. CASE AdvanceStartTurn
  <2>1. TurnEvents' /\ Queued("StartTurn")' /\ state' \in {"DrawCard", "EndRound"}
    BY <1>2, <1>3 DEF AdvanceStartTurn, TurnEvents, Queued, Ev, Goto
  <2>2. QED
    BY <1>1, <2>1, QuietPrompts DEF InTurn
<1>4. CASE AdvanceDrawCard
  <2>1. /\ TurnEvents' /\ Queued("DrawCard")' /\ state \in InTurn
        /\ UNCHANGED <<turn, round>>
    BY <1>2, <1>4 DEF AdvanceDrawCard, TurnEvents, Queued, Ev, Goto, InTurn
  <2>2. QED
    BY <1>1, <2>1, QuietPrompts DEF InTurn
<1>5. CASE AdvanceWaitingForDecision
  <2>1. /\ TurnEvents' /\ state = "WaitingForDecision" /\ state' \in {state, "EndTurn"}
        /\ UNCHANGED <<turn, round>>
    BY <1>2, <1>5 DEF AdvanceWaitingForDecision, KeepWaiting, TurnEvents, Ev, Goto
  <2>2. QED
    BY <1>1, <2>1, QuietPrompts DEF InTurn
<1>6. CASE AdvancePlayDecision \/ AdvanceWaitingForSnaps
  <2>1. /\ TurnEvents' /\ state \in InTurn /\ state' \in {"WaitingForSnaps", "EndTurn"}
        /\ UNCHANGED <<turn, round>>
    BY <1>2, <1>6 DEF AdvancePlayDecision, AdvanceWaitingForSnaps, KeepWaiting, TurnEvents, Ev,
                      Goto, InTurn
  <2>2. QED
    BY <1>1, <2>1, QuietPrompts DEF InTurn
<1>7. CASE ~(\/ AdvanceStartTurn \/ AdvanceDrawCard \/ AdvanceWaitingForDecision
             \/ AdvancePlayDecision \/ AdvanceWaitingForSnaps)
  <2>1. state' \notin InTurn
    BY <1>1, <1>7
    DEF Advance, AdvancePregame, AdvanceStartRound, AdvanceSnapped, AdvanceEndTurn,
        AdvanceCambioCall, AdvanceEndRound, AdvanceFindWinner, AdvanceFinished,
        AdvanceWaitingForNewRound, KeepWaiting, Goto, InTurn
  <2> DEFINE others == EventNames \ {"StartTurn", "DrawCard", "WaitForDecision", "WaitForSnap"}
             quiet == \A i \in 1..Len(events') : events'[i].name \in others
  <2>2. quiet
    <3>1. ASSUME NEW name \in others, NEW arg, Emit(<<Ev(name, arg)>>)  PROVE quiet
      BY <1>2, <3>1 DEF Ev
    <3>2. ASSUME NEW name \in others, NEW arg, NEW name2 \in others, NEW arg2,
                 Emit(<<Ev(name, arg), Ev(name2, arg2)>>)
          PROVE  quiet
      BY <1>2, <3>2 DEF Ev
    <3>3. UNCHANGED events => quiet
      BY <1>2
    <3>4. {"Setup", "StartRound", "EndTurn", "Cambio", "EndRound", "FindWinner",
           "WaitForNewRound", "Exit"} \subseteq others
      BY DEF EventNames
    <3> HIDE DEF quiet, others
    <3>5. CASE AdvanceStartRound \/ AdvanceFindWinner
      BY <3>2, <3>4, <3>5 DEF AdvanceStartRound, AdvanceFindWinner
    <3>6. CASE ~(AdvanceStartRound \/ AdvanceFindWinner)
      BY <1>1, <1>7, <3>1, <3>3, <3>4, <3>6
      DEF Advance, AdvancePregame, AdvanceSnapped, AdvanceEndTurn, AdvanceCambioCall,
          AdvanceEndRound, AdvanceFinished, AdvanceWaitingForNewRound, KeepWaiting
    <3>7. QED
      BY <3>5, <3>6
  <2>3. TurnEvents'
    BY <2>2 DEF TurnEvents
  <2>4. QED
    BY <1>1, <2>1, <2>3, QuietPrompts DEF InTurn
<1>8. QED
  BY <1>3, <1>4, <1>5, <1>6, <1>7

\* Receiving moves the engine to no state a card is still to come in, and within
\* a turn only from the decision to its outcome.
LEMMA ReceivePrompts ==
  ASSUME PromptsInv, Receive
  PROVE  PromptsInv'
<1>1. /\ events = <<>> /\ events' = <<>> /\ UNCHANGED <<inbox, seat, card, presence>>
      /\ \/ UNCHANGED <<state, turn, round>>
         \/ state' \notin InTurn
         \/ state \in InTurn /\ state' = "PlayDecision" /\ UNCHANGED <<turn, round>>
  BY DEF Receive, Waiting, Handle, CountConfirmation, Unhandled, HandleDecision, HandleSnap,
         ConfirmNewRound, SkipNewRound, StartNextRound, Goto, gameVars, clientVars, InTurn
<1>2. TurnEvents' /\ \A name : ~Queued(name)
  BY <1>1 DEF TurnEvents, Queued
<1>3. QED
  BY <1>1, <1>2, QuietPrompts DEF InTurn

LEMMA ClientPrompts ==
  ASSUME TypeOK, PromptsInv, NEW p \in Players, Client(p)
  PROVE  PromptsInv'
<1>1. UNCHANGED <<events, state, turn, round, gone, told>>
  BY DEF Client, gameVars
<1>2. ASSUME NEW r \in Players  PROVE Ordered(r)' /\ Carries(r)
  <2>1. Ordered(r)
    BY DEF PromptsInv
  <2>2. CASE r = p
    BY <2>1, <2>2, ReadInOrder
  <2>3. CASE r # p
    BY <2>1, <2>3, ReadMessage, StayInOrder
  <2>4. QED
    BY <2>2, <2>3
<1>3. p \notin Absent /\ Absent' = Absent
  <2>1. p \notin Absent
    BY DEF Client, PromptsInv, AbsentFresh
  <2>2. QED
    BY <2>1 DEF Client, Absent
<1>4. Listening' = Listening /\ Listening \subseteq Players
  BY <1>1, <1>3 DEF Listening
<1>5. AbsentFresh'
  <2>1. \A r \in Absent : inbox'[r] = inbox[r] /\ seat'[r] = seat[r] /\ card'[r] = card[r]
    BY <1>3, ReadMessage, PlayersType DEF Absent
  <2>2. QED
    BY <1>1, <1>3, <2>1 DEF PromptsInv, AbsentFresh
<1>6. QED
  BY <1>1, <1>2, <1>4, <1>5, OtherPrompts

LEMMA DisconnectPrompts ==
  ASSUME TypeOK, PromptsInv, NEW p \in Players, p \notin Absent, Disconnect(p)
  PROVE  PromptsInv'
<1> DEFINE m == Msg("LobbyChange", NoStamp)
<1>1. /\ UNCHANGED <<events, state, turn, round, seat, card, joiner, told>>
      /\ gone' = gone \union {p} /\ inbox'[p] = <<>>
      /\ \A r \in Players : r # p /\ r \notin Listening => inbox'[r] = inbox[r]
      /\ \A r \in Players : r # p /\ r \in Listening => inbox'[r] = Append(inbox[r], m)
  BY DEF Disconnect, gameVars, clientVars
<1>2. m \in ServerEvent /\ m.name = "LobbyChange"
  BY MsgType DEF Msg, NoStamp, Stamps
<1>3. Absent' = Absent /\ Listening' = Listening \ {p} /\ Listening \subseteq Players
  BY <1>1 DEF Absent, Listening
<1> HIDE DEF m
<1>4. ASSUME NEW r \in Listening'  PROVE Ordered(r)' /\ Carries(r)
  <2>1. Ordered(r) /\ InOrder(r, Len(inbox[r]) + 1, m) /\ r \in Players
    BY <1>2, <1>3 DEF PromptsInv, InOrder
  <2>2. QED
    BY <1>1, <1>2, <1>3, <2>1, SendInOrder DEF Carries
<1>5. Ordered(p)'
  BY <1>1 DEF Ordered
<1>6. ASSUME NEW r \in Players, r # p, r \notin Listening  PROVE Ordered(r)'
  BY <1>1, <1>6, StayInOrder DEF PromptsInv
<1>7. AbsentFresh'
  <2>1. \A r \in Absent : inbox'[r] = inbox[r]
    BY <1>1, PlayersType DEF Absent, Listening
  <2>2. QED
    BY <1>1, <1>3, <2>1 DEF PromptsInv, AbsentFresh
<1>8. \A r \in Players : Ordered(r)'
  BY <1>3, <1>4, <1>5, <1>6
<1>9. QED
  BY <1>1, <1>3, <1>4, <1>7, <1>8, OtherPrompts

LEMMA LeavePrompts ==
  ASSUME TypeOK, PromptsInv, (\E p \in Players : Leave(p)) \/ GiveUp
  PROVE  PromptsInv'
<1>1. CASE \E p \in Players : Leave(p)
  BY <1>1, DisconnectPrompts DEF Leave, Listening
<1>2. CASE GiveUp
  <2>1. Newcomer \notin Absent
    BY <1>2 DEF GiveUp, PromptsInv, AbsentFresh
  <2>2. QED
    BY <1>2, <2>1, DisconnectPrompts, PlayersType DEF GiveUp
<1>3. QED
  BY <1>1, <1>2

\* Who registers in the middle of a turn has not heard of it.
LEMMA RegisterPrompts ==
  ASSUME TypeOK, PromptsInv, RegisterJoin
  PROVE  PromptsInv'
<1>1. /\ UNCHANGED <<events, state, turn, round, inbox, seat, card, gone, told>>
      /\ Absent = {Newcomer} /\ Absent' = {}
  BY DEF RegisterJoin, JoinStep, Absent, gameVars, clientVars
<1>2. /\ inbox[Newcomer] = <<>> /\ seat[Newcomer] = Newcomer /\ card[Newcomer] = NoCard
      /\ Newcomer \notin told
  BY <1>1 DEF PromptsInv, AbsentFresh
<1>3. \A p \in Players : Ordered(p)' /\ Carries(p)
  BY <1>1, StayInOrder DEF PromptsInv
<1>4. Listening' \subseteq Listening \union {Newcomer} /\ Listening \subseteq Players
  BY <1>1 DEF Listening
<1>5. Late(Newcomer, Len(inbox[Newcomer]) + 1)'
  BY <1>1, <1>2 DEF Late, NoneBefore
<1>6. \A s : AfterDraw(Newcomer, Len(inbox[Newcomer]) + 1, s)'
  BY <1>1, <1>2 DEF AfterDraw, NoneBefore
<1>7. \A p \in Listening : Informed(p) => Informed(p)'
  BY <1>1, <1>3, <1>4 DEF Informed, Carries, Stamp
<1>8. Informed(Newcomer)'
  BY <1>1, <1>2, <1>5 DEF Informed
<1>9. TurnEvents' /\ TurnAnnounced'
  BY <1>1, <1>3, <1>4, <1>6, <1>7, <1>8
  DEF PromptsInv, TurnEvents, TurnAnnounced, Queued, Carries, Stamp
<1>10. AbsentFresh'
  BY <1>1 DEF AbsentFresh
<1>11. QED
  BY <1>3, <1>9, <1>10 DEF PromptsInv

LEMMA ConnectPrompts ==
  ASSUME TypeOK, PromptsInv, Connect
  PROVE  PromptsInv'
<1>1. CASE AnnounceJoin
  <2>1. Msg("LobbyChange", NoStamp) \in ServerEvent
    BY MsgType DEF NoStamp, Stamps
  <2>2. UNCHANGED <<events, state, turn, round, seat, card, gone, told, Absent>>
    BY <1>1 DEF AnnounceJoin, JoinStep, Absent, gameVars, clientVars
  <2>3. QED
    BY <1>1, <2>1, <2>2, DeliverPrompts DEF AnnounceJoin, Broadcast, Msg
<1>2. CASE EnterJoin
  <2>1. Msg("Enter", NoStamp) \in ServerEvent
    BY MsgType DEF NoStamp, Stamps
  <2>2. UNCHANGED <<events, state, turn, round, seat, card, gone, told, Absent>>
    BY <1>2 DEF EnterJoin, JoinStep, Absent, gameVars, clientVars
  <2>3. QED
    BY <1>2, <2>1, <2>2, DeliverPrompts DEF EnterJoin, Msg
<1>3. QED
  BY <1>1, <1>2, RegisterPrompts DEF Connect

LEMMA EndGamePrompts ==
  ASSUME TypeOK, PromptsInv, EndGame
  PROVE  PromptsInv'
<1>1. Msg("GameEnd", NoStamp) \in ServerEvent
  BY MsgType DEF NoStamp, Stamps
<1>2. UNCHANGED <<events, state, turn, round, seat, card, gone, told, Absent>>
  BY DEF EndGame, Absent, gameVars, clientVars, presence
<1>3. QED
  BY <1>1, <1>2, DeliverPrompts DEF EndGame, Broadcast, Msg

LEMMA NextPrompts == LoopInv /\ PromptsInv /\ [Next]_vars => PromptsInv'
<1> SUFFICES ASSUME LoopInv, PromptsInv, [Next]_vars PROVE PromptsInv'
  OBVIOUS
<1>0. TypeOK
  BY DEF LoopInv
<1>1. CASE Poll
  BY <1>0, <1>1, PollPrompts
<1>2. CASE Receive
  BY <1>2, ReceivePrompts
<1>3. CASE AdvanceGame
  BY <1>0, <1>3, AdvancePrompts DEF LoopInv, AdvancesEmpty, AdvanceGame
<1>4. CASE EndGame
  BY <1>0, <1>4, EndGamePrompts
<1>5. CASE UNCHANGED <<state, turn, round, events, inbox, seat, card, presence>>
  <2>1. TurnEvents' /\ \A name : Queued(name)' <=> Queued(name)
    BY <1>5 DEF PromptsInv, TurnEvents, Queued
  <2>2. QED
    BY <1>5, <2>1, QuietPrompts
<1>6. CASE Timeout \/ Time \/ UNCHANGED vars
  BY <1>5, <1>6 DEF Timeout, Time, Tick, vars, gameVars, clientVars, channelVars
<1>7. CASE \E p \in Players : Client(p)
  BY <1>0, <1>7, ClientPrompts
<1>8. CASE (\E p \in Players : Leave(p)) \/ GiveUp
  BY <1>0, <1>8, LeavePrompts
<1>9. CASE Connect
  BY <1>0, <1>9, ConnectPrompts
<1>10. QED
  BY <1>1, <1>2, <1>3, <1>4, <1>6, <1>7, <1>8, <1>9 DEF Next, Server

\* A client that is about to decide holds the card of the turn it decides on.
LEMMA PromptsDecide == TypeOK /\ PromptsInv => DecidesOnDrawnCard
<1> SUFFICES ASSUME TypeOK, PromptsInv, NEW p \in Players \ gone,
                    inbox[p] # <<>>, seat[p] = p, card[p] # NoCard,
                    Head(inbox[p]).name = "WaitingForDecision"
             PROVE  card[p] = Head(inbox[p]).stamp
  BY DEF DecidesOnDrawnCard
<1>1. 1 \in 1..Len(inbox[p]) /\ Head(inbox[p]) = inbox[p][1]
  BY DEF TypeOK
<1>2. InOrder(p, 1, inbox[p][1])
  BY <1>1 DEF PromptsInv, Ordered
<1>3. \A m : ~LastBefore(inbox[p], 1, m)
  BY DEF LastBefore
<1>4. QED
  BY <1>1, <1>2, <1>3 DEF InOrder, AfterStart, OnTurn, Late, AfterDraw

\* A client with no TurnStart left to read believes that the turn is its owner's,
\* unless it has not heard of any turn.
LEMMA PromptsSeats == TypeOK /\ PromptsInv => SeatsAgree
<1> SUFFICES ASSUME TypeOK, PromptsInv, Waiting,
                    state \in {"WaitingForDecision", "WaitingForSnaps"},
                    NEW p \in Listening,
                    \A i \in DOMAIN inbox[p] : inbox[p][i].name # "TurnStart"
             PROVE  \/ seat[p] = Owner(turn)
                    \/ p \notin told /\ seat[p] = p /\ card[p] = NoCard
  BY DEF SeatsAgree
<1> DEFINE n == Len(inbox[p])
<1>1. state \in InTurn /\ ~Queued("StartTurn")
  BY DEF Waiting, Queued, InTurn
<1>2. Informed(p)
  BY <1>1 DEF PromptsInv, TurnAnnounced
<1>3. DOMAIN inbox[p] = 1..n /\ (n + 1) - 1 = n
  BY DEF TypeOK, Listening
<1>4. ~LastBefore(inbox[p], n + 1, Msg("TurnStart", Stamp(turn)))
  <2>1. Msg("TurnStart", Stamp(turn)).name = "TurnStart"
    BY DEF Msg
  <2>2. QED
    BY <1>3, <2>1 DEF LastBefore
<1>5. QED
  BY <1>2, <1>4 DEF Informed, OnTurn, Late, Stamp

-----------------------------------------------------------------------------
(* What a client sends of a turn is for it to send. *)

InRole(e) ==
  /\ e.kind = "Decision" => e.from = Owner(e.stamp[2])
  /\ e.kind = "Snap" => e.from # Owner(e.stamp[2])

RolesInv == \A i \in 1..Len(incoming) : InRole(incoming[i])

\* Sending adds an event and may push another one out.
LEMMA SendRoles ==
  ASSUME TypeOK, RolesInv, NEW p, NEW kind, NEW stamp, Send(p, kind, stamp),
         InRole([from |-> p, kind |-> kind, stamp |-> stamp])
  PROVE  RolesInv'
<1> DEFINE m == [from |-> p, kind |-> kind, stamp |-> stamp]
<1>1. PICK q \in Seq(ClientEvent) : q = incoming /\ Len(q) \in Nat
  BY DEF TypeOK
<1> HIDE DEF m
<1>2. \A i \in 1..Len(q) : InRole(q[i])
  BY <1>1 DEF RolesInv
<1>3. \/ incoming' = q \/ incoming' = Append(q, m)
      \/ incoming' = Append(Tail(q), m) /\ q # <<>>
  <2>1. Len(q) = IncomingCap => q # <<>>
    BY LoopAssumption
  <2>2. QED
    BY <1>1, <2>1 DEF Send, m
<1>4. ASSUME NEW i \in 1..Len(incoming')  PROVE InRole(incoming'[i])
  <2>1. incoming'[i] = m \/ \E j \in 1..Len(q) : incoming'[i] = q[j]
    <3>1. CASE incoming' = q
      BY <1>4, <3>1
    <3>2. CASE incoming' = Append(q, m)
      BY <1>1, <1>4, <3>2
    <3>3. CASE incoming' = Append(Tail(q), m) /\ q # <<>>
      BY <1>1, <1>4, <3>3
    <3>4. QED
      BY <1>3, <3>1, <3>2, <3>3
  <2>2. QED
    BY <1>2, <2>1 DEF m
<1>5. QED
  BY <1>4 DEF RolesInv, InRole, Owner

LEMMA ReadRoles ==
  ASSUME TypeOK, PromptsInv, RolesInv, NEW p \in Players, Client(p)
  PROVE  RolesInv'
<1> DEFINE m == inbox[p][1]
<1>1. Answer(p, m) /\ InOrder(p, 1, m)
  BY DEF Client, TypeOK, PromptsInv, Ordered
<1>2. \A x : ~LastBefore(inbox[p], 1, x)
  BY DEF LastBefore
<1>3. m.name \in {"WaitingForDecision", "WaitingForSnap"} =>
        seat[p] = Owner(m.stamp[2]) \/ (seat[p] = p /\ card[p] = NoCard)
  BY <1>1, <1>2 DEF InOrder, AfterStart, OnTurn, Late
<1> HIDE DEF m
<1>4. CASE UNCHANGED incoming
  BY <1>4 DEF RolesInv, InRole, Owner
<1>5. \/ UNCHANGED incoming
      \/ \E kind, stamp : /\ Send(p, kind, stamp)
                          /\ InRole([from |-> p, kind |-> kind, stamp |-> stamp])
  BY <1>1, <1>3 DEF Answer, Decide, Silent, InRole
<1>6. QED
  BY <1>4, <1>5, SendRoles

LEMMA NextRoles == TypeOK /\ PromptsInv /\ RolesInv /\ [Next]_vars => RolesInv'
<1> SUFFICES ASSUME TypeOK, PromptsInv, RolesInv, [Next]_vars PROVE RolesInv'
  OBVIOUS
<1>1. CASE UNCHANGED incoming
  BY <1>1 DEF RolesInv, InRole, Owner
<1>2. CASE Poll \/ AdvanceGame \/ Timeout \/ EndGame \/ Time \/ UNCHANGED vars
  BY <1>1, <1>2 DEF Poll, PollSetup, PollStartTurn, PollDrawCard, PollWait, PollWaitForNewRound,
                    PollOther, PollExit, Polled, AdvanceGame, Timeout, EndGame, Time, vars,
                    channelVars
<1>3. CASE Receive
  <2>1. incoming' = incoming \/ (incoming # <<>> /\ incoming' = Tail(incoming))
    BY <1>3 DEF Receive
  <2>2. CASE incoming # <<>> /\ incoming' = Tail(incoming)
    <3>1. PICK q \in Seq(ClientEvent) : q = incoming
      BY DEF TypeOK
    <3>2. \A i \in 1..Len(Tail(q)) : i + 1 \in 1..Len(q) /\ Tail(q)[i] = q[i + 1]
      BY <2>2, <3>1
    <3>3. QED
      BY <2>2, <3>1, <3>2 DEF RolesInv, InRole, Owner
  <2>3. QED
    BY <1>1, <2>1, <2>2
<1>4. CASE \E p \in Players : Client(p)
  BY <1>4, ReadRoles
<1>5. CASE (\E p \in Players : Leave(p)) \/ GiveUp \/ Connect
  BY <1>1, <1>5 DEF Leave, GiveUp, Disconnect, Connect, AnnounceJoin, RegisterJoin, EnterJoin,
                    JoinStep
<1>6. QED
  BY <1>2, <1>3, <1>4, <1>5 DEF Next, Server

-----------------------------------------------------------------------------
(* Each card is drawn once and decided on once. *)

Has(q, x) == \E i \in 1..Len(q) : q[i] = x
Single(q, x) == \A i, j \in 1..Len(q) : q[i] = x /\ q[j] = x => i = j

LEMMA AppendSingle ==
  ASSUME NEW S, NEW q \in Seq(S), NEW e \in S, NEW x
  PROVE  /\ Has(Append(q, e), x) <=> Has(q, x) \/ e = x
         /\ Single(q, x) /\ (e = x => ~Has(q, x)) => Single(Append(q, e), x)
<1> DEFINE q2 == Append(q, e)
<1>1. /\ Len(q2) = Len(q) + 1 /\ Len(q) \in Nat /\ q2[Len(q) + 1] = e
      /\ \A i \in 1..Len(q) : q2[i] = q[i]
  OBVIOUS
<1> HIDE DEF q2
<1>2. Has(q2, x) <=> Has(q, x) \/ e = x
  BY <1>1 DEF Has
<1>3. Single(q, x) /\ (e = x => ~Has(q, x)) => Single(q2, x)
  BY <1>1 DEF Has, Single
<1>4. QED
  BY <1>2, <1>3 DEF q2

LEMMA TailSingle ==
  ASSUME NEW S, NEW q \in Seq(S), q # <<>>, NEW x
  PROVE  /\ Has(Tail(q), x) => Has(q, x)
         /\ Single(q, x) => Single(Tail(q), x) /\ (q[1] = x => ~Has(Tail(q), x))
<1> DEFINE q2 == Tail(q)
<1>1. /\ Len(q2) = Len(q) - 1 /\ Len(q) \in Nat /\ Len(q) >= 1
      /\ \A i \in 1..Len(q2) : q2[i] = q[i + 1]
  OBVIOUS
<1> HIDE DEF q2
<1>2. Has(q2, x) => Has(q, x)
  BY <1>1 DEF Has
<1>3. Single(q, x) => Single(q2, x) /\ (q[1] = x => ~Has(q2, x))
  <2>1. ASSUME Single(q, x), NEW i \in 1..Len(q2), NEW j \in 1..Len(q2), q2[i] = x, q2[j] = x
        PROVE  i = j
    <3>1. i + 1 \in 1..Len(q) /\ j + 1 \in 1..Len(q) /\ q[i + 1] = x /\ q[j + 1] = x
      BY <1>1, <2>1
    <3>2. i + 1 = j + 1
      BY <2>1, <3>1 DEF Single
    <3>3. QED
      BY <3>2
  <2>2. ASSUME Single(q, x), q[1] = x, NEW i \in 1..Len(q2), q2[i] = x
        PROVE  FALSE
    <3>1. i + 1 \in 1..Len(q) /\ 1 \in 1..Len(q) /\ q[i + 1] = x /\ i + 1 # 1
      BY <1>1, <2>2
    <3>2. QED
      BY <2>2, <3>1 DEF Single
  <2>3. QED
    BY <2>1, <2>2 DEF Single, Has
<1>4. QED
  BY <1>2, <1>3 DEF q2

\* A turn comes after those whose card was sent.
Sent(s) ==
  \/ state # "Pregame" /\ s[1] < round
  \/ state \notin {"Pregame", "StartRound"} /\ s[1] = round /\ s[2] < turn
  \/ /\ state \notin {"Pregame", "StartRound", "StartTurn", "DrawCard"}
     /\ s = Stamp(turn) /\ ~Queued("DrawCard")

DrawOf(s) == Msg("DrawCard", s)
DecisionOf(p, s) == [from |-> p, kind |-> "Decision", stamp |-> s]

\* A card is on its way to its player, in its hand or in a decision, each
\* once, and in one of these at most; it is in none before it is sent.
CardOnce(p, s) ==
  /\ Has(inbox[p], DrawOf(s)) \/ card[p] = s \/ Has(incoming, DecisionOf(p, s)) => Sent(s)
  /\ ~(Has(inbox[p], DrawOf(s)) /\ card[p] = s)
  /\ ~(Has(inbox[p], DrawOf(s)) /\ Has(incoming, DecisionOf(p, s)))
  /\ ~(card[p] = s /\ Has(incoming, DecisionOf(p, s)))
  /\ Single(inbox[p], DrawOf(s)) /\ Single(incoming, DecisionOf(p, s))

CardsOnce == \A p \in Players : \A s \in Stamps : CardOnce(p, s)

\* What was sent stays sent, as rounds and turns only go on.
LEMMA SentStays ==
  ASSUME TypeOK, pc = "advance" => events = <<>>, TurnEvents, [Next]_vars,
         NEW s \in Stamps, Sent(s)
  PROVE  Sent(s)'
<1>0. /\ round \in Nat /\ turn \in Nat /\ s[1] \in Nat /\ s[2] \in Nat
      /\ Stamp(turn)[1] = round /\ Stamp(turn)[2] = turn
  BY GameAssumption DEF TypeOK, GameTypeOK, Stamps, Stamp
<1>1. CASE UNCHANGED <<state, round, turn>> /\ (Queued("DrawCard")' => Queued("DrawCard"))
  BY <1>1 DEF Sent, Stamp
<1>2. CASE Poll
  BY <1>1, <1>2, PollQueue
<1>3. CASE UNCHANGED <<state, round, turn, events>>
  BY <1>1, <1>3 DEF Queued
<1>4. CASE Receive
  <2>1. events' = <<>>
    BY <1>4 DEF Receive, Waiting, Handle, CountConfirmation, Unhandled, HandleDecision,
                HandleSnap, ConfirmNewRound, SkipNewRound, gameVars
  <2>2. ~Queued("DrawCard")' /\ state \in WaitStates
    BY <1>4, <2>1 DEF Queued, Receive, Waiting
  <2>3. \/ UNCHANGED <<state, round, turn>>
        \/ /\ state' \notin {"Pregame", "StartRound", "StartTurn", "DrawCard"}
           /\ UNCHANGED <<round, turn>>
        \/ state' = "StartRound" /\ round' = round + 1
    BY <1>4 DEF Receive, Handle, CountConfirmation, Unhandled, HandleDecision, HandleSnap,
                ConfirmNewRound, SkipNewRound, StartNextRound, Goto, gameVars
  <2>4. QED
    BY <1>0, <2>2, <2>3 DEF Sent, Stamp, WaitStates
<1>5. CASE AdvanceGame
  <2>1. Advance /\ events = <<>>
    BY <1>5 DEF AdvanceGame
  <2>2. /\ \A e : Emit(<<e>>) => events' = <<e>>
        /\ \A e, f : Emit(<<e, f>>) => events' = <<e, f>>
        /\ UNCHANGED events => events' = <<>>
    BY <2>1 DEF Emit
  <2>3. ASSUME ~AdvanceDrawCard PROVE ~Queued("DrawCard")'
    BY <2>1, <2>2, <2>3
    DEF Queued, Ev, Advance, AdvancePregame, AdvanceStartRound, AdvanceStartTurn,
        AdvanceWaitingForDecision, AdvancePlayDecision, AdvanceSnapped, AdvanceWaitingForSnaps,
        AdvanceEndTurn, AdvanceCambioCall, AdvanceEndRound, AdvanceFindWinner,
        AdvanceFinished, AdvanceWaitingForNewRound, KeepWaiting
  <2>4. CASE AdvancePregame \/ AdvanceStartRound
    BY <1>0, <2>4 DEF AdvancePregame, AdvanceStartRound, Goto, Sent
  <2>5. CASE AdvanceStartTurn \/ AdvanceDrawCard
    BY <1>0, <2>5 DEF AdvanceStartTurn, AdvanceDrawCard, Goto, Sent
  <2>6. CASE AdvanceEndTurn
    BY <1>0, <2>3, <2>6 DEF AdvanceEndTurn, AdvanceDrawCard, Goto, Sent, Stamp
  <2>7. CASE ~(AdvancePregame \/ AdvanceStartRound \/ AdvanceStartTurn \/ AdvanceDrawCard
                \/ AdvanceEndTurn)
    <3>1. /\ UNCHANGED <<round, turn>>
          /\ state \notin {"Pregame", "StartRound", "StartTurn", "DrawCard"}
          /\ state' \notin {"Pregame", "StartRound", "StartTurn", "DrawCard"}
      BY <2>1, <2>7
      DEF Advance, AdvanceWaitingForDecision, AdvancePlayDecision, AdvanceSnapped,
          AdvanceWaitingForSnaps, AdvanceCambioCall, AdvanceEndRound, AdvanceFindWinner,
          AdvanceFinished, AdvanceWaitingForNewRound, KeepWaiting, Goto
    <3>2. QED
      BY <2>3, <2>7, <3>1 DEF Sent, Stamp
  <2>8. QED
    BY <2>4, <2>5, <2>6, <2>7
<1>6. CASE EndGame \/ Timeout \/ Time \/ UNCHANGED vars
  BY <1>3, <1>6 DEF EndGame, Timeout, Time, Tick, vars, gameVars
<1>7. CASE GiveUp \/ Connect \/ \E p \in Players : Client(p) \/ Leave(p)
  BY <1>3, <1>7 DEF Client, Leave, GiveUp, Disconnect, Connect, AnnounceJoin, RegisterJoin,
                    EnterJoin, JoinStep, gameVars
<1>8. QED
  BY <1>2, <1>4, <1>5, <1>6, <1>7 DEF Next, Server

LEMMA InitCards == Init => CardsOnce
<1> SUFFICES ASSUME Init, NEW p \in Players, NEW s \in Stamps PROVE CardOnce(p, s)
  BY DEF CardsOnce
<1>1. /\ inbox[p] = <<>> \/ inbox[p] = <<Msg("LobbyChange", NoStamp)>>
      /\ incoming = <<>> /\ card[p] = NoCard
  BY DEF Init
<1>2. ~Has(inbox[p], DrawOf(s)) /\ Single(inbox[p], DrawOf(s))
  BY <1>1 DEF Has, Single, DrawOf, Msg
<1>3. ~Has(incoming, DecisionOf(p, s)) /\ Single(incoming, DecisionOf(p, s))
  BY <1>1 DEF Has, Single
<1>4. card[p] # s
  BY <1>1 DEF NoCard, Stamps
<1>5. QED
  BY <1>2, <1>3, <1>4 DEF CardOnce

\* Where nothing is added a card stays where it is or is lost.
LEMMA KeepCard ==
  ASSUME NEW p \in Players, NEW s \in Stamps, CardOnce(p, s), Sent(s) => Sent(s)',
         Has(inbox'[p], DrawOf(s)) => Has(inbox[p], DrawOf(s)), Single(inbox'[p], DrawOf(s)),
         card'[p] = s => card[p] = s,
         Has(incoming', DecisionOf(p, s)) => Has(incoming, DecisionOf(p, s)),
         Single(incoming', DecisionOf(p, s))
  PROVE  CardOnce(p, s)'
BY DEF CardOnce, DrawOf, DecisionOf, Msg

\* A message that is no card changes nothing about the cards in a mailbox.
LEMMA OtherMessage ==
  ASSUME TypeOK, NEW p \in Players, NEW s \in Stamps, Single(inbox[p], DrawOf(s)),
         NEW m \in ServerEvent, m.name # "DrawCard",
         inbox'[p] \in {<<>>, inbox[p], Append(inbox[p], m)}
  PROVE  /\ Has(inbox'[p], DrawOf(s)) => Has(inbox[p], DrawOf(s))
         /\ Single(inbox'[p], DrawOf(s))
<1>1. inbox[p] \in Seq(ServerEvent) /\ DrawOf(s) # m
  BY DEF TypeOK, DrawOf, Msg
<1>2. CASE inbox'[p] = <<>>
  BY <1>2 DEF Has, Single
<1>3. CASE inbox'[p] = inbox[p]
  BY <1>3
<1>4. CASE inbox'[p] = Append(inbox[p], m)
  BY <1>1, <1>4, AppendSingle
<1>5. QED
  BY <1>2, <1>3, <1>4

\* Sending adds a client event and may push another one out.
LEMMA SendSingle ==
  ASSUME TypeOK, NEW p \in Players, NEW stamp \in Stamps,
         NEW kind \in {"Decision", "Snap", "ConfirmNewRound", "SkipNewRound", "Start"},
         Send(p, kind, stamp),
         NEW x, Single(incoming, x),
         x = [from |-> p, kind |-> kind, stamp |-> stamp] => ~Has(incoming, x)
  PROVE  /\ Single(incoming', x)
         /\ Has(incoming', x) =>
              Has(incoming, x) \/ x = [from |-> p, kind |-> kind, stamp |-> stamp]
<1> DEFINE m == [from |-> p, kind |-> kind, stamp |-> stamp]
<1>1. m \in ClientEvent /\ incoming \in Seq(ClientEvent)
  BY DEF ClientEvent, TypeOK
<1> HIDE DEF m
<1>2. CASE incoming' = incoming
  BY <1>2
<1>3. CASE incoming' = Append(incoming, m)
  BY <1>1, <1>3, AppendSingle DEF m
<1>4. CASE incoming' = Append(Tail(incoming), m) /\ Len(incoming) = IncomingCap
  <2>1. incoming # <<>>
    BY <1>1, <1>4, LoopAssumption
  <2>2. /\ Tail(incoming) \in Seq(ClientEvent) /\ Single(Tail(incoming), x)
        /\ Has(Tail(incoming), x) => Has(incoming, x)
    BY <1>1, <2>1, TailSingle
  <2>3. PICK t \in Seq(ClientEvent) : t = Tail(incoming)
    BY <2>2
  <2>4. incoming' = Append(t, m) /\ Single(t, x) /\ (Has(t, x) => Has(incoming, x))
    BY <1>4, <2>2, <2>3
  <2>5. /\ Has(Append(t, m), x) <=> Has(t, x) \/ m = x
        /\ Single(t, x) /\ (m = x => ~Has(t, x)) => Single(Append(t, m), x)
    BY <1>1, AppendSingle
  <2>6. QED
    BY <2>4, <2>5 DEF m
<1>5. QED
  BY <1>2, <1>3, <1>4 DEF Send, m

LEMMA PollCards ==
  ASSUME TypeOK, PromptsInv, CardsOnce, Poll, \A s \in Stamps : Sent(s) => Sent(s)',
         NEW p \in Players, NEW s \in Stamps
  PROVE  CardOnce(p, s)'
<1>1. CardOnce(p, s) /\ Single(inbox[p], DrawOf(s)) /\ UNCHANGED <<card, incoming>>
  BY DEF CardsOnce, CardOnce, Poll, Polled, PollSetup, PollStartTurn, PollDrawCard, PollWait,
         PollWaitForNewRound, PollOther, PollExit, clientVars
<1>2. /\ Stamp(turn) \in Stamps /\ Head(events).arg \in Nat /\ Stamp(Head(events).arg) \in Stamps
      /\ NoStamp \in Stamps
  BY PolledType DEF NoStamp, Stamps, Poll, PollSetup, PollStartTurn, PollDrawCard, PollWait,
                    PollWaitForNewRound, PollOther, PollExit
<1>3. CASE ~PollDrawCard
  <2>1. \/ UNCHANGED inbox
        \/ \E name \in {"TurnStart", "WaitingForDecision", "WaitingForSnap", "ConfirmNewRound",
                        "Ignored"} :
             \E x \in Stamps : \E to : Deliver(Msg(name, x), to)
    BY <1>2, <1>3 DEF Poll, PollSetup, PollStartTurn, PollWait, PollWaitForNewRound, PollOther,
                      PollExit, Broadcast
  <2>2. \/ inbox'[p] = inbox[p]
        \/ \E m \in ServerEvent :
             m.name # "DrawCard" /\ inbox'[p] \in {inbox[p], Append(inbox[p], m)}
    <3>1. \A name \in {"TurnStart", "WaitingForDecision", "WaitingForSnap", "ConfirmNewRound",
                      "Ignored"},
             x \in Stamps : Msg(name, x) \in ServerEvent /\ Msg(name, x).name # "DrawCard"
      BY MsgType DEF Msg
    <3>2. QED
      BY <2>1, <3>1 DEF Deliver
  <2>3. /\ Has(inbox'[p], DrawOf(s)) => Has(inbox[p], DrawOf(s))
        /\ Single(inbox'[p], DrawOf(s))
    BY <1>1, <2>2, OtherMessage
  <2>4. Single(incoming', DecisionOf(p, s))
    BY <1>1 DEF CardOnce
  <2>5. QED
    BY <1>1, <2>3, <2>4, KeepCard
<1>4. CASE PollDrawCard
  <2> DEFINE d == DrawOf(Stamp(turn))
  <2>1. /\ state = "WaitingForDecision" /\ Head(events).arg = turn /\ Queued("DrawCard")
    <3>1. 1 \in 1..Len(events) /\ Head(events) = events[1] /\ Head(events).name = "DrawCard"
      BY <1>4 DEF PollDrawCard, Polled, TypeOK, GameTypeOK
    <3>2. QED
      BY <3>1 DEF PromptsInv, TurnEvents, Queued
  <2>2. inbox'[p] = inbox[p] \/ inbox'[p] = Append(inbox[p], d)
    BY <1>4, <2>1 DEF PollDrawCard, Deliver, DrawOf
  <2>3. d \in ServerEvent /\ inbox[p] \in Seq(ServerEvent)
    BY <1>2, MsgType DEF DrawOf, TypeOK
  <2>4. d = DrawOf(s) <=> s = Stamp(turn)
    BY DEF DrawOf, Msg
  <2>5. CASE s # Stamp(turn) \/ inbox'[p] = inbox[p]
    <3>1. /\ Has(inbox'[p], DrawOf(s)) => Has(inbox[p], DrawOf(s))
          /\ Single(inbox'[p], DrawOf(s))
      <4>1. CASE inbox'[p] = inbox[p]
        BY <1>1, <4>1
      <4>2. CASE inbox'[p] = Append(inbox[p], d) /\ d # DrawOf(s)
        BY <1>1, <2>3, <4>2, AppendSingle
      <4>3. QED
        BY <2>2, <2>4, <2>5, <4>1, <4>2
    <3>2. Single(incoming', DecisionOf(p, s))
      BY <1>1 DEF CardOnce
    <3>3. QED
      BY <1>1, <3>1, <3>2, KeepCard
  <2>6. CASE s = Stamp(turn) /\ inbox'[p] = Append(inbox[p], d)
    <3>1. ~Sent(s)
      BY <2>1, <2>6, <1>2 DEF Sent, Stamp, TypeOK, GameTypeOK
    <3>2. /\ ~Has(inbox[p], d) /\ card[p] # s
          /\ ~Has(incoming, DecisionOf(p, s)) /\ Single(incoming, DecisionOf(p, s))
      BY <1>1, <2>6, <3>1 DEF CardOnce
    <3>3. Sent(s)'
      <4>1. /\ ~Queued("DrawCard")' /\ UNCHANGED <<state, round, turn>>
        BY PollQueue DEF PromptsInv
      <4>2. QED
        BY <2>1, <2>6, <4>1 DEF Sent, Stamp
    <3>4. Single(inbox'[p], DrawOf(s))
      BY <1>1, <2>3, <2>6, <3>2, AppendSingle
    <3>5. QED
      BY <1>1, <3>2, <3>3, <3>4 DEF CardOnce, DecisionOf, DrawOf, Msg
  <2>7. QED
    BY <2>2, <2>5, <2>6
<1>5. QED
  BY <1>3, <1>4

LEMMA ReadCards ==
  ASSUME TypeOK, PromptsInv, CardsOnce, \A s \in Stamps : Sent(s) => Sent(s)',
         NEW p \in Players, Client(p), NEW r \in Players, NEW s \in Stamps
  PROVE  CardOnce(r, s)'
<1> DEFINE m == inbox[p][1]
           kinds == {"Decision", "Snap", "ConfirmNewRound", "SkipNewRound", "Start"}
<1>1. /\ inbox[p] # <<>> /\ inbox'[p] = Tail(inbox[p]) /\ m \in ServerEvent
      /\ m.name = "DrawCard" => card'[p] = IF seat[p] = p THEN m.stamp ELSE card[p]
      /\ m.name # "DrawCard" => card'[p] \in {card[p], NoCard}
      /\ \A o \in Players \ {p} : inbox'[o] = inbox[o] /\ card'[o] = card[o]
  BY ReadMessage
<1>2. /\ CardOnce(r, s) /\ Single(inbox[r], DrawOf(s)) /\ Single(incoming, DecisionOf(r, s))
      /\ s # NoCard /\ m.stamp \in Stamps /\ NoStamp \in Stamps
  BY <1>1 DEF CardsOnce, CardOnce, NoCard, Stamps, NoStamp, ServerEvent
<1>3. /\ Has(inbox'[r], DrawOf(s)) => Has(inbox[r], DrawOf(s))
      /\ Single(inbox'[r], DrawOf(s))
      /\ r = p /\ m = DrawOf(s) => ~Has(inbox'[r], DrawOf(s)) /\ Has(inbox[r], DrawOf(s))
  <2>1. CASE r # p
    BY <1>1, <1>2, <2>1
  <2>2. CASE r = p
    <3>1. PICK q \in Seq(ServerEvent) : q = inbox[p] /\ q # <<>> /\ 1 \in 1..Len(q)
      BY <1>1 DEF TypeOK
    <3>2. /\ Has(Tail(q), DrawOf(s)) => Has(q, DrawOf(s))
          /\ Single(q, DrawOf(s)) =>
               Single(Tail(q), DrawOf(s)) /\ (q[1] = DrawOf(s) => ~Has(Tail(q), DrawOf(s)))
      BY <3>1, TailSingle
    <3>3. m = DrawOf(s) => Has(q, DrawOf(s))
      BY <3>1 DEF Has
    <3>4. QED
      BY <1>1, <1>2, <2>2, <3>1, <3>2, <3>3
  <2>3. QED
    BY <2>1, <2>2
<1>4. m.name = "DrawCard" => m = DrawOf(m.stamp)
  BY <1>1 DEF ServerEvent, DrawOf, Msg
<1>5. Answer(p, m)
  BY <1>1 DEF Client, TypeOK
<1> HIDE DEF m
\* The decision takes the card out of the hand.
<1>6. CASE m.name = "WaitingForDecision" /\ seat[p] = p /\ card[p] # NoCard
  <2>1. card[p] = m.stamp /\ card' = [card EXCEPT ![p] = NoCard] /\ Send(p, "Decision", m.stamp)
    <3>1. DecidesOnDrawnCard /\ p \in Players \ gone /\ Head(inbox[p]) = m
      BY <1>1, PromptsDecide DEF Client, m, TypeOK
    <3>2. card[p] = m.stamp
      BY <1>1, <1>6, <3>1 DEF DecidesOnDrawnCard
    <3>3. QED
      BY <1>5, <1>6, <3>2 DEF Answer, Decide
  <2>2. card'[p] = NoCard
    BY <2>1 DEF TypeOK
  <2>3. CASE r = p /\ s = m.stamp
    <3>1. ~Has(inbox[p], DrawOf(s)) /\ ~Has(incoming, DecisionOf(p, s)) /\ Sent(s)
      BY <1>2, <2>1, <2>3 DEF CardOnce
    <3>2. Single(incoming', DecisionOf(p, s))
      BY <1>2, <2>1, <2>3, <3>1, SendSingle
    <3>3. ~Has(inbox'[p], DrawOf(s)) /\ card'[p] # s /\ Sent(s)'
      BY <1>2, <1>3, <2>2, <2>3, <3>1
    <3>4. QED
      BY <1>3, <2>3, <3>2, <3>3 DEF CardOnce, DecisionOf, DrawOf, Msg
  <2>4. CASE ~(r = p /\ s = m.stamp)
    <3>1. DecisionOf(r, s) # [from |-> p, kind |-> "Decision", stamp |-> m.stamp]
      BY <2>4 DEF DecisionOf
    <3>2. /\ Single(incoming', DecisionOf(r, s))
          /\ Has(incoming', DecisionOf(r, s)) => Has(incoming, DecisionOf(r, s))
      BY <1>2, <2>1, <3>1, SendSingle
    <3>3. card'[r] = s => card[r] = s
      BY <1>1, <1>2, <2>2
    <3>4. QED
      BY <1>2, <1>3, <3>2, <3>3, KeepCard
  <2>5. QED
    BY <2>3, <2>4
<1>7. ASSUME ~(m.name = "WaitingForDecision" /\ seat[p] = p /\ card[p] # NoCard)
      PROVE  /\ Single(incoming', DecisionOf(r, s))
             /\ Has(incoming', DecisionOf(r, s)) => Has(incoming, DecisionOf(r, s))
  <2>1. \/ incoming' = incoming
        \/ \E kind \in kinds \ {"Decision"}, x \in Stamps : Send(p, kind, x)
    BY <1>2, <1>5, <1>7 DEF Answer, Decide, Silent
  <2>2. ASSUME NEW kind \in kinds \ {"Decision"}, NEW x \in Stamps, Send(p, kind, x)
        PROVE  /\ Single(incoming', DecisionOf(r, s))
               /\ Has(incoming', DecisionOf(r, s)) => Has(incoming, DecisionOf(r, s))
    <3>1. DecisionOf(r, s) # [from |-> p, kind |-> kind, stamp |-> x]
      BY DEF DecisionOf
    <3>2. QED
      BY <1>2, <2>2, <3>1, SendSingle
  <2>3. QED
    BY <1>2, <2>1, <2>2
\* The card goes from the mailbox to the hand.
<1>8. CASE m = DrawOf(s) /\ r = p
  <2>1. Has(inbox[p], DrawOf(s)) /\ ~Has(inbox'[p], DrawOf(s)) /\ m.name = "DrawCard"
    BY <1>3, <1>8 DEF DrawOf, Msg
  <2>2. ~Has(incoming, DecisionOf(p, s)) /\ Sent(s)
    BY <1>2, <1>8, <2>1 DEF CardOnce
  <2>3. Single(incoming', DecisionOf(p, s)) /\ ~Has(incoming', DecisionOf(p, s)) /\ Sent(s)'
    BY <1>7, <1>8, <2>1, <2>2
  <2>4. QED
    BY <1>3, <1>8, <2>1, <2>3 DEF CardOnce, DecisionOf, DrawOf, Msg
<1>9. ASSUME ~(m = DrawOf(s) /\ r = p),
             ~(m.name = "WaitingForDecision" /\ seat[p] = p /\ card[p] # NoCard)
      PROVE  CardOnce(r, s)'
  <2>1. card'[r] = s => card[r] = s
    BY <1>1, <1>2, <1>4, <1>9
  <2>2. QED
    BY <1>2, <1>3, <1>7, <1>9, <2>1, KeepCard
<1>10. QED
  BY <1>6, <1>8, <1>9

LEMMA NextCards == LoopInv /\ PromptsInv /\ CardsOnce /\ [Next]_vars => CardsOnce'
<1> SUFFICES ASSUME LoopInv, PromptsInv, CardsOnce, [Next]_vars,
                    NEW p \in Players, NEW s \in Stamps
             PROVE  CardOnce(p, s)'
  BY DEF CardsOnce
<1>1. /\ TypeOK /\ (pc = "advance" => events = <<>>)
      /\ CardOnce(p, s) /\ Single(inbox[p], DrawOf(s)) /\ Single(incoming, DecisionOf(p, s))
  BY DEF LoopInv, AdvancesEmpty, CardsOnce, CardOnce
<1>2. \A x \in Stamps : Sent(x) => Sent(x)'
  BY <1>1, SentStays DEF PromptsInv
<1>3. CASE Poll
  BY <1>1, <1>2, <1>3, PollCards
<1>4. CASE Receive
  <2>1. UNCHANGED <<inbox, card>> /\ (incoming' = incoming \/ (incoming # <<>> /\ incoming' = Tail(incoming)))
    BY <1>4 DEF Receive, clientVars
  <2>2. incoming \in Seq(ClientEvent)
    BY <1>1 DEF TypeOK
  <2>3. /\ Single(incoming', DecisionOf(p, s))
        /\ Has(incoming', DecisionOf(p, s)) => Has(incoming, DecisionOf(p, s))
    <3>1. CASE incoming' = incoming
      BY <1>1, <3>1
    <3>2. CASE incoming # <<>> /\ incoming' = Tail(incoming)
      BY <1>1, <2>2, <3>2, TailSingle
    <3>3. QED
      BY <2>1, <3>1, <3>2
  <2>4. QED
    BY <1>1, <1>2, <2>1, <2>3, KeepCard
<1>5. CASE UNCHANGED <<inbox, card, incoming>>
  BY <1>1, <1>2, <1>5, KeepCard
<1>6. CASE AdvanceGame \/ Timeout \/ Time \/ UNCHANGED vars
  BY <1>5, <1>6 DEF AdvanceGame, Timeout, Time, vars, clientVars, channelVars
<1>7. ASSUME UNCHANGED <<card, incoming>>, NEW m \in ServerEvent, m.name # "DrawCard",
             inbox'[p] \in {<<>>, inbox[p], Append(inbox[p], m)}
      PROVE  CardOnce(p, s)'
  <2>1. /\ Has(inbox'[p], DrawOf(s)) => Has(inbox[p], DrawOf(s))
        /\ Single(inbox'[p], DrawOf(s))
    BY <1>1, <1>7, OtherMessage
  <2>2. Single(incoming', DecisionOf(p, s))
    BY <1>1, <1>7
  <2>3. QED
    BY <1>1, <1>2, <1>7, <2>1, <2>2, KeepCard
<1>8. CASE EndGame
  <2>1. Msg("GameEnd", NoStamp) \in ServerEvent /\ Msg("GameEnd", NoStamp).name # "DrawCard"
    BY MsgType DEF Msg, NoStamp, Stamps
  <2>2. QED
    BY <1>7, <1>8, <2>1 DEF EndGame, Broadcast, Deliver, clientVars
<1>9. CASE (\E r \in Players : Leave(r)) \/ GiveUp \/ AnnounceJoin
  <2>1. Msg("LobbyChange", NoStamp) \in ServerEvent /\ Msg("LobbyChange", NoStamp).name # "DrawCard"
    BY MsgType DEF Msg, NoStamp, Stamps
  <2>2. QED
    BY <1>7, <1>9, <2>1 DEF Leave, GiveUp, Disconnect, AnnounceJoin, JoinStep, Broadcast, Deliver,
                            clientVars
<1>10. CASE \E r \in Players : Client(r)
  BY <1>1, <1>2, <1>10, ReadCards
<1>11. CASE EnterJoin
  <2>1. Msg("Enter", NoStamp) \in ServerEvent /\ Msg("Enter", NoStamp).name # "DrawCard"
    BY MsgType DEF Msg, NoStamp, Stamps
  <2>2. QED
    BY <1>7, <1>11, <2>1 DEF EnterJoin, JoinStep, Deliver, clientVars
<1>12. CASE RegisterJoin
  BY <1>5, <1>12 DEF RegisterJoin, JoinStep, clientVars
<1>13. QED
  BY <1>3, <1>4, <1>6, <1>8, <1>9, <1>10, <1>11, <1>12 DEF Next, Server, Connect

-----------------------------------------------------------------------------

TurnInv == LoopInv /\ PromptsInv /\ CardsOnce

\* The inductive invariant of turns, prompts and cards.
THEOREM TurnInvariant == Spec => []TurnInv
<1>1. Init => TurnInv
  BY InitLoopInv, InitPrompts, InitCards DEF TurnInv
<1>2. TurnInv /\ [Next]_vars => TurnInv'
  BY NextLoopInv, NextPrompts, NextCards DEF TurnInv
<1>3. QED
  BY <1>1, <1>2, PTL DEF Spec

\* A client decides on the card of the turn it is asked about.
THEOREM DecidesOnTurnsCard == Spec => []DecidesOnDrawnCard
<1>1. TurnInv => DecidesOnDrawnCard
  BY PromptsDecide DEF TurnInv, LoopInv
<1>2. QED
  BY <1>1, TurnInvariant, PTL

\* Whoever has read what announces the turn and the loop that waits in it agree
\* on whose turn it is, but for a player that came after the turn was announced
\* and has not been told of any: it believes in itself and has no card.
THEOREM SeatsAgreed == Spec => []SeatsAgree
<1>1. TurnInv => SeatsAgree
  BY PromptsSeats DEF TurnInv, LoopInv
<1>2. QED
  BY <1>1, TurnInvariant, PTL

\* Decisions are made by the owner of the turn they are about and snaps by the
\* others.
THEOREM AnsweredInRole == Spec => []AnswersInRole
<1> DEFINE RoleInv == TurnInv /\ RolesInv
<1>1. Init => RoleInv
  <2>1. Init => RolesInv
    BY DEF Init, RolesInv
  <2>2. QED
    BY <2>1, InitLoopInv, InitPrompts, InitCards DEF TurnInv
<1>2. RoleInv /\ [Next]_vars => RoleInv'
  <2>1. TurnInv /\ [Next]_vars => TurnInv'
    BY NextLoopInv, NextPrompts, NextCards DEF TurnInv
  <2>2. QED
    BY <2>1, NextRoles DEF TurnInv, LoopInv
<1>3. RoleInv => AnswersInRole
  <2>1. TypeOK => DOMAIN incoming = 1..Len(incoming)
    BY DEF TypeOK
  <2>2. QED
    BY <2>1 DEF TurnInv, LoopInv, RolesInv, InRole, AnswersInRole
<1>4. QED
  BY <1>1, <1>2, <1>3, PTL DEF Spec

\* A turn is decided at most once.
THEOREM TurnDecidedOnce == Spec => []OneDecisionPerTurn
<1>1. TurnInv => OneDecisionPerTurn
  <2> SUFFICES ASSUME TurnInv, NEW i \in DOMAIN incoming, NEW j \in DOMAIN incoming,
                      incoming[i].kind = "Decision", incoming[j] = incoming[i]
               PROVE  i = j
    BY DEF OneDecisionPerTurn
  <2>1. incoming \in Seq(ClientEvent)
    BY DEF TurnInv, LoopInv, TypeOK
  <2>2. i \in 1..Len(incoming) /\ j \in 1..Len(incoming) /\ incoming[i] \in ClientEvent
    BY <2>1
  <2>3. PICK p \in Players, s \in Stamps : incoming[i] = DecisionOf(p, s)
    BY <2>2 DEF ClientEvent, DecisionOf
  <2>4. Single(incoming, DecisionOf(p, s))
    BY <2>3 DEF TurnInv, CardsOnce, CardOnce
  <2>5. QED
    BY <2>2, <2>3, <2>4 DEF Single
<1>2. QED
  BY <1>1, TurnInvariant, PTL

-----------------------------------------------------------------------------
(* The loop is a driver of the engine. *)

\* The loop leaves after Exit, which only a finished game emits; nothing starts
\* a finished game again.
ExitIsFinal ==
  /\ \A i \in 1..Len(events) : events[i].name = "Exit" => state = "Finished"
  /\ pc \in {"ended", "done"} => state = "Finished"

LEMMA DriverInit == Init => Driver!Init /\ ExitIsFinal
<1> SUFFICES ASSUME Init  PROVE Driver!Init /\ ExitIsFinal
  OBVIOUS
<1>1. GameInit /\ pc = "loop" /\ events = <<>>
  BY DEF Init, GameInit
<1>2. ExitIsFinal
  BY <1>1 DEF ExitIsFinal
<1>3. Driver!Init
  BY <1>1 DEF Driver!Init, Driver!GameInit, GameInit
<1>4. QED
  BY <1>2, <1>3

\* GameDriver brings its own copy of the engine's operations, the same ones.
LEMMA SameEngine ==
  /\ Advance => Driver!Advance
  /\ HandleDecision => Driver!HandleDecision
  /\ HandleSnap => Driver!HandleSnap
  /\ ConfirmNewRound(NumPlayers) => Driver!ConfirmNewRound(NumPlayers)
  /\ SkipNewRound => Driver!SkipNewRound
  /\ Tick => Driver!Tick
<1>1. Advance => Driver!Advance
  BY DEF Advance, AdvancePregame, AdvanceStartRound, AdvanceStartTurn, AdvanceDrawCard,
    AdvanceWaitingForDecision, AdvancePlayDecision, AdvanceWaitingForSnaps,
    AdvanceSnapped, AdvanceEndTurn, AdvanceCambioCall, AdvanceEndRound,
    AdvanceFindWinner, AdvanceWaitingForNewRound, AdvanceFinished, Goto, Emit, Ev,
    KeepWaiting, Expired, InTime, MaxWait, WaitStates, Driver!Advance,
    Driver!AdvancePregame, Driver!AdvanceStartRound, Driver!AdvanceStartTurn,
    Driver!AdvanceDrawCard, Driver!AdvanceWaitingForDecision,
    Driver!AdvancePlayDecision, Driver!AdvanceWaitingForSnaps, Driver!AdvanceSnapped,
    Driver!AdvanceEndTurn, Driver!AdvanceCambioCall, Driver!AdvanceEndRound,
    Driver!AdvanceFindWinner, Driver!AdvanceWaitingForNewRound,
    Driver!AdvanceFinished, Driver!Goto, Driver!Emit, Driver!Ev, Driver!KeepWaiting,
    Driver!Expired, Driver!InTime, Driver!MaxWait, Driver!WaitStates
<1>2. QED
  BY <1>1 DEF HandleDecision, HandleSnap, ConfirmNewRound, SkipNewRound, StartNextRound, Enough,
    Tick, Goto, Emit, Ev, KeepWaiting, Expired, InTime, MaxWait, WaitStates,
    Driver!HandleDecision, Driver!HandleSnap, Driver!ConfirmNewRound,
    Driver!SkipNewRound, Driver!StartNextRound, Driver!Enough, Driver!Tick,
    Driver!Goto, Driver!Emit, Driver!Ev, Driver!KeepWaiting, Driver!Expired,
    Driver!InTime, Driver!MaxWait, Driver!WaitStates

LEMMA PollDriver ==
  ASSUME LoopInv, ExitIsFinal, Poll
  PROVE  Driver!Poll /\ ExitIsFinal'
<1>1. /\ pc = "loop" /\ events # <<>> /\ events' = Tail(events)
      /\ UNCHANGED <<state, round, turn, reset_deck, confirmations, waited>>
  BY DEF Poll, Polled, PollSetup, PollStartTurn, PollDrawCard, PollWait,
         PollWaitForNewRound, PollOther, PollExit
<1>2. /\ pc' = IF Head(events).name = "Exit" THEN "ended" ELSE "loop"
      /\ deck' = IF Head(events).name = "Setup" THEN deck - NumPlayers * STARTING_DECK_LEN
                 ELSE deck
  BY <1>1 DEF Poll, Polled, PollSetup, PollStartTurn, PollDrawCard, PollWait,
              PollWaitForNewRound, PollOther, PollExit, serverVars
<1>3. Driver!Poll
  <2>1. (pc' \notin {"ended", "done"}) = (Head(events).name # "Exit")
    BY <1>2
  <2>2. QED
    BY <1>1, <1>2, <2>1 DEF Driver!Poll
<1>4. ExitIsFinal'
  <2>1. /\ events \in Seq(Event) /\ Len(events') = Len(events) - 1
        /\ \A i \in 1..Len(events') : events'[i] = events[i + 1] /\ i + 1 \in 1..Len(events)
        /\ Head(events) = events[1] /\ 1 \in 1..Len(events)
    BY <1>1 DEF LoopInv, TypeOK, GameTypeOK
  <2>2. QED
    BY <1>1, <1>2, <2>1 DEF ExitIsFinal
<1>5. QED
  BY <1>3, <1>4

LEMMA ReceiveDriver ==
  ASSUME LoopInv, ExitIsFinal, Receive
  PROVE  (Driver!Report \/ UNCHANGED Driver!vars) /\ ExitIsFinal'
<1>1. pc = "loop" /\ pc' = "advance" /\ events = <<>>
  BY DEF Receive, Waiting
<1>2. \/ HandleDecision \/ HandleSnap \/ ConfirmNewRound(NumPlayers) \/ SkipNewRound
      \/ UNCHANGED gameVars
  BY DEF Receive, Handle, CountConfirmation, Unhandled
<1>3. events' = <<>>
  BY <1>1, <1>2 DEF HandleDecision, HandleSnap, ConfirmNewRound, SkipNewRound, gameVars
<1>4. ExitIsFinal'
  BY <1>1, <1>3 DEF ExitIsFinal
<1>5. (pc \notin {"ended", "done"}) = TRUE /\ (pc' \notin {"ended", "done"}) = TRUE
  BY <1>1
<1>6. CASE UNCHANGED gameVars
  BY <1>4, <1>5, <1>6 DEF Driver!vars, Driver!gameVars, gameVars
<1>7. CASE ~UNCHANGED gameVars
  BY <1>1, <1>2, <1>4, <1>5, <1>7, SameEngine DEF Driver!Report, Driver!Idle
<1>8. QED
  BY <1>4, <1>6, <1>7

LEMMA AdvanceDriver ==
  ASSUME LoopInv, ExitIsFinal, AdvanceGame
  PROVE  Driver!Step /\ ExitIsFinal'
<1>1. pc \in {"loop", "advance"} /\ pc' = "loop" /\ events = <<>> /\ Advance
  BY DEF AdvanceGame, LoopInv, AdvancesEmpty
<1>2. (pc \notin {"ended", "done"}) = TRUE /\ (pc' \notin {"ended", "done"}) = TRUE
  BY <1>1
<1>3. Driver!Step
  BY <1>1, <1>2, SameEngine DEF Driver!Step, Driver!Idle
<1>4. \A e : Emit(<<e>>) => events' = <<e>>
  BY <1>1 DEF Emit
<1>5. \A e, f : Emit(<<e, f>>) => events' = <<e, f>>
  BY <1>1 DEF Emit
<1>6. ASSUME NEW i \in 1..Len(events'), events'[i].name = "Exit"
      PROVE  state' = "Finished"
  <2>1. CASE AdvanceFinished
    BY <2>1 DEF AdvanceFinished, Goto
  <2>2. CASE ~AdvanceFinished
    BY <1>1, <1>4, <1>5, <1>6, <2>2
    DEF Advance, AdvancePregame, AdvanceStartRound, AdvanceStartTurn, AdvanceDrawCard,
        AdvanceWaitingForDecision, AdvancePlayDecision, AdvanceSnapped,
        AdvanceWaitingForSnaps, AdvanceEndTurn, AdvanceCambioCall, AdvanceEndRound,
        AdvanceFindWinner, AdvanceWaitingForNewRound, KeepWaiting, Ev
  <2>3. QED
    BY <2>1, <2>2
<1>7. QED
  BY <1>1, <1>3, <1>6 DEF ExitIsFinal

LEMMA TimeDriver ==
  ASSUME ExitIsFinal, Time
  PROVE  Driver!Time /\ ExitIsFinal'
<1>1. Tick /\ pc' = pc /\ state \in WaitStates /\ events' = events /\ state' = state
  BY DEF Time, Tick, serverVars
<1>2. pc \notin {"ended", "done"}
  BY <1>1 DEF ExitIsFinal, WaitStates
<1>3. (pc \notin {"ended", "done"}) = TRUE /\ (pc' \notin {"ended", "done"}) = TRUE
  BY <1>1, <1>2
<1>4. QED
  BY <1>1, <1>3, SameEngine DEF Driver!Time, ExitIsFinal

\* The other steps of the loop, and all those of the clients, leave the engine
\* alone.
LEMMA QuietDriver ==
  ASSUME ExitIsFinal, UNCHANGED gameVars,
         \/ pc' = pc
         \/ pc = "ended" /\ pc' = "done"
         \/ pc = "loop" /\ pc' = "advance"
  PROVE  UNCHANGED Driver!vars /\ ExitIsFinal'
<1>1. (pc' \notin {"ended", "done"}) = (pc \notin {"ended", "done"})
  OBVIOUS
<1>2. UNCHANGED Driver!vars
  BY <1>1 DEF Driver!vars, Driver!gameVars, gameVars
<1>3. ExitIsFinal'
  BY DEF ExitIsFinal, gameVars
<1>4. QED
  BY <1>2, <1>3

LEMMA NextDriver ==
  ASSUME LoopInv, ExitIsFinal, [Next]_vars
  PROVE  [Driver!Next]_Driver!vars /\ ExitIsFinal'
<1>1. CASE Poll
  BY <1>1, PollDriver DEF Driver!Next
<1>2. CASE Receive
  BY <1>2, ReceiveDriver DEF Driver!Next
<1>3. CASE AdvanceGame
  BY <1>3, AdvanceDriver DEF Driver!Next
<1>4. CASE Time
  BY <1>4, TimeDriver DEF Driver!Next
<1>5. CASE \/ Timeout \/ EndGame \/ UNCHANGED vars \/ GiveUp \/ Connect
           \/ \E p \in Players : Client(p) \/ Leave(p)
  <2>1. /\ UNCHANGED gameVars
        /\ \/ pc' = pc
           \/ pc = "ended" /\ pc' = "done"
           \/ pc = "loop" /\ pc' = "advance"
    BY <1>5 DEF Timeout, Waiting, EndGame, vars, Client, Leave, GiveUp, Disconnect, Connect,
                AnnounceJoin, RegisterJoin, EnterJoin, JoinStep, serverVars
  <2>2. QED
    BY <2>1, QuietDriver
<1>6. QED
  BY <1>1, <1>2, <1>3, <1>4, <1>5 DEF Next, Server

\* The game loop implements GameDriver, so whatever holds of every driver of the
\* engine holds of the server's: it polls every event before it advances
\* (game.rs:21), deals each round the same, and ends with Exit (game.rs:39).
THEOREM LoopDrives == Spec => DriverSpec
<1>1. LoopInv /\ ExitIsFinal /\ [Next]_vars => [Driver!Next]_Driver!vars /\ ExitIsFinal'
  BY NextDriver
<1>2. QED
  BY <1>1, DriverInit, LoopInvariant, PTL DEF Spec, DriverSpec, Driver!Spec

\* What is proved of every driver, for the numbers of this one.
AnyDriver == INSTANCE GameProofs WITH
  Deals <- {NumPlayers * STARTING_DECK_LEN},
  Needed <- NumPlayers,
  running <- pc \notin {"ended", "done"},
  dealt <- NumPlayers * STARTING_DECK_LEN

\* GameProofs brings a copy of its own too.
LEMMA SameAdvance == Driver!Advance => AnyDriver!Advance
BY DEF Driver!Advance, Driver!AdvancePregame, Driver!AdvanceStartRound,
         Driver!AdvanceStartTurn, Driver!AdvanceDrawCard,
         Driver!AdvanceWaitingForDecision, Driver!AdvancePlayDecision,
         Driver!AdvanceWaitingForSnaps, Driver!AdvanceSnapped, Driver!AdvanceEndTurn,
         Driver!AdvanceCambioCall, Driver!AdvanceEndRound, Driver!AdvanceFindWinner,
         Driver!AdvanceWaitingForNewRound, Driver!AdvanceFinished, Driver!Goto,
         Driver!Emit, Driver!Ev, Driver!KeepWaiting, Driver!Expired, Driver!InTime,
         Driver!MaxWait, Driver!WaitStates, AnyDriver!Advance, AnyDriver!AdvancePregame,
         AnyDriver!AdvanceStartRound, AnyDriver!AdvanceStartTurn, AnyDriver!AdvanceDrawCard,
         AnyDriver!AdvanceWaitingForDecision, AnyDriver!AdvancePlayDecision,
         AnyDriver!AdvanceWaitingForSnaps, AnyDriver!AdvanceSnapped, AnyDriver!AdvanceEndTurn,
         AnyDriver!AdvanceCambioCall, AnyDriver!AdvanceEndRound, AnyDriver!AdvanceFindWinner,
         AnyDriver!AdvanceWaitingForNewRound, AnyDriver!AdvanceFinished, AnyDriver!Goto, AnyDriver!Emit,
         AnyDriver!Ev, AnyDriver!KeepWaiting, AnyDriver!Expired, AnyDriver!InTime, AnyDriver!MaxWait, AnyDriver!WaitStates

LEMMA SameReport ==
  /\ Driver!CambioCall => AnyDriver!CambioCall
  /\ Driver!HandleDecision => AnyDriver!HandleDecision
  /\ Driver!HandleSnap => AnyDriver!HandleSnap
  /\ Driver!ConfirmNewRound(NumPlayers) => AnyDriver!ConfirmNewRound(NumPlayers)
  /\ Driver!SkipNewRound => AnyDriver!SkipNewRound
  /\ Driver!Tick => AnyDriver!Tick
BY DEF Driver!CambioCall, Driver!HandleDecision, Driver!HandleSnap,
         Driver!ConfirmNewRound, Driver!SkipNewRound, Driver!StartNextRound,
         Driver!Enough, Driver!Tick, Driver!Goto, Driver!Emit, Driver!Ev,
         Driver!KeepWaiting, Driver!Expired, Driver!InTime, Driver!MaxWait,
         Driver!WaitStates, AnyDriver!CambioCall, AnyDriver!HandleDecision, AnyDriver!HandleSnap,
         AnyDriver!ConfirmNewRound, AnyDriver!SkipNewRound, AnyDriver!StartNextRound, AnyDriver!Enough,
         AnyDriver!Tick, AnyDriver!Goto, AnyDriver!Emit, AnyDriver!Ev, AnyDriver!KeepWaiting, AnyDriver!Expired,
         AnyDriver!InTime, AnyDriver!MaxWait, AnyDriver!WaitStates

\* In every round the server plays, with any number of players and whatever they
\* send, the turn number tells how many cards are left, and a round that is not
\* cut short has a turn for every card the deal left (game.rs:84, lib.rs:104).
THEOREM LoopCards == Spec => []Driver!DeckAccounting /\ Driver!RoundLength
<1>1. Driver!Init => AnyDriver!Init
  BY DEF Driver!Init, Driver!GameInit, AnyDriver!Init, AnyDriver!GameInit
<1>2. [Driver!Next]_Driver!vars => [AnyDriver!Next]_AnyDriver!vars
  <2>1. Driver!vars = AnyDriver!vars /\ Driver!vars' = AnyDriver!vars'
    BY DEF Driver!vars, Driver!gameVars, AnyDriver!vars, AnyDriver!gameVars
  <2>2. Driver!Poll => AnyDriver!Poll
    BY DEF Driver!Poll, AnyDriver!Poll
  <2>3. Driver!Idle => AnyDriver!Idle
    BY DEF Driver!Idle, AnyDriver!Idle
  <2>4. Driver!Step => AnyDriver!Step
    BY <2>3, SameAdvance DEF Driver!Step, AnyDriver!Step
  <2>5. Driver!Report => AnyDriver!Report
    BY <2>3, SameReport DEF Driver!Report, AnyDriver!Report
  <2>6. Driver!Time => AnyDriver!Time
    BY SameReport DEF Driver!Time, AnyDriver!Time
  <2>7. QED
    BY <2>1, <2>2, <2>4, <2>5, <2>6 DEF Driver!Next, AnyDriver!Next
<1>3. AnyDriver!DeckAccounting => Driver!DeckAccounting
  BY DEF Driver!DeckAccounting, Driver!DealPending, Driver!Drawn, AnyDriver!DeckAccounting,
         AnyDriver!DealPending, AnyDriver!Drawn
<1>4. Spec => AnyDriver!Spec
  BY <1>1, <1>2, LoopDrives, PTL DEF DriverSpec, Driver!Spec, AnyDriver!Spec
<1>5. AnyDriver!GameAssumption /\ AnyDriver!DriverAssumption
  BY GameAssumption, LoopAssumption DEF AnyDriver!GameAssumption, AnyDriver!DriverAssumption
<1>6. AnyDriver!Spec => []AnyDriver!DeckAccounting
  BY <1>5, AnyDriver!CardsAccounted
<1>7. AnyDriver!Spec => AnyDriver!RoundLength
  BY <1>5, AnyDriver!RoundsFullLength
<1>8. [state = "EndTurn" /\ state' = "EndRound"
        => turn - round + 1 = DeckSize - NumPlayers * STARTING_DECK_LEN]_AnyDriver!vars
      => [state = "EndTurn" /\ state' = "EndRound"
        => turn - round + 1 = DeckSize - NumPlayers * STARTING_DECK_LEN]_Driver!vars
  BY DEF Driver!vars, Driver!gameVars, AnyDriver!vars, AnyDriver!gameVars
<1>9. QED
  BY <1>3, <1>4, <1>6, <1>7, <1>8, PTL DEF AnyDriver!RoundLength, Driver!RoundLength

=============================================================================
