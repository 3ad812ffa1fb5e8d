------------------------------ MODULE LobbyProofs ------------------------------
(***************************************************************************)
(* Proofs about Lobby, for any number of connections, with or without      *)
(* clients that rejoin: types, enough players for a game, and mailboxes    *)
(* that are those of players and taken from leavers only.                  *)
(***************************************************************************)
EXTENDS Lobby, SequenceTheorems, TLAPS

-----------------------------------------------------------------------------
(* The inductive invariant. *)

Joining == {"recheck", "assign", "announce", "register"}

\* A connection is idle, then waits, then is the acceptor's, then has a task,
\* and its id is the name of its mailbox, if it has one.
ConnInv ==
  /\ IsInjective(backlog)
  /\ \A c \in Conns :
       /\ sock[c] = "idle" \/ c \in Range(backlog) => pid[c] = None /\ task[c] = "none"
       /\ sock[c] = "idle" => c \notin Range(backlog)
       /\ task[c] # "none" => pid[c] # None
       /\ task[c] \in {"leaving", "ended"} => sock[c] = "closed"
       /\ mailbox[c] # None => pid[mailbox[c]] = c
  /\ acceptor.at \in Joining \union {"handshake", "enter"} =>
       /\ acceptor.conn \in Conns
       /\ acceptor.conn \notin Range(backlog)
       /\ sock[acceptor.conn] # "idle"
  /\ acceptor.at = "handshake" =>
       pid[acceptor.conn] = None /\ task[acceptor.conn] = "none"
  /\ acceptor.at \in Joining =>
       pid[acceptor.conn] # None /\ task[acceptor.conn] = "none"
  /\ acceptor.at = "enter" => pid[acceptor.conn] # None

\* The end of a player is reported after the task ended, and the lobby hears of
\* it after the mailbox is gone.
LeavingInv ==
  \A i \in Conns :
    NeverRejoined(i) =>
      /\ i \in Range(disconnects) => task[i] = "ended"
      /\ closer = i => task[i] = "ended" /\ mailbox[i] = None
      /\ [kind |-> "Disconnect", id |-> i] \in Range(conns) =>
           task[i] = "ended" /\ mailbox[i] = None

\* Who joins as a new player is one before there is a mailbox, and stays one
\* while there is.
JoinedInv ==
  /\ \A i \in Range(players) : pid[i] = i
  /\ \A i \in Conns :
       NeverRejoined(i) =>
         /\ mailbox[i] # None => i \in Range(players)
         /\ acceptor.conn = i /\ acceptor.at \in Joining /\ pid[i] = i
              => i \in Range(players)

\* The permission to start is as good as the last count.
CountInv ==
  lobby \in {"close", "game"} \/ (lobby = "select" /\ can_start) =>
    Len(players) >= MIN_PLAYER_COUNT

LobbyInv == TypeOK /\ ConnInv /\ LeavingInv /\ JoinedInv /\ CountInv

Events == [kind : {"Connect", "Disconnect"}, id : Conns]

\* The types of what senders wait for, of the queues and of the mailboxes.
SendsOK == calls \subseteq Senders /\ undelivered \subseteq Senders \X Conns

QueuesOK ==
  /\ conns \in Seq(Events) /\ starts \in Seq(Conns)
  /\ Len(conns) <= PROCESSING_CAPACITY /\ Len(starts) <= PROCESSING_CAPACITY
  /\ lagged \subseteq Queues

MailOK ==
  /\ held \in [Conns -> 0..EVENT_CAPACITY]
  /\ first \in [Conns -> {"none", "Enter", "other"}]

-----------------------------------------------------------------------------
(* Sequences. *)

LEMMA Appended ==
  ASSUME NEW S, NEW s \in Seq(S), NEW e \in S
  PROVE  /\ Append(s, e) \in Seq(S)
         /\ Len(Append(s, e)) = Len(s) + 1
         /\ \A x : x \in Range(Append(s, e)) <=> x \in Range(s) \/ x = e
         /\ IsInjective(s) /\ e \notin Range(s) => IsInjective(Append(s, e))
<1>1. /\ Append(s, e) \in Seq(S)
      /\ Len(Append(s, e)) = Len(s) + 1
      /\ \A k \in 1..Len(s) : Append(s, e)[k] = s[k]
      /\ Append(s, e)[Len(s) + 1] = e
  BY AppendProperties
<1>2. /\ DOMAIN s = 1..Len(s)
      /\ DOMAIN Append(s, e) = 1..(Len(s) + 1)
      /\ Len(s) \in Nat
  BY <1>1, LenProperties
<1>3. QED
  BY <1>1, <1>2 DEF Range, IsInjective

LEMMA Taken ==
  ASSUME NEW S, NEW s \in Seq(S), s # <<>>
  PROVE  /\ Head(s) \in S /\ Tail(s) \in Seq(S)
         /\ Head(s) \in Range(s)
         /\ Range(Tail(s)) \subseteq Range(s)
         /\ IsInjective(s) => IsInjective(Tail(s)) /\ Head(s) \notin Range(Tail(s))
<1>1. /\ Head(s) = s[1] /\ Head(s) \in S /\ Tail(s) \in Seq(S)
      /\ Len(Tail(s)) = Len(s) - 1
      /\ \A k \in 1..(Len(s) - 1) : Tail(s)[k] = s[k + 1]
  BY HeadTailProperties
<1>2. /\ DOMAIN s = 1..Len(s) /\ Len(s) \in Nat \ {0}
      /\ DOMAIN Tail(s) = 1..(Len(s) - 1)
  BY <1>1, LenProperties, EmptySeq
<1>3. QED
  BY <1>1, <1>2 DEF Range, IsInjective

LEMMA Part ==
  ASSUME NEW S, NEW s \in Seq(S),
         NEW m \in 1..(Len(s) + 1), NEW n \in (m - 1)..Len(s)
  PROVE  /\ SubSeq(s, m, n) \in Seq(S) /\ Len(SubSeq(s, m, n)) = n - m + 1
         /\ \A k \in 1..(n - m + 1) : SubSeq(s, m, n)[k] = s[m + k - 1]
<1>1. m \in Int /\ n \in Int /\ Len(s) \in Nat
  BY LenProperties
<1>2. \A k \in m..n : s[k] \in S
  BY <1>1, ElementOfSeq
<1>3. /\ SubSeq(s, m, n) \in Seq(S)
      /\ Len(SubSeq(s, m, n)) = IF m <= n THEN n - m + 1 ELSE 0
      /\ \A k \in 1..(n - m + 1) : SubSeq(s, m, n)[k] = s[m + k - 1]
  BY <1>1, <1>2, SubSeqProperties
<1>4. QED
  BY <1>1, <1>3

LEMMA Removed ==
  ASSUME NEW S, NEW s \in Seq(S), NEW e
  PROVE  /\ remove_player(s, e) \in Seq(S)
         /\ \A x \in Range(s) : x # e => x \in Range(remove_player(s, e))
         /\ Range(remove_player(s, e)) \subseteq Range(s)
         /\ IsInjective(s) => IsInjective(remove_player(s, e))
<1>1. CASE e \notin Range(s)
  BY <1>1 DEF remove_player
<1>2. CASE e \in Range(s)
  <2>1. PICK n \in 1..Len(s) : /\ s[n] = e
                               /\ remove_player(s, e) = SubSeq(s, 1, n - 1) \o SubSeq(s, n + 1, Len(s))
    <3>1. DOMAIN s = 1..Len(s)
      BY LenProperties
    <3>2. PICK n : n = CHOOSE k \in DOMAIN s : s[k] = e
      OBVIOUS
    <3>3. \E k \in DOMAIN s : s[k] = e
      BY <1>2 DEF Range
    <3>4. n \in DOMAIN s /\ s[n] = e
      BY <3>2, <3>3
    <3>5. remove_player(s, e) = RemoveAt(s, n)
      BY <1>2, <3>2, Zenon DEF remove_player
    <3>6. QED
      BY <3>1, <3>4, <3>5 DEF RemoveAt
  <2> DEFINE a == SubSeq(s, 1, n - 1)
             b == SubSeq(s, n + 1, Len(s))
             t == remove_player(s, e)
  <2>2. /\ Len(s) \in Nat /\ n \in Int /\ 1 <= n /\ n <= Len(s)
        /\ DOMAIN s = 1..Len(s)
        /\ \A k \in 1..Len(s) : s[k] \in S
    BY LenProperties, ElementOfSeq
  <2>3. /\ a \in Seq(S) /\ Len(a) = n - 1
        /\ \A k \in 1..(n - 1) : a[k] = s[k]
    <3>1. n - 1 \in 0..Len(s)
      BY <2>2
    <3>2. PICK p : p = n - 1
      OBVIOUS
    <3>3. /\ SubSeq(s, 1, p) \in Seq(S) /\ Len(SubSeq(s, 1, p)) = p - 1 + 1
          /\ \A k \in 1..(p - 1 + 1) : SubSeq(s, 1, p)[k] = s[1 + k - 1]
      BY <2>2, <3>1, <3>2, Part
    <3>4. QED
      BY <2>2, <3>2, <3>3
  <2>4. /\ b \in Seq(S) /\ Len(b) = Len(s) - n
        /\ \A k \in 1..(Len(s) - n) : b[k] = s[n + k]
    <3>1. n + 1 \in 1..(Len(s) + 1)
      BY <2>2
    <3>2. PICK m, p : m = n + 1 /\ p = Len(s)
      OBVIOUS
    <3>3. b = SubSeq(s, m, p)
      BY <3>2, Zenon
    <3> HIDE DEF b
    <3>4. m \in 1..(Len(s) + 1) /\ p \in (m - 1)..Len(s)
      BY <2>2, <3>2
    <3>5. /\ b \in Seq(S) /\ Len(b) = p - m + 1
          /\ \A k \in 1..(p - m + 1) : b[k] = s[m + k - 1]
      BY <3>3, <3>4, Part
    <3>6. QED
      BY <2>2, <3>2, <3>5
  <2>5. /\ t \in Seq(S) /\ Len(t) = Len(s) - 1
        /\ \A k \in 1..(Len(s) - 1) : t[k] = IF k < n THEN s[k] ELSE s[k + 1]
    <3>1. t = a \o b
      BY <2>1
    <3> HIDE DEF a, b, t
    <3>2. /\ a \o b \in Seq(S)
          /\ Len(a \o b) = Len(a) + Len(b)
          /\ \A k \in 1..(Len(a) + Len(b)) :
               (a \o b)[k] = IF k <= Len(a) THEN a[k] ELSE b[k - Len(a)]
      BY <2>3, <2>4, ConcatProperties
    <3>3. QED
      BY <2>2, <2>3, <2>4, <3>1, <3>2
  <2>6. DOMAIN t = 1..(Len(s) - 1)
    BY <2>2, <2>5, LenProperties
  <2> HIDE DEF t
  <2>7. \A x \in Range(s) : x # e => x \in Range(t)
    <3>1. SUFFICES ASSUME NEW k \in 1..Len(s), s[k] # e
                   PROVE  s[k] \in Range(t)
      BY <2>2 DEF Range
    <3>2. CASE k < n
      <4>1. k \in 1..(Len(s) - 1) /\ t[k] = s[k]
        BY <2>2, <2>5, <3>2
      <4>2. QED
        BY <2>6, <4>1 DEF Range
    <3>3. CASE k > n
      <4>1. k - 1 \in 1..(Len(s) - 1) /\ t[k - 1] = s[k]
        BY <2>2, <2>5, <3>3
      <4>2. QED
        BY <2>6, <4>1 DEF Range
    <3>4. QED
      BY <2>1, <2>2, <3>1, <3>2, <3>3
  <2>8. Range(t) \subseteq Range(s)
    BY <2>2, <2>5, <2>6 DEF Range
  <2>9. IsInjective(s) => IsInjective(t)
    <3>1. SUFFICES ASSUME IsInjective(s),
                          NEW k \in 1..(Len(s) - 1), NEW l \in 1..(Len(s) - 1),
                          t[k] = t[l]
                   PROVE  k = l
      BY <2>6 DEF IsInjective
    <3> DEFINE up(j) == IF j < n THEN j ELSE j + 1
    <3>2. up(k) \in DOMAIN s /\ up(l) \in DOMAIN s /\ s[up(k)] = s[up(l)]
      BY <2>2, <2>5, <3>1
    <3>3. up(k) = up(l)
      BY <3>1, <3>2 DEF IsInjective
    <3>4. QED
      BY <2>2, <3>3
  <2>10. QED
    BY <2>5, <2>7, <2>8, <2>9 DEF t
<1>3. QED
  BY <1>1, <1>2

-----------------------------------------------------------------------------
(* What most steps leave alone. *)

LEMMA ConnUnchanged ==
  ASSUME ConnInv, UNCHANGED <<acceptVars, task, mailbox>>
  PROVE  ConnInv'
BY DEF ConnInv, acceptVars, Range, IsInjective

LEMMA LeavingUnchanged ==
  ASSUME LeavingInv, UNCHANGED <<pid, disconnects, task, closer, mailbox, conns>>
  PROVE  LeavingInv'
BY DEF LeavingInv, NeverRejoined, Range

LEMMA JoinedUnchanged ==
  ASSUME JoinedInv, UNCHANGED <<players, pid, mailbox, acceptor>>
  PROVE  JoinedInv'
BY DEF JoinedInv, NeverRejoined, Range

LEMMA CountUnchanged ==
  ASSUME CountInv, UNCHANGED <<players, lobbyVars>>
  PROVE  CountInv'
BY DEF CountInv, can_start, lobbyVars

LEMMA PlayersUnchanged ==
  ASSUME IsInjective(players), players' = players
  PROVE  IsInjective(players')
BY DEF IsInjective

LEMMA PartsOfType ==
  /\ LobbyInv => TypeOK /\ SendsOK /\ QueuesOK /\ MailOK
  /\ SendsOK /\ UNCHANGED sendVars => SendsOK'
  /\ QueuesOK /\ UNCHANGED queueVars => QueuesOK'
  /\ MailOK /\ UNCHANGED <<held, first>> => MailOK'
<1>1. LobbyInv => TypeOK /\ SendsOK /\ QueuesOK /\ MailOK
  BY DEF LobbyInv, TypeOK, SendsOK, QueuesOK, MailOK, Events
<1>2. SendsOK /\ UNCHANGED sendVars => SendsOK'
  BY DEF SendsOK, sendVars
<1>3. QueuesOK /\ UNCHANGED queueVars => QueuesOK'
  BY DEF QueuesOK, queueVars
<1>4. MailOK /\ UNCHANGED <<held, first>> => MailOK'
  BY DEF MailOK
<1>5. QED
  BY <1>1, <1>2, <1>3, <1>4

\* The type invariant, put together.
LEMMA TypeFromParts ==
  ASSUME SendsOK', QueuesOK', MailOK',
         enabled' \in BOOLEAN, players' \in Seq(Conns), IsInjective(players'),
         mailbox' \in [Conns -> NoneOr(Conns)],
         sock' \in [Conns -> {"idle", "open", "closed"}],
         backlog' \in Seq(Conns),
         acceptor' \in [at : {"accept", "handshake", "recheck", "assign", "announce",
                              "register", "enter", "dead"}, conn : NoneOr(Conns)],
         pid' \in [Conns -> NoneOr(Conns)],
         task' \in [Conns -> {"none", "running", "leaving", "ended", "panicked"}],
         disconnects' \in Seq(Conns), closer' \in NoneOr(Conns),
         lobby' \in {"enable", "subscribe", "top", "select", "full", "close", "game"},
         waits' \subseteq Queues
  PROVE  TypeOK'
BY DEF TypeOK, SendsOK, QueuesOK, MailOK, Events

LEMMA SendBegun ==
  ASSUME SendsOK, NEW s \in Senders, NEW cs \in SUBSET Conns, BeginSend(s, cs)
  PROVE  SendsOK'
BY DEF SendsOK, BeginSend

LEMMA SendEnded ==
  ASSUME SendsOK, NEW s \in Senders, EndSend(s)
  PROVE  SendsOK'
BY DEF SendsOK, EndSend

LEMMA StreamsAreConns ==
  ASSUME TypeOK
  PROVE  Streams \subseteq Conns
BY DEF TypeOK, Streams, NoneOr

\* A full queue loses its oldest event to the new one.
LEMMA Offered ==
  ASSUME NEW S, NEW s \in Seq(S), Len(s) <= PROCESSING_CAPACITY, NEW e \in S
  PROVE  /\ Offer(s, e) \in Seq(S) /\ Len(Offer(s, e)) <= PROCESSING_CAPACITY
         /\ Range(Offer(s, e)) \subseteq Range(s) \union {e}
         /\ e \in Range(Offer(s, e))
<1>1. Len(s) \in Nat /\ PROCESSING_CAPACITY \in Nat \ {0}
  BY LobbyAssumption, LenProperties
<1>2. CASE Len(s) < PROCESSING_CAPACITY
  <2>1. Offer(s, e) = Append(s, e)
    BY <1>2 DEF Offer
  <2>2. /\ Append(s, e) \in Seq(S) /\ Len(Append(s, e)) = Len(s) + 1
        /\ \A x : x \in Range(Append(s, e)) <=> x \in Range(s) \/ x = e
    BY Appended
  <2>3. QED
    BY <1>1, <1>2, <2>1, <2>2
<1>3. CASE ~(Len(s) < PROCESSING_CAPACITY)
  <2>1. Offer(s, e) = Append(Tail(s), e)
    BY <1>3 DEF Offer
  <2>2. s # <<>>
    BY <1>1, <1>3, EmptySeq
  <2>3. Tail(s) \in Seq(S) /\ Range(Tail(s)) \subseteq Range(s)
    BY <2>2, Taken
  <2>4. Len(Tail(s)) = Len(s) - 1
    BY <2>2, HeadTailProperties
  <2>5. /\ Append(Tail(s), e) \in Seq(S) /\ Len(Append(Tail(s), e)) = Len(Tail(s)) + 1
        /\ \A x : x \in Range(Append(Tail(s), e)) <=> x \in Range(Tail(s)) \/ x = e
    BY <2>3, Appended
  <2>6. QED
    BY <1>1, <1>3, <2>1, <2>3, <2>4, <2>5
<1>4. QED
  BY <1>2, <1>3

LEMMA Published ==
  ASSUME QueuesOK, NEW kind \in {"Connect", "Disconnect"}, NEW i \in Conns,
         Publish(kind, i)
  PROVE  /\ QueuesOK'
         /\ \A e \in Range(conns') : e \in Range(conns) \/ e = [kind |-> kind, id |-> i]
<1>1. conns \in Seq(Events) /\ Len(conns) <= PROCESSING_CAPACITY
  BY DEF QueuesOK
<1>2. PICK e \in Events : e = [kind |-> kind, id |-> i]
  <2>1. [kind |-> kind, id |-> i] \in Events
    BY DEF Events
  <2>2. QED
    BY <2>1, Zenon
<1>3. CASE Subscribed
  <2>1. conns' = Offer(conns, e) /\ lagged' \in {lagged, lagged \union {"conns"}}
    BY <1>2, <1>3 DEF Publish, LaggedBy
  <2>2. /\ conns' \in Seq(Events) /\ Len(conns') <= PROCESSING_CAPACITY
        /\ Range(conns') \subseteq Range(conns) \union {e}
    BY <1>1, <2>1, Offered
  <2>3. QueuesOK'
    BY <2>1, <2>2 DEF QueuesOK, Queues, Publish
  <2>4. QED
    BY <1>2, <2>2, <2>3
<1>4. CASE ~Subscribed
  <2>1. conns' = conns /\ UNCHANGED <<starts, lagged>>
    BY <1>4 DEF Publish
  <2>2. QED
    BY <2>1 DEF QueuesOK
<1>5. QED
  BY <1>3, <1>4

LEMMA InitInv == Init => LobbyInv
<1>1. SUFFICES ASSUME Init  PROVE LobbyInv
  OBVIOUS
<1>2. DOMAIN players = {} /\ DOMAIN backlog = {} /\ DOMAIN disconnects = {} /\ DOMAIN conns = {}
  BY <1>1 DEF Init
<1>3. TypeOK
  <2>1. /\ players \in Seq(Conns) /\ backlog \in Seq(Conns)
        /\ disconnects \in Seq(Conns) /\ starts \in Seq(Conns)
        /\ conns \in Seq([kind : {"Connect", "Disconnect"}, id : Conns])
        /\ Len(starts) <= PROCESSING_CAPACITY /\ Len(conns) <= PROCESSING_CAPACITY
        /\ held \in [Conns -> 0..EVENT_CAPACITY]
    BY <1>1, LobbyAssumption DEF Init
  <2>2. IsInjective(players)
    BY <1>2 DEF IsInjective
  <2>3. /\ mailbox \in [Conns -> NoneOr(Conns)] /\ pid \in [Conns -> NoneOr(Conns)]
        /\ closer \in NoneOr(Conns)
        /\ acceptor \in [at : {"accept", "handshake", "recheck", "assign", "announce",
                               "register", "enter", "dead"}, conn : NoneOr(Conns)]
    BY <1>1 DEF Init, NoneOr
  <2>4. QED
    BY <1>1, <2>1, <2>2, <2>3 DEF Init, TypeOK
<1>4. ConnInv
  BY <1>1, <1>2 DEF Init, ConnInv, IsInjective, Range, Joining
<1>5. LeavingInv
  BY <1>1, <1>2, LobbyAssumption DEF Init, LeavingInv, Range
<1>6. JoinedInv
  BY <1>1, <1>2 DEF Init, JoinedInv, Range, Joining
<1>7. CountInv
  BY <1>1 DEF Init, CountInv
<1>8. QED
  BY <1>3, <1>4, <1>5, <1>6, <1>7 DEF LobbyInv

-----------------------------------------------------------------------------
(* Clients and player tasks. *)

LEMMA ConnectInv ==
  ASSUME LobbyInv, NEW c \in Conns, Connect(c)
  PROVE  LobbyInv'
<1>1. /\ backlog' \in Seq(Conns)
      /\ \A x : x \in Range(backlog') <=> x \in Range(backlog) \/ x = c
      /\ IsInjective(backlog')
  <2>1. backlog \in Seq(Conns) /\ IsInjective(backlog) /\ c \notin Range(backlog)
    BY DEF LobbyInv, TypeOK, ConnInv, Connect
  <2>2. QED
    BY <2>1, Appended DEF Connect
<1>2. TypeOK'
  <2>1. IsInjective(players')
    BY PlayersUnchanged DEF LobbyInv, TypeOK, Connect
  <2>2. QED
    BY <1>1, <2>1 DEF LobbyInv, TypeOK, Connect, taskVars, sendVars, queueVars, lobbyVars
<1>3. ConnInv'
  <2>1. \A x \in Conns :
          /\ sock'[x] = "idle" \/ x \in Range(backlog') => pid'[x] = None /\ task'[x] = "none"
          /\ sock'[x] = "idle" => x \notin Range(backlog')
          /\ task'[x] # "none" => pid'[x] # None
          /\ task'[x] \in {"leaving", "ended"} => sock'[x] = "closed"
          /\ mailbox'[x] # None => pid'[mailbox'[x]] = x
    BY <1>1 DEF LobbyInv, TypeOK, ConnInv, Connect, taskVars
  <2>2. acceptor.at \in Joining \union {"handshake", "enter"} =>
          acceptor.conn # c /\ sock'[acceptor.conn] = sock[acceptor.conn]
    BY DEF LobbyInv, TypeOK, ConnInv, Connect
  <2>3. QED
    BY <1>1, <2>1, <2>2 DEF LobbyInv, ConnInv, Connect, taskVars
<1>4. LeavingInv' /\ JoinedInv' /\ CountInv'
  BY LeavingUnchanged, JoinedUnchanged, CountUnchanged
     DEF LobbyInv, Connect, taskVars, queueVars, lobbyVars
<1>5. QED
  BY <1>2, <1>3, <1>4 DEF LobbyInv

LEMMA DisconnectInv ==
  ASSUME LobbyInv, NEW c \in Conns, Disconnect(c)
  PROVE  LobbyInv'
<1>1. TypeOK'
  <2>1. IsInjective(players')
    BY PlayersUnchanged DEF LobbyInv, TypeOK, Disconnect
  <2>2. QED
    BY <2>1 DEF LobbyInv, TypeOK, Disconnect, taskVars, sendVars, queueVars, lobbyVars
<1>2. ConnInv'
  BY DEF LobbyInv, TypeOK, ConnInv, Disconnect, taskVars, Range, IsInjective
<1>3. LeavingInv' /\ JoinedInv' /\ CountInv'
  BY LeavingUnchanged, JoinedUnchanged, CountUnchanged
     DEF LobbyInv, Disconnect, taskVars, queueVars, lobbyVars
<1>4. QED
  BY <1>1, <1>2, <1>3 DEF LobbyInv

LEMMA RequestStartInv ==
  ASSUME LobbyInv, NEW c \in Conns, RequestStart(c)
  PROVE  LobbyInv'
<1>1. QueuesOK'
  <2>1. /\ starts \in Seq(Conns) /\ Len(starts) <= PROCESSING_CAPACITY
        /\ pid[c] \in Conns
        /\ starts' = Offer(starts, pid[c])
    BY DEF LobbyInv, TypeOK, ConnInv, NoneOr, RequestStart
  <2>2. starts' \in Seq(Conns) /\ Len(starts') <= PROCESSING_CAPACITY
    BY <2>1, Offered
  <2>3. QueuesOK
    BY PartsOfType
  <2>4. lagged' \in {lagged, lagged \union {"starts"}} /\ UNCHANGED conns
    BY DEF RequestStart, LaggedBy
  <2>5. QED
    BY <2>2, <2>3, <2>4 DEF QueuesOK, Queues
<1>2. TypeOK'
  <2>1. IsInjective(players')
    BY PlayersUnchanged DEF LobbyInv, TypeOK, RequestStart
  <2>2. QED
    BY <1>1, <2>1 DEF LobbyInv, TypeOK, RequestStart, acceptVars, taskVars, sendVars,
                      lobbyVars, QueuesOK, Events
<1>3. ConnInv' /\ LeavingInv' /\ JoinedInv' /\ CountInv'
  BY ConnUnchanged, LeavingUnchanged, JoinedUnchanged, CountUnchanged
     DEF LobbyInv, RequestStart, acceptVars, taskVars, lobbyVars
<1>4. QED
  BY <1>2, <1>3 DEF LobbyInv

LEMMA WriteInv ==
  ASSUME LobbyInv, NEW c \in Conns, Write(c)
  PROVE  LobbyInv'
<1>1. TypeOK'
  <2>1. IsInjective(players')
    BY PlayersUnchanged DEF LobbyInv, TypeOK, Write, TaskUnchanged
  <2>2. held' \in [Conns -> 0..EVENT_CAPACITY]
    BY LobbyAssumption DEF LobbyInv, TypeOK, Write
  <2>3. QED
    BY <2>1, <2>2 DEF LobbyInv, TypeOK, Write, TaskUnchanged, sendVars, queueVars, lobbyVars
<1>2. ConnInv'
  BY DEF LobbyInv, TypeOK, ConnInv, Write, TaskUnchanged, Range, IsInjective, Joining
<1>3. LeavingInv'
  BY DEF LobbyInv, TypeOK, LeavingInv, NeverRejoined, Write, TaskUnchanged, queueVars, Range
<1>4. JoinedInv' /\ CountInv'
  BY JoinedUnchanged, CountUnchanged
     DEF LobbyInv, Write, TaskUnchanged, lobbyVars
<1>5. QED
  BY <1>1, <1>2, <1>3, <1>4 DEF LobbyInv

LEMMA FinishInv ==
  ASSUME LobbyInv, NEW c \in Conns, Finish(c)
  PROVE  LobbyInv'
<1>1. TypeOK'
  <2>1. IsInjective(players')
    BY PlayersUnchanged DEF LobbyInv, TypeOK, Finish, TaskUnchanged
  <2>2. held' \in [Conns -> 0..EVENT_CAPACITY]
    BY LobbyAssumption DEF LobbyInv, TypeOK, Finish
  <2>3. QED
    BY <2>1, <2>2 DEF LobbyInv, TypeOK, Finish, TaskUnchanged, sendVars, queueVars, lobbyVars
<1>2. ConnInv'
  BY DEF LobbyInv, TypeOK, ConnInv, Finish, TaskUnchanged, Range, IsInjective, Joining
<1>3. LeavingInv'
  BY DEF LobbyInv, TypeOK, LeavingInv, NeverRejoined, Finish, TaskUnchanged, queueVars, Range
<1>4. JoinedInv' /\ CountInv'
  BY JoinedUnchanged, CountUnchanged
     DEF LobbyInv, Finish, TaskUnchanged, lobbyVars
<1>5. QED
  BY <1>1, <1>2, <1>3, <1>4 DEF LobbyInv

\* The report is about the connection that is named by the id, unless another
\* one rejoined as the same player.
LEMMA WatchInv ==
  ASSUME LobbyInv, NEW c \in Conns, Watch(c)
  PROVE  LobbyInv'
<1>1. /\ pid[c] \in Conns
      /\ disconnects' \in Seq(Conns)
      /\ \A x : x \in Range(disconnects') <=> x \in Range(disconnects) \/ x = pid[c]
  <2>1. disconnects \in Seq(Conns) /\ pid[c] \in Conns
    BY DEF LobbyInv, TypeOK, ConnInv, NoneOr, Watch
  <2>2. QED
    BY <2>1, Appended DEF Watch
<1>2. TypeOK'
  <2>1. IsInjective(players')
    BY PlayersUnchanged DEF LobbyInv, TypeOK, Watch, TaskUnchanged
  <2>2. QED
    BY <1>1, <2>1 DEF LobbyInv, TypeOK, Watch, TaskUnchanged, sendVars, queueVars, lobbyVars
<1>3. ConnInv'
  BY DEF LobbyInv, TypeOK, ConnInv, Watch, TaskUnchanged, Range, IsInjective, Joining
<1>4. LeavingInv'
  <2>1. SUFFICES ASSUME NEW i \in Conns, NeverRejoined(i)
                 PROVE  /\ i \in Range(disconnects') => task'[i] = "ended"
                        /\ closer' = i => task'[i] = "ended" /\ mailbox'[i] = None
                        /\ [kind |-> "Disconnect", id |-> i] \in Range(conns') =>
                             task'[i] = "ended" /\ mailbox'[i] = None
    BY DEF LeavingInv, NeverRejoined, Watch, TaskUnchanged
  <2>2. pid[c] = i => c = i
    BY <2>1 DEF NeverRejoined
  <2>3. task[i] = "ended" => task'[i] = "ended"
    BY DEF LobbyInv, TypeOK, Watch
  <2>4. task'[c] = "ended"
    BY DEF LobbyInv, TypeOK, Watch
  <2>5. conns' = conns /\ closer' = closer /\ mailbox' = mailbox
    BY DEF Watch, TaskUnchanged, queueVars
  <2>6. QED
    BY <1>1, <2>1, <2>2, <2>3, <2>4, <2>5 DEF LobbyInv, LeavingInv, Range
<1>5. JoinedInv' /\ CountInv'
  BY JoinedUnchanged, CountUnchanged
     DEF LobbyInv, Watch, TaskUnchanged, lobbyVars
<1>6. QED
  BY <1>2, <1>3, <1>4, <1>5 DEF LobbyInv

-----------------------------------------------------------------------------
(* Sending. *)

\* The steps that touch what is sent only.
LEMMA SendStep ==
  ASSUME LobbyInv, SendsOK', MailOK',
         UNCHANGED <<enabled, players, mailbox, acceptVars, task, disconnects, closer,
                     queueVars, lobbyVars>>
  PROVE  LobbyInv'
<1>1. TypeOK'
  <2>1. IsInjective(players')
    BY PlayersUnchanged DEF LobbyInv, TypeOK
  <2>2. QED
    BY <2>1 DEF LobbyInv, TypeOK, SendsOK, MailOK, acceptVars, queueVars, lobbyVars
<1>2. ConnInv' /\ LeavingInv' /\ JoinedInv' /\ CountInv'
  BY ConnUnchanged, LeavingUnchanged, JoinedUnchanged, CountUnchanged
     DEF LobbyInv, acceptVars, queueVars
<1>3. QED
  BY <1>1, <1>2 DEF LobbyInv

LEMMA DeliverInv ==
  ASSUME LobbyInv, NEW s \in Senders, NEW c \in Conns, Deliver(s, c)
  PROVE  LobbyInv'
<1>1. SendsOK'
  BY PartsOfType DEF SendsOK, Deliver
<1>2. MailOK'
  <2>1. MailOK /\ EventOf(s) \in {"Enter", "other"}
    BY PartsOfType DEF EventOf
  <2>2. held' \in [Conns -> 0..EVENT_CAPACITY]
    BY <2>1, LobbyAssumption DEF MailOK, Deliver
  <2>3. first' \in [Conns -> {"none", "Enter", "other"}]
    BY <2>1 DEF MailOK, Deliver
  <2>4. QED
    BY <2>2, <2>3 DEF MailOK
<1>3. QED
  BY <1>1, <1>2, SendStep DEF Deliver

-----------------------------------------------------------------------------
(* The acceptor. *)

LEMMA AcceptInv == LobbyInv /\ Accept => LobbyInv'
<1>1. SUFFICES ASSUME LobbyInv, Accept  PROVE LobbyInv'
  OBVIOUS
<1>2. PICK c : c = Head(backlog)
  OBVIOUS
<1>3. /\ c \in Conns /\ c \in Range(backlog)
      /\ backlog' \in Seq(Conns) /\ IsInjective(backlog')
      /\ c \notin Range(backlog') \/ acceptor' = [at |-> "dead", conn |-> None]
      /\ \A x \in Range(backlog') : x \in Range(backlog)
  <2>1. backlog \in Seq(Conns) /\ backlog # <<>> /\ IsInjective(backlog)
    BY <1>1 DEF LobbyInv, TypeOK, ConnInv, Accept
  <2>2. CASE backlog' = Tail(backlog)
    BY <1>2, <2>1, <2>2, Taken
  <2>3. CASE backlog' = backlog /\ acceptor' = [at |-> "dead", conn |-> None]
    <3>1. c \in Conns /\ c \in Range(backlog)
      BY <1>2, <2>1, Taken
    <3>2. QED
      BY <2>1, <2>3, <3>1 DEF Range, IsInjective
  <2>4. QED
    BY <1>1, <2>2, <2>3 DEF Accept
<1>4. /\ sock' \in [Conns -> {"idle", "open", "closed"}]
      /\ \A x \in Conns : sock'[x] = "idle" <=> sock[x] = "idle"
      /\ \A x \in Conns : sock[x] = "closed" => sock'[x] = "closed"
      /\ acceptor' \in {acceptor, [at |-> "handshake", conn |-> c],
                        [at |-> "dead", conn |-> None]}
  <2>1. sock[c] # "idle"
    BY <1>1, <1>3 DEF LobbyInv, ConnInv
  <2>2. \/ sock' = sock /\ acceptor' = [at |-> "handshake", conn |-> c]
        \/ sock' = [sock EXCEPT ![c] = "closed"] /\ acceptor' = acceptor
        \/ sock' = sock /\ acceptor' = [at |-> "dead", conn |-> None]
    BY <1>1, <1>2 DEF Accept
  <2>3. QED
    BY <1>1, <1>3, <2>1, <2>2 DEF LobbyInv, TypeOK
<1>5. TypeOK'
  <2>1. IsInjective(players')
    BY <1>1, PlayersUnchanged DEF LobbyInv, TypeOK, Accept
  <2>2. acceptor' \in [at : {"accept", "handshake", "recheck", "assign", "announce",
                             "register", "enter", "dead"}, conn : NoneOr(Conns)]
    BY <1>1, <1>3, <1>4 DEF LobbyInv, TypeOK, NoneOr
  <2>3. QED
    BY <1>1, <1>3, <1>4, <2>1, <2>2
       DEF LobbyInv, TypeOK, Accept, AcceptorUnchanged, taskVars, sendVars, queueVars, lobbyVars
<1>6. ConnInv'
  <2>1. pid' = pid /\ task' = task /\ mailbox' = mailbox /\ acceptor.at = "accept"
    BY <1>1 DEF Accept, taskVars
  <2>2. \A x \in Conns :
          /\ sock'[x] = "idle" \/ x \in Range(backlog') => pid'[x] = None /\ task'[x] = "none"
          /\ sock'[x] = "idle" => x \notin Range(backlog')
          /\ task'[x] # "none" => pid'[x] # None
          /\ task'[x] \in {"leaving", "ended"} => sock'[x] = "closed"
          /\ mailbox'[x] # None => pid'[mailbox'[x]] = x
    BY <1>1, <1>3, <1>4, <2>1 DEF LobbyInv, ConnInv
  <2>3. acceptor'.at \notin Joining \union {"enter"}
    BY <1>4, <2>1 DEF Joining
  <2>4. acceptor'.at = "handshake" =>
          /\ acceptor'.conn = c
          /\ c \notin Range(backlog')
          /\ sock'[c] # "idle" /\ pid'[c] = None /\ task'[c] = "none"
    BY <1>1, <1>3, <1>4, <2>1 DEF LobbyInv, ConnInv
  <2>5. QED
    BY <1>3, <2>2, <2>3, <2>4 DEF ConnInv, Joining
<1>7. LeavingInv'
  BY <1>1, LeavingUnchanged DEF LobbyInv, Accept, AcceptorUnchanged, taskVars, queueVars
<1>8. JoinedInv'
  <2>1. acceptor'.at \notin Joining
    BY <1>1, <1>4 DEF Joining, Accept
  <2>2. QED
    BY <1>1, <2>1 DEF LobbyInv, JoinedInv, NeverRejoined, Accept, Range
<1>9. CountInv'
  BY <1>1, CountUnchanged DEF LobbyInv, Accept, AcceptorUnchanged
<1>10. QED
  BY <1>5, <1>6, <1>7, <1>8, <1>9 DEF LobbyInv

\* A connection that is given an id is given the one of its own, as a new player,
\* or that of a player who then has rejoined.
LEMMA HandshakeInv == LobbyInv /\ Handshake => LobbyInv'
<1>1. SUFFICES ASSUME LobbyInv, Handshake  PROVE LobbyInv'
  OBVIOUS
<1>2. PICK c : c = acceptor.conn
  OBVIOUS
<1>3. /\ c \in Conns /\ c \notin Range(backlog) /\ sock[c] # "idle"
      /\ pid[c] = None /\ task[c] = "none" /\ acceptor.at = "handshake"
  BY <1>1, <1>2 DEF LobbyInv, ConnInv, Handshake
<1>4. /\ UNCHANGED <<mailbox, sock, backlog, taskVars, sendVars, queueVars>>
      /\ UNCHANGED <<enabled, disconnects, closer, lobbyVars>>
  BY <1>1 DEF Handshake, AcceptorUnchanged
<1>5. CASE CreateNew(c)
  <2>1. c \notin Range(players)
    <3>1. c \in Range(players) => pid[c] = c
      BY <1>1 DEF LobbyInv, JoinedInv
    <3>2. QED
      BY <1>3, <3>1, LobbyAssumption
  <2>2. /\ players' \in Seq(Conns) /\ IsInjective(players')
        /\ Len(players') = Len(players) + 1
        /\ \A x : x \in Range(players') <=> x \in Range(players) \/ x = c
    <3>1. players \in Seq(Conns) /\ IsInjective(players)
      BY <1>1 DEF LobbyInv, TypeOK
    <3>2. QED
      BY <1>3, <1>5, <2>1, <3>1, Appended DEF CreateNew
  <2>3. pid' = [pid EXCEPT ![c] = c] /\ acceptor' = [at |-> "assign", conn |-> c]
    BY <1>2, <1>5 DEF CreateNew, AcceptNext
  <2>4. TypeOK'
    BY <1>1, <1>3, <1>4, <2>2, <2>3
       DEF LobbyInv, TypeOK, NoneOr, taskVars, sendVars, queueVars, lobbyVars
  <2>5. ConnInv'
    <3>1. \A x \in Conns :
            /\ sock'[x] = "idle" \/ x \in Range(backlog') => pid'[x] = None /\ task'[x] = "none"
            /\ sock'[x] = "idle" => x \notin Range(backlog')
            /\ task'[x] # "none" => pid'[x] # None
            /\ task'[x] \in {"leaving", "ended"} => sock'[x] = "closed"
            /\ mailbox'[x] # None => pid'[mailbox'[x]] = x
      BY <1>1, <1>3, <1>4, <2>3, LobbyAssumption
         DEF LobbyInv, TypeOK, NoneOr, ConnInv, taskVars, Range
    <3>2. IsInjective(backlog')
      BY <1>1, <1>4 DEF LobbyInv, ConnInv, IsInjective
    <3>3. pid'[c] # None /\ task'[c] = "none" /\ sock'[c] # "idle" /\ c \notin Range(backlog')
      BY <1>1, <1>3, <1>4, <2>3, LobbyAssumption DEF LobbyInv, TypeOK, taskVars, Range
    <3>4. QED
      BY <1>3, <2>3, <3>1, <3>2, <3>3 DEF ConnInv
  <2>6. LeavingInv'
    <3>1. \A i \in Conns : NeverRejoined(i)' => NeverRejoined(i)
      BY <1>1, <1>3, <2>3, LobbyAssumption DEF LobbyInv, TypeOK, NeverRejoined
    <3>2. QED
      BY <1>1, <1>4, <3>1 DEF LobbyInv, LeavingInv, taskVars, queueVars, Range
  <2>7. JoinedInv'
    <3>1. \A i \in Conns : NeverRejoined(i)' => NeverRejoined(i)
      BY <1>1, <1>3, <2>3, LobbyAssumption DEF LobbyInv, TypeOK, NeverRejoined
    <3>2. \A i \in Range(players') : pid'[i] = i
      <4>1. Range(players) \subseteq Conns
        BY <1>1, RangeOfSeq DEF LobbyInv, TypeOK
      <4>2. QED
        BY <1>1, <1>3, <2>2, <2>3, <4>1 DEF LobbyInv, TypeOK, JoinedInv
    <3>3. QED
      BY <1>1, <1>4, <2>2, <2>3, <3>1, <3>2 DEF LobbyInv, JoinedInv
  <2>8. CountInv'
    <3>1. Len(players) \in Nat
      BY <1>1, LenProperties DEF LobbyInv, TypeOK
    <3>2. QED
      BY <1>1, <1>4, <2>2, <3>1, LobbyAssumption DEF LobbyInv, CountInv, can_start, lobbyVars
  <2>9. QED
    BY <2>4, <2>5, <2>6, <2>7, <2>8 DEF LobbyInv
<1>6. CASE \E i \in Conns \ {c} :
             /\ pid[i] = i
             /\ pid' = [pid EXCEPT ![c] = i]
             /\ acceptor' = [at |-> "recheck", conn |-> c]
             /\ UNCHANGED players
  <2>1. PICK i \in Conns \ {c} :
          /\ pid[i] = i
          /\ pid' = [pid EXCEPT ![c] = i]
          /\ acceptor' = [at |-> "recheck", conn |-> c]
          /\ UNCHANGED players
    BY <1>6
  <2>2. TypeOK'
    <3>1. IsInjective(players')
      BY <1>1, <2>1, PlayersUnchanged DEF LobbyInv, TypeOK
    <3>2. QED
      BY <1>1, <1>3, <1>4, <2>1, <3>1 DEF LobbyInv, TypeOK, NoneOr, taskVars, sendVars, queueVars, lobbyVars
  <2>3. ConnInv'
    <3>1. \A x \in Conns :
            /\ sock'[x] = "idle" \/ x \in Range(backlog') => pid'[x] = None /\ task'[x] = "none"
            /\ sock'[x] = "idle" => x \notin Range(backlog')
            /\ task'[x] # "none" => pid'[x] # None
            /\ task'[x] \in {"leaving", "ended"} => sock'[x] = "closed"
            /\ mailbox'[x] # None => pid'[mailbox'[x]] = x
      BY <1>1, <1>3, <1>4, <2>1, LobbyAssumption
         DEF LobbyInv, TypeOK, NoneOr, ConnInv, taskVars, Range
    <3>2. IsInjective(backlog')
      BY <1>1, <1>4 DEF LobbyInv, ConnInv, IsInjective
    <3>3. pid'[c] # None /\ task'[c] = "none" /\ sock'[c] # "idle" /\ c \notin Range(backlog')
      BY <1>1, <1>3, <1>4, <2>1, LobbyAssumption DEF LobbyInv, TypeOK, taskVars, Range
    <3>4. QED
      BY <1>3, <2>1, <3>1, <3>2, <3>3 DEF ConnInv
  <2>4. \A j \in Conns : NeverRejoined(j)' => NeverRejoined(j) /\ j # i
    BY <1>1, <1>3, <2>1, LobbyAssumption DEF LobbyInv, TypeOK, NeverRejoined
  <2>5. LeavingInv'
    BY <1>1, <1>4, <2>4 DEF LobbyInv, LeavingInv, taskVars, queueVars, Range
  <2>6. JoinedInv'
    <3>1. \A j \in Range(players') : pid'[j] = j
      <4>1. c \notin Range(players) /\ Range(players') = Range(players)
        BY <1>1, <1>3, <2>1, LobbyAssumption DEF LobbyInv, JoinedInv, Range
      <4>2. Range(players) \subseteq Conns
        BY <1>1, RangeOfSeq DEF LobbyInv, TypeOK
      <4>3. QED
        BY <1>1, <1>3, <2>1, <4>1, <4>2 DEF LobbyInv, TypeOK, JoinedInv
    <3>2. pid'[c] # c
      BY <1>1, <1>3, <2>1 DEF LobbyInv, TypeOK
    <3>3. QED
      BY <1>1, <1>4, <2>1, <2>4, <3>1, <3>2 DEF LobbyInv, JoinedInv, Range
  <2>7. CountInv'
    BY <1>1, <1>4, <2>1, CountUnchanged DEF LobbyInv
  <2>8. QED
    BY <2>2, <2>3, <2>5, <2>6, <2>7 DEF LobbyInv
<1>7. CASE acceptor' = Idle /\ UNCHANGED <<players, pid>>
  <2>1. TypeOK'
    <3>1. IsInjective(players')
      BY <1>1, <1>7, PlayersUnchanged DEF LobbyInv, TypeOK
    <3>2. QED
      BY <1>1, <1>4, <1>7, <3>1 DEF LobbyInv, TypeOK, Idle, NoneOr, taskVars, sendVars, queueVars, lobbyVars
  <2>2. ConnInv'
    BY <1>1, <1>4, <1>7
       DEF LobbyInv, ConnInv, Idle, Joining, taskVars, Range, IsInjective
  <2>3. LeavingInv' /\ CountInv'
    BY <1>1, <1>4, <1>7, LeavingUnchanged, CountUnchanged DEF LobbyInv, taskVars, queueVars
  <2>4. JoinedInv'
    BY <1>1, <1>4, <1>7
       DEF LobbyInv, JoinedInv, NeverRejoined, Idle, Joining, Range
  <2>5. QED
    BY <2>1, <2>2, <2>3, <2>4 DEF LobbyInv
<1>8. QED
  BY <1>1, <1>2, <1>5, <1>6, <1>7 DEF Handshake, AcceptNext

\* The steps that move the acceptor on.
LEMMA Moved ==
  ASSUME LobbyInv, AcceptorUnchanged, SendsOK', QueuesOK',
         UNCHANGED <<players, mailbox, sock, backlog, pid, taskVars>>,
         \A e \in Range(conns') : e \in Range(conns) \/ e.kind = "Connect",
         \/ acceptor' = Idle
         \/ /\ acceptor.at \in Joining
            /\ \E at \in {"assign", "announce", "register", "dead"} : acceptor' = AcceptNext(at)
  PROVE  LobbyInv'
<1>1. TypeOK'
  <2>1. IsInjective(players')
    BY PlayersUnchanged DEF LobbyInv, TypeOK
  <2>2. acceptor' \in [at : {"accept", "handshake", "recheck", "assign", "announce",
                             "register", "enter", "dead"}, conn : NoneOr(Conns)]
    BY DEF LobbyInv, TypeOK, Idle, AcceptNext, NoneOr
  <2>3. QED
    BY <2>1, <2>2 DEF LobbyInv, TypeOK, AcceptorUnchanged, SendsOK, QueuesOK, Events,
                      taskVars, lobbyVars
<1>2. ConnInv'
  BY DEF LobbyInv, ConnInv, Idle, AcceptNext, Joining, Range, IsInjective, taskVars
<1>3. LeavingInv'
  <2>1. \A i \in Conns :
          [kind |-> "Disconnect", id |-> i] \in Range(conns') =>
          [kind |-> "Disconnect", id |-> i] \in Range(conns)
    OBVIOUS
  <2>2. /\ \A i : NeverRejoined(i)' <=> NeverRejoined(i)
        /\ \A i : i \in Range(disconnects') <=> i \in Range(disconnects)
    BY DEF NeverRejoined, AcceptorUnchanged, Range
  <2>3. QED
    BY <2>1, <2>2 DEF LobbyInv, LeavingInv, AcceptorUnchanged, taskVars
<1>4. JoinedInv'
  BY DEF LobbyInv, JoinedInv, NeverRejoined, Idle, AcceptNext, Joining, Range
<1>5. CountInv'
  BY CountUnchanged DEF LobbyInv, AcceptorUnchanged
<1>6. QED
  BY <1>1, <1>2, <1>3, <1>4, <1>5 DEF LobbyInv

\* Those of them that publish nothing.
LEMMA QuietlyMoved ==
  ASSUME LobbyInv, AcceptorUnchanged, SendsOK',
         UNCHANGED <<players, mailbox, sock, backlog, pid, taskVars, queueVars>>,
         \/ acceptor' = Idle
         \/ /\ acceptor.at \in Joining
            /\ \E at \in {"assign", "announce", "register", "dead"} : acceptor' = AcceptNext(at)
  PROVE  LobbyInv'
<1>1. QueuesOK'
  BY PartsOfType
<1>2. \A e \in Range(conns') : e \in Range(conns)
  BY DEF queueVars, Range
<1>3. QED
  BY <1>1, <1>2, Moved

LEMMA RecheckInv == LobbyInv /\ Recheck => LobbyInv'
<1>1. SUFFICES ASSUME LobbyInv, Recheck  PROVE LobbyInv'
  OBVIOUS
<1>2. acceptor' = AcceptNext("assign") \/ acceptor' = AcceptNext("dead")
  BY <1>1 DEF Recheck
<1>3. SendsOK'
  BY <1>1, PartsOfType DEF Recheck
<1>4. QED
  BY <1>1, <1>2, <1>3, QuietlyMoved DEF Recheck, Joining

LEMMA AssignIdInv == LobbyInv /\ AssignId => LobbyInv'
<1>1. SUFFICES ASSUME LobbyInv, AssignId  PROVE LobbyInv'
  OBVIOUS
<1>2. SendsOK'
  BY <1>1, PartsOfType DEF AssignId
<1>3. QED
  BY <1>1, <1>2, QuietlyMoved DEF AssignId, Joining

LEMMA AnnounceInv == LobbyInv /\ Announce => LobbyInv'
<1>1. SUFFICES ASSUME LobbyInv, Announce  PROVE LobbyInv'
  OBVIOUS
<1>2. SendsOK'
  BY <1>1, PartsOfType, SendBegun, StreamsAreConns DEF Announce, Senders
<1>3. MailOK'
  BY <1>1, PartsOfType DEF Announce, taskVars
<1>4. QED
  BY <1>1, <1>2, <1>3, SendStep DEF Announce, AcceptorUnchanged, taskVars

LEMMA AnnouncedInv == LobbyInv /\ Announced => LobbyInv'
<1>1. SUFFICES ASSUME LobbyInv, Announced  PROVE LobbyInv'
  OBVIOUS
<1>2. pid[acceptor.conn] \in Conns
  BY <1>1 DEF LobbyInv, TypeOK, ConnInv, Joining, NoneOr, Announced
<1>3. /\ QueuesOK'
      /\ \A e \in Range(conns') : e \in Range(conns) \/ e.kind = "Connect"
  <2>1. PICK i \in Conns : i = pid[acceptor.conn]
    BY <1>2
  <2>2. Publish("Connect", i)
    BY <1>1, <2>1 DEF Announced
  <2>3. QueuesOK'
    BY <1>1, <2>2, PartsOfType, Published
  <2>4. \A e \in Range(conns') : e \in Range(conns) \/ e = [kind |-> "Connect", id |-> i]
    BY <1>1, <2>2, PartsOfType, Published
  <2>5. QED
    BY <2>3, <2>4
<1>4. SendsOK'
  BY <1>1, PartsOfType, SendEnded DEF Announced, Senders
<1>5. QED
  BY <1>1, <1>3, <1>4, Moved DEF Announced, Joining

LEMMA EnterInv == LobbyInv /\ Enter => LobbyInv'
<1>1. SUFFICES ASSUME LobbyInv, Enter  PROVE LobbyInv'
  OBVIOUS
<1>2. {mailbox[pid[acceptor.conn]]} \ {None} \in SUBSET Conns
  <2>1. acceptor.at = "enter" /\ acceptor.conn \in Conns /\ pid[acceptor.conn] \in Conns
    BY <1>1 DEF LobbyInv, TypeOK, ConnInv, NoneOr, Enter
  <2>2. QED
    BY <1>1, <2>1 DEF LobbyInv, TypeOK, NoneOr
<1>3. SendsOK'
  BY <1>1, <1>2, PartsOfType, SendBegun DEF Enter, Senders
<1>4. MailOK'
  BY <1>1, PartsOfType DEF Enter, taskVars
<1>5. QED
  BY <1>1, <1>3, <1>4, SendStep DEF Enter, AcceptorUnchanged, taskVars

LEMMA EnteredInv == LobbyInv /\ Entered => LobbyInv'
<1>1. SUFFICES ASSUME LobbyInv, Entered  PROVE LobbyInv'
  OBVIOUS
<1>2. SendsOK'
  BY <1>1, PartsOfType, SendEnded DEF Entered, Senders
<1>3. QED
  BY <1>1, <1>2, QuietlyMoved DEF Entered

LEMMA RegisterInv == LobbyInv /\ Register => LobbyInv'
<1>1. SUFFICES ASSUME LobbyInv, Register  PROVE LobbyInv'
  OBVIOUS
<1>2. PICK c, i : c = acceptor.conn /\ i = pid[c]
  OBVIOUS
<1>3. /\ c \in Conns /\ i \in Conns /\ task[c] = "none" /\ sock[c] # "idle"
      /\ c \notin Range(backlog)
  BY <1>1, <1>2 DEF LobbyInv, TypeOK, ConnInv, Joining, NoneOr, Register
<1>4. /\ acceptor.at = "register" /\ acceptor' = [at |-> "enter", conn |-> c]
      /\ mailbox' = [mailbox EXCEPT ![i] = c]
      /\ task' = [task EXCEPT ![c] = "running"]
      /\ UNCHANGED <<players, sock, backlog, pid, held, first, sendVars, queueVars>>
      /\ UNCHANGED <<enabled, disconnects, closer, lobbyVars>>
  BY <1>1, <1>2 DEF Register, AcceptNext, AcceptorUnchanged
<1>5. TypeOK'
  <2>1. IsInjective(players')
    BY <1>1, <1>4, PlayersUnchanged DEF LobbyInv, TypeOK
  <2>2. QED
    BY <1>1, <1>3, <1>4, <2>1 DEF LobbyInv, TypeOK, NoneOr, sendVars, queueVars, lobbyVars
<1>6. ConnInv'
  <2>1. \A x \in Conns :
          /\ sock'[x] = "idle" \/ x \in Range(backlog') => pid'[x] = None /\ task'[x] = "none"
          /\ sock'[x] = "idle" => x \notin Range(backlog')
          /\ task'[x] # "none" => pid'[x] # None
          /\ task'[x] \in {"leaving", "ended"} => sock'[x] = "closed"
          /\ mailbox'[x] # None => pid'[mailbox'[x]] = x
    BY <1>1, <1>2, <1>3, <1>4, LobbyAssumption DEF LobbyInv, TypeOK, ConnInv, Range
  <2>2. IsInjective(backlog')
    BY <1>1, <1>4 DEF LobbyInv, ConnInv, IsInjective
  <2>3. pid'[c] # None /\ c \notin Range(backlog') /\ sock'[c] # "idle"
    BY <1>2, <1>3, <1>4, LobbyAssumption DEF Range
  <2>4. QED
    BY <1>3, <1>4, <2>1, <2>2, <2>3 DEF ConnInv, Joining
<1>7. \A j \in Conns : NeverRejoined(j)' => NeverRejoined(j) /\ (j = i => j = c)
  BY <1>1, <1>2, <1>3, <1>4 DEF NeverRejoined
<1>8. LeavingInv'
  <2>1. SUFFICES ASSUME NEW j \in Conns, NeverRejoined(j), j = i => j = c
                 PROVE  /\ j \in Range(disconnects) => task'[j] = "ended"
                        /\ closer = j => task'[j] = "ended" /\ mailbox'[j] = None
                        /\ [kind |-> "Disconnect", id |-> j] \in Range(conns) =>
                             task'[j] = "ended" /\ mailbox'[j] = None
    BY <1>4, <1>7 DEF LeavingInv, queueVars, Range
  <2>2. CASE j = c
    BY <1>1, <1>3, <2>1, <2>2 DEF LobbyInv, LeavingInv
  <2>3. CASE j # c
    <3>1. task'[j] = task[j] /\ mailbox'[j] = mailbox[j]
      BY <1>1, <1>3, <1>4, <2>1, <2>3 DEF LobbyInv, TypeOK
    <3>2. QED
      BY <1>1, <2>1, <3>1 DEF LobbyInv, LeavingInv
  <2>4. QED
    BY <2>2, <2>3
<1>9. JoinedInv'
  <2>1. \A j \in Conns : NeverRejoined(j)' /\ mailbox'[j] # None => j \in Range(players')
    <3>1. SUFFICES ASSUME NEW j \in Conns, NeverRejoined(j), j = i => j = c,
                          mailbox'[j] # None
                   PROVE  j \in Range(players)
      BY <1>4, <1>7 DEF Range
    <3>2. CASE j = i
      BY <1>1, <1>2, <1>4, <3>1, <3>2 DEF LobbyInv, JoinedInv, Joining
    <3>3. CASE j # i
      BY <1>1, <1>3, <1>4, <3>1, <3>3 DEF LobbyInv, TypeOK, JoinedInv
    <3>4. QED
      BY <3>2, <3>3
  <2>2. \A j \in Range(players') : pid'[j] = j
    BY <1>1, <1>4 DEF LobbyInv, JoinedInv, Range
  <2>3. QED
    BY <1>4, <2>1, <2>2 DEF JoinedInv, Joining
<1>10. CountInv'
  BY <1>1, <1>4, CountUnchanged DEF LobbyInv
<1>11. QED
  BY <1>5, <1>6, <1>8, <1>9, <1>10 DEF LobbyInv

-----------------------------------------------------------------------------
(* The closer. *)

LEMMA RemoveMailboxInv == LobbyInv /\ RemoveMailbox => LobbyInv'
<1>1. SUFFICES ASSUME LobbyInv, RemoveMailbox  PROVE LobbyInv'
  OBVIOUS
<1>2. PICK i : i = Head(disconnects)
  OBVIOUS
<1>3. /\ i \in Conns /\ i \in Range(disconnects)
      /\ disconnects' \in Seq(Conns)
      /\ \A x \in Range(disconnects') : x \in Range(disconnects)
  <2>1. disconnects \in Seq(Conns) /\ disconnects # <<>> /\ disconnects' = Tail(disconnects)
    BY <1>1 DEF LobbyInv, TypeOK, RemoveMailbox
  <2>2. QED
    BY <1>2, <2>1, Taken
<1>4. /\ closer' = i /\ mailbox' = [mailbox EXCEPT ![i] = None]
      /\ UNCHANGED <<enabled, players, acceptVars, taskVars, sendVars, queueVars, lobbyVars>>
  BY <1>1, <1>2 DEF RemoveMailbox, CloserUnchanged
<1>5. TypeOK'
  <2>1. IsInjective(players')
    BY <1>1, <1>4, PlayersUnchanged DEF LobbyInv, TypeOK
  <2>2. QED
    BY <1>1, <1>3, <1>4, <2>1 DEF LobbyInv, TypeOK, NoneOr, acceptVars, taskVars, sendVars, queueVars, lobbyVars
<1>6. ConnInv'
  <2>1. \A x \in Conns : mailbox'[x] # None => mailbox'[x] = mailbox[x]
    BY <1>1, <1>3, <1>4 DEF LobbyInv, TypeOK
  <2>2. QED
    BY <1>1, <1>4, <2>1 DEF LobbyInv, ConnInv, acceptVars, taskVars, Range, IsInjective
<1>7. \A j \in Conns :
        /\ mailbox'[j] # None => mailbox[j] # None
        /\ mailbox[j] = None \/ j = i => mailbox'[j] = None
  BY <1>1, <1>3, <1>4 DEF LobbyInv, TypeOK
<1>8. LeavingInv'
  BY <1>1, <1>3, <1>4, <1>7 DEF LobbyInv, LeavingInv, NeverRejoined, acceptVars, taskVars, queueVars, Range
<1>9. JoinedInv'
  BY <1>1, <1>4, <1>7 DEF LobbyInv, JoinedInv, NeverRejoined, acceptVars, Range
<1>10. CountInv'
  BY <1>1, <1>4, CountUnchanged DEF LobbyInv
<1>11. QED
  BY <1>5, <1>6, <1>8, <1>9, <1>10 DEF LobbyInv

LEMMA AnnounceLeftInv == LobbyInv /\ AnnounceLeft => LobbyInv'
<1>1. SUFFICES ASSUME LobbyInv, AnnounceLeft  PROVE LobbyInv'
  OBVIOUS
<1>2. SendsOK'
  BY <1>1, PartsOfType, SendBegun, StreamsAreConns DEF AnnounceLeft, Senders
<1>3. MailOK'
  BY <1>1, PartsOfType DEF AnnounceLeft, CloserUnchanged, taskVars
<1>4. QED
  BY <1>1, <1>2, <1>3, SendStep DEF AnnounceLeft, CloserUnchanged, taskVars

LEMMA LeftAnnouncedInv == LobbyInv /\ LeftAnnounced => LobbyInv'
<1>1. SUFFICES ASSUME LobbyInv, LeftAnnounced  PROVE LobbyInv'
  OBVIOUS
<1>2. closer \in Conns /\ closer' = None
  BY <1>1 DEF LobbyInv, TypeOK, NoneOr, LeftAnnounced
<1>3. /\ QueuesOK'
      /\ \A e \in Range(conns') : e \in Range(conns) \/ e.id = closer
  <2>1. PICK i \in Conns : i = closer
    BY <1>2
  <2>2. Publish("Disconnect", i)
    BY <1>1, <2>1 DEF LeftAnnounced
  <2>3. QueuesOK'
    BY <1>1, <2>2, PartsOfType, Published
  <2>4. \A e \in Range(conns') : e \in Range(conns) \/ e = [kind |-> "Disconnect", id |-> i]
    BY <1>1, <2>2, PartsOfType, Published
  <2>5. QED
    BY <2>1, <2>3, <2>4
<1>4. SendsOK'
  BY <1>1, PartsOfType, SendEnded DEF LeftAnnounced, Senders
<1>5. /\ UNCHANGED <<enabled, players, acceptVars, taskVars, lobbyVars>>
      /\ UNCHANGED <<mailbox, disconnects>>
  BY <1>1 DEF LeftAnnounced, CloserUnchanged
<1>6. TypeOK'
  <2>1. IsInjective(players')
    BY <1>1, <1>5, PlayersUnchanged DEF LobbyInv, TypeOK
  <2>2. QED
    BY <1>1, <1>2, <1>3, <1>4, <1>5, <2>1
       DEF LobbyInv, TypeOK, NoneOr, SendsOK, QueuesOK, Events, acceptVars, taskVars, lobbyVars
<1>7. LeavingInv'
  <2>1. SUFFICES ASSUME NEW i \in Conns, NeverRejoined(i)
                 PROVE  /\ i \in Range(disconnects) => task[i] = "ended"
                        /\ [kind |-> "Disconnect", id |-> i] \in Range(conns') =>
                             task[i] = "ended" /\ mailbox[i] = None
    BY <1>2, <1>5, LobbyAssumption DEF LeavingInv, NeverRejoined, acceptVars, taskVars, Range
  <2>2. [kind |-> "Disconnect", id |-> i] \in Range(conns') =>
          [kind |-> "Disconnect", id |-> i] \in Range(conns) \/ i = closer
    BY <1>3
  <2>3. QED
    BY <1>1, <2>1, <2>2 DEF LobbyInv, LeavingInv
<1>8. ConnInv' /\ JoinedInv' /\ CountInv'
  BY <1>1, <1>5, ConnUnchanged, JoinedUnchanged, CountUnchanged DEF LobbyInv, acceptVars, taskVars
<1>9. QED
  BY <1>6, <1>7, <1>8 DEF LobbyInv

-----------------------------------------------------------------------------
(* The lobby. *)

\* The steps that take an event, at most, and change the lobby's own state.
LEMMA LobbyMoved ==
  ASSUME LobbyInv, LobbyUnchanged, UNCHANGED <<players, sendVars>>, QueuesOK',
         enabled' \in BOOLEAN, waits' \subseteq Queues,
         lobby' \in {"enable", "subscribe", "top", "select", "full", "close", "game"},
         \A e \in Range(conns') : e \in Range(conns),
         CountInv'
  PROVE  LobbyInv'
<1>1. TypeOK'
  <2>1. IsInjective(players')
    BY PlayersUnchanged DEF LobbyInv, TypeOK
  <2>2. QED
    BY <2>1 DEF LobbyInv, TypeOK, QueuesOK, Events, LobbyUnchanged, acceptVars, taskVars, sendVars
<1>2. ConnInv' /\ JoinedInv'
  BY ConnUnchanged, JoinedUnchanged DEF LobbyInv, LobbyUnchanged, acceptVars, taskVars
<1>3. LeavingInv'
  <2>1. \A i \in Conns :
          [kind |-> "Disconnect", id |-> i] \in Range(conns') =>
          [kind |-> "Disconnect", id |-> i] \in Range(conns)
    OBVIOUS
  <2>2. /\ \A i : NeverRejoined(i)' <=> NeverRejoined(i)
        /\ \A i : i \in Range(disconnects') <=> i \in Range(disconnects)
    BY DEF NeverRejoined, LobbyUnchanged, acceptVars, Range
  <2>3. QED
    BY <2>1, <2>2 DEF LobbyInv, LeavingInv, LobbyUnchanged, taskVars
<1>4. QED
  BY <1>1, <1>2, <1>3 DEF LobbyInv

LEMMA CountingInv ==
  LobbyInv /\ (Enable \/ Subscribe \/ CountPlayers \/ CheckFull) => LobbyInv'
<1>1. SUFFICES ASSUME LobbyInv, Enable \/ Subscribe \/ CountPlayers \/ CheckFull
               PROVE  LobbyInv'
  OBVIOUS
<1>2. UNCHANGED <<players, sendVars, queueVars>> /\ LobbyUnchanged
  BY <1>1 DEF Enable, Subscribe, CountPlayers, CheckFull
<1>3. /\ QueuesOK'
      /\ \A e \in Range(conns') : e \in Range(conns)
  BY <1>1, <1>2, PartsOfType DEF queueVars, Range
<1>4. Len(players) \in Nat
  BY <1>1, LenProperties DEF LobbyInv, TypeOK
<1>5. CountInv'
  BY <1>1, <1>2, <1>4, LobbyAssumption
     DEF LobbyInv, TypeOK, CountInv, can_start, Enable, Subscribe, CountPlayers, CheckFull
<1>6. /\ enabled' \in BOOLEAN /\ waits' \subseteq Queues
      /\ lobby' \in {"enable", "subscribe", "top", "select", "full", "close", "game"}
  BY <1>1 DEF LobbyInv, TypeOK, Enable, Subscribe, CountPlayers, CheckFull, Queues
<1>7. QED
  BY <1>1, <1>2, <1>3, <1>5, <1>6, LobbyMoved

LEMMA ReceiveLaggedInv ==
  ASSUME LobbyInv, NEW q \in Queues, ReceiveLagged(q)
  PROVE  LobbyInv'
<1>1. /\ UNCHANGED <<enabled, players, sendVars, conns, starts>> /\ LobbyUnchanged
      /\ lagged' \subseteq lagged /\ waits' \subseteq waits
      /\ lobby = "select" /\ lobby' \in {"top", "select"}
  BY DEF ReceiveLagged
<1>2. /\ QueuesOK'
      /\ \A e \in Range(conns') : e \in Range(conns)
  BY <1>1, PartsOfType DEF QueuesOK, Range
<1>3. CountInv'
  BY <1>1 DEF LobbyInv, CountInv, can_start
<1>4. QED
  BY <1>1, <1>2, <1>3, LobbyMoved DEF LobbyInv, TypeOK

LEMMA ReceiveStartInv == LobbyInv /\ ReceiveStart => LobbyInv'
<1>1. SUFFICES ASSUME LobbyInv, ReceiveStart  PROVE LobbyInv'
  OBVIOUS
<1>2. QueuesOK'
  <2>1. /\ starts \in Seq(Conns) /\ starts # <<>> /\ starts' = Tail(starts)
        /\ Len(starts) <= PROCESSING_CAPACITY
    BY <1>1 DEF LobbyInv, TypeOK, ReceiveStart
  <2>2. starts' \in Seq(Conns) /\ Len(starts') = Len(starts) - 1 /\ Len(starts) \in Nat
    BY <2>1, HeadTailProperties, LenProperties
  <2>3. Len(starts') <= PROCESSING_CAPACITY
    BY <2>1, <2>2, LobbyAssumption
  <2>4. QED
    BY <1>1, <2>2, <2>3, PartsOfType DEF QueuesOK, ReceiveStart
<1>3. \A e \in Range(conns') : e \in Range(conns)
  BY <1>1 DEF ReceiveStart, Range
<1>4. CountInv'
  BY <1>1 DEF LobbyInv, CountInv, ReceiveStart
<1>5. QED
  BY <1>1, <1>2, <1>3, <1>4, LobbyMoved DEF LobbyInv, TypeOK, ReceiveStart

LEMMA CloseInv == LobbyInv /\ Close => LobbyInv'
<1>1. SUFFICES ASSUME LobbyInv, Close  PROVE LobbyInv'
  OBVIOUS
<1>2. QueuesOK'
  BY <1>1, LobbyAssumption DEF Close, QueuesOK
<1>3. Range(conns') = {}
  BY <1>1 DEF Close, Range
<1>4. CountInv'
  BY <1>1 DEF LobbyInv, CountInv, Close
<1>5. QED
  BY <1>1, <1>2, <1>3, <1>4, LobbyMoved DEF LobbyInv, TypeOK, Close

\* A player that is removed has left: it is not joining, and has no mailbox.
LEMMA ReceiveConnectionInv == LobbyInv /\ ReceiveConnection => LobbyInv'
<1>1. SUFFICES ASSUME LobbyInv, ReceiveConnection  PROVE LobbyInv'
  OBVIOUS
<1>2. PICK e : e = Head(conns)
  OBVIOUS
<1>3. /\ e \in Events /\ e \in Range(conns)
      /\ QueuesOK'
      /\ \A x \in Range(conns') : x \in Range(conns)
  <2>1. QueuesOK /\ conns \in Seq(Events) /\ conns # <<>> /\ conns' = Tail(conns)
    BY <1>1, PartsOfType DEF QueuesOK, ReceiveConnection
  <2>2. /\ e \in Events /\ e \in Range(conns) /\ conns' \in Seq(Events)
        /\ Range(conns') \subseteq Range(conns)
    BY <1>2, <2>1, Taken
  <2>3. Len(conns') = Len(conns) - 1 /\ Len(conns) \in Nat
    BY <2>1, HeadTailProperties, LenProperties
  <2>4. Len(conns') <= PROCESSING_CAPACITY
    BY <2>1, <2>3, LobbyAssumption DEF QueuesOK
  <2>5. QED
    BY <1>1, <2>1, <2>2, <2>4 DEF QueuesOK, ReceiveConnection
<1>4. /\ players' \in Seq(Conns) /\ IsInjective(players')
      /\ \A x \in Range(players') : x \in Range(players)
      /\ \A x \in Range(players) :
           x \notin Range(players') => e = [kind |-> "Disconnect", id |-> x]
  <2>1. players \in Seq(Conns) /\ IsInjective(players)
    BY <1>1 DEF LobbyInv, TypeOK
  <2>2. CASE e.kind = "Disconnect"
    <3>1. PICK i : i = e.id
      OBVIOUS
    <3>2. players' = remove_player(players, i)
      BY <1>1, <1>2, <2>2, <3>1 DEF ReceiveConnection
    <3>3. e = [kind |-> "Disconnect", id |-> i]
      BY <1>3, <2>2, <3>1 DEF Events
    <3>4. QED
      BY <2>1, <3>2, <3>3, Removed
  <2>3. CASE e.kind # "Disconnect"
    <3>1. players' = players
      BY <1>1, <1>2, <2>3 DEF ReceiveConnection
    <3>2. QED
      BY <2>1, <3>1 DEF Range, IsInjective
  <2>4. QED
    BY <2>2, <2>3
<1>5. /\ lobby' = "full" /\ waits' = {} /\ UNCHANGED <<enabled, sendVars>>
      /\ UNCHANGED <<mailbox, acceptVars, taskVars, disconnects, closer>>
  BY <1>1 DEF ReceiveConnection, LobbyUnchanged
<1>6. TypeOK'
  BY <1>1, <1>3, <1>4, <1>5 DEF LobbyInv, TypeOK, QueuesOK, Events, acceptVars, taskVars, sendVars
<1>7. ConnInv'
  BY <1>1, <1>5, ConnUnchanged DEF LobbyInv, taskVars
<1>8. LeavingInv'
  <2>1. \A i \in Conns :
          [kind |-> "Disconnect", id |-> i] \in Range(conns') =>
          [kind |-> "Disconnect", id |-> i] \in Range(conns)
    BY <1>3
  <2>2. /\ \A i : NeverRejoined(i)' <=> NeverRejoined(i)
        /\ \A i : i \in Range(disconnects') <=> i \in Range(disconnects)
    BY <1>5 DEF NeverRejoined, acceptVars, Range
  <2>3. QED
    BY <1>1, <1>5, <2>1, <2>2 DEF LobbyInv, LeavingInv, taskVars
<1>9. JoinedInv'
  <2>1. \A i \in Range(players') : pid'[i] = i
    BY <1>1, <1>4, <1>5 DEF LobbyInv, JoinedInv, acceptVars
  <2>2. SUFFICES ASSUME NEW i \in Conns, NeverRejoined(i), i \in Range(players),
                        \/ mailbox[i] # None
                        \/ acceptor.conn = i /\ acceptor.at \in Joining
                 PROVE  i \in Range(players')
    BY <1>1, <1>5, <2>1 DEF LobbyInv, JoinedInv, NeverRejoined, acceptVars
  <2>3. task[i] = "none" \/ mailbox[i] # None
    BY <1>1, <2>2 DEF LobbyInv, ConnInv
  <2>4. e # [kind |-> "Disconnect", id |-> i]
    BY <1>1, <1>3, <2>2, <2>3 DEF LobbyInv, LeavingInv
  <2>5. QED
    BY <1>4, <2>2, <2>4
<1>10. CountInv'
  BY <1>5 DEF CountInv
<1>11. QED
  BY <1>6, <1>7, <1>8, <1>9, <1>10 DEF LobbyInv

LEMMA GameInv == LobbyInv /\ (GameBroadcast \/ GameBroadcastEnds) => LobbyInv'
<1>1. SUFFICES ASSUME LobbyInv, GameBroadcast \/ GameBroadcastEnds  PROVE LobbyInv'
  OBVIOUS
<1>2. SendsOK'
  BY <1>1, PartsOfType, SendBegun, SendEnded, StreamsAreConns DEF GameBroadcast, GameBroadcastEnds, Senders
<1>3. MailOK'
  BY <1>1, PartsOfType DEF GameBroadcast, GameBroadcastEnds, GameUnchanged, LobbyUnchanged, taskVars
<1>4. QED
  BY <1>1, <1>2, <1>3, SendStep
     DEF GameBroadcast, GameBroadcastEnds, GameUnchanged, LobbyUnchanged, taskVars

-----------------------------------------------------------------------------
(* The theorems. *)

LEMMA StutterInv == LobbyInv /\ UNCHANGED vars => LobbyInv'
<1>1. SUFFICES ASSUME LobbyInv, UNCHANGED vars  PROVE LobbyInv'
  OBVIOUS
<1>2. SendsOK' /\ MailOK'
  BY <1>1, PartsOfType DEF vars, taskVars
<1>3. QED
  BY <1>1, <1>2, SendStep DEF vars, taskVars

LEMMA Inductive == LobbyInv /\ [Next]_vars => LobbyInv'
<1>1. LobbyInv /\ Acceptor => LobbyInv'
  BY AcceptInv, HandshakeInv, RecheckInv, AssignIdInv, AnnounceInv, AnnouncedInv,
     RegisterInv, EnterInv, EnteredInv
     DEF Acceptor
<1>2. LobbyInv /\ Closer => LobbyInv'
  BY RemoveMailboxInv, AnnounceLeftInv, LeftAnnouncedInv DEF Closer
<1>3. LobbyInv /\ LobbyRun => LobbyInv'
  BY CountingInv, ReceiveLaggedInv, ReceiveStartInv, ReceiveConnectionInv, CloseInv
     DEF LobbyRun
<1>4. ASSUME LobbyInv, NEW c \in Conns,
             \/ Connect(c) \/ Disconnect(c) \/ RequestStart(c)
             \/ Write(c) \/ Finish(c) \/ Watch(c)
      PROVE  LobbyInv'
  BY <1>4, ConnectInv, DisconnectInv, RequestStartInv, WriteInv, FinishInv, WatchInv
<1>5. ASSUME LobbyInv, NEW s \in Senders, NEW c \in Conns, Deliver(s, c)
      PROVE  LobbyInv'
  BY <1>5, DeliverInv
<1>6. QED
  BY <1>1, <1>2, <1>3, <1>4, <1>5, GameInv, StutterInv DEF Next

\* The state of every connection, task and player is one the lobby's code can
\* be in, and what it relates, for any number of connections.
THEOREM LobbyInvariant == Spec => []LobbyInv
BY InitInv, Inductive, PTL DEF Spec

\* Every variable of the lobby keeps its type, and nobody is in the list of
\* players twice (add_player, server/src/game.rs).
THEOREM LobbyTypeCorrect == Spec => []TypeOK
<1>1. LobbyInv => TypeOK
  BY DEF LobbyInv
<1>2. QED
  BY <1>1, LobbyInvariant, PTL

\* No game starts with fewer players than it needs (lobby.rs:32), however
\* players leave while the start is asked for.
THEOREM GamesHaveEnoughPlayers == Spec => []EnoughPlayers
<1>1. LobbyInv => EnoughPlayers
  BY DEF LobbyInv, CountInv, EnoughPlayers
<1>2. QED
  BY <1>1, LobbyInvariant, PTL

\* Who has a mailbox is a player, though the mailbox and the player are removed
\* by two tasks (client.rs:68) and added by two statements.
THEOREM MailboxOwnersArePlayers == Spec => []StreamsArePlayers
<1>1. LobbyInv => StreamsArePlayers
  BY DEF LobbyInv, JoinedInv, StreamsArePlayers
<1>2. QED
  BY <1>1, LobbyInvariant, PTL

\* Only the report about a closed connection takes a mailbox away.
LEMMA RemovalStep ==
  ASSUME LobbyInv, [Next]_vars, NEW i \in Conns,
         mailbox[i] # None, mailbox'[i] = None, NeverRejoined(i)
  PROVE  sock[mailbox[i]] = "closed"
<1>1. CASE RemoveMailbox
  <2>1. PICK j : j = Head(disconnects)
    OBVIOUS
  <2>2. j \in Range(disconnects) /\ mailbox' = [mailbox EXCEPT ![j] = None]
    BY <1>1, <2>1, Taken DEF LobbyInv, TypeOK, RemoveMailbox
  <2>3. i = j
    BY <2>2 DEF LobbyInv, TypeOK
  <2>4. task[i] = "ended" /\ sock[i] = "closed"
    BY <2>2, <2>3 DEF LobbyInv, LeavingInv, ConnInv
  <2>5. mailbox[i] = i
    BY DEF LobbyInv, TypeOK, NoneOr, ConnInv, NeverRejoined
  <2>6. QED
    BY <2>4, <2>5
<1>2. CASE Register
  BY <1>2, LobbyAssumption DEF LobbyInv, TypeOK, ConnInv, Joining, Register
<1>3. CASE Acceptor /\ ~Register
  BY <1>3 DEF Acceptor, Accept, Handshake, Recheck, AssignId, Announce, Announced, Enter, Entered
<1>4. CASE AnnounceLeft \/ LeftAnnounced \/ LobbyRun \/ GameBroadcast \/ GameBroadcastEnds
  BY <1>4 DEF AnnounceLeft, LeftAnnounced, LobbyRun, Enable, Subscribe, CountPlayers,
              ReceiveLagged, ReceiveStart, ReceiveConnection, CheckFull, Close, GameBroadcast,
              GameBroadcastEnds, GameUnchanged, LobbyUnchanged
<1>5. ASSUME NEW c \in Conns,
             \/ Connect(c) \/ Disconnect(c) \/ RequestStart(c)
             \/ Write(c) \/ Finish(c) \/ Watch(c)
      PROVE  mailbox' = mailbox
  BY <1>5 DEF Connect, Disconnect, RequestStart, Write, Finish, Watch, TaskUnchanged
<1>6. ASSUME NEW s \in Senders, NEW c \in Conns, Deliver(s, c)
      PROVE  mailbox' = mailbox
  BY <1>6 DEF Deliver
<1>7. CASE UNCHANGED vars
  BY <1>7 DEF vars
<1>8. QED
  BY <1>1, <1>2, <1>3, <1>4, <1>5, <1>6, <1>7 DEF Next, Closer

\* The report of a player's end (client.rs:106) takes away no mailbox of a
\* player whose connection is open, unless that player has rejoined.
THEOREM LeaversOnly == Spec => OnlyLeaversRemoved
<1>1. LobbyInv /\ [Next]_vars =>
        [\A i \in Conns :
           mailbox[i] # None /\ mailbox'[i] = None /\ NeverRejoined(i)
             => sock[mailbox[i]] = "closed"]_vars
  BY RemovalStep
<1>2. QED
  BY <1>1, InitInv, Inductive, PTL DEF Spec, OnlyLeaversRemoved

-----------------------------------------------------------------------------
(* The lobby's list of players is that of Roster. *)

Known == {i \in Conns : pid[i] = i}
Left == {i \in Conns : pid[i] = i /\ (sock[i] = "closed" \/ ~NeverRejoined(i))}
Begun == lobby \in {"close", "game"}

\* An id belongs to the connection it was created for, and who asks has one.
IdsInv ==
  /\ \A c \in Conns : pid[c] # None => pid[pid[c]] = pid[c]
  /\ \A i \in Range(starts) : pid[i] = i

LEMMA InitIds == Init => IdsInv
BY DEF Init, IdsInv, Range

\* Ids are given in the handshake only, once to each connection.
LEMMA GivenIds ==
  ASSUME LobbyInv, [Next]_vars
  PROVE  \/ pid' = pid
         \/ /\ Handshake /\ UNCHANGED starts
            /\ acceptor.conn \in Conns /\ pid[acceptor.conn] = None
            /\ \E i \in Conns :
                 /\ pid' = [pid EXCEPT ![acceptor.conn] = i]
                 /\ i = acceptor.conn \/ (i # acceptor.conn /\ pid[i] = i)
<1>1. CASE Handshake
  <2> DEFINE c == acceptor.conn
  <2>1. c \in Conns /\ pid[c] = None /\ UNCHANGED starts
    BY <1>1 DEF LobbyInv, ConnInv, Handshake, queueVars
  <2> HIDE DEF c
  <2>2. \/ CreateNew(c) \/ UNCHANGED pid
        \/ \E i \in Conns \ {c} : pid[i] = i /\ pid' = [pid EXCEPT ![c] = i]
    BY <1>1 DEF Handshake, c
  <2>3. QED
    BY <1>1, <2>1, <2>2 DEF CreateNew, c
<1>2. CASE ~Handshake
  BY <1>2
  DEF Next, Acceptor, Accept, Recheck, AssignId, Announce, Announced, Register, Enter, Entered,
      Closer, RemoveMailbox, AnnounceLeft, LeftAnnounced, CloserUnchanged, LobbyRun, Enable,
      Subscribe, CountPlayers, ReceiveLagged, ReceiveStart, ReceiveConnection, CheckFull, Close,
      GameBroadcast, GameBroadcastEnds, GameUnchanged, LobbyUnchanged, Deliver, Connect,
      Disconnect, RequestStart, Write, Finish, Watch, TaskUnchanged, acceptVars, vars
<1>3. QED
  BY <1>1, <1>2

\* Requests are taken up in their order, displaced by others, or all dropped.
LEMMA GivenStarts ==
  ASSUME LobbyInv, IdsInv, [Next]_vars
  PROVE  \/ starts' = starts
         \/ \E c \in Conns : RequestStart(c) /\ pid[c] \in Conns /\ pid[pid[c]] = pid[c]
                             /\ pid[c] \in Range(starts')
                             /\ Range(starts') \subseteq Range(starts) \union {pid[c]}
         \/ (ReceiveStart \/ Close) /\ Range(starts') \subseteq Range(starts)
<1>1. ASSUME NEW c \in Conns, RequestStart(c)
      PROVE  /\ pid[c] \in Conns /\ pid[pid[c]] = pid[c]
             /\ pid[c] \in Range(starts')
             /\ Range(starts') \subseteq Range(starts) \union {pid[c]}
  <2>1. /\ pid[c] # None /\ pid[c] \in Conns
        /\ starts \in Seq(Conns) /\ Len(starts) <= PROCESSING_CAPACITY
    BY <1>1 DEF RequestStart, LobbyInv, ConnInv, TypeOK, NoneOr
  <2>2. starts' = Offer(starts, pid[c])
    BY <1>1 DEF RequestStart
  <2>3. QED
    BY <2>1, <2>2, Offered DEF IdsInv
<1>2. CASE ReceiveStart
  <2>1. starts \in Seq(Conns) /\ starts # <<>> /\ starts' = Tail(starts)
    BY <1>2 DEF ReceiveStart, LobbyInv, TypeOK
  <2>2. QED
    BY <1>2, <2>1, Taken
<1>3. CASE Close
  BY <1>3 DEF Close, Range
<1>4. CASE ~(ReceiveStart \/ Close \/ \E c \in Conns : RequestStart(c))
  BY <1>4
  DEF Next, Acceptor, Accept, Handshake, Recheck, AssignId, Announce, Announced, Register,
      Enter, Entered, Publish, Closer, RemoveMailbox, AnnounceLeft, LeftAnnounced, LobbyRun,
      Enable, Subscribe, CountPlayers, ReceiveLagged, ReceiveConnection, CheckFull,
      GameBroadcast, GameBroadcastEnds, GameUnchanged, Deliver, Connect, Disconnect,
      Write, Finish, Watch, TaskUnchanged, queueVars, vars
<1>5. QED
  BY <1>1, <1>2, <1>3, <1>4

LEMMA NextIds == LobbyInv /\ IdsInv /\ [Next]_vars => IdsInv'
<1> SUFFICES ASSUME LobbyInv, IdsInv, [Next]_vars PROVE IdsInv'
  OBVIOUS
<1>1. pid \in [Conns -> NoneOr(Conns)] /\ starts \in Seq(Conns) /\ Range(starts) \subseteq Conns
  BY DEF LobbyInv, TypeOK, Range
<1>2. CASE pid' = pid
  BY <1>1, <1>2, GivenStarts DEF IdsInv, Range
<1>3. CASE pid' # pid
  <2>1. PICK c \in Conns, i \in Conns :
          /\ pid[c] = None /\ pid' = [pid EXCEPT ![c] = i] /\ starts' = starts
          /\ i = c \/ (i # c /\ pid[i] = i)
    BY <1>3, GivenIds
  <2>2. \A d \in Conns : pid[d] # c
    BY <2>1, LobbyAssumption DEF IdsInv
  <2>3. ASSUME NEW d \in Conns, pid'[d] # None PROVE pid'[pid'[d]] = pid'[d]
    <3>1. CASE d = c
      BY <1>1, <2>1, <3>1
    <3>2. CASE d # c
      <4>1. pid'[d] = pid[d] /\ pid[d] \in Conns /\ pid[d] # c /\ pid[pid[d]] = pid[d]
        BY <1>1, <2>1, <2>2, <2>3, <3>2 DEF IdsInv, NoneOr
      <4>2. QED
        BY <1>1, <2>1, <4>1
    <3>3. QED
      BY <3>1, <3>2
  <2>4. \A k \in Range(starts') : pid'[k] = k
    BY <1>1, <2>1, LobbyAssumption DEF IdsInv
  <2>5. QED
    BY <2>3, <2>4 DEF IdsInv
<1>4. QED
  BY <1>2, <1>3

RosterStep == [PlayersRoster!Next]_(PlayersRoster!rosterVars)

LEMMA RosterInit == Init => PlayersRoster!Init
BY LobbyAssumption DEF Init, PlayersRoster!Init, Range

\* What the lobby's state is to Roster changes by one of its actions.
LEMMA RosterUnchanged ==
  ASSUME UNCHANGED players, Known' = Known, Left' = Left,
         Range(starts') = Range(starts), Begun' = Begun
  PROVE  RosterStep
BY DEF RosterStep, PlayersRoster!rosterVars, Known, Left, Begun

LEMMA RosterJoin ==
  ASSUME NEW i \in Conns, i \notin Known, Known' = Known \union {i},
         players' = Append(players, i), Left' \in {Left, Left \union {i}},
         Range(starts') = Range(starts), Begun' = Begun
  PROVE  RosterStep
<1>1. PlayersRoster!Join(i)
  BY DEF PlayersRoster!Join, Known, Left, Begun
<1>2. QED
  BY <1>1 DEF RosterStep, PlayersRoster!Next

LEMMA RosterLeave ==
  ASSUME NEW i \in Known, Known' = Known, UNCHANGED players, Left' = Left \union {i},
         Range(starts') = Range(starts), Begun' = Begun
  PROVE  RosterStep
<1>1. PlayersRoster!Leave(i) /\ i \in Conns
  BY DEF PlayersRoster!Leave, Known, Left, Begun
<1>2. QED
  BY <1>1 DEF RosterStep, PlayersRoster!Next

LEMMA RosterTakeOut ==
  ASSUME NEW k \in DOMAIN players, ~Begun, players[k] \in Left, players' = RemoveAt(players, k),
         Known' = Known, Left' = Left, Range(starts') = Range(starts), Begun' = Begun
  PROVE  RosterStep
<1>1. PlayersRoster!TakeOut(k)
  <2>1. PlayersRoster!RemoveAt(players, k) = RemoveAt(players, k)
    BY DEF PlayersRoster!RemoveAt, RemoveAt
  <2>2. QED
    BY <2>1 DEF PlayersRoster!TakeOut, Known, Left, Begun
<1>2. QED
  BY <1>1 DEF RosterStep, PlayersRoster!Next

LEMMA RosterAsk ==
  ASSUME NEW i \in Known, Known' = Known, UNCHANGED players, Left' = Left,
         i \in Range(starts'), Range(starts') \subseteq Range(starts) \union {i}, Begun' = Begun
  PROVE  RosterStep
<1>1. PlayersRoster!Ask(i) /\ i \in Conns
  BY DEF PlayersRoster!Ask, Known, Left, Begun
<1>2. QED
  BY <1>1 DEF RosterStep, PlayersRoster!Next

\* The lobby decides to begin or not, and may have used requests up.
LEMMA RosterDecide ==
  ASSUME LobbyInv, Range(starts') \subseteq Range(starts), UNCHANGED players,
         Known' = Known, Left' = Left,
         \/ Begun' = Begun
         \/ /\ ~Begun /\ Begun' /\ Len(players) >= MIN_PLAYER_COUNT
            /\ players[1] \in Range(starts) \/ Len(players) = MAX_PLAYER_COUNT
  PROVE  RosterStep
<1>1. CASE Begun' = Begun
  <2>1. PlayersRoster!Refuse
    BY <1>1 DEF PlayersRoster!Refuse, Known, Left, Begun
  <2>2. QED
    BY <2>1 DEF RosterStep, PlayersRoster!Next
<1>2. CASE /\ ~Begun /\ Begun' /\ Len(players) >= MIN_PLAYER_COUNT
           /\ players[1] \in Range(starts) \/ Len(players) = MAX_PLAYER_COUNT
  <2>1. PlayersRoster!Begin
    BY <1>2 DEF PlayersRoster!Begin, Known, Left, Begun
  <2>2. QED
    BY <2>1 DEF RosterStep, PlayersRoster!Next
<1>3. QED
  BY <1>1, <1>2

-----------------------------------------------------------------------------
(* The steps of the tasks, as steps of the list. *)

\* Whose socket closes has left, if it is a player.
LEMMA SocketCloses ==
  ASSUME LobbyInv, NEW c \in Conns, sock' = [sock EXCEPT ![c] = "closed"],
         UNCHANGED <<players, pid, starts, lobby>>
  PROVE  RosterStep
<1>1. Known' = Known /\ Range(starts') = Range(starts) /\ Begun' = Begun
  BY DEF Known, Begun
<1>2. \A i : NeverRejoined(i)' <=> NeverRejoined(i)
  BY DEF NeverRejoined
<1>3. \A i \in Conns : sock'[i] = IF i = c THEN "closed" ELSE sock[i]
  BY DEF LobbyInv, TypeOK
<1>4. CASE c \in Known
  <2>1. Left' = Left \union {c}
    BY <1>2, <1>3, <1>4 DEF Left, Known
  <2>2. QED
    BY <1>1, <1>4, <2>1, RosterLeave
<1>5. CASE c \notin Known
  <2>1. Left' = Left
    BY <1>2, <1>3, <1>5 DEF Left, Known
  <2>2. QED
    BY <1>1, <2>1, RosterUnchanged
<1>6. QED
  BY <1>4, <1>5

\* Steps that touch neither ids nor sockets.
LEMMA SameIds ==
  ASSUME UNCHANGED <<pid, sock>>
  PROVE  Known' = Known /\ Left' = Left
BY DEF Known, Left, NeverRejoined

LEMMA QuietRoster ==
  ASSUME UNCHANGED <<players, pid, sock, starts>>, Begun' = Begun
  PROVE  RosterStep
BY SameIds, RosterUnchanged

LEMMA HandshakeRoster ==
  ASSUME LobbyInv, IdsInv, Handshake
  PROVE  RosterStep
<1> DEFINE c == acceptor.conn
<1>1. /\ c \in Conns /\ pid[c] = None /\ c \notin Known
      /\ UNCHANGED <<sock, starts, lobby>>
      /\ pid \in [Conns -> NoneOr(Conns)]
  BY LobbyAssumption
  DEF LobbyInv, TypeOK, ConnInv, Handshake, AcceptorUnchanged, queueVars, lobbyVars, Known
<1>2. Range(starts') = Range(starts) /\ Begun' = Begun
  BY <1>1 DEF Begun
<1>3. \/ CreateNew(c)
      \/ UNCHANGED <<players, pid>>
      \/ \E i \in Conns \ {c} : /\ pid[i] = i /\ pid' = [pid EXCEPT ![c] = i]
                                 /\ UNCHANGED players
  BY DEF Handshake
<1> HIDE DEF c
<1>4. CASE CreateNew(c)
  <2>1. players' = Append(players, c) /\ pid' = [pid EXCEPT ![c] = c]
    BY <1>4 DEF CreateNew
  <2>2. /\ pid'[c] = c /\ \A d \in Conns : d # c => pid'[d] = pid[d]
    BY <1>1, <2>1
  <2>3. Known' = Known \union {c}
    BY <1>1, <2>2 DEF Known
  <2>4. \A i \in Known : NeverRejoined(i)' <=> NeverRejoined(i)
    BY <1>1, <2>2, LobbyAssumption DEF NeverRejoined, Known
  <2>5. Left' \in {Left, Left \union {c}}
    <3>1. \A i \in Conns : i # c => (i \in Left' <=> i \in Left)
      BY <1>1, <2>2, <2>4 DEF Left, Known
    <3>2. Left \subseteq Conns /\ Left' \subseteq Conns /\ c \notin Left
      BY <1>1 DEF Left, Known
    <3>3. QED
      BY <1>1, <3>1, <3>2
  <2>6. QED
    BY <1>1, <1>2, <2>1, <2>3, <2>5, RosterJoin
<1>5. ASSUME NEW i \in Conns \ {c}, pid[i] = i, pid' = [pid EXCEPT ![c] = i], UNCHANGED players
      PROVE  RosterStep
  <2>1. pid'[c] = i /\ \A d \in Conns : d # c => pid'[d] = pid[d]
    BY <1>1, <1>5
  <2>2. Known' = Known /\ i \in Known
    BY <1>1, <1>5, <2>1 DEF Known
  <2>3. ~NeverRejoined(i)'
    BY <1>1, <1>5, <2>1 DEF NeverRejoined
  <2>4. \A k \in Known : k # i => (NeverRejoined(k)' <=> NeverRejoined(k))
    BY <1>1, <2>1, LobbyAssumption DEF NeverRejoined, Known
  <2>5. Left' = Left \union {i}
    BY <1>1, <2>1, <2>2, <2>3, <2>4 DEF Left, Known
  <2>6. QED
    BY <1>2, <1>5, <2>2, <2>5, RosterLeave
<1>6. CASE UNCHANGED <<players, pid>>
  BY <1>1, <1>2, <1>6, QuietRoster
<1>7. QED
  BY <1>3, <1>4, <1>5, <1>6

\* The report of a player's end takes it from its place in the list.
LEMMA ReceiveConnectionRoster ==
  ASSUME LobbyInv, ReceiveConnection
  PROVE  RosterStep
<1> DEFINE e == Head(conns)
<1>1. /\ ~Begun /\ Begun' = Begun /\ UNCHANGED <<pid, sock, starts>>
      /\ players' = IF e.kind = "Disconnect" THEN remove_player(players, e.id) ELSE players
      /\ e \in [kind : {"Connect", "Disconnect"}, id : Conns] /\ e \in Range(conns)
  <2>1. conns \in Seq([kind : {"Connect", "Disconnect"}, id : Conns]) /\ conns # <<>>
    BY DEF ReceiveConnection, LobbyInv, TypeOK
  <2>2. e \in [kind : {"Connect", "Disconnect"}, id : Conns] /\ e \in Range(conns)
    BY <2>1, Taken
  <2>3. ~Begun /\ Begun' = Begun
    BY DEF ReceiveConnection, Begun
  <2>4. QED
    BY <2>2, <2>3 DEF ReceiveConnection, LobbyUnchanged, acceptVars
<1>2. /\ Known' = Known /\ Left' = Left /\ Range(starts') = Range(starts)
  BY <1>1, SameIds
<1> HIDE DEF e
<1>3. CASE players' = players
  BY <1>1, <1>2, <1>3, RosterUnchanged
<1>4. CASE players' # players
  <2>1. PICK i \in Conns : i = e.id /\ e = [kind |-> "Disconnect", id |-> i]
    BY <1>1, <1>4
  <2>2. players' = remove_player(players, i) /\ i \in Range(players)
    BY <1>1, <1>4, <2>1 DEF remove_player
  <2>3. PICK k : k = CHOOSE n \in DOMAIN players : players[n] = i
    OBVIOUS
  <2>4. k \in DOMAIN players /\ players[k] = i
    BY <2>2, <2>3 DEF Range
  <2>5. players' = RemoveAt(players, k)
    BY <2>2, <2>3, Zenon DEF remove_player
  <2>6. i \in Left
    <3>1. pid[i] = i
      BY <2>2 DEF LobbyInv, JoinedInv
    <3>2. NeverRejoined(i) => sock[i] = "closed"
      BY <1>1, <2>1 DEF LobbyInv, LeavingInv, ConnInv
    <3>3. QED
      BY <3>1, <3>2 DEF Left
  <2>7. QED
    BY <1>1, <1>2, <2>4, <2>5, <2>6, RosterTakeOut
<1>5. QED
  BY <1>3, <1>4

LEMMA DecisionRoster ==
  ASSUME LobbyInv, IdsInv, [Next]_vars, ReceiveStart \/ CheckFull \/ Close
  PROVE  RosterStep
<1>1. UNCHANGED <<players, pid, sock>> /\ Known' = Known /\ Left' = Left
  BY SameIds DEF ReceiveStart, CheckFull, Close, LobbyUnchanged, acceptVars
<1>2. Range(starts') \subseteq Range(starts)
  BY GivenStarts DEF ReceiveStart, CheckFull, Close, RequestStart, Subscribed, lobbyVars, queueVars
<1>3. CASE ReceiveStart
  <2>1. ~Begun /\ Len(players) >= MIN_PLAYER_COUNT
    BY <1>3 DEF ReceiveStart, Begun, LobbyInv, CountInv, can_start
  <2>2. Begun' => players[1] \in Range(starts)
    BY <1>3, Taken DEF ReceiveStart, Begun, LobbyInv, TypeOK
  <2>3. Begun' \in BOOLEAN /\ Begun \in BOOLEAN
    BY DEF Begun
  <2>4. QED
    BY <1>1, <1>2, <2>1, <2>2, <2>3, RosterDecide
<1>4. CASE CheckFull
  <2>1. Begun' = Begun \/ (~Begun /\ Begun' /\ Len(players) = MAX_PLAYER_COUNT)
    BY <1>4 DEF CheckFull, Begun
  <2>2. Len(players) = MAX_PLAYER_COUNT => Len(players) >= MIN_PLAYER_COUNT
    BY LobbyAssumption
  <2>3. QED
    BY <1>1, <1>2, <2>1, <2>2, RosterDecide
<1>5. CASE Close
  <2>1. Begun' = Begun
    BY <1>5 DEF Close, Begun
  <2>2. QED
    BY <1>1, <1>2, <2>1, RosterDecide
<1>6. QED
  BY <1>3, <1>4, <1>5

\* Every step of the lobby is one of the list of players or leaves it alone.
LEMMA NextRoster ==
  ASSUME LobbyInv, IdsInv, [Next]_vars
  PROVE  RosterStep
<1>1. CASE Accept
  <2>1. \/ UNCHANGED sock
        \/ \E c \in Conns : sock' = [sock EXCEPT ![c] = "closed"]
    <3>1. Head(backlog) \in Conns
      BY <1>1, Taken DEF Accept, LobbyInv, TypeOK
    <3>2. QED
      BY <1>1, <3>1 DEF Accept
  <2>2. UNCHANGED <<players, pid, starts, lobby>>
    BY <1>1 DEF Accept, AcceptorUnchanged, queueVars, lobbyVars
  <2>3. QED
    BY <2>1, <2>2, SocketCloses, QuietRoster DEF Begun
<1>2. CASE Handshake
  BY <1>2, HandshakeRoster
<1>3. CASE Recheck \/ AssignId \/ Announce \/ Announced \/ Register \/ Enter \/ Entered
  <2>1. UNCHANGED <<players, pid, sock, starts, lobby>>
    BY <1>3 DEF Recheck, AssignId, Announce, Announced, Register, Enter, Entered, Publish,
                AcceptorUnchanged, acceptVars, queueVars, lobbyVars
  <2>2. QED
    BY <2>1, QuietRoster DEF Begun
<1>4. CASE \/ Closer \/ GameBroadcast \/ GameBroadcastEnds \/ UNCHANGED vars
           \/ \E s \in Senders, c \in Conns : Deliver(s, c)
  <2>1. UNCHANGED <<players, pid, sock, starts, lobby>>
    BY <1>4 DEF Closer, RemoveMailbox, AnnounceLeft, LeftAnnounced, Publish, CloserUnchanged,
                GameBroadcast, GameBroadcastEnds, GameUnchanged, LobbyUnchanged, Deliver,
                acceptVars, queueVars, lobbyVars, vars
  <2>2. QED
    BY <2>1, QuietRoster DEF Begun
<1>5. CASE Enable \/ Subscribe \/ CountPlayers \/ \E q \in Queues : ReceiveLagged(q)
  <2>1. UNCHANGED <<players, pid, sock, starts>> /\ Begun' = Begun
    BY <1>5 DEF Enable, Subscribe, CountPlayers, ReceiveLagged, LobbyUnchanged, acceptVars,
                queueVars, Begun
  <2>2. QED
    BY <2>1, QuietRoster
<1>6. CASE ReceiveConnection
  BY <1>6, ReceiveConnectionRoster
<1>7. CASE ReceiveStart \/ CheckFull \/ Close
  BY <1>7, DecisionRoster
<1>8. ASSUME NEW c \in Conns, Connect(c)  PROVE RosterStep
  <2>1. /\ UNCHANGED <<players, pid, starts, lobby>> /\ pid[c] = None
        /\ sock' = [sock EXCEPT ![c] = "open"]
    BY <1>8 DEF Connect, LobbyInv, ConnInv, queueVars, lobbyVars
  <2>2. \A i \in Conns : i # c => sock'[i] = sock[i]
    BY <2>1 DEF LobbyInv, TypeOK
  <2>3. /\ Known' = Known /\ Left' = Left /\ Range(starts') = Range(starts)
        /\ Begun' = Begun
    BY <2>1, <2>2, LobbyAssumption DEF Known, Left, NeverRejoined, Begun
  <2>4. QED
    BY <2>1, <2>3, RosterUnchanged
<1>9. ASSUME NEW c \in Conns, Disconnect(c) \/ Finish(c)  PROVE RosterStep
  <2>1. /\ UNCHANGED <<players, pid, starts, lobby>>
        /\ sock' = [sock EXCEPT ![c] = "closed"]
    BY <1>9 DEF Disconnect, Finish, TaskUnchanged, queueVars, lobbyVars
  <2>2. QED
    BY <2>1, SocketCloses
<1>10. ASSUME NEW c \in Conns, RequestStart(c)  PROVE RosterStep
  <2>1. UNCHANGED <<players, pid, sock, lobby>>
    BY <1>10 DEF RequestStart, acceptVars, lobbyVars
  <2>2. /\ pid[c] \in Known /\ pid[c] \in Range(starts')
        /\ Range(starts') \subseteq Range(starts) \union {pid[c]}
    <3>1. /\ pid[c] # None /\ pid[c] \in Conns
          /\ starts \in Seq(Conns) /\ Len(starts) <= PROCESSING_CAPACITY
      BY <1>10 DEF RequestStart, LobbyInv, ConnInv, TypeOK, NoneOr
    <3>2. starts' = Offer(starts, pid[c])
      BY <1>10 DEF RequestStart
    <3>3. QED
      BY <3>1, <3>2, Offered DEF IdsInv, Known
  <2>3. QED
    BY <2>1, <2>2, SameIds, RosterAsk DEF Begun
<1>11. ASSUME NEW c \in Conns, Write(c) \/ Watch(c)  PROVE RosterStep
  <2>1. UNCHANGED <<players, pid, sock, starts, lobby>>
    BY <1>11 DEF Write, Watch, TaskUnchanged, queueVars, lobbyVars
  <2>2. QED
    BY <2>1, QuietRoster DEF Begun
<1>12. QED
  BY <1>1, <1>2, <1>3, <1>4, <1>5, <1>6, <1>7, <1>8, <1>9, <1>10, <1>11
  DEF Next, Acceptor, LobbyRun

\* The acceptor (client.rs), the closer and the lobby (lobby.rs) together keep
\* the promises of Roster: players are listed in the order they came under ids
\* nobody had before, only those that left are taken out and only before the
\* game begins, and it begins with enough of them, when the first asked for it
\* or everybody is there.
THEOREM LobbyImplementsRoster == Spec => RosterSpec
<1>1. LobbyInv /\ IdsInv /\ [Next]_vars =>
        [PlayersRoster!Next]_(PlayersRoster!rosterVars)
  BY NextRoster DEF RosterStep
<1>2. QED
  BY <1>1, InitInv, Inductive, InitIds, NextIds, RosterInit, PTL
     DEF Spec, RosterSpec, PlayersRoster!Spec

=============================================================================
