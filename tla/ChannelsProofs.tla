---------------------------- MODULE ChannelsProofs ----------------------------
(***************************************************************************)
(* Proof that Channels implements Bus, for any number of connections and   *)
(* players, any assignment of the one to the other and mailboxes of any    *)
(* size: no event is lost or given twice while calls of several tasks      *)
(* overlap, players come, go and come back, and the game is cancelled.     *)
(***************************************************************************)
EXTENDS Channels, TLAPS

-----------------------------------------------------------------------------
(* The inductive invariant. *)

\* A call in progress is where its stage says, and whoever it owes its event
\* is there and will get it.
CallInv ==
  \A k \in Callers :
    /\ stage[k] = "none" => call[k] = NoRequest
    /\ stage[k] \in {"spawned", "sending"} => call[k].op \in Sends
    /\ stage[k] # "sending" => given[k] = {} /\ todo[k] = {}
    /\ stage[k] = "sending" => owed[k] \subseteq todo[k]
    /\ todo[k] \subseteq Addressees(call[k]) \ given[k]
    /\ owed[k] \subseteq Addressees(call[k]) \intersect Members

\* Every caller waits at most once in the channel of the aggregator.
QueueInv ==
  \A i \in 1..Len(out) :
    /\ stage[out[i]] = "queued"
    /\ \A j \in 1..Len(out) : out[i] = out[j] => i = j

\* A connection is not read before it is registered, and only the acceptor
\* registers one.
CallerInv ==
  /\ pc["acceptor"] \in {"announce", "register"} => busy \in Conns /\ task[busy] = "none"
  /\ pc["stop"] = "idle" => stage["stop"] = "none"
  /\ \A k \in Callers :
       /\ call[k].op = "Insert" => k = "acceptor" /\ pc["acceptor"] = "register"
       /\ call[k].op \in {"Insert", "Remove"} => call[k].id \in Ids

ChannelsInv == TypeOK /\ CallInv /\ QueueInv /\ CallerInv

-----------------------------------------------------------------------------
(* Lemmas about calls. *)

LEMMA MembersUnchanged ==
  ASSUME UNCHANGED mapVars,
         \A c \in Conns : task'[c] = "ended" <=> task[c] = "ended"
  PROVE  Members' = Members
BY DEF Members, Closed, mapVars

\* A new call is queued behind the others, and is the beginning of a call of
\* the bus if it sends an event.
LEMMA CallStep ==
  ASSUME ChannelsInv, NEW k \in Callers, NEW r \in Request,
         stage[k] = "none", Call(k, r), Members' = Members, idOf' = idOf
  PROVE  /\ call' \in [Callers -> Request]
         /\ stage' \in [Callers -> {"none", "queued", "spawned", "sending"}]
         /\ out' \in Seq(Callers)
         /\ owed' \in [Callers -> SUBSET Conns]
         /\ \A j \in Callers \ {k} : call'[j] = call[j] /\ stage'[j] = stage[j]
         /\ call'[k] = r
         /\ CallInv'
         /\ QueueInv'
<1> USE DEF ChannelsInv, TypeOK, Call
<1>1. /\ call' \in [Callers -> Request]
      /\ stage' \in [Callers -> {"none", "queued", "spawned", "sending"}]
      /\ out' \in Seq(Callers)
      /\ Addressees(r) \subseteq Conns
  BY DEF Addressees
<1>2. owed' \in [Callers -> SUBSET Conns]
  BY <1>1
<1>3. /\ \A j \in Callers \ {k} :
           /\ call'[j] = call[j] /\ stage'[j] = stage[j] /\ owed'[j] = owed[j]
      /\ call'[k] = r /\ stage'[k] = "queued"
      /\ owed'[k] = Addressees(r) \intersect Members
      /\ todo' = todo /\ given' = given
  OBVIOUS
<1>4. CallInv'
  <2> SUFFICES ASSUME NEW j \in Callers PROVE CallInv!(j)'
    BY DEF CallInv
  <2>1. CASE j = k
    <3>1. Addressees(call[j])' = Addressees(r)
      BY <1>3, <2>1 DEF Addressees
    <3> QED  BY <1>1, <1>3, <2>1, <3>1 DEF CallInv
  <2>2. CASE j # k
    <3>1. Addressees(call[j])' = Addressees(call[j])
      BY <1>3, <2>2 DEF Addressees
    <3> QED  BY <1>3, <2>2, <3>1 DEF CallInv
  <2> QED  BY <2>1, <2>2
<1>5. QueueInv'
  <2>1. /\ Len(out') = Len(out) + 1 /\ Len(out) \in Nat
        /\ \A i \in 1..Len(out) : out'[i] = out[i] /\ out[i] \in Callers
        /\ out'[Len(out) + 1] = k
    OBVIOUS
  <2>2. \A i \in 1..Len(out) : out[i] # k
    BY DEF QueueInv
  <2>3. \A i \in 1..Len(out) : stage'[out'[i]] = "queued"
    BY <1>3, <2>1, <2>2 DEF QueueInv
  <2>4. \A i, j \in 1..Len(out) : out'[i] = out'[j] => i = j
    BY <2>1 DEF QueueInv
  <2>5. stage'[k] = "queued"
    BY <1>3
  <2> HIDE DEF ChannelsInv, TypeOK, Call
  <2>6. \A i, j \in 1..(Len(out) + 1) : out'[i] = out'[j] => i = j
    BY <2>1, <2>2, <2>4
  <2> QED  BY <2>1, <2>3, <2>5, <2>6 DEF QueueInv
<1> QED  BY <1>1, <1>2, <1>3, <1>4, <1>5

\* The aggregator takes the first request, which is nowhere else in the queue.
LEMMA TakenStep ==
  ASSUME ChannelsInv, NEW op, Taken(op)
  PROVE  /\ Head(out) \in Callers
         /\ stage[Head(out)] = "queued"
         /\ call[Head(out)].op \in op
         /\ out' \in Seq(Callers)
         /\ \A i \in 1..Len(out') : out'[i] # Head(out) /\ stage[out'[i]] = "queued"
         /\ \A i, j \in 1..Len(out') : out'[i] = out'[j] => i = j
<1> USE DEF ChannelsInv, TypeOK
<1>1. out \in Seq(Callers) /\ out # <<>> /\ out' = Tail(out)
  BY DEF Taken
<1>2. /\ Len(out) \in Nat \ {0} /\ Head(out) = out[1]
      /\ out' \in Seq(Callers) /\ Len(out') = Len(out) - 1
      /\ \A i \in 1..Len(out') : out'[i] = out[i + 1] /\ i + 1 \in 1..Len(out)
      /\ Head(out) \in Callers
  BY <1>1
<1>3. \A i, j \in 1..Len(out) : stage[out[i]] = "queued" /\ (out[i] = out[j] => i = j)
  BY DEF QueueInv
<1>4. \A i \in 1..Len(out') : out'[i] # Head(out) /\ stage[out'[i]] = "queued"
  BY <1>2, <1>3
<1>5. \A i, j \in 1..Len(out') : out'[i] = out'[j] => i = j
  BY <1>2, <1>3
<1>6. stage[Head(out)] = "queued" /\ call[Head(out)].op \in op
  BY <1>2, <1>3 DEF Taken
<1> QED  BY <1>2, <1>4, <1>5, <1>6

-----------------------------------------------------------------------------
(* Every step preserves the invariant. *)

LEMMA Requests ==
  /\ Req("All", None) \in Request
  /\ \A i \in Ids : Req("One", i) \in Request /\ Req("Insert", i) \in Request
                    /\ Req("Remove", i) \in Request
  /\ NoRequest \in Request /\ NoRequest.op = "None"
  /\ \A op, id : Req(op, id).op = op /\ Req(op, id).id = id
BY DEF Req, NoRequest, Request, NoneOr, Sends

LEMMA InitInv == Init => ChannelsInv
<1> SUFFICES ASSUME Init PROVE ChannelsInv
  OBVIOUS
<1>1. NoRequest \in Request /\ NoRequest.op = "None"
  BY Requests
<1>2. TypeOK
  BY <1>1, ChannelsAssumption DEF Init, TypeOK, NoneOr
<1>3. CallInv /\ QueueInv /\ CallerInv
  BY <1>1 DEF Init, CallInv, QueueInv, CallerInv, Callers
<1> QED  BY <1>2, <1>3 DEF ChannelsInv

LEMMA IdleCall ==
  ASSUME ChannelsInv, NEW k \in Callers, stage[k] = "none"
  PROVE  call[k] = NoRequest /\ call[k].op = "None"
BY Requests DEF ChannelsInv, CallInv

Calling ==
  \/ \E c \in Conns : Accept(c)
  \/ Register \/ Enter \/ Unregister \/ AnnounceLeft \/ GameCall \/ EndGame

\* Each of these steps begins one call, of a caller whose last one returned.
LEMMA CallersCall ==
  ASSUME ChannelsInv, Calling
  PROVE  /\ Members' = Members /\ idOf' = idOf
         /\ \E k \in Callers, r \in Request :
              /\ stage[k] = "none" /\ Call(k, r)
              /\ \/ r = Req("All", None)
                 \/ \E i \in Ids : r = Req("One", i)
                 \/ r.op \notin Sends
<1> USE ChannelsAssumption, Requests DEF ChannelsInv, TypeOK, Callers
<1>1. ASSUME NEW c \in Conns, Accept(c)
      PROVE  Members' = Members /\ stage["acceptor"] = "none" /\ Call("acceptor", Req("All", None))
  BY <1>1, MembersUnchanged DEF Accept, mapVars, taskVars, Returned
<1>2. ASSUME Register
      PROVE  /\ Members' = Members /\ stage["acceptor"] = "none" /\ idOf[busy] \in Ids
             /\ Call("acceptor", Req("Insert", idOf[busy]))
  BY <1>2, MembersUnchanged DEF Register, mapVars, taskVars, Returned, CallerInv
<1>3. ASSUME Enter
      PROVE  /\ Members' = Members /\ stage["acceptor"] = "none" /\ idOf[busy] \in Ids
             /\ Call("acceptor", Req("One", idOf[busy]))
  BY <1>3, MembersUnchanged DEF Enter, Returned, CallerInv
<1>4. ASSUME Unregister
      PROVE  /\ Members' = Members /\ stage["closer"] = "none" /\ Head(disconnects) \in Ids
             /\ Call("closer", Req("Remove", Head(disconnects)))
  BY <1>4, MembersUnchanged DEF Unregister, Returned
<1>5. ASSUME AnnounceLeft
      PROVE  Members' = Members /\ stage["closer"] = "none" /\ Call("closer", Req("All", None))
  BY <1>5, MembersUnchanged DEF AnnounceLeft, mapVars, taskVars, Returned
<1>6. ASSUME GameCall
      PROVE  /\ Members' = Members /\ stage["main"] = "none"
             /\ \E r \in {Req("All", None)} \union {Req("One", i) : i \in Ids} : Call("main", r)
  BY <1>6, MembersUnchanged DEF GameCall, mapVars, taskVars, Returned
<1>7. ASSUME EndGame
      PROVE  Members' = Members /\ stage["stop"] = "none" /\ Call("stop", Req("All", None))
  BY <1>7, MembersUnchanged DEF EndGame, mapVars, taskVars, CallerInv
<1>8. \A i \in Ids : Req("Insert", i).op \notin Sends /\ Req("Remove", i).op \notin Sends
  BY DEF Sends
<1>9. idOf' = idOf
  BY DEF Calling, Accept, Register, Enter, Unregister, AnnounceLeft, GameCall, EndGame, mapVars
<1> QED  BY <1>1, <1>2, <1>3, <1>4, <1>5, <1>6, <1>7, <1>8, <1>9 DEF Calling

LEMMA CallingInv ==
  ASSUME ChannelsInv, Calling
  PROVE  ChannelsInv'
<1>1. PICK k \in Callers, r \in Request :
        stage[k] = "none" /\ Call(k, r) /\ Members' = Members /\ idOf' = idOf
  BY CallersCall
<1>2. /\ call' \in [Callers -> Request]
      /\ stage' \in [Callers -> {"none", "queued", "spawned", "sending"}]
      /\ out' \in Seq(Callers)
      /\ owed' \in [Callers -> SUBSET Conns]
      /\ \A j \in Callers \ {k} : call'[j] = call[j] /\ stage'[j] = stage[j]
      /\ call'[k] = r
      /\ CallInv' /\ QueueInv'
  BY <1>1, CallStep
<1>3. TypeOK /\ CallerInv
  BY DEF ChannelsInv
<1>4. todo' = todo /\ given' = given /\ idOf' = idOf
  BY <1>1 DEF Call
<1> USE ChannelsAssumption, Requests, <1>2, <1>3, <1>4 DEF Callers, TypeOK
<1>5. ASSUME NEW c \in Conns, Accept(c)  PROVE TypeOK' /\ CallerInv'
  <2>1. TypeOK'
    BY <1>5 DEF Accept, Goto, mapVars, taskVars, NoneOr
  <2>2. CallerInv'
    BY <1>5 DEF CallerInv, Accept, Goto, mapVars, taskVars, Call
  <2> QED  BY <2>1, <2>2
<1>6. ASSUME Register  PROVE TypeOK' /\ CallerInv'
  <2>1. TypeOK'
    BY <1>6 DEF Register, Goto, mapVars, taskVars
  <2>2. idOf[busy] \in Ids
    BY <1>6 DEF CallerInv, Register
  <2>3. CallerInv'
    BY <1>6, <2>2 DEF CallerInv, Register, Goto, mapVars, taskVars, Call
  <2> QED  BY <2>1, <2>3
<1>7. ASSUME Enter  PROVE TypeOK' /\ CallerInv'
  <2>1. TypeOK'
    BY <1>7 DEF Enter, Goto, mapVars
  <2>2. \A j \in Callers : call[j].op # "Insert"
    BY <1>7, IdleCall DEF CallerInv, Enter, Returned
  <2>3. CallerInv'
    BY <1>7, <2>2 DEF CallerInv, Enter, Goto, Call
  <2> QED  BY <2>1, <2>3
<1>8. ASSUME Unregister  PROVE TypeOK' /\ CallerInv'
  <2>1. TypeOK'
    BY <1>8 DEF Unregister, Goto, mapVars
  <2>2. Head(disconnects) \in Ids
    BY <1>8 DEF Unregister
  <2>3. CallerInv'
    BY <1>8, <2>2 DEF CallerInv, Unregister, Goto, Call
  <2> QED  BY <2>1, <2>3
<1>9. ASSUME AnnounceLeft  PROVE TypeOK' /\ CallerInv'
  <2>1. TypeOK'
    BY <1>9 DEF AnnounceLeft, Goto, mapVars, taskVars
  <2>2. CallerInv'
    BY <1>9 DEF CallerInv, AnnounceLeft, Goto, mapVars, taskVars, Call
  <2> QED  BY <2>1, <2>2
<1>10. ASSUME GameCall  PROVE TypeOK' /\ CallerInv'
  <2>1. TypeOK'
    BY <1>10 DEF GameCall, mapVars, taskVars
  <2>2. CallerInv'
    BY <1>10 DEF CallerInv, GameCall, mapVars, taskVars, Call
  <2> QED  BY <2>1, <2>2
<1>11. ASSUME EndGame  PROVE TypeOK' /\ CallerInv'
  <2>1. TypeOK'
    BY <1>11 DEF EndGame, Goto, mapVars, taskVars
  <2>2. CallerInv'
    BY <1>11 DEF CallerInv, EndGame, Goto, mapVars, taskVars, Call
  <2> QED  BY <2>1, <2>2
<1> QED
  BY <1>5, <1>6, <1>7, <1>8, <1>9, <1>10, <1>11 DEF Calling, ChannelsInv

\* Whoever is not let go remains a member when a mailbox is replaced.
LEMMA InsertedMembers ==
  ASSUME ChannelsInv, InsertMailbox
  PROVE  /\ Members \ {mailbox[idOf[busy]]} \subseteq Members'
         /\ mailbox' \in [Ids -> NoneOr(Conns)] /\ idOf' = idOf
<1>1. busy \in Conns
  BY TakenStep DEF ChannelsInv, CallerInv, InsertMailbox
<1> QED
  BY <1>1, ChannelsAssumption
  DEF ChannelsInv, TypeOK, Members, Closed, InsertMailbox, mapVars, taskVars, NoneOr

LEMMA RemovedMembers ==
  ASSUME ChannelsInv, RemoveMailbox
  PROVE  /\ Members \ {mailbox[call[Head(out)].id]} \subseteq Members'
         /\ mailbox' \in [Ids -> NoneOr(Conns)] /\ idOf' = idOf
<1>1. call[Head(out)].id \in Ids
  BY TakenStep DEF ChannelsInv, CallerInv, RemoveMailbox
<1> QED
  BY <1>1, ChannelsAssumption
  DEF ChannelsInv, TypeOK, Members, Closed, RemoveMailbox, mapVars, taskVars, NoneOr

LEMMA AggregatorInv ==
  ASSUME ChannelsInv, Aggregator
  PROVE  ChannelsInv'
<1> USE Requests DEF ChannelsInv
<1>1. ASSUME NEW gone, NEW op, Taken(op), Forget({gone}), Acknowledge(Head(out)),
             Members \ {gone} \subseteq Members', mailbox' \in [Ids -> NoneOr(Conns)],
             idOf' = idOf,
             op \intersect Sends = {},
             UNCHANGED <<programVars, todo, taskVars>>
      PROVE  ChannelsInv'
  <2>1. /\ Head(out) \in Callers /\ stage[Head(out)] = "queued"
        /\ out' \in Seq(Callers)
        /\ \A i \in 1..Len(out') : out'[i] # Head(out) /\ stage[out'[i]] = "queued"
        /\ \A i, j \in 1..Len(out') : out'[i] = out'[j] => i = j
        /\ call[Head(out)].op \notin Sends
    BY <1>1, TakenStep
  <2>2. TypeOK'
    BY <1>1, <2>1 DEF TypeOK, Forget, Acknowledge, programVars, mapVars, taskVars
  <2>3. CallInv'
    <3> SUFFICES ASSUME NEW j \in Callers PROVE CallInv!(j)'
      BY DEF CallInv
    <3>1. owed'[j] = owed[j] \ {gone} /\ todo'[j] = todo[j]
      BY <1>1 DEF Forget
    <3>2. CASE j = Head(out)
      <4>1. stage'[j] = "none" /\ call'[j] = NoRequest /\ given'[j] = {}
        BY <1>1, <3>2, <2>1 DEF Acknowledge, TypeOK
      <4>2. Addressees(call[j]) = {} /\ todo[j] = {}
        BY <2>1, <3>2 DEF Addressees, CallInv, Sends
      <4> QED  BY <3>1, <4>1, <4>2 DEF CallInv
    <3>3. CASE j # Head(out)
      <4>1. stage'[j] = stage[j] /\ call'[j] = call[j] /\ given'[j] = given[j]
        BY <1>1, <3>3 DEF Acknowledge, TypeOK
      <4>2. Addressees(call[j])' = Addressees(call[j])
        BY <4>1 DEF Addressees
      <4> QED  BY <1>1, <3>1, <4>1, <4>2 DEF CallInv
    <3> QED  BY <3>2, <3>3
  <2>4. QueueInv'
    BY <1>1, <2>1 DEF QueueInv, Acknowledge, TypeOK
  <2>5. CallerInv'
    BY <1>1, <2>1 DEF CallerInv, Acknowledge, TypeOK, programVars, mapVars, taskVars, Callers
  <2> QED  BY <2>2, <2>3, <2>4, <2>5
<1>2. ASSUME InsertMailbox  PROVE ChannelsInv'
  BY <1>1, <1>2, InsertedMembers DEF InsertMailbox, Sends
<1>3. ASSUME RemoveMailbox  PROVE ChannelsInv'
  BY <1>1, <1>3, RemovedMembers DEF RemoveMailbox, Sends
<1>4. ASSUME Spawn  PROVE ChannelsInv'
  <2>1. /\ Head(out) \in Callers /\ stage[Head(out)] = "queued"
        /\ out' \in Seq(Callers)
        /\ \A i \in 1..Len(out') : out'[i] # Head(out) /\ stage[out'[i]] = "queued"
        /\ \A i, j \in 1..Len(out') : out'[i] = out'[j] => i = j
        /\ call[Head(out)].op \in Sends
    BY <1>4, TakenStep DEF Spawn
  <2>2. Members' = Members
    BY <1>4, MembersUnchanged DEF Spawn, mapVars, taskVars
  <2>3. TypeOK'
    BY <1>4, <2>1 DEF TypeOK, Spawn, programVars, mapVars, taskVars, eventVars
  <2>4. CallInv'
    BY <1>4, <2>1, <2>2 DEF CallInv, Spawn, TypeOK, eventVars, Addressees, mapVars
  <2>5. QueueInv'
    BY <1>4, <2>1 DEF QueueInv, Spawn, TypeOK
  <2>6. CallerInv'
    BY <1>4, <2>1 DEF CallerInv, Spawn, TypeOK, programVars, mapVars, taskVars, Callers
  <2> QED  BY <2>3, <2>4, <2>5, <2>6
<1> QED  BY <1>2, <1>3, <1>4 DEF Aggregator

LEMMA SendingInv ==
  ASSUME ChannelsInv, NEW k \in Callers,
         ReadMap(k) \/ FinishSend(k) \/ \E c \in Conns : Deliver(k, c)
  PROVE  ChannelsInv'
<1> USE Requests, ChannelsAssumption DEF ChannelsInv
<1>0. Members' = Members
  BY MembersUnchanged DEF ReadMap, FinishSend, Deliver, mapVars, taskVars
<1>1. \A i \in 1..Len(out) : out[i] \in Callers
  BY DEF TypeOK
<1>2. ASSUME ReadMap(k)  PROVE ChannelsInv'
  <2>1. TypeOK'
    BY <1>2 DEF TypeOK, ReadMap, Members, programVars, mapVars, taskVars, eventVars
  <2>2. CallInv'
    BY <1>0, <1>2 DEF CallInv, ReadMap, TypeOK, eventVars, Addressees, mapVars
  <2>3. QueueInv' /\ CallerInv'
    BY <1>1, <1>2 DEF QueueInv, CallerInv, ReadMap, TypeOK, programVars, mapVars, taskVars, Callers
  <2> QED  BY <2>1, <2>2, <2>3
<1>3. ASSUME FinishSend(k)  PROVE ChannelsInv'
  <2>1. TypeOK'
    BY <1>3 DEF TypeOK, FinishSend, Acknowledge, programVars, mapVars, taskVars, eventVars
  <2>2. CallInv'
    BY <1>0, <1>3 DEF CallInv, FinishSend, Acknowledge, TypeOK, Addressees, mapVars
  <2>3. QueueInv' /\ CallerInv'
    BY <1>1, <1>3
    DEF QueueInv, CallerInv, FinishSend, Acknowledge, TypeOK, programVars, mapVars, taskVars, Callers
  <2> QED  BY <2>1, <2>2, <2>3
<1>4. ASSUME NEW c \in Conns, Deliver(k, c)  PROVE ChannelsInv'
  <2>0. \/ /\ given' = [given EXCEPT ![k] = @ \union {c}]
           /\ owed' = [owed EXCEPT ![k] = @ \ {c}]
        \/ c \in Closed /\ given' = given /\ owed' = owed
    BY <1>4 DEF Deliver
  <2>1. TypeOK'
    <3>1. held' \in [Conns -> 0..MailboxCap]
      BY <1>4 DEF TypeOK, Deliver, mapVars
    <3>2. given' \in [Callers -> SUBSET Conns] /\ owed' \in [Callers -> SUBSET Conns]
      <4>1. given \in [Callers -> SUBSET Conns] /\ owed \in [Callers -> SUBSET Conns]
        BY DEF TypeOK
      <4>2. given[k] \union {c} \in SUBSET Conns /\ owed[k] \ {c} \in SUBSET Conns
        BY <4>1
      <4> QED  BY <2>0, <4>1, <4>2
    <3>3. todo' \in [Callers -> SUBSET Conns]
      BY <1>4 DEF TypeOK, Deliver
    <3> QED  BY <1>4, <3>1, <3>2, <3>3 DEF TypeOK, Deliver, programVars, mapVars
  <2>2. stage[k] = "sending"
    BY <1>4 DEF CallInv, Deliver
  <2>3. \/ c \notin Members /\ given' = given /\ owed' = owed
        \/ /\ given' = [given EXCEPT ![k] = @ \union {c}]
           /\ owed' = [owed EXCEPT ![k] = @ \ {c}]
    BY <2>0 DEF Members
  <2>4. CallInv'
    BY <1>0, <1>4, <2>2, <2>3 DEF CallInv, Deliver, TypeOK, Addressees, mapVars
  <2>5. QueueInv' /\ CallerInv'
    BY <1>1, <1>4 DEF QueueInv, CallerInv, Deliver, TypeOK, programVars, Callers
  <2> QED  BY <2>1, <2>4, <2>5
<1> QED  BY <1>2, <1>3, <1>4

\* A task that ends takes its connection from the members, and nothing else.
LEMMA EndedMembers ==
  ASSUME ChannelsInv, NEW c \in Conns, EndTask(c)
  PROVE  Members' = Members \ {c}
BY DEF ChannelsInv, TypeOK, Members, Closed, EndTask, TaskUnchanged, mapVars

LEMMA EndTaskInv ==
  ASSUME ChannelsInv, NEW c \in Conns, EndTask(c), disconnects' \in Seq(Ids)
  PROVE  ChannelsInv'
<1> USE DEF ChannelsInv, EndTask, TaskUnchanged
<1>1. TypeOK'
  <2>1. held' \in [Conns -> 0..MailboxCap]
    BY ChannelsAssumption DEF TypeOK
  <2>2. owed' \in [Callers -> SUBSET Conns]
    BY DEF TypeOK, Forget
  <2> QED  BY <2>1, <2>2 DEF TypeOK, programVars, requestVars, mapVars
<1>2. CallInv'
  <2> SUFFICES ASSUME NEW j \in Callers PROVE CallInv!(j)'
    BY DEF CallInv
  <2>1. owed'[j] = owed[j] \ {c} /\ Members' = Members \ {c}
    BY EndedMembers DEF Forget
  <2>2. Addressees(call[j])' = Addressees(call[j])
    BY DEF requestVars, Addressees
  <2> QED  BY <2>1, <2>2 DEF CallInv, requestVars
<1>3. QueueInv' /\ CallerInv'
  BY DEF QueueInv, CallerInv, TypeOK, programVars, requestVars
<1> QED  BY <1>1, <1>2, <1>3

LEMMA TaskInv ==
  ASSUME ChannelsInv, Stop \/ \E c \in Conns : Write(c) \/ Leave(c) \/ RunDry(c)
  PROVE  ChannelsInv'
<1>0. TypeOK
  BY DEF ChannelsInv
<1>1. ASSUME NEW c \in Conns, Leave(c) \/ RunDry(c)  PROVE ChannelsInv'
  <2>1. Append(disconnects, idOf[c]) \in Seq(Ids) /\ disconnects \in Seq(Ids)
    BY <1>0, ChannelsAssumption DEF TypeOK
  <2> QED  BY <1>1, <2>1, EndTaskInv DEF Leave, RunDry, Report
<1>2. ASSUME NEW c \in Conns, Write(c)  PROVE ChannelsInv'
  <2>1. Members' = Members
    BY <1>2, MembersUnchanged DEF Write, TaskUnchanged
  <2>2. held' \in [Conns -> 0..MailboxCap]
    BY <1>0, <1>2, ChannelsAssumption DEF TypeOK, Write
  <2>3. TypeOK'
    BY <1>0, <1>2, <2>2 DEF TypeOK, Write, TaskUnchanged, programVars, requestVars, mapVars
  <2> QED
    BY <1>2, <2>1, <2>3
    DEF ChannelsInv, CallInv, QueueInv, CallerInv, Write, TaskUnchanged, programVars,
        requestVars, Addressees, mapVars
<1>3. ASSUME Stop  PROVE ChannelsInv'
  <2>1. Members' = Members
    BY <1>3, MembersUnchanged DEF Stop, mapVars, taskVars
  <2>2. TypeOK'
    BY <1>0, <1>3 DEF TypeOK, Stop, Goto, requestVars, mapVars, taskVars, eventVars
  <2>3. CallInv' /\ QueueInv'
    BY <1>3, <2>1 DEF ChannelsInv, CallInv, QueueInv, Stop, requestVars, eventVars, Addressees, mapVars
  <2>4. CallerInv'
    BY <1>0, <1>3 DEF ChannelsInv, CallerInv, TypeOK, Stop, Goto, requestVars, mapVars, taskVars, Callers
  <2> QED  BY <2>2, <2>3, <2>4 DEF ChannelsInv
<1> QED  BY <1>1, <1>2, <1>3

LEMMA StutterInv == ASSUME ChannelsInv, UNCHANGED vars  PROVE ChannelsInv'
BY DEF ChannelsInv, TypeOK, CallInv, QueueInv, CallerInv, Addressees, Members, Closed, vars,
       programVars, requestVars, taskVars, eventVars, mapVars

\* What a step can be, in the groups of the lemmas above.
LEMMA Steps ==
  ASSUME Next
  PROVE  \/ Calling
         \/ Aggregator
         \/ \E k \in Callers :
              ReadMap(k) \/ FinishSend(k) \/ \E c \in Conns : Deliver(k, c)
         \/ Stop \/ \E c \in Conns : Write(c) \/ Leave(c) \/ RunDry(c)
BY DEF Next, Runtime, ClientsAct, ClientsRead, Calling

\* The channels keep their types and the invariant above: no mailbox is ever
\* filled beyond its capacity (tokio's bounded channels, channels.rs:197), and
\* whoever is owed an event is still on the list of the send that carries it.
THEOREM ChannelsSafe == Spec => []TypeOK /\ []ChannelsInv
<1>1. ChannelsInv /\ [Next]_vars => ChannelsInv'
  BY Steps, CallingInv, AggregatorInv, SendingInv, TaskInv, StutterInv
<1>2. ChannelsInv => TypeOK
  BY DEF ChannelsInv
<1> QED  BY InitInv, <1>1, <1>2, PTL DEF Spec

-----------------------------------------------------------------------------
(* Every step is a step of the bus. *)

BusCallers == {k \in Callers : call[k].op \in Sends}
Open == [k \in Callers |-> Addressees(call[k]) \ given[k]]

LEMMA InitBus == Init => TheBus!Init
<1> SUFFICES ASSUME Init PROVE TheBus!Init
  OBVIOUS
<1>1. \A k \in Callers : call[k].op = "None" /\ Addressees(call[k]) = {} /\ given[k] = {}
  BY Requests DEF Init, Addressees
<1>2. Members = {}
  BY ChannelsAssumption DEF Init, Members
<1>3. BusCallers = {} /\ Open = [k \in Callers |-> {}]
  BY <1>1 DEF BusCallers, Open, Sends
<1> QED  BY <1>2, <1>3 DEF Init, TheBus!Init, BusCallers, Open

LEMMA PlayersGroup ==
  ASSUME ChannelsInv, NEW i \in Ids
  PROVE  {c \in Conns : idOf[c] = i} \in Groups
<1>1. idOf \in Joins
  BY DEF ChannelsInv, TypeOK
<1> DEFINE S == {c \in Conns : idOf[c] = i}
<1>2. S \in SUBSET Conns
  OBVIOUS
<1>3. \E f \in Joins, j \in Ids : S = {c \in Conns : f[c] = j}
  BY <1>1
<1> HIDE DEF S
<1>4. S \in Groups
  BY <1>2, <1>3 DEF Groups
<1> QED  BY <1>4 DEF S

LEMMA CallingBus ==
  ASSUME ChannelsInv, Calling
  PROVE  [TheBus!Next]_TheBus!busVars
<1>1. PICK k \in Callers, r \in Request :
        /\ stage[k] = "none" /\ Call(k, r) /\ Members' = Members /\ idOf' = idOf
        /\ \/ r = Req("All", None)
           \/ \E i \in Ids : r = Req("One", i)
           \/ r.op \notin Sends
  BY CallersCall
<1>2. call[k] = NoRequest /\ call[k].op = "None" /\ given[k] = {} /\ Addressees(call[k]) = {}
  BY <1>1, IdleCall DEF ChannelsInv, CallInv, Addressees, Sends
<1>3. /\ call' = [call EXCEPT ![k] = r] /\ given' = given
      /\ owed' = [owed EXCEPT ![k] = Addressees(r) \intersect Members]
  BY <1>1 DEF Call
<1>4. /\ call \in [Callers -> Request] /\ owed \in [Callers -> SUBSET Conns]
      /\ given \in [Callers -> SUBSET Conns]
  BY DEF ChannelsInv, TypeOK
<1>5. \A j \in Callers : j # k => Addressees(call[j])' = Addressees(call[j])
  BY <1>1, <1>3, <1>4 DEF Addressees
<1>6. Addressees(call[k])' = Addressees(r) /\ call'[k] = r
  BY <1>1, <1>3, <1>4 DEF Addressees
<1>7. Open' = [Open EXCEPT ![k] = Addressees(r)]
  BY <1>2, <1>3, <1>4, <1>5, <1>6 DEF Open
<1>8. CASE r.op \notin Sends
  <2>1. Addressees(r) = {} /\ owed[k] = {}
    BY <1>2, <1>8 DEF Addressees, Sends, ChannelsInv, CallInv
  <2>2. owed' = owed
    BY <1>3, <1>4, <2>1
  <2>3. Open' = Open
    BY <1>2, <1>7, <2>1 DEF Open
  <2>4. BusCallers' = BusCallers
    BY <1>2, <1>3, <1>4, <1>8 DEF BusCallers, Sends
  <2> QED  BY <1>1, <2>2, <2>3, <2>4 DEF TheBus!busVars, Open, BusCallers
<1>9. CASE r.op \in Sends
  <2>1. /\ k \notin BusCallers
        /\ BusCallers' = BusCallers \union {k}
    BY <1>2, <1>3, <1>4, <1>9 DEF BusCallers, Sends
  <2>2. Addressees(r) \in Groups
    <3>1. CASE r = Req("All", None)
      <4>1. r.op = "All"
        BY <3>1, Requests
      <4> QED  BY <4>1 DEF Addressees, Groups
    <3>2. CASE \E i \in Ids : r = Req("One", i)
      <4>1. PICK i \in Ids : r = Req("One", i)
        BY <3>2
      <4>2. Addressees(r) = {c \in Conns : idOf[c] = i}
        BY <4>1, Requests DEF Addressees
      <4> QED  BY <4>2, PlayersGroup
    <3>3. r = Req("All", None) \/ \E i \in Ids : r = Req("One", i)
      BY <1>1, <1>9
    <3> QED  BY <3>1, <3>2, <3>3
  <2>3. PICK S \in Groups : S = Addressees(r)
    BY <2>2
  <2>4. TheBus!Begin(k, S)
    BY <1>1, <1>3, <1>7, <2>1, <2>3 DEF TheBus!Begin, Open, BusCallers
  <2> QED  BY <2>4 DEF TheBus!Next
<1> QED  BY <1>8, <1>9

\* What the requests in progress send, and to whom, does not depend on more
\* than the requests and on who has the event.
LEMMA OpenUnchanged ==
  ASSUME call' = call, given' = given, idOf' = idOf
  PROVE  BusCallers' = BusCallers /\ Open' = Open
BY DEF BusCallers, Open, Addressees

LEMMA AggregatorBus ==
  ASSUME ChannelsInv, Aggregator
  PROVE  [TheBus!Next]_TheBus!busVars
<1>1. ASSUME NEW gone, NEW op, Taken(op), Forget({gone}), Acknowledge(Head(out)),
             Members \ {gone} \subseteq Members', op \intersect Sends = {}, idOf' = idOf
      PROVE  [TheBus!Next]_TheBus!busVars
  <2>1. /\ Head(out) \in Callers /\ stage[Head(out)] = "queued"
        /\ call[Head(out)].op \notin Sends
    BY <1>1, TakenStep
  <2>2. /\ call \in [Callers -> Request] /\ owed \in [Callers -> SUBSET Conns]
        /\ given \in [Callers -> SUBSET Conns] /\ given[Head(out)] = {}
    BY <2>1 DEF ChannelsInv, TypeOK, CallInv
  <2>3. /\ call' = [call EXCEPT ![Head(out)] = NoRequest]
        /\ given' = given
    BY <1>1, <2>2 DEF Acknowledge
  <2>4. BusCallers' = BusCallers
    BY <2>1, <2>2, <2>3, Requests DEF BusCallers, Sends
  <2>5. \A k \in Callers : Addressees(call[k])' = Addressees(call[k])
    <3> SUFFICES ASSUME NEW k \in Callers
                 PROVE  Addressees(call[k])' = Addressees(call[k])
      OBVIOUS
    <3>1. CASE k = Head(out)
      <4>1. call'[k].op = "None" /\ call[k].op \notin {"All", "One"}
        BY <2>1, <2>2, <2>3, <3>1, Requests DEF Sends
      <4> QED  BY <4>1 DEF Addressees
    <3>2. CASE k # Head(out)
      BY <1>1, <2>2, <2>3, <3>2 DEF Addressees
    <3> QED  BY <3>1, <3>2
  <2>6. Open' = Open
    BY <2>3, <2>5 DEF Open
  <2>7. /\ Members' = (Members \ ({gone} \intersect Conns)) \union Members'
        /\ owed' = [k \in Callers |-> owed[k] \ ({gone} \intersect Conns)]
    BY <1>1, <2>2 DEF Forget, Members
  <2>8. Members' \in SUBSET Conns /\ {gone} \intersect Conns \in SUBSET Conns
    BY DEF Members
  <2>9. TheBus!Change(Members', {gone} \intersect Conns)
    BY <2>4, <2>6, <2>7 DEF TheBus!Change, BusCallers, Open
  <2> QED  BY <2>8, <2>9 DEF TheBus!Next
<1>2. ASSUME InsertMailbox  PROVE [TheBus!Next]_TheBus!busVars
  BY <1>1, <1>2, InsertedMembers DEF InsertMailbox, Sends
<1>3. ASSUME RemoveMailbox  PROVE [TheBus!Next]_TheBus!busVars
  BY <1>1, <1>3, RemovedMembers DEF RemoveMailbox, Sends
<1>4. ASSUME Spawn  PROVE UNCHANGED TheBus!busVars
  BY <1>4, OpenUnchanged, MembersUnchanged
  DEF Spawn, mapVars, taskVars, eventVars, TheBus!busVars, BusCallers, Open
<1> QED  BY <1>2, <1>3, <1>4 DEF Aggregator

LEMMA SendingBus ==
  ASSUME ChannelsInv, NEW k \in Callers,
         ReadMap(k) \/ FinishSend(k) \/ \E c \in Conns : Deliver(k, c)
  PROVE  [TheBus!Next]_TheBus!busVars
<1>0. Members' = Members
  BY MembersUnchanged DEF ReadMap, FinishSend, Deliver, mapVars, taskVars
<1>1. /\ call \in [Callers -> Request] /\ owed \in [Callers -> SUBSET Conns]
      /\ given \in [Callers -> SUBSET Conns]
  BY DEF ChannelsInv, TypeOK
<1>2. ASSUME ReadMap(k)  PROVE UNCHANGED TheBus!busVars
  BY <1>0, <1>2, OpenUnchanged DEF ReadMap, eventVars, TheBus!busVars, BusCallers, Open, mapVars
<1>3. ASSUME FinishSend(k)  PROVE TheBus!Return(k)
  <2>1. k \in BusCallers /\ owed[k] = {}
    BY <1>3 DEF ChannelsInv, CallInv, FinishSend, BusCallers
  <2>2. /\ call' = [call EXCEPT ![k] = NoRequest]
        /\ given' = [given EXCEPT ![k] = {}]
        /\ owed' = owed
    BY <1>3 DEF FinishSend, Acknowledge
  <2>3. BusCallers' = BusCallers \ {k}
    BY <1>1, <2>1, <2>2, Requests DEF BusCallers, Sends
  <2>4. Addressees(call[k])' = {} /\ \A j \in Callers : j # k => Addressees(call[j])' = Addressees(call[j])
    BY <1>1, <1>3, <2>2, Requests DEF Addressees, FinishSend, mapVars
  <2>5. Open' = [Open EXCEPT ![k] = {}]
    BY <1>1, <2>2, <2>4 DEF Open
  <2> QED  BY <1>0, <2>1, <2>2, <2>3, <2>5 DEF TheBus!Return, BusCallers, Open
<1>4. ASSUME NEW c \in Conns, Deliver(k, c)
      PROVE  TheBus!Deliver(k, c) \/ UNCHANGED TheBus!busVars
  <2>1. CASE given' = given /\ owed' = owed
    BY <1>0, <1>4, <2>1, OpenUnchanged DEF Deliver, TheBus!busVars, BusCallers, Open, mapVars
  <2>2. CASE /\ given' = [given EXCEPT ![k] = @ \union {c}]
             /\ owed' = [owed EXCEPT ![k] = @ \ {c}]
    <3>1. c \in Open[k] /\ call' = call
      BY <1>4 DEF ChannelsInv, CallInv, Deliver, Open
    <3>2. idOf' = idOf
      BY <1>4 DEF Deliver, mapVars
    <3>3. \A j \in Callers : Addressees(call[j])' = Addressees(call[j])
      BY <3>1, <3>2 DEF Addressees
    <3>4. Open' = [Open EXCEPT ![k] = @ \ {c}] /\ BusCallers' = BusCallers
      BY <1>1, <2>2, <3>1, <3>3 DEF Open, BusCallers
    <3> QED
      BY <1>0, <2>2, <3>1, <3>4 DEF TheBus!Deliver, BusCallers, Open
  <2> QED  BY <1>4, <2>1, <2>2 DEF Deliver
<1> QED  BY <1>2, <1>3, <1>4 DEF TheBus!Next

LEMMA TaskBus ==
  ASSUME ChannelsInv, Stop \/ \E c \in Conns : Write(c) \/ Leave(c) \/ RunDry(c)
  PROVE  [TheBus!Next]_TheBus!busVars
<1>1. ASSUME NEW c \in Conns, EndTask(c)  PROVE TheBus!Change({}, {c})
  <2>1. BusCallers' = BusCallers /\ Open' = Open
    BY <1>1, OpenUnchanged DEF EndTask, TaskUnchanged, requestVars, mapVars
  <2> QED
    BY <1>1, <2>1, EndedMembers DEF TheBus!Change, EndTask, Forget, BusCallers, Open
<1>2. ASSUME NEW c \in Conns, Write(c)  PROVE UNCHANGED TheBus!busVars
  BY <1>2, OpenUnchanged, MembersUnchanged
  DEF Write, TaskUnchanged, requestVars, TheBus!busVars, BusCallers, Open, mapVars
<1>3. ASSUME Stop  PROVE UNCHANGED TheBus!busVars
  BY <1>3, OpenUnchanged, MembersUnchanged
  DEF Stop, requestVars, mapVars, taskVars, eventVars, TheBus!busVars, BusCallers, Open
<1>4. \A c \in Conns : {} \in SUBSET Conns /\ {c} \in SUBSET Conns
  OBVIOUS
<1> QED  BY <1>1, <1>2, <1>3, <1>4 DEF Leave, RunDry, TheBus!Next

\* The channels keep what Bus promises (channels.rs:149-211): a call that sends
\* an event returns only when everybody it was for, who was there when it
\* began and still is, has it, and nobody gets it twice or instead of another.
THEOREM ChannelsImplementBus == Spec => BusSpec
<1>1. ChannelsInv /\ [Next]_vars => [TheBus!Next]_TheBus!busVars
  <2>1. ASSUME ChannelsInv, UNCHANGED vars  PROVE UNCHANGED TheBus!busVars
    BY <2>1, OpenUnchanged, MembersUnchanged
    DEF vars, requestVars, mapVars, taskVars, eventVars, TheBus!busVars, BusCallers, Open
  <2> QED
    BY <2>1, Steps, CallingBus, AggregatorBus, SendingBus, TaskBus
<1> QED
  BY InitBus, <1>1, ChannelsSafe, PTL DEF Spec, BusSpec, TheBus!Spec

=============================================================================
