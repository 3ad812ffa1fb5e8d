--------------------------------- MODULE Router ---------------------------------
(***************************************************************************)
(* The router (router/src): accounts, tokens and the list of games, over a *)
(* transactional database on disk.  Its threads handle requests at the     *)
(* same time.  A request to register or to create a game takes several     *)
(* steps, between which others run: a free id is found in one transaction, *)
(* the row is inserted in another, the answer is sent and may be lost.  A  *)
(* request goes on when its client no longer waits, which may just send it *)
(* again.  The router may stop at any moment: what was committed is there  *)
(* when it starts again, and tokens are good for as long as they were.     *)
(*                                                                         *)
(* A read sees one committed state; a write transaction excludes all other *)
(* ones (redb).  A password is the client that knows it.  A request that   *)
(* is refused on arrival changes nothing and is no step.                   *)
(***************************************************************************)
EXTENDS Naturals

CONSTANTS
  Clients,        \* each with a password and a game server of its own
  Names,          \* of accounts
  GameIds,
  Slots,          \* bound: requests in progress at the same time
  None,
  ACCESS_EXPIRY,
  REFRESH_EXPIRY,
  Leeway,         \* the token library takes a token a little longer
  MaxTime         \* bound: of the clock

Keys == Names \union GameIds

NoneOr(S) == S \union {None}

\* Of a user, whose password it has; of a game, whose server it leads to.
Rows == [by : Clients, public : BOOLEAN]
Row(c, public) == [by |-> c, public |-> public]

\* What a request is to store, and how far it got.
Requests ==
  [stage : {"draw", "ready", "writing", "stored"}, key : NoneOr(Keys), row : Rows]

\* since: when its owner logged in, which no token tells.
Tokens == [sub : Names, exp : Nat, since : Nat]

ASSUME RouterAssumption ==
  /\ None \notin Keys \union Slots \union Rows
  /\ None \notin Requests /\ None \notin Tokens
  /\ Names \intersect GameIds = {}
  /\ {ACCESS_EXPIRY, REFRESH_EXPIRY, Leeway, MaxTime} \subseteq Nat

VARIABLES
  now,      \* the clock that dates and checks tokens
  db,       \* what is committed: users by name, games by id
  writer,   \* the request that has the write transaction
  req,      \* the requests in progress
  access,   \* the access token of each client
  refresh,  \* its refresh token, a cookie
  told      \* the rows that clients were told are stored

tokenVars == <<access, refresh>>
vars == <<now, db, writer, req, tokenVars, told>>

In(s, stage) == req[s] # None /\ req[s].stage = stage

\* The write transaction is open while its request writes, and no longer.
TypeOK ==
  /\ now \in 0..MaxTime
  /\ db \in [Keys -> NoneOr(Rows)]
  /\ writer \in NoneOr(Slots)
  /\ req \in [Slots -> NoneOr(Requests)]
  /\ \A s \in Slots : In(s, "writing") <=> writer = s
  /\ access \in [Clients -> NoneOr(Tokens)]
  /\ refresh \in [Clients -> NoneOr(Tokens)]
  /\ told \subseteq [key : Keys, row : Rows]

Init ==
  /\ now = 0
  /\ db = [k \in Keys |-> None]
  /\ writer = None
  /\ req = [s \in Slots |-> None]
  /\ access = [c \in Clients |-> None]
  /\ refresh = [c \in Clients |-> None]
  /\ told = {}

-----------------------------------------------------------------------------
(* Tokens. *)

Token(sub, since, expiry) == [sub |-> sub, exp |-> now + expiry, since |-> since]

Valid(token) == token # None /\ now <= token.exp + Leeway

\* Only the right password logs in, and every login gives both tokens.
Login(c, n) ==
  /\ db[n] # None /\ db[n].by = c
  /\ access' = [access EXCEPT ![c] = Token(n, now, ACCESS_EXPIRY)]
  /\ refresh' = [refresh EXCEPT ![c] = Token(n, now, REFRESH_EXPIRY)]
  /\ UNCHANGED <<now, db, writer, req, told>>

\* Mutated form: the refresh token is renewed as well.
RefreshBoth(c) ==
  /\ Valid(refresh[c])
  /\ LET t == refresh[c] IN
       /\ access' = [access EXCEPT ![c] = Token(t.sub, t.since, ACCESS_EXPIRY)]
       /\ refresh' = [refresh EXCEPT ![c] = Token(t.sub, t.since, REFRESH_EXPIRY)]
  /\ UNCHANGED <<now, db, writer, req, told>>

\* A new access token for a refresh token, which stays as it is.
Refresh(c) ==
  /\ Valid(refresh[c])
  /\ LET t == refresh[c] IN
       access' = [access EXCEPT ![c] = Token(t.sub, t.since, ACCESS_EXPIRY)]
  /\ UNCHANGED <<now, db, writer, req, refresh, told>>

Authorised(c) == Valid(access[c]) /\ db[access[c].sub] # None

-----------------------------------------------------------------------------
(* Requests that store a row. *)

MoveTo(s, stage) == req' = [req EXCEPT ![s].stage = stage]
End(s) == req' = [req EXCEPT ![s] = None]

Begin(stage, key, row) ==
  \E s \in Slots :
    /\ req[s] = None
    /\ req' = [req EXCEPT ![s] = [stage |-> stage, key |-> key, row |-> row]]
    /\ UNCHANGED <<now, db, writer, tokenVars, told>>

Register(c, n) == Begin("ready", n, Row(c, FALSE))

CreateGame(c, public) == Authorised(c) /\ Begin("draw", None, Row(c, public))

\* Mutated form: the id is drawn before the loop.
DrawIdOnce(s) ==
  /\ In(s, "draw")
  /\ \E i \in GameIds :
       /\ req[s].key \in {None, i}
       /\ req' = [req EXCEPT ![s].key = i,
                             ![s].stage = IF db[i] = None THEN "ready" ELSE "draw"]
  /\ UNCHANGED <<now, db, writer, tokenVars, told>>

\* unique_game_id: any id that no game has.  One that is taken is drawn again.
DrawId(s) ==
  /\ In(s, "draw")
  /\ \E i \in GameIds :
       /\ db[i] = None
       /\ req' = [req EXCEPT ![s] = [@ EXCEPT !.key = i, !.stage = "ready"]]
  /\ UNCHANGED <<now, db, writer, tokenVars, told>>

OpenWrite(s) ==
  /\ In(s, "ready") /\ writer = None
  /\ writer' = s
  /\ MoveTo(s, "writing")
  /\ UNCHANGED <<now, db, tokenVars, told>>

\* Mutated form: a row with the same key is replaced.
CommitOver(s) ==
  /\ In(s, "writing")
  /\ db' = [db EXCEPT ![req[s].key] = req[s].row]
  /\ writer' = None
  /\ MoveTo(s, "stored")
  /\ UNCHANGED <<now, tokenVars, told>>

\* The insert succeeds, and what it inserted is committed.
Commit(s) ==
  /\ In(s, "writing") /\ db[req[s].key] = None
  /\ db' = [db EXCEPT ![req[s].key] = req[s].row]
  /\ writer' = None
  /\ MoveTo(s, "stored")
  /\ UNCHANGED <<now, tokenVars, told>>

\* Mutated form: the failed transaction is not dropped.
RefuseOpen(s) ==
  /\ In(s, "writing") /\ db[req[s].key] # None
  /\ End(s)
  /\ UNCHANGED <<now, db, writer, tokenVars, told>>

\* The insert fails: the transaction is dropped and the request refused.
Refuse(s) ==
  /\ In(s, "writing") /\ db[req[s].key] # None
  /\ writer' = None
  /\ End(s)
  /\ UNCHANGED <<now, db, tokenVars, told>>

\* Mutated form: the answer does not wait for the commit.
AnswerEarly(s) ==
  /\ In(s, "stored") \/ In(s, "writing")
  /\ End(s)
  /\ told' = told \union {[key |-> req[s].key, row |-> req[s].row]}
  /\ writer' = IF writer = s THEN None ELSE writer
  /\ UNCHANGED <<now, db, tokenVars>>

\* The answer reaches the client, or the client is no longer there.
Answer(s) ==
  /\ In(s, "stored")
  /\ End(s)
  /\ told' \in {told, told \union {[key |-> req[s].key, row |-> req[s].row]}}
  /\ UNCHANGED <<now, db, writer, tokenVars>>

Handle(s) == DrawId(s) \/ OpenWrite(s) \/ Commit(s) \/ Refuse(s) \/ Answer(s)

-----------------------------------------------------------------------------

\* The process ends and starts again: only the database stays.
Restart ==
  /\ req' = [s \in Slots |-> None]
  /\ writer' = None
  /\ UNCHANGED <<now, db, tokenVars, told>>

Tick ==
  /\ now < MaxTime
  /\ now' = now + 1
  /\ UNCHANGED <<db, writer, req, tokenVars, told>>

Next ==
  \/ \E c \in Clients :
       \/ Refresh(c)
       \/ \E n \in Names : Login(c, n) \/ Register(c, n)
       \/ \E public \in BOOLEAN : CreateGame(c, public)
  \/ \E s \in Slots : Handle(s)
  \/ Tick \/ Restart

Spec == Init /\ [][Next]_vars

\* A thread that can run does.  Draws are independent, so one that is free is
\* drawn in the end.
FairSpec == Spec /\ \A s \in Slots : WF_vars(Handle(s))

-----------------------------------------------------------------------------
(* What the reading routes answer. *)

JoinGame(i) == db[i]
GameList == {i \in GameIds : db[i] # None /\ db[i].public}

-----------------------------------------------------------------------------
(* Properties the code has. *)

\* What a client was told is stored is there, through collisions and restarts:
\* its account keeps its password (register.rs:49), a created game can be joined
\* under its id, and is listed if and only if it is public (integration.rs:78
\* "Game we've just created should be listed").
ToldIsKept ==
  \A t \in told :
    IF t.key \in Names THEN db[t.key] = t.row
    ELSE /\ JoinGame(t.key) = t.row
         /\ t.key \in GameList <=> t.row.public

\* A token that is taken is one of the account's owner, and the owner logged in
\* not longer ago than both expiries and their leeways: refreshing does not
\* keep a session alive (refresh.rs:59).
SessionsEnd ==
  \A c \in Clients :
    Valid(access[c]) =>
      /\ db[access[c].sub] # None /\ db[access[c].sub].by = c
      /\ now - access[c].since <= ACCESS_EXPIRY + REFRESH_EXPIRY + 2 * Leeway

\* The database under its requests is a registry (Registry.tla).
TheRegistry ==
  INSTANCE Registry WITH
    store <- db,
    mine <- [s \in Slots |-> IF In(s, "stored") THEN req[s].key ELSE None]
RegistrySpec == TheRegistry!Spec

NoIdLeft == \A i \in GameIds : db[i] # None

\* If everybody who waits for the write transaction gets it in the end, every
\* request ends, but for one to create a game that still draws when no id is free
\* (create.rs:56).
RequestsEnd ==
  (\A s \in Slots : SF_vars(OpenWrite(s))) =>
    \A s \in Slots : []<>(req[s] = None \/ (In(s, "draw") /\ NoIdLeft))

=============================================================================
