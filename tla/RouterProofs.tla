------------------------------ MODULE RouterProofs ------------------------------
(***************************************************************************)
(* Proofs about Router, for any number of clients, names, ids and requests *)
(* and for all expiries: what clients were told is kept, sessions end, and *)
(* Router implements Registry.                                             *)
(***************************************************************************)
EXTENDS Router, TLAPS

-----------------------------------------------------------------------------
(* The inductive invariant. *)

\* A request knows its key once it wants to write, and what it stored is what
\* the database has.
RequestInv ==
  \A s \in Slots :
    /\ In(s, "ready") \/ In(s, "writing") \/ In(s, "stored") => req[s].key \in Keys
    /\ In(s, "stored") => db[req[s].key] = req[s].row

ToldInv == \A t \in told : db[t.key] = t.row

\* Tokens date from a login, and last no longer than their expiry after it.
SessionOf(token, c, expiry) ==
  token # None =>
    /\ db[token.sub] # None /\ db[token.sub].by = c
    /\ token.since <= now /\ token.exp <= token.since + expiry

SessionInv ==
  \A c \in Clients :
    /\ SessionOf(access[c], c, REFRESH_EXPIRY + Leeway + ACCESS_EXPIRY)
    /\ SessionOf(refresh[c], c, REFRESH_EXPIRY)

RouterInv == TypeOK /\ RequestInv /\ ToldInv /\ SessionInv

-----------------------------------------------------------------------------
(* Lemmas. *)

LEMMA Numbers ==
  /\ ACCESS_EXPIRY \in Nat /\ REFRESH_EXPIRY \in Nat /\ Leeway \in Nat /\ MaxTime \in Nat
BY RouterAssumption

LEMMA InitInv == Init => RouterInv
BY RouterAssumption, Numbers
DEF Init, RouterInv, TypeOK, RequestInv, ToldInv, SessionInv, SessionOf, NoneOr, In

\* A step that leaves the database alone leaves what was told true.
LEMMA StoreUnchanged ==
  ASSUME db' = db, told' = told, ToldInv
  PROVE  ToldInv'
BY DEF ToldInv

LEMMA SessionsUnchanged ==
  ASSUME UNCHANGED <<now, db, access, refresh>>, SessionInv
  PROVE  SessionInv'
BY DEF SessionInv, SessionOf

LEMMA RequestsUnchanged ==
  ASSUME req' = req, db' = db, RequestInv
  PROVE  RequestInv'
BY DEF RequestInv, In

\* A new token, for an account the client owns.
LEMMA NewToken ==
  ASSUME RouterInv, NEW n \in Names, NEW since \in 0..now, NEW expiry \in Nat
  PROVE  /\ Token(n, since, expiry) \in Tokens
         /\ Token(n, since, expiry).sub = n
         /\ Token(n, since, expiry).since = since
         /\ Token(n, since, expiry).exp = now + expiry
BY Numbers DEF RouterInv, TypeOK, Token, Tokens

LEMMA LoginInv ==
  ASSUME RouterInv, NEW c \in Clients, NEW n \in Names, Login(c, n)
  PROVE  RouterInv'
<1> DEFINE A == Token(n, now, ACCESS_EXPIRY)
           R == Token(n, now, REFRESH_EXPIRY)
<1>1. now \in Nat /\ now \in 0..now
  BY Numbers DEF RouterInv, TypeOK
<1>2. /\ A \in Tokens /\ A.sub = n /\ A.since = now /\ A.exp = now + ACCESS_EXPIRY
      /\ R \in Tokens /\ R.sub = n /\ R.since = now /\ R.exp = now + REFRESH_EXPIRY
  BY <1>1, Numbers, NewToken
<1>3. /\ access' = [access EXCEPT ![c] = A] /\ refresh' = [refresh EXCEPT ![c] = R]
      /\ UNCHANGED <<now, db, writer, req, told>>
      /\ db[n] # None /\ db[n].by = c
  BY DEF Login
<1> HIDE DEF A, R
<1>4. TypeOK'
  BY <1>2, <1>3 DEF RouterInv, TypeOK, NoneOr, In
<1>5. SessionInv'
  <2> SUFFICES ASSUME NEW d \in Clients PROVE SessionInv!(d)'
    BY DEF SessionInv
  <2>1. CASE d = c
    BY <1>1, <1>2, <1>3, <2>1, Numbers DEF RouterInv, TypeOK, SessionOf
  <2>2. CASE d # c
    BY <1>3, <2>2 DEF RouterInv, TypeOK, SessionInv, SessionOf
  <2> QED  BY <2>1, <2>2
<1> QED
  BY <1>3, <1>4, <1>5, StoreUnchanged, RequestsUnchanged DEF RouterInv

LEMMA RefreshInv ==
  ASSUME RouterInv, NEW c \in Clients, Refresh(c)
  PROVE  RouterInv'
<1> DEFINE t == refresh[c]
           A == Token(t.sub, t.since, ACCESS_EXPIRY)
<1>1. /\ t \in Tokens /\ now \in Nat /\ now <= t.exp + Leeway
      /\ db[t.sub] # None /\ db[t.sub].by = c
      /\ t.since <= now /\ t.exp <= t.since + REFRESH_EXPIRY
  BY Numbers DEF Refresh, Valid, RouterInv, TypeOK, SessionInv, SessionOf, NoneOr
<1>2. t.sub \in Names /\ t.since \in Nat /\ t.exp \in Nat
  BY <1>1 DEF Tokens
<1>3. A \in Tokens /\ A.sub = t.sub /\ A.since = t.since /\ A.exp = now + ACCESS_EXPIRY
  BY <1>1, <1>2, Numbers, NewToken
<1>4. /\ access' = [access EXCEPT ![c] = A]
      /\ UNCHANGED <<now, db, writer, req, refresh, told>>
  BY DEF Refresh
<1>5. A.exp <= A.since + (REFRESH_EXPIRY + Leeway + ACCESS_EXPIRY)
  BY <1>1, <1>2, <1>3, Numbers
<1>6. db[A.sub] # None /\ db[A.sub].by = c /\ A.since <= now
  BY <1>1, <1>3
<1> HIDE DEF A, t
<1>7. TypeOK'
  BY <1>3, <1>4 DEF RouterInv, TypeOK, NoneOr, In
<1>8. SessionInv'
  <2> SUFFICES ASSUME NEW d \in Clients PROVE SessionInv!(d)'
    BY DEF SessionInv
  <2>1. CASE d = c
    BY <1>4, <1>5, <1>6, <2>1 DEF RouterInv, TypeOK, SessionInv, SessionOf
  <2>2. CASE d # c
    BY <1>4, <2>2 DEF RouterInv, TypeOK, SessionInv, SessionOf
  <2> QED  BY <2>1, <2>2
<1> QED
  BY <1>4, <1>7, <1>8, StoreUnchanged, RequestsUnchanged DEF RouterInv

\* A request that begins, or is told its id, holds no transaction yet.
LEMMA RequestStep ==
  ASSUME RouterInv, NEW s \in Slots, NEW r \in Requests,
         ~In(s, "writing"), r.stage \in {"draw", "ready"},
         r.stage = "ready" => r.key \in Keys,
         req' = [req EXCEPT ![s] = r],
         UNCHANGED <<now, db, writer, tokenVars, told>>
  PROVE  RouterInv'
<1> USE DEF RouterInv, tokenVars
<1>1. TypeOK'
  BY RouterAssumption DEF TypeOK, NoneOr, In
<1>2. RequestInv'
  BY DEF TypeOK, RequestInv, In
<1> QED  BY <1>1, <1>2, StoreUnchanged, SessionsUnchanged

LEMMA BeginInv ==
  ASSUME RouterInv, NEW c \in Clients,
         \/ \E n \in Names : Register(c, n)
         \/ \E public \in BOOLEAN : CreateGame(c, public)
  PROVE  RouterInv'
<1>1. ASSUME NEW stage \in {"draw", "ready"}, NEW key \in NoneOr(Keys), NEW row \in Rows,
             stage = "ready" => key \in Keys, Begin(stage, key, row)
      PROVE  RouterInv'
  <2>1. PICK s \in Slots :
          /\ req[s] = None
          /\ req' = [req EXCEPT ![s] = [stage |-> stage, key |-> key, row |-> row]]
          /\ UNCHANGED <<now, db, writer, tokenVars, told>>
    BY <1>1 DEF Begin
  <2>2. [stage |-> stage, key |-> key, row |-> row] \in Requests
    BY DEF Requests
  <2> QED  BY <1>1, <2>1, <2>2, RequestStep DEF In
<1>2. \A public \in BOOLEAN : Row(c, public) \in Rows
  BY DEF Row, Rows
<1>3. ASSUME NEW n \in Names, Register(c, n)  PROVE RouterInv'
  BY <1>1, <1>2, <1>3 DEF Register, NoneOr, Keys
<1>4. ASSUME NEW public \in BOOLEAN, CreateGame(c, public)  PROVE RouterInv'
  BY <1>1, <1>2, <1>4 DEF CreateGame, NoneOr
<1> QED  BY <1>3, <1>4

LEMMA DrawIdInv ==
  ASSUME RouterInv, NEW s \in Slots, DrawId(s)
  PROVE  RouterInv'
<1>1. PICK i \in GameIds :
        req' = [req EXCEPT ![s] = [@ EXCEPT !.key = i, !.stage = "ready"]]
  BY DEF DrawId
<1> DEFINE r == [req[s] EXCEPT !.key = i, !.stage = "ready"]
<1>2. req[s] \in Requests /\ ~In(s, "writing")
  BY DEF RouterInv, TypeOK, DrawId, In, NoneOr
<1>3. r \in Requests /\ r.stage = "ready" /\ r.key \in Keys
  BY <1>2 DEF Requests, NoneOr, Keys
<1>4. req' = [req EXCEPT ![s] = r]
  BY <1>1
<1> HIDE DEF r
<1> QED  BY <1>2, <1>3, <1>4, RequestStep DEF DrawId

\* What a request becomes when it moves on.
LEMMA Moved ==
  ASSUME RouterInv, NEW s \in Slots, req[s] # None,
         NEW stage \in {"ready", "writing", "stored"}, MoveTo(s, stage)
  PROVE  /\ req' \in [Slots -> NoneOr(Requests)]
         /\ req'[s] \in Requests
         /\ req'[s].stage = stage /\ req'[s].key = req[s].key /\ req'[s].row = req[s].row
         /\ \A u \in Slots : u # s => req'[u] = req[u]
<1>1. req \in [Slots -> NoneOr(Requests)] /\ req[s] \in Requests
  BY DEF RouterInv, TypeOK, NoneOr
<1> DEFINE r == [req[s] EXCEPT !.stage = stage]
<1>2. req' = [req EXCEPT ![s] = r]
  BY DEF MoveTo
<1>3. r \in Requests /\ r.stage = stage /\ r.key = req[s].key /\ r.row = req[s].row
  BY <1>1 DEF Requests
<1> HIDE DEF r
<1> QED  BY <1>1, <1>2, <1>3 DEF NoneOr

LEMMA OpenWriteInv ==
  ASSUME RouterInv, NEW s \in Slots, OpenWrite(s)
  PROVE  RouterInv'
<1>1. /\ In(s, "ready") /\ writer = None /\ writer' = s /\ MoveTo(s, "writing")
      /\ UNCHANGED <<now, db, tokenVars, told>>
  BY DEF OpenWrite
<1>2. /\ req' \in [Slots -> NoneOr(Requests)]
      /\ req'[s] # None /\ req'[s].stage = "writing" /\ req'[s].key = req[s].key
      /\ \A u \in Slots : u # s => req'[u] = req[u]
  BY <1>1, Moved, RouterAssumption DEF In
<1>3. \A u \in Slots : ~In(u, "writing")
  BY <1>1, RouterAssumption DEF RouterInv, TypeOK
<1>4. TypeOK'
  BY <1>1, <1>2, <1>3 DEF RouterInv, TypeOK, NoneOr, In, tokenVars
<1>5. RequestInv'
  BY <1>1, <1>2 DEF RouterInv, RequestInv, In
<1> QED
  BY <1>1, <1>4, <1>5, StoreUnchanged, SessionsUnchanged DEF RouterInv, tokenVars

LEMMA CommitInv ==
  ASSUME RouterInv, NEW s \in Slots, Commit(s)
  PROVE  RouterInv'
<1> DEFINE k == req[s].key
           row == req[s].row
<1>1. /\ In(s, "writing") /\ db[k] = None /\ db' = [db EXCEPT ![k] = row]
      /\ writer' = None /\ MoveTo(s, "stored")
      /\ UNCHANGED <<now, tokenVars, told>>
  BY DEF Commit
<1>2. k \in Keys /\ row \in Rows /\ row # None
  BY <1>1, RouterAssumption DEF RouterInv, TypeOK, RequestInv, In, NoneOr, Requests
<1>3. /\ db' \in [Keys -> NoneOr(Rows)] /\ db'[k] = row
      /\ \A j \in Keys : j # k => db'[j] = db[j]
      /\ \A j \in Keys : db[j] # None => db'[j] = db[j]
  BY <1>1, <1>2 DEF RouterInv, TypeOK, NoneOr
<1>4. /\ req' \in [Slots -> NoneOr(Requests)]
      /\ req'[s] # None /\ req'[s].stage = "stored" /\ req'[s].key = k /\ req'[s].row = row
      /\ \A u \in Slots : u # s => req'[u] = req[u]
  BY <1>1, Moved, RouterAssumption DEF In
<1>5. \A u \in Slots : In(u, "writing") => u = s
  BY <1>1, RouterAssumption DEF RouterInv, TypeOK
<1> HIDE DEF k, row
<1>6. TypeOK'
  BY <1>1, <1>3, <1>4, <1>5, RouterAssumption DEF RouterInv, TypeOK, NoneOr, In, tokenVars
<1>7. RequestInv'
  <2> SUFFICES ASSUME NEW u \in Slots PROVE RequestInv!(u)'
    BY DEF RequestInv
  <2>1. CASE u = s
    BY <1>2, <1>3, <1>4, <2>1 DEF In
  <2>2. CASE u # s
    <3>1. In(u, "stored") => db[req[u].key] # None /\ req[u].key \in Keys
      BY RouterAssumption DEF RouterInv, RequestInv, TypeOK, In, NoneOr, Requests
    <3> QED  BY <1>3, <1>4, <2>2, <3>1 DEF RouterInv, RequestInv, In
  <2> QED  BY <2>1, <2>2
<1>8. ToldInv'
  <2> SUFFICES ASSUME NEW t \in told PROVE db'[t.key] = t.row
    BY <1>1 DEF ToldInv
  <2>1. t.key \in Keys /\ db[t.key] = t.row /\ t.row # None
    BY RouterAssumption DEF RouterInv, TypeOK, ToldInv
  <2> QED  BY <1>3, <2>1
<1>9. SessionInv'
  <2> SUFFICES ASSUME NEW c \in Clients PROVE SessionInv!(c)'
    BY DEF SessionInv
  <2>1. /\ access[c] # None => access[c].sub \in Keys
        /\ refresh[c] # None => refresh[c].sub \in Keys
    BY DEF RouterInv, TypeOK, NoneOr, Tokens, Keys
  <2> QED  BY <1>1, <1>3, <2>1 DEF RouterInv, SessionInv, SessionOf, tokenVars
<1> QED  BY <1>6, <1>7, <1>8, <1>9 DEF RouterInv

LEMMA EndInv ==
  ASSUME RouterInv, NEW s \in Slots, Refuse(s) \/ Answer(s)
  PROVE  RouterInv'
<1> USE DEF RouterInv
<1>1. /\ req' = [req EXCEPT ![s] = None] /\ req' \in [Slots -> NoneOr(Requests)]
      /\ req'[s] = None /\ \A u \in Slots : u # s => req'[u] = req[u]
      /\ UNCHANGED <<now, db, tokenVars>>
  BY DEF TypeOK, Refuse, Answer, End, NoneOr
<1>2. /\ writer' \in NoneOr(Slots)
      /\ \A u \in Slots : In(u, "writing")' <=> writer' = u
  <2>1. CASE Refuse(s)
    BY <1>1, <2>1, RouterAssumption DEF TypeOK, Refuse, In, NoneOr
  <2>2. CASE Answer(s)
    BY <1>1, <2>2 DEF TypeOK, Answer, In
  <2> QED  BY <2>1, <2>2
<1>3. /\ told' \subseteq [key : Keys, row : Rows]
      /\ \A t \in told' : db[t.key] = t.row
  <2>1. CASE Refuse(s)
    BY <2>1 DEF TypeOK, ToldInv, Refuse
  <2>2. CASE Answer(s)
    <3>1. req[s].key \in Keys /\ req[s].row \in Rows /\ db[req[s].key] = req[s].row
      BY <2>2 DEF TypeOK, RequestInv, Answer, In, NoneOr, Requests
    <3> QED  BY <2>2, <3>1 DEF TypeOK, ToldInv, Answer
  <2> QED  BY <2>1, <2>2
<1>4. TypeOK'
  BY <1>1, <1>2, <1>3 DEF TypeOK, tokenVars
<1>5. RequestInv'
  BY <1>1 DEF RequestInv, In
<1>6. ToldInv'
  BY <1>1, <1>3 DEF ToldInv
<1> QED  BY <1>1, <1>4, <1>5, <1>6, SessionsUnchanged DEF tokenVars

LEMMA WorldInv ==
  ASSUME RouterInv, Restart \/ Tick \/ UNCHANGED vars
  PROVE  RouterInv'
<1> USE DEF RouterInv
<1>1. CASE Restart
  <2>1. TypeOK'
    BY <1>1, RouterAssumption DEF TypeOK, Restart, NoneOr, In, tokenVars
  <2>2. RequestInv'
    BY <1>1 DEF RequestInv, Restart, In
  <2> QED
    BY <1>1, <2>1, <2>2, StoreUnchanged, SessionsUnchanged DEF Restart, tokenVars
<1>2. CASE Tick
  <2>1. TypeOK'
    BY <1>2, Numbers DEF TypeOK, Tick, In, tokenVars
  <2>2. SessionInv'
    <3> SUFFICES ASSUME NEW c \in Clients PROVE SessionInv!(c)'
      BY DEF SessionInv
    <3>1. /\ access[c] # None => access[c].since \in Nat
          /\ refresh[c] # None => refresh[c].since \in Nat
      BY DEF TypeOK, NoneOr, Tokens
    <3> QED  BY <1>2, <3>1, Numbers DEF TypeOK, SessionInv, SessionOf, Tick, tokenVars
  <2> QED  BY <1>2, <2>1, <2>2, StoreUnchanged, RequestsUnchanged DEF Tick
<1>3. CASE UNCHANGED vars
  <2>1. TypeOK'
    BY <1>3 DEF TypeOK, In, vars, tokenVars
  <2> QED
    BY <1>3, <2>1, StoreUnchanged, SessionsUnchanged, RequestsUnchanged DEF vars, tokenVars
<1> QED  BY <1>1, <1>2, <1>3

-----------------------------------------------------------------------------

LEMMA Inductive == RouterInv /\ [Next]_vars => RouterInv'
BY LoginInv, RefreshInv, BeginInv, DrawIdInv, OpenWriteInv, CommitInv, EndInv, WorldInv
DEF Next, Handle

LEMMA InvTold == RouterInv => ToldIsKept
<1> SUFFICES ASSUME RouterInv, NEW t \in told, t.key \notin Names
             PROVE  JoinGame(t.key) = t.row /\ (t.key \in GameList <=> t.row.public)
  BY DEF RouterInv, ToldInv, ToldIsKept
<1>1. t.key \in GameIds /\ t.row \in Rows /\ db[t.key] = t.row /\ t.row # None
  BY RouterAssumption DEF RouterInv, TypeOK, ToldInv, Keys
<1> QED  BY <1>1 DEF JoinGame, GameList

LEMMA InvSessions == RouterInv => SessionsEnd
<1> SUFFICES ASSUME RouterInv, NEW c \in Clients, Valid(access[c])
             PROVE  /\ db[access[c].sub] # None /\ db[access[c].sub].by = c
                    /\ now - access[c].since <= ACCESS_EXPIRY + REFRESH_EXPIRY + 2 * Leeway
  BY DEF SessionsEnd
<1>1. access[c] # None /\ access[c] \in Tokens /\ now \in Nat
  BY DEF RouterInv, TypeOK, Valid, NoneOr
<1>2. access[c].since \in Nat /\ access[c].exp \in Nat /\ now <= access[c].exp + Leeway
  BY <1>1 DEF Tokens, Valid
<1>3. /\ db[access[c].sub] # None /\ db[access[c].sub].by = c
      /\ access[c].exp <= access[c].since + (REFRESH_EXPIRY + Leeway + ACCESS_EXPIRY)
  BY <1>1 DEF RouterInv, SessionInv, SessionOf
<1> QED  BY <1>1, <1>2, <1>3, Numbers

\* The write transaction is held by the request that writes, what clients were
\* told is stored, and every token is of a login, in every reachable state.
THEOREM RouterInvariant == Spec => []RouterInv
BY InitInv, Inductive, PTL DEF Spec

\* Every variable of the router, its clients and their requests keeps its type.
THEOREM RouterTypeCorrect == Spec => []TypeOK
<1>1. RouterInv => TypeOK
  BY DEF RouterInv
<1> QED  BY <1>1, RouterInvariant, PTL

\* What a client was told of a game or a name stays stored as it was told
\* (create.rs:48-50, register.rs:48-52), and a game is found and listed.
THEOREM AnswersStayTrue == Spec => []ToldIsKept
BY InvTold, RouterInvariant, PTL

\* A token that is taken names a client that registered under that name, and
\* only for as long after the login as the expiries allow (token.rs).
THEOREM SessionsExpire == Spec => []SessionsEnd
BY InvSessions, RouterInvariant, PTL

-----------------------------------------------------------------------------
(* Every step is a step of the registry. *)

Mine == [s \in Slots |-> IF In(s, "stored") THEN req[s].key ELSE None]

LEMMA InitRegistry == Init => TheRegistry!Init
BY DEF Init, TheRegistry!Init, In

\* Requests may begin, move on and be lost while nothing is stored or told.
LEMMA LoseStep ==
  ASSUME db' = db, told' = told,
         \A s \in Slots : Mine'[s] \in {Mine[s], None}
  PROVE  [TheRegistry!Next]_TheRegistry!registryVars
<1> DEFINE S == {s \in Slots : Mine'[s] = None}
<1>1. PICK T \in SUBSET Slots : T = S
  OBVIOUS
<1>2. Mine' = [s \in Slots |-> IF s \in T THEN None ELSE Mine[s]]
  BY <1>1 DEF Mine
<1>3. TheRegistry!Lose(T)
  BY <1>2 DEF TheRegistry!Lose, Mine
<1> QED  BY <1>3 DEF TheRegistry!Next

LEMMA CommitRegistry ==
  ASSUME RouterInv, NEW s \in Slots, Commit(s)
  PROVE  TheRegistry!Next
<1>1. /\ In(s, "writing") /\ req[s].key \in Keys /\ db[req[s].key] = None
      /\ req[s].row \in Rows
  BY DEF Commit, In, RouterInv, RequestInv, TypeOK, NoneOr, Requests
<1>2. PICK k \in Keys, row \in Rows : k = req[s].key /\ row = req[s].row
  BY <1>1
<1>3. MoveTo(s, "stored") /\ req[s] # None
  BY <1>1 DEF Commit, In
<1>4. /\ req'[s] # None /\ req'[s].stage = "stored" /\ req'[s].key = k
      /\ \A u \in Slots : u # s => req'[u] = req[u]
  BY <1>2, <1>3, Moved, RouterAssumption
<1>5. Mine[s] = None /\ Mine' = [Mine EXCEPT ![s] = k]
  BY <1>1, <1>4 DEF Mine, In
<1>6. TheRegistry!Put(s, k, row)
  BY <1>1, <1>2, <1>5 DEF TheRegistry!Put, Mine, Commit
<1> QED  BY <1>6 DEF TheRegistry!Next

LEMMA AnswerRegistry ==
  ASSUME RouterInv, NEW s \in Slots, Answer(s)
  PROVE  [TheRegistry!Next]_TheRegistry!registryVars
<1>1. /\ In(s, "stored") /\ req[s].key \in Keys /\ db[req[s].key] = req[s].row
  BY DEF Answer, RouterInv, RequestInv
<1>2. Mine[s] = req[s].key /\ Mine[s] # None
  BY <1>1, RouterAssumption DEF Mine
<1>3. req' = [req EXCEPT ![s] = None] /\ db' = db
  BY DEF Answer, End
<1>4. Mine' = [Mine EXCEPT ![s] = None]
  BY <1>3 DEF RouterInv, TypeOK, Mine, In
<1>5. CASE told' = told
  BY <1>3, <1>4, <1>5, LoseStep DEF Mine
<1>6. CASE told' = told \union {[key |-> req[s].key, row |-> req[s].row]}
  <2>1. TheRegistry!Tell(s)
    BY <1>1, <1>2, <1>3, <1>4, <1>6 DEF TheRegistry!Tell, Mine
  <2> QED  BY <2>1 DEF TheRegistry!Next
<1> QED  BY <1>5, <1>6 DEF Answer

LEMMA OtherRegistry ==
  ASSUME RouterInv,
         \/ \E c \in Clients :
              \/ Refresh(c)
              \/ \E n \in Names : Login(c, n) \/ Register(c, n)
              \/ \E public \in BOOLEAN : CreateGame(c, public)
         \/ \E s \in Slots : DrawId(s) \/ OpenWrite(s) \/ Refuse(s)
         \/ Tick \/ Restart \/ UNCHANGED vars
  PROVE  [TheRegistry!Next]_TheRegistry!registryVars
<1>1. db' = db /\ told' = told
  BY DEF Refresh, Login, Register, CreateGame, Begin, DrawId, OpenWrite, Refuse, Tick,
         Restart, vars
<1>2. \A s \in Slots : Mine'[s] \in {Mine[s], None}
  <2>1. CASE req' = req
    BY <2>1 DEF Mine, In
  <2>2. ASSUME NEW c \in Clients, NEW stage \in {"draw", "ready"}, NEW key, NEW row,
               Begin(stage, key, row)
        PROVE  \A s \in Slots : Mine'[s] \in {Mine[s], None}
    BY <2>2 DEF Begin, RouterInv, TypeOK, Mine, In
  <2>3. ASSUME NEW s \in Slots, DrawId(s)
        PROVE  \A u \in Slots : Mine'[u] \in {Mine[u], None}
    BY <2>3 DEF DrawId, RouterInv, TypeOK, NoneOr, Requests, Mine, In
  <2>4. ASSUME NEW s \in Slots, OpenWrite(s)
        PROVE  \A u \in Slots : Mine'[u] \in {Mine[u], None}
    <3>1. /\ req'[s].stage = "writing"
          /\ \A u \in Slots : u # s => req'[u] = req[u]
      BY <2>4, Moved DEF OpenWrite, In
    <3> QED  BY <3>1 DEF Mine, In
  <2>5. ASSUME NEW s \in Slots, Refuse(s)
        PROVE  \A u \in Slots : Mine'[u] \in {Mine[u], None}
    BY <2>5 DEF Refuse, End, RouterInv, TypeOK, Mine, In
  <2>6. CASE Restart
    BY <2>6 DEF Restart, Mine, In
  <2> QED
    BY <2>1, <2>2, <2>3, <2>4, <2>5, <2>6
    DEF Refresh, Login, Register, CreateGame, Tick, vars
<1> QED  BY <1>1, <1>2, LoseStep

\* The router keeps what Registry promises (create.rs:32-66, register.rs:32-55):
\* no row is ever replaced or lost, a request stores one row at most, and is
\* answered after it is stored.
THEOREM RouterImplementsRegistry == Spec => RegistrySpec
<1>1. RouterInv /\ [Next]_vars => [TheRegistry!Next]_TheRegistry!registryVars
  BY CommitRegistry, AnswerRegistry, OtherRegistry DEF Next, Handle
<1> QED
  BY InitInv, Inductive, InitRegistry, <1>1, PTL DEF Spec, RegistrySpec, TheRegistry!Spec

=============================================================================
