-------------------------------- MODULE Registry --------------------------------
(***************************************************************************)
(* What the router promises about what it stores.  A key, once taken, is   *)
(* taken for ever and by the same row; a request stores at most one row;   *)
(* and who is told that a row is stored is told the truth, whatever        *)
(* happens to the router later.  Requests may be lost at any moment, before *)
(* their row is stored or after.                                           *)
(***************************************************************************)
CONSTANTS
  Slots,  \* requests in progress
  Keys,
  Rows,
  None

VARIABLES
  store,  \* the row of each key
  mine,   \* the key each request stored, None before
  told    \* what clients were told: [key |-> ..., row |-> ...]

registryVars == <<store, mine, told>>

Init ==
  /\ store = [k \in Keys |-> None]
  /\ mine = [s \in Slots |-> None]
  /\ told = {}

Put(s, k, row) ==
  /\ mine[s] = None /\ store[k] = None
  /\ store' = [store EXCEPT ![k] = row]
  /\ mine' = [mine EXCEPT ![s] = k]
  /\ UNCHANGED told

Tell(s) ==
  /\ mine[s] # None
  /\ told' = told \union {[key |-> mine[s], row |-> store[mine[s]]]}
  /\ mine' = [mine EXCEPT ![s] = None]
  /\ UNCHANGED store

Lose(S) ==
  /\ mine' = [s \in Slots |-> IF s \in S THEN None ELSE mine[s]]
  /\ UNCHANGED <<store, told>>

Next ==
  \/ \E s \in Slots :
       \/ \E k \in Keys, row \in Rows : Put(s, k, row)
       \/ Tell(s)
  \/ \E S \in SUBSET Slots : Lose(S)

Spec == Init /\ [][Next]_registryVars

=============================================================================
