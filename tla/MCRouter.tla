------------------------------- MODULE MCRouter -------------------------------
(* A small instance of Router: two clients that want the same account, two *)
(* requests at a time, two ids, and time for a session to end.             *)
EXTENDS Router
=============================================================================
