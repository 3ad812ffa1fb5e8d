----------------------------- MODULE MCGameLoop -----------------------------
(* GameLoop with two players, one card each, and two or three turns a round. *)
EXTENDS GameLoop
=============================================================================
