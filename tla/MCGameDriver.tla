---------------------------- MODULE MCGameDriver ----------------------------
(* GameDriver, with the record of its events, on a deck of five cards, two or *)
(* all of them dealt, and three rounds.                                      *)
EXTENDS EventRecord
=============================================================================
