------------------------------ MODULE MCScoring ------------------------------
(* Scoring on seven small decks that hold every face, in three suits of both *)
(* colours, and the jokers between them.                                     *)
EXTENDS Scoring

Part(faces) ==
  [suit : {"Hearts", "Diamonds", "Spades"}, face : faces] \union Jokers

\* A low face with a high one, so that hands of either are worth the same.
MCDecks == {Part({n, 14 - n}) : n \in 1..6} \union {Part({7, 8})}
=============================================================================
