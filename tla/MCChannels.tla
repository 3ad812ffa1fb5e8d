------------------------------ MODULE MCChannels ------------------------------
(* A small instance of Channels: two connections of two players, or of one *)
(* player that comes back while its first connection lives or has ended.   *)
EXTENDS Channels

CONSTANTS c1, c2, p1, p2

MCJoins == {[c \in Conns |-> p1], [c \in Conns |-> IF c = c1 THEN p1 ELSE p2]}
=============================================================================
