---------------------------- MODULE MCConnections ----------------------------
(* Connections for TLC: two tasks that were submitted with one thread id and *)
(* one with its own.                                                         *)
EXTENDS Connections

CONSTANTS c1, c2, c3

TwoIds == [c \in Conns |-> IF c = c3 THEN 2 ELSE 1]
=============================================================================
