----------------------------- MODULE MCSegments -----------------------------
(* Moves for TLC: a slanted line and a short straight one.                   *)
EXTENDS Segments

Move(x, z, n) == [steps |-> [a \in Axes |-> IF a = "x" THEN x ELSE z], events |-> n]
Slanted == Move(2, 1, 2)
Straight == Move(1, 0, 1)
TwoMoves == {Slanted, Straight}
=============================================================================
