------------------------------ MODULE MCHoming ------------------------------
(* A gantry for TLC: an axis x with two motors and an axis y with one.       *)
EXTENDS Homing

Gantry == [m \in Motors |-> IF m = "y0" THEN "y" ELSE "x"]
Skewed == [m \in Motors |-> IF m = "x1" THEN 2 ELSE 1]
Seek == [a \in Axes |-> 2]
AtOnce == [a \in Axes |-> 0]
Cycles == {<<{"x", "y"}>>, <<{"y"}, {"x"}>>}
Place(x0, x1, y0) == [m \in Motors |-> CASE m = "x0" -> x0 [] m = "x1" -> x1 [] OTHER -> y0]
Places == {Place(0, 1, 3)}
=============================================================================
