----------------------------- MODULE MCPlanner -----------------------------
(* Moves for TLC.  Distances are one unit or a few, speeds a crawl (1) or    *)
(* fast (4); a junction allows a crawl or any speed.  A feed move slows down *)
(* under the override, a rapid does not.                                     *)
EXTENDS Planner

Percent == {50, 100}

Move(length, junction, slow, fast) ==
  [length |-> length, junction |-> junction,
   nominal |-> [o \in Percent |-> IF o = 50 THEN slow ELSE fast]]

Moves == {Move(1, 9, 1, 4), Move(3, 9, 1, 4), Move(1, 9, 4, 4), Move(3, 1, 4, 4), Move(1, 9, 1, 2)}
=============================================================================
