------------------------------ MODULE MCGcode ------------------------------
(* Lines of one word or two, over two positions inside the limits and one beyond. *)
EXTENDS Gcode

Inside == 0 .. 1
Beyond == 2

Words ==
    {[mode |-> m, to |-> t] : m \in {"seek", "feed", "probe"}, t \in {1}}
    \cup {[mode |-> "keep", to |-> 0], [mode |-> "feed", to |-> Beyond], [mode |-> "probe", to |-> Beyond]}
    \cup {[mode |-> m, to |-> None] : m \in {"seek", "feed"}}
    \cup {[spindle |-> s] : s \in {"off", "cw", "ccw"}}
    \cup {[speed |-> 1], [speed |-> 2, mode |-> "keep", to |-> 1], [spindle |-> "cw", mode |-> "keep", to |-> 0]}
    \cup {[coolant |-> "on"], [out |-> "on"]}
    \cup {[spindle |-> "off", out |-> "bad", mode |-> "feed", to |-> 1]}
    \cup {[flow |-> f] : f \in {"pause", "end"}}
    \cup {[jog |-> TRUE, to |-> t] : t \in {0, 1}}

SomeLines == {words @@ NoLine : words \in Words}
=============================================================================
