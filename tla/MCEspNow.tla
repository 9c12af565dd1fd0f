------------------------------ MODULE MCEspNow ------------------------------
(* Two pendants for TLC, one of them busier.                                *)
EXTENDS EspNow

Paired12 == <<"p1", "p2">>
Jogger(p) == p = "p1"
Does == [p \in Pendants |-> IF Jogger(p) THEN {"message", "hold", "cancel"} ELSE {"keepalive", "start"}]
Mostly == [p \in Pendants |-> IF Jogger(p) THEN 3 ELSE 2]
=============================================================================
