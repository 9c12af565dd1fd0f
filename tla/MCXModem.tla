------------------------------ MODULE MCXModem ------------------------------
(* Files with a CTRL-Z at the end of a packet, and of more packets than there are numbers. *)
EXTENDS XModem

CONSTANT z
SomeFiles == {<<>>, <<1, z, 2>>, <<1, 2, 1, z, 1, 1, 2, z, 2>>}
TwoBytes == {1, 2}
=============================================================================
