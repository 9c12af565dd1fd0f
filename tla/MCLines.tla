------------------------------ MODULE MCLines ------------------------------
(* A client and two files for Lines. *)
EXTENDS Lines

CONSTANTS c1, f1, f2
=============================================================================
