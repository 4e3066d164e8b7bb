------------------------------ MODULE MCHabaTopup ------------------------------
(* A small instance of HabaTopup for TLC. *)
EXTENDS HabaTopup, TLC

CONSTANTS o1, o2, t1, t2

MCPaysFor == t1 :> o1 @@ t2 :> o2
==============================================================================
