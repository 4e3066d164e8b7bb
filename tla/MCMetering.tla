------------------------------ MODULE MCMetering ------------------------------
(* A small instance of Metering for TLC: one merchant, a call of the SDK   *)
(* and one of HABA's advisor.                                              *)
EXTENDS Metering

CONSTANTS m, topUp

MCMerchantOf == [c \in Calls |-> m]
==============================================================================
