-------------------------- MODULE MCSettlementWorker --------------------------
(* Small instances of SettlementWorker for TLC. *)
EXTENDS SettlementWorker
==============================================================================
