----------------------------- MODULE MCTokenLedger -----------------------------
(* Small instances of TokenLedger for TLC. *)
EXTENDS TokenLedger, TLC

MCSymmetry == Permutations(Sessions)
==============================================================================
