----------------------------- MODULE SolanaChain -----------------------------
(***************************************************************************)
(* The Solana cluster as the market uses it: an RPC node accepts a signed  *)
(* transaction, and the cluster later executes it, rejects it or forgets   *)
(* it.  External to the repository; only what the facilitator and the      *)
(* confirmer can tell apart is kept.                                       *)
(*                                                                         *)
(* "confirmed" is the commitment level the code waits for.  It is not      *)
(* finality: ConfirmedCanRevert says whether a fork may still undo it.     *)
(***************************************************************************)

CONSTANTS
    Txs,                 \* the transactions wallets have signed
    ConfirmedCanRevert   \* may a confirmed transaction be undone by a fork?

ASSUME ChainAssumption == ConfirmedCanRevert \in BOOLEAN

VARIABLE chain           \* what the cluster knows of each transaction

ChainState == {"unseen",    \* no node was given it
               "sent",      \* accepted by a node, or processed, not confirmed
               "landed",    \* confirmed, executed without error
               "errored",   \* confirmed, executed with an error
               "undone",    \* was confirmed, and its fork was abandoned
               "dropped"}   \* its blockhash expired before it was executed

ChainTypeOK == chain \in [Txs -> ChainState]

ChainInit == chain = [tx \in Txs |-> "unseen"]

(* A node takes the transaction; a second copy of it changes nothing. *)
Submitted(tx) ==
    chain' = [chain EXCEPT ![tx] = IF @ = "unseen" THEN "sent" ELSE @]

Land(tx) ==
    /\ chain[tx] \in {"sent", "undone"}
    /\ chain' = [chain EXCEPT ![tx] = "landed"]

ExecuteWithError(tx) ==
    /\ chain[tx] = "sent"
    /\ chain' = [chain EXCEPT ![tx] = "errored"]

Drop(tx) ==
    /\ chain[tx] = "sent"
    /\ chain' = [chain EXCEPT ![tx] = "dropped"]

Revert(tx) ==
    /\ ConfirmedCanRevert
    /\ chain[tx] = "landed"
    /\ chain' = [chain EXCEPT ![tx] = "undone"]

ChainNext ==
    \E tx \in Txs : Land(tx) \/ ExecuteWithError(tx) \/ Drop(tx) \/ Revert(tx)

(* What getSignatureStatuses may answer: a node that lags, or one that is  *)
(* not the node the transaction was given to, answers null for anything.   *)
SignatureStatuses(tx) ==
    {"null"} \cup (IF chain[tx] = "landed" THEN {"confirmed"} ELSE {})
             \cup (IF chain[tx] \in {"errored", "undone"} THEN {"err"} ELSE {})

(* The cluster has, at some time, confirmed it. *)
Executed(tx) == chain[tx] \in {"landed", "undone"}
==============================================================================
