----------------------------- MODULE Facilitator -----------------------------
(***************************************************************************)
(* POST /facilitator/settle of the WEA service: one axum task per call     *)
(* checks the depeg guard, hands the signed transaction to an RPC node and *)
(* polls for its confirmation.  A caller that stops waiting does not stop  *)
(* the task, so a call slot stays busy until its task has replied.         *)
(***************************************************************************)
EXTENDS SolanaChain, Naturals

CONSTANTS
    Calls,      \* slots for concurrent settle calls
    MaxPolls,   \* polls before giving up (15 in the code)
    NoTx        \* "no transaction"

ASSUME FacilitatorAssumption == MaxPolls \in Nat \ {0} /\ NoTx \notin Txs

VARIABLES
    accepting,  \* system_flags.accepting_settlements, written by the depeg monitor
    phase,      \* where each settle task is
    asked,      \* the transaction each task was given
    polls,      \* polls each task has made
    reply       \* what a finished task answered

taskVars == <<phase, asked, polls, reply>>
facilitatorVars == <<chain, accepting, phase, asked, polls, reply>>

Phase == {"idle", "received", "admitted", "polling", "replied"}
Reply == {"none",
          "success",       \* 200, success: true
          "rejected",      \* 200, success: false
          "unavailable"}   \* a 5xx answer, or the connection broke

FacilitatorTypeOK ==
    /\ ChainTypeOK
    /\ accepting \in BOOLEAN
    /\ phase \in [Calls -> Phase]
    /\ asked \in [Calls -> Txs \cup {NoTx}]
    /\ polls \in [Calls -> 0..MaxPolls]
    /\ reply \in [Calls -> Reply]

FacilitatorInit ==
    /\ ChainInit
    /\ accepting = TRUE
    /\ phase = [c \in Calls |-> "idle"]
    /\ asked = [c \in Calls |-> NoTx]
    /\ polls = [c \in Calls |-> 0]
    /\ reply = [c \in Calls |-> "none"]

------------------------------------------------------------------------------
(* The settle task.                                                        *)

Receive(c, tx) ==
    /\ phase[c] = "idle"
    /\ phase' = [phase EXCEPT ![c] = "received"]
    /\ asked' = [asked EXCEPT ![c] = tx]
    /\ polls' = [polls EXCEPT ![c] = 0]
    /\ UNCHANGED reply

Answer(c, r) ==
    /\ phase' = [phase EXCEPT ![c] = "replied"]
    /\ reply' = [reply EXCEPT ![c] = r]
    /\ UNCHANGED <<asked, polls>>

(* The depeg guard reads the flag once, before anything is broadcast. *)
Admit(c) ==
    /\ phase[c] = "received"
    /\ IF accepting
       THEN /\ phase' = [phase EXCEPT ![c] = "admitted"]
            /\ UNCHANGED <<asked, polls, reply>>
       ELSE Answer(c, "unavailable")
    /\ UNCHANGED <<chain, accepting>>

(* sendTransaction returned a signature; a node that lags may take again   *)
(* what the cluster has decided about.                                     *)
Broadcast(c) ==
    /\ phase[c] = "admitted"
    /\ Submitted(asked[c])
    /\ phase' = [phase EXCEPT ![c] = "polling"]
    /\ UNCHANGED <<accepting, asked, polls, reply>>

(* The RPC node is unreachable, answers with something else than JSON, with *)
(* an error or without a result; it may have taken the transaction before.  *)
BroadcastRejected(c) ==
    /\ phase[c] = "admitted"
    /\ chain' = chain \/ Submitted(asked[c])
    /\ Answer(c, "rejected")
    /\ UNCHANGED accepting

(* One round of the polling loop: an answer that decides nothing goes to   *)
(* the next round, and the last round gives up.                            *)
Poll(c) ==
    /\ phase[c] = "polling"
    /\ polls[c] < MaxPolls
    /\ \E answer \in SignatureStatuses(asked[c]) :
         \/ /\ answer = "confirmed"
            /\ Answer(c, "success")
         \/ /\ answer = "err"
            /\ Answer(c, "rejected")
         \/ /\ answer = "null"
            /\ polls' = [polls EXCEPT ![c] = @ + 1]
            /\ UNCHANGED <<phase, asked, reply>>
    /\ UNCHANGED <<chain, accepting>>

(* Fault: running out of polls is not an error. *)
GiveUpOptimistic(c) ==
    /\ phase[c] = "polling"
    /\ polls[c] = MaxPolls
    /\ Answer(c, "success")
    /\ UNCHANGED <<chain, accepting>>

(* Fault: after the last round nobody answers. *)
GiveUpNever(c) ==
    /\ phase[c] = "polling"
    /\ polls[c] = MaxPolls + 1
    /\ Answer(c, "rejected")
    /\ UNCHANGED <<chain, accepting>>

GiveUp(c) ==
    /\ phase[c] = "polling"
    /\ polls[c] = MaxPolls
    /\ Answer(c, "rejected")
    /\ UNCHANGED <<chain, accepting>>

(* The connection breaks or the service restarts: the task is gone and the *)
(* caller, if it still waits, sees a transport error.                      *)
Abort(c) ==
    /\ phase[c] \in {"received", "admitted", "polling"}
    /\ Answer(c, "unavailable")
    /\ UNCHANGED <<chain, accepting>>

(* The reply reaches its caller, or nobody: the slot is free again. *)
Release(c) ==
    /\ phase[c] = "replied"
    /\ phase' = [phase EXCEPT ![c] = "idle"]
    /\ asked' = [asked EXCEPT ![c] = NoTx]
    /\ polls' = [polls EXCEPT ![c] = 0]
    /\ reply' = [reply EXCEPT ![c] = "none"]

(* GET /facilitator/tx/{signature}: stateless; "error" is a 500. *)
TxStatusAnswers(tx) ==
    {"error", "pending"} \cup
    {CASE a = "confirmed" -> "confirmed" [] a = "err" -> "failed" [] OTHER -> "pending"
        : a \in SignatureStatuses(tx)}

(* The depeg monitor (see DepegMonitor) or an operator writes the flag. *)
SetAccepting ==
    /\ accepting' = ~accepting
    /\ UNCHANGED <<chain, phase, asked, polls, reply>>

TaskProgress(c) ==
    Admit(c) \/ Broadcast(c) \/ BroadcastRejected(c) \/ Poll(c) \/ GiveUp(c)

TaskStep(c) == TaskProgress(c) \/ Abort(c)

FacilitatorStep ==
    \/ \E c \in Calls : TaskStep(c)
    \/ ChainNext /\ UNCHANGED <<accepting, phase, asked, polls, reply>>
    \/ SetAccepting

------------------------------------------------------------------------------
(* settle answers success only for a transaction the cluster executed      *)
(* without error (facilitator.rs: the loop's confirmed flag is set after   *)
(* the err field was found null), however many calls carry the same        *)
(* transaction and whatever the nodes answered before.                     *)
SuccessMeansLanded == \A c \in Calls : reply[c] = "success" => Executed(asked[c])

(* Every call is answered within a bounded number of polls: a transaction  *)
(* the cluster never mentions again does not hold the task for ever.       *)
EveryCallAnswered == \A c \in Calls : phase[c] = "received" ~> phase[c] = "replied"
==============================================================================
