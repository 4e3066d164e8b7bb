--------------------------- MODULE SettlementWorker ---------------------------
(***************************************************************************)
(* The asynchronous settlement service of WEA: POST /v1/settlements queues *)
(* a signed transaction; one worker loop broadcasts the oldest pending     *)
(* row, confirms the oldest broadcast row and sends the oldest due         *)
(* callback, in this order, for ever.  The process also runs the depeg     *)
(* monitor.                                                                *)
(***************************************************************************)
EXTENDS DepegMonitor, Sequences, SequencesExt, FiniteSets

CONSTANTS
    Settlements,    \* rows of settlements
    MaxCallbacks,   \* RETRY_INTERVALS_SECS.len()
    MaxFaults,      \* bound on crashes and failed calls together
    NoRow           \* "no row"

ASSUME WorkerAssumption ==
    /\ MaxCallbacks \in Nat \ {0}
    /\ MaxFaults \in Nat
    /\ NoRow \notin Settlements

VARIABLES
    status,     \* settlements.status, "absent" before the INSERT
    pendingQ,   \* pending rows by created_at
    sentQ,      \* broadcasting rows by broadcast_at
    cb,         \* callback_status
    attempts,   \* callback_attempt_count
    dueQ,       \* rows whose callback is due, by callback_next_retry
    wpc, wrow,  \* where the worker is, and its row
    onchain,    \* what the cluster decided about a row's transaction
    told,       \* the statuses the caller has been called back with
    posts,      \* callbacks that reached the caller
    flaw,       \* what is wrong with a row for good
    faults

rowVars == <<status, pendingQ, sentQ, cb, attempts, dueQ>>
workerVars == <<wpc, wrow>>
outsideVars == <<onchain, told, posts, flaw>>
vars == <<rowVars, workerVars, outsideVars, faults, depegVars>>

Final == {"sent_ok", "fail_dead_letter"}

(* A transaction the node refuses whenever it is sent, one the cluster     *)
(* never decides about, a callback secret KMS cannot decrypt.              *)
Flaws == {"none", "refused", "undecided", "undecryptable"}

WorkerTypeOK ==
    /\ DepegTypeOK
    /\ status \in [Settlements -> {"absent", "pending", "broadcasting", "confirmed", "failed", "done"}]
    /\ {pendingQ, sentQ, dueQ} \subseteq Seq(Settlements)
    /\ cb \in [Settlements -> {"null", "pending", "in_flight"} \cup Final]
    /\ attempts \in [Settlements -> 0..MaxCallbacks]
    /\ wpc \in {"broadcast", "sending", "confirm", "callback", "posting", "ok", "not_ok"}
    /\ wrow \in Settlements \cup {NoRow}
    /\ onchain \in [Settlements -> {"unseen", "sent", "ok", "err"}]
    /\ told \in [Settlements -> SUBSET {"confirmed", "failed"}]
    /\ posts \in [Settlements -> Nat]
    /\ flaw \in [Settlements -> Flaws]
    /\ faults \in 0..MaxFaults

WorkerInit ==
    /\ DepegInit
    /\ status = [r \in Settlements |-> "absent"]
    /\ pendingQ = <<>> /\ sentQ = <<>> /\ dueQ = <<>>
    /\ cb = [r \in Settlements |-> "null"]
    /\ attempts = [r \in Settlements |-> 0]
    /\ wpc = "broadcast" /\ wrow = NoRow
    /\ onchain = [r \in Settlements |-> "unseen"]
    /\ told = [r \in Settlements |-> {}]
    /\ posts = [r \in Settlements |-> 0]
    /\ flaw \in [Settlements -> Flaws]
    /\ faults = 0

------------------------------------------------------------------------------
Fault == faults < MaxFaults /\ faults' = faults + 1

(* A failure that a flaw of the row brings about whenever it is tried, or a *)
(* fault.                                                                  *)
FailsFor(r, f) == IF flaw[r] = f THEN UNCHANGED faults ELSE Fault

WGoto(l, r) == wpc' = l /\ wrow' = r

SetStatus(r, s) == status' = [status EXCEPT ![r] = s]

(* create_settlement: the gate, then the INSERT.  A gate that cannot read  *)
(* its flag lets the call pass.                                            *)
CreateSettlement(r) ==
    /\ status[r] = "absent"
    /\ IF IsAccepting THEN UNCHANGED faults ELSE Fault
    /\ SetStatus(r, "pending")
    /\ pendingQ' = Append(pendingQ, r)
    /\ UNCHANGED <<sentQ, cb, attempts, dueQ, workerVars, outsideVars, depegVars>>

------------------------------------------------------------------------------
(* broadcast_pass: the row is locked, the transaction sent, the row        *)
(* updated, all in one database transaction.                               *)
BroadcastPass ==
    /\ wpc = "broadcast"
    /\ IF pendingQ = <<>> THEN WGoto("confirm", NoRow) ELSE WGoto("sending", Head(pendingQ))
    /\ UNCHANGED <<rowVars, outsideVars, faults, depegVars>>

Send == onchain' = [onchain EXCEPT ![wrow] = IF @ = "unseen" THEN "sent" ELSE @]

BroadcastSent ==
    /\ wpc = "sending"
    /\ flaw[wrow] # "refused"
    /\ Send
    /\ SetStatus(wrow, "broadcasting")
    /\ pendingQ' = Tail(pendingQ)
    /\ sentQ' = Append(sentQ, wrow)
    /\ WGoto("confirm", NoRow)
    /\ UNCHANGED <<cb, attempts, dueQ, told, posts, flaw, faults, depegVars>>

(* The call or the COMMIT fails: the row stays pending, and is next again. *)
BroadcastFails ==
    /\ wpc = "sending"
    /\ FailsFor(wrow, "refused")
    /\ UNCHANGED onchain \/ (flaw[wrow] # "refused" /\ Send)
    /\ WGoto("confirm", NoRow)
    /\ UNCHANGED <<rowVars, told, posts, flaw, depegVars>>

(* MockRpc stands for the cluster: it answers that the transaction is      *)
(* confirmed, or nothing yet; the worker also handles a chain error.       *)
ChainDecides(r) ==
    /\ onchain[r] = "sent"
    /\ flaw[r] # "undecided"
    /\ \E outcome \in {"ok", "err"} : onchain' = [onchain EXCEPT ![r] = outcome]
    /\ UNCHANGED <<rowVars, workerVars, told, posts, flaw, faults, depegVars>>

(* The row is decided, its callback is due at once. *)
Decide(r, s) ==
    /\ SetStatus(r, s)
    /\ sentQ' = Tail(sentQ)
    /\ cb' = [cb EXCEPT ![r] = "pending"]
    /\ dueQ' = Append(dueQ, r)

(* Fault: no answer is taken for no error. *)
ConfirmPassHasty ==
    /\ wpc = "confirm"
    /\ WGoto("callback", NoRow)
    /\ sentQ # <<>>
    /\ Decide(Head(sentQ), IF onchain[Head(sentQ)] = "err" THEN "failed" ELSE "confirmed")
    /\ UNCHANGED <<pendingQ, attempts, outsideVars, faults, depegVars>>

ConfirmPass ==
    /\ wpc = "confirm"
    /\ WGoto("callback", NoRow)
    /\ IF sentQ # <<>> /\ onchain[Head(sentQ)] \in {"ok", "err"}
       THEN Decide(Head(sentQ), IF onchain[Head(sentQ)] = "ok" THEN "confirmed" ELSE "failed")
       ELSE UNCHANGED <<status, sentQ, cb, dueQ>>
    /\ UNCHANGED <<pendingQ, attempts, outsideVars, faults, depegVars>>

(* get_signature_status or the UPDATE fails *)
ConfirmFails ==
    /\ wpc = "confirm"
    /\ Fault
    /\ WGoto("callback", NoRow)
    /\ UNCHANGED <<rowVars, outsideVars, depegVars>>

------------------------------------------------------------------------------
(* callback_pass *)

(* callback_next_retry of a row that waits passes. *)
CallbackDue(r) ==
    /\ cb[r] = "pending"
    /\ \A i \in 1..Len(dueQ) : dueQ[i] # r
    /\ dueQ' = Append(dueQ, r)
    /\ UNCHANGED <<status, pendingQ, sentQ, cb, attempts, workerVars, outsideVars, faults, depegVars>>

CallbackNone ==
    /\ wpc = "callback"
    /\ dueQ = <<>>
    /\ WGoto("broadcast", NoRow)
    /\ UNCHANGED <<rowVars, outsideVars, faults, depegVars>>

(* The claim is committed before the POST. *)
CallbackClaim ==
    /\ wpc = "callback"
    /\ dueQ # <<>>
    /\ flaw[Head(dueQ)] # "undecryptable"
    /\ cb' = [cb EXCEPT ![Head(dueQ)] = "in_flight"]
    /\ dueQ' = Tail(dueQ)
    /\ WGoto("posting", Head(dueQ))
    /\ UNCHANGED <<status, pendingQ, sentQ, attempts, outsideVars, faults, depegVars>>

(* KMS cannot decrypt the secret, or the COMMIT fails: the transaction is  *)
(* rolled back.  (The UPDATE meant to release the row waits for the lock   *)
(* this very transaction holds, times out and is ignored.)                 *)
CallbackClaimFails ==
    /\ wpc = "callback"
    /\ dueQ # <<>>
    /\ FailsFor(Head(dueQ), "undecryptable")
    /\ WGoto("broadcast", NoRow)
    /\ UNCHANGED <<rowVars, outsideVars, depegVars>>

(* The caller takes it and says so, takes it and the answer is lost, or    *)
(* does not take it.                                                       *)
CallbackPost ==
    /\ wpc = "posting"
    /\ \/ /\ \E l \in {"ok", "not_ok"} : WGoto(l, wrow)
          /\ told' = [told EXCEPT ![wrow] = @ \cup {status[wrow]}]
          /\ posts' = [posts EXCEPT ![wrow] = @ + 1]
       \/ WGoto("not_ok", wrow) /\ UNCHANGED <<told, posts>>
    /\ UNCHANGED <<rowVars, onchain, flaw, faults, depegVars>>

(* A confirmed row is done; a failed one stays failed. *)
CallbackSent ==
    /\ wpc = "ok"
    /\ cb' = [cb EXCEPT ![wrow] = "sent_ok"]
    /\ status' = [status EXCEPT ![wrow] = IF @ = "confirmed" THEN "done" ELSE @]
    /\ WGoto("broadcast", NoRow)
    /\ UNCHANGED <<pendingQ, sentQ, attempts, dueQ, outsideVars, faults, depegVars>>

(* Fault: the last attempt is followed by another. *)
CallbackMissedOneMore ==
    /\ wpc = "not_ok"
    /\ attempts' = [attempts EXCEPT ![wrow] = @ + 1]
    /\ cb' = [cb EXCEPT ![wrow] = IF attempts'[wrow] > MaxCallbacks THEN "fail_dead_letter" ELSE "pending"]
    /\ WGoto("broadcast", NoRow)
    /\ UNCHANGED <<status, pendingQ, sentQ, dueQ, outsideVars, faults, depegVars>>

(* Fault: the last attempt leaves the row where it is. *)
CallbackMissedForgotten ==
    /\ wpc = "not_ok"
    /\ attempts' = [attempts EXCEPT ![wrow] = @ + 1]
    /\ cb' = [cb EXCEPT ![wrow] = IF attempts'[wrow] >= MaxCallbacks THEN "fail_dead_letter" ELSE "null"]
    /\ WGoto("broadcast", NoRow)
    /\ UNCHANGED <<status, pendingQ, sentQ, dueQ, outsideVars, faults, depegVars>>

CallbackMissed ==
    /\ wpc = "not_ok"
    /\ attempts' = [attempts EXCEPT ![wrow] = @ + 1]
    /\ cb' = [cb EXCEPT ![wrow] = IF attempts'[wrow] >= MaxCallbacks THEN "fail_dead_letter" ELSE "pending"]
    /\ WGoto("broadcast", NoRow)
    /\ UNCHANGED <<status, pendingQ, sentQ, dueQ, outsideVars, faults, depegVars>>

(* The UPDATE after the POST fails: the row stays in flight. *)
CallbackRecordFails ==
    /\ wpc \in {"ok", "not_ok"}
    /\ Fault
    /\ WGoto("broadcast", NoRow)
    /\ UNCHANGED <<rowVars, outsideVars, depegVars>>

(* The process stops and starts again. *)
Crash ==
    /\ Fault
    /\ WGoto("broadcast", NoRow)
    /\ MonitorRestarts
    /\ UNCHANGED <<rowVars, outsideVars>>

WorkerStep ==
    \/ BroadcastPass \/ BroadcastSent \/ BroadcastFails
    \/ ConfirmPass \/ ConfirmFails
    \/ CallbackNone \/ CallbackClaim \/ CallbackClaimFails \/ CallbackPost
    \/ CallbackSent \/ CallbackMissed \/ CallbackRecordFails

Monitor == DepegNext /\ UNCHANGED <<rowVars, workerVars, outsideVars, faults>>

WorkerNext ==
    \/ \E r \in Settlements : CreateSettlement(r) \/ ChainDecides(r) \/ CallbackDue(r)
    \/ WorkerStep
    \/ Monitor
    \/ Crash

WorkerSpec == WorkerInit /\ [][WorkerNext]_vars

(* The loop runs, the cluster decides about what it was sent, time passes. *)
WorkerFairSpec ==
    /\ WorkerSpec
    /\ WF_vars(WorkerStep)
    /\ \A r \in Settlements : WF_vars(ChainDecides(r)) /\ WF_vars(CallbackDue(r))

------------------------------------------------------------------------------
(* Properties                                                              *)

(* The caller is only ever told what the cluster decided, and a settlement *)
(* is done only if the caller was told it is confirmed.                    *)
CallbackTellsTheChain ==
    \A r \in Settlements :
        /\ "confirmed" \in told[r] => onchain[r] = "ok"
        /\ "failed" \in told[r] => onchain[r] = "err"
        /\ status[r] = "done" => told[r] = {"confirmed"}

(* No caller gets a callback more often than the schedule allows, whatever *)
(* crashes: a claim is committed before its POST, so no POST is repeated   *)
(* by a restart.                                                           *)
CallbacksBounded == \A r \in Settlements : posts[r] <= MaxCallbacks

(* The price of that: a row whose claim outlived its worker. *)
Orphaned(r) == cb[r] = "in_flight" /\ wrow # r

(* p holds up every row behind it in q, and itself. *)
Behind(r, q, p) == \E i, j \in 1..Len(q) : i <= j /\ q[i] = p /\ q[j] = r

(* Each pass takes the first row of its queue, every time: a row that can  *)
(* never leave a queue holds up all that come after it.                    *)
HeldUp(r) ==
    \E p \in Settlements :
        \/ flaw[p] = "refused" /\ Behind(r, pendingQ, p)
        \/ flaw[p] = "undecided" /\ Behind(r, sentQ, p)
        \/ flaw[p] = "undecryptable" /\ Behind(r, dueQ, p)

(* Every settlement is told to its caller or given up, but for those a     *)
(* fault left in flight and those queued behind a row that is flawed for   *)
(* good, which nothing ever takes out of its queue: rows ahead of such a   *)
(* one, or done with its pass, are not harmed by it, and neither the       *)
(* retries of others nor crashes starve a row.                             *)
EverySettlementConcluded ==
    \A r \in Settlements :
        status[r] = "pending" ~> cb[r] \in Final \/ Orphaned(r) \/ HeldUp(r)
==============================================================================
