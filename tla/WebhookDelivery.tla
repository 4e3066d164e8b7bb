--------------------------- MODULE WebhookDelivery ---------------------------
(***************************************************************************)
(* The webhook deliverer of the x402 gateway: rows of webhook_deliveries   *)
(* are selected in batches, POSTed in parallel, and marked delivered,      *)
(* retrying or dead.  A POST and the UPDATE that records its outcome are   *)
(* two steps; the process may stop, or the database fail, between them.    *)
(***************************************************************************)
EXTENDS Naturals, Sequences, SequencesExt, FiniteSets

CONSTANTS
    Rows,           \* webhook_deliveries rows
    BatchSize,      \* WEBHOOK_BATCH_SIZE
    MaxAttempts,    \* WEBHOOK_MAX_ATTEMPTS
    MaxFaults       \* bound on crashes and database errors together

ASSUME WebhookAssumption ==
    /\ BatchSize \in Nat \ {0}
    /\ MaxAttempts \in Nat \ {0}
    /\ MaxFaults \in Nat

VARIABLES
    state,      \* webhook_deliveries.status, "absent" before the INSERT
    attempts,   \* webhook_deliveries.attempt_count
    dueQ,       \* rows whose next_retry_at has passed, oldest first
    work,       \* what the deliverer is doing with each row
    posts,      \* POSTs the receiver has seen, per row
    accepted,   \* has it taken one?
    refused,    \* has it answered with a client error?
    faults

rowVars == <<state, attempts, dueQ>>
receiverVars == <<posts, accepted, refused>>
vars == <<rowVars, work, receiverVars, faults>>

State == {"absent", "pending", "failed_retrying", "delivered", "failed_dead_letter"}
Terminal == {"delivered", "failed_dead_letter"}
Outcome == {"2xx", "4xx", "retry"}     \* retry: 5xx, 429, any other code, no answer
Work == {"none", "selected"} \cup Outcome

WebhookTypeOK ==
    /\ state \in [Rows -> State]
    /\ attempts \in [Rows -> 0..MaxAttempts]
    /\ dueQ \in Seq(Rows)
    /\ work \in [Rows -> [at : Work, seen : 0..MaxAttempts]]
    /\ posts \in [Rows -> Nat] /\ accepted \in [Rows -> BOOLEAN] /\ refused \in [Rows -> BOOLEAN]
    /\ faults \in 0..MaxFaults

Idle == [at |-> "none", seen |-> 0]

WebhookInit ==
    /\ state = [r \in Rows |-> "absent"]
    /\ attempts = [r \in Rows |-> 0]
    /\ dueQ = <<>>
    /\ work = [r \in Rows |-> Idle]
    /\ posts = [r \in Rows |-> 0]
    /\ accepted = [r \in Rows |-> FALSE]
    /\ refused = [r \in Rows |-> FALSE]
    /\ faults = 0

------------------------------------------------------------------------------
(* enqueue: due at once *)
Enqueue(r) ==
    /\ state[r] = "absent"
    /\ state' = [state EXCEPT ![r] = "pending"]
    /\ dueQ' = Append(dueQ, r)
    /\ UNCHANGED <<attempts, work, receiverVars, faults>>

(* Fault: only rows that are pending are selected when their time comes. *)
BackoffForgotten(r) ==
    /\ state[r] = "pending"
    /\ \A i \in 1..Len(dueQ) : dueQ[i] # r
    /\ dueQ' = Append(dueQ, r)
    /\ UNCHANGED <<state, attempts, work, receiverVars, faults>>

(* next_retry_at of a row that waits for its retry passes *)
BackoffElapses(r) ==
    /\ state[r] = "failed_retrying"
    /\ \A i \in 1..Len(dueQ) : dueQ[i] # r
    /\ dueQ' = Append(dueQ, r)
    /\ UNCHANGED <<state, attempts, work, receiverVars, faults>>

Batch ==
    LET n == IF Len(dueQ) < BatchSize THEN Len(dueQ) ELSE BatchSize
    IN {dueQ[i] : i \in 1..n}

(* _tick: the first rows of the queue, once the batch before is done *)
Tick ==
    /\ \A r \in Rows : work[r] = Idle
    /\ dueQ # <<>>
    /\ work' = [r \in Rows |->
           IF r \in Batch THEN [at |-> "selected", seen |-> attempts[r]] ELSE Idle]
    /\ UNCHANGED <<rowVars, receiverVars, faults>>

Got(r, outcome) == work' = [work EXCEPT ![r].at = outcome]

(* The receiver takes the POST and answers. *)
PostAnswered(r) ==
    /\ work[r].at = "selected"
    /\ posts' = [posts EXCEPT ![r] = @ + 1]
    /\ \/ Got(r, "2xx") /\ accepted' = [accepted EXCEPT ![r] = TRUE] /\ UNCHANGED refused
       \/ Got(r, "4xx") /\ refused' = [refused EXCEPT ![r] = TRUE] /\ UNCHANGED accepted
       \/ Got(r, "retry") /\ UNCHANGED <<accepted, refused>>
    /\ UNCHANGED <<rowVars, faults>>

(* httpx.HTTPError: the receiver took it and the answer was lost or late,  *)
(* or it never arrived.                                                    *)
PostLost(r) ==
    /\ work[r].at = "selected"
    /\ Got(r, "retry")
    /\ \/ /\ posts' = [posts EXCEPT ![r] = @ + 1]
          /\ accepted' = [accepted EXCEPT ![r] = TRUE]
       \/ UNCHANGED <<posts, accepted>>
    /\ UNCHANGED <<rowVars, refused, faults>>

(* The row leaves the queue with its new status. *)
Mark(r, s, n) ==
    /\ state' = [state EXCEPT ![r] = s]
    /\ attempts' = [attempts EXCEPT ![r] = n]
    /\ \E i \in 1..Len(dueQ) : dueQ[i] = r /\ dueQ' = RemoveAt(dueQ, i)
    /\ work' = [work EXCEPT ![r] = Idle]
    /\ UNCHANGED <<receiverVars, faults>>

MarkDelivered(r) ==
    /\ work[r].at = "2xx"
    /\ Mark(r, "delivered", attempts[r] + 1)

MarkRefused(r) ==
    /\ work[r].at = "4xx"
    /\ Mark(r, "failed_dead_letter", attempts[r] + 1)

(* Fault: the attempt is not counted. *)
MarkRetryingUncounted(r) ==
    /\ work[r].at = "retry"
    /\ work[r].seen + 1 < MaxAttempts
    /\ Mark(r, "failed_retrying", work[r].seen)

MarkRetrying(r) ==
    /\ work[r].at = "retry"
    /\ work[r].seen + 1 < MaxAttempts
    /\ Mark(r, "failed_retrying", work[r].seen + 1)

(* Fault: the row is given up one attempt early. *)
MarkExhaustedEarly(r) ==
    /\ work[r].at = "retry"
    /\ work[r].seen + 2 >= MaxAttempts
    /\ Mark(r, "failed_dead_letter", attempts[r] + 1)

MarkExhausted(r) ==
    /\ work[r].at = "retry"
    /\ work[r].seen + 1 >= MaxAttempts
    /\ Mark(r, "failed_dead_letter", attempts[r] + 1)

(* The UPDATE fails: gather swallows the error, the row stays as it was. *)
MarkFails(r) ==
    /\ work[r].at \in Outcome
    /\ faults < MaxFaults
    /\ faults' = faults + 1
    /\ work' = [work EXCEPT ![r] = Idle]
    /\ UNCHANGED <<rowVars, receiverVars>>

(* The process stops and starts again; POSTs under way may have arrived. *)
Crash ==
    /\ faults < MaxFaults
    /\ faults' = faults + 1
    /\ work' = [r \in Rows |-> Idle]
    /\ UNCHANGED <<rowVars, receiverVars>>

RowStep(r) ==
    \/ PostAnswered(r) \/ PostLost(r)
    \/ MarkDelivered(r) \/ MarkRefused(r) \/ MarkRetrying(r) \/ MarkExhausted(r) \/ MarkFails(r)

WebhookNext ==
    \/ \E r \in Rows : Enqueue(r) \/ BackoffElapses(r) \/ RowStep(r)
    \/ Tick
    \/ Crash

WebhookSpec == WebhookInit /\ [][WebhookNext]_vars

(* The loop runs, POSTs end (8 s timeout), time passes; faults are finite. *)
WebhookFairSpec ==
    /\ WebhookSpec
    /\ WF_vars(Tick)
    /\ \A r \in Rows : WF_vars(RowStep(r)) /\ WF_vars(BackoffElapses(r))

------------------------------------------------------------------------------
(* Properties                                                              *)

(* A row says delivered only if its receiver answered 2xx, and it is given *)
(* up only if the receiver refused it for good or has had its full number  *)
(* of attempts -- whatever stopped between a POST and its UPDATE.          *)
OutcomeIsEarned ==
    \A r \in Rows :
        /\ state[r] = "delivered" => accepted[r]
        /\ state[r] = "failed_dead_letter" => refused[r] \/ attempts[r] = MaxAttempts

(* Without a fault the receiver sees a row at most once per counted        *)
(* attempt, so at most MAX_ATTEMPTS times; each fault costs at most one    *)
(* more POST of each row.                                                  *)
PostsBounded == \A r \in Rows : posts[r] <= MaxAttempts + faults

(* Every enqueued event is delivered or given up: none is starved by       *)
(* others in a full batch or lost in a crash.                              *)
EveryEventConcluded == \A r \in Rows : state[r] = "pending" ~> state[r] \in Terminal
==============================================================================
