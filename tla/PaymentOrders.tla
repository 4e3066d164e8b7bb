---------------------------- MODULE PaymentOrders ----------------------------
(***************************************************************************)
(* The x402 gateway: the payment_orders state machine and everything that  *)
(* drives it -- POST /v1/payments, POST /v1/payments/{id}/proof, the       *)
(* protected checkout resource, the background confirmer -- with the       *)
(* facilitator tasks they start and the crashes they suffer.               *)
(*                                                                         *)
(* Each HTTP request occupies one handler slot.  A handler's database      *)
(* transaction is one step; between two transactions, or around a call to  *)
(* another service, other handlers, the confirmer and a crash interleave.  *)
(* Handler h uses facilitator slot h.                                      *)
(***************************************************************************)
EXTENDS Facilitator, FiniteSets

CONSTANTS
    Orders,        \* order rows, one per (api_key_id, idempotency_key)
    TopUps,        \* orders whose settlement_kind is token_topup; the others
                   \* are orders of the protected checkout resource
    PaysFor,       \* the order whose nonce a signed transaction carries
    Confirmers,    \* confirmer loops, one per gateway replica
    Wordy,         \* transactions an RPC node may refuse in more words than
                   \* the column status_reason holds
    BatchSize,     \* CONFIRMER_BATCH_SIZE
    WebhookOn,     \* is a webhook target configured?
    CanCrash,      \* may the gateway process stop at any point?
    NoOrder        \* "no order"

ASSUME PaymentAssumption ==
    /\ TopUps \subseteq Orders
    /\ PaysFor \in [Txs -> Orders \cup {NoOrder}]
    /\ NoOrder \notin Orders
    /\ Wordy \subseteq Txs
    /\ BatchSize \in Nat \ {0}
    /\ WebhookOn \in BOOLEAN /\ CanCrash \in BOOLEAN

Handlers == Calls   \* slots for concurrent HTTP requests

VARIABLES
    status,     \* payment_orders.status, "absent" before the INSERT
    txHash,     \* payment_orders.tx_hash
    overdue,    \* orders whose expires_at has passed
    proofs,     \* rows of payment_proofs
    pc,         \* where each handler is
    hOrder,     \* the order a handler works on
    hTx,        \* the signed transaction in its request
    cpc,        \* where each confirmer is
    todo,       \* the rest of the batch it selected
    cur,        \* the order it is advancing
    credits,    \* /internal/credit calls token-api has executed for an order
    events      \* webhook_deliveries rows per order and event type

storeVars == <<status, txHash, overdue, proofs, credits, events>>
handlerVars == <<pc, hOrder, hTx>>
confirmerVars == <<cpc, todo, cur>>
vars == <<facilitatorVars, storeVars, handlerVars, confirmerVars>>

Status == {"created", "pending", "broadcasting", "confirmed", "token_credited",
           "failed", "expired", "canceled", "refunded"}

(* _TRANSITIONS *)
Edges == {<<"created", "pending">>, <<"created", "expired">>, <<"created", "canceled">>,
          <<"pending", "broadcasting">>, <<"pending", "failed">>, <<"pending", "expired">>,
          <<"broadcasting", "confirmed">>, <<"broadcasting", "failed">>,
          <<"confirmed", "token_credited">>, <<"token_credited", "refunded">>}

EventType == {"payment.confirmed", "payment.token_credited", "payment.failed"}

SubmitPC == {"s_read", "s_accepted", "s_waiting", "s_settled", "s_rejected"}
CheckoutPC == {"c_read", "c_fresh", "c_proved", "c_waiting", "c_settled"}
ConfirmerPC == {"idle", "polling", "confirming", "failing", "crediting", "crediting_done",
                "event_confirmed", "event_credited", "event_failed"}

Proof == [order : Orders, tx : Txs, verified : BOOLEAN, hashed : BOOLEAN]

PaymentTypeOK ==
    /\ FacilitatorTypeOK
    /\ status \in [Orders -> Status \cup {"absent"}]
    /\ txHash \in [Orders -> Txs \cup {NoTx}]
    /\ overdue \subseteq Orders
    /\ proofs \subseteq Proof
    /\ pc \in [Handlers -> {"idle"} \cup SubmitPC \cup CheckoutPC]
    /\ hOrder \in [Handlers -> Orders \cup {NoOrder}]
    /\ hTx \in [Handlers -> Txs \cup {NoTx}]
    /\ cpc \in [Confirmers -> ConfirmerPC]
    /\ todo \in [Confirmers -> SUBSET Orders]
    /\ cur \in [Confirmers -> Orders \cup {NoOrder}]
    /\ credits \in [Orders -> Nat]
    /\ events \in [Orders -> [EventType -> Nat]]

PaymentInit ==
    /\ FacilitatorInit
    /\ status = [o \in Orders |-> "absent"]
    /\ txHash = [o \in Orders |-> NoTx]
    /\ overdue = {}
    /\ proofs = {}
    /\ pc = [h \in Handlers |-> "idle"]
    /\ hOrder = [h \in Handlers |-> NoOrder]
    /\ hTx = [h \in Handlers |-> NoTx]
    /\ cpc = [c \in Confirmers |-> "idle"]
    /\ todo = [c \in Confirmers |-> {}]
    /\ cur = [c \in Confirmers |-> NoOrder]
    /\ credits = [o \in Orders |-> 0]
    /\ events = [o \in Orders |-> [e \in EventType |-> 0]]

------------------------------------------------------------------------------
(* OrderService.transition: the row is locked, its status compared with    *)
(* from_status and with the table of legal transitions.                    *)

(* Fault: from_status is not compared with the locked row. *)
CanMoveUnchecked(o, from, to) == status[o] # "absent" /\ <<from, to>> \in Edges

CanMove(o, from, to) == status[o] = from /\ <<from, to>> \in Edges

SetStatus(o, to) == status' = [status EXCEPT ![o] = to]

(* A conflict is swallowed by the handler: the row keeps its status. *)
MoveIfPossible(o, from, to) ==
    status' = IF CanMove(o, from, to) THEN [status EXCEPT ![o] = to] ELSE status

(* UNIQUE (tx_hash) *)
HashUnused(o, tx) == \A p \in Orders \ {o} : txHash[p] # tx

(* UNIQUE (signed_tx_hash), which is NULL for rows of the submit route. *)
Seen(tx) == \E p \in proofs : p.hashed /\ p.tx = tx

(* verify_proof: amount, recipient, mint and memo nonce fit the order. *)
ProofValid(h) == PaysFor[hTx[h]] = hOrder[h]

(* Fault: the hash of the signed transaction is not stored. *)
AddProofUnhashed(h, ok, hash) ==
    proofs' = proofs \cup {[order |-> hOrder[h], tx |-> hTx[h], verified |-> ok, hashed |-> FALSE]}

AddProof(h, ok, hash) ==
    proofs' = proofs \cup {[order |-> hOrder[h], tx |-> hTx[h], verified |-> ok, hashed |-> hash]}

Goto(h, l) == pc' = [pc EXCEPT ![h] = l] /\ UNCHANGED <<hOrder, hTx>>

Return(h) ==
    /\ pc' = [pc EXCEPT ![h] = "idle"]
    /\ hOrder' = [hOrder EXCEPT ![h] = NoOrder]
    /\ hTx' = [hTx EXCEPT ![h] = NoTx]

Start(h, l, o, tx) ==
    /\ pc[h] = "idle"
    /\ pc' = [pc EXCEPT ![h] = l]
    /\ hOrder' = [hOrder EXCEPT ![h] = o]
    /\ hTx' = [hTx EXCEPT ![h] = tx]

------------------------------------------------------------------------------
(* Creating an order: POST /v1/payments, or the protected resource asked   *)
(* without X-PAYMENT.  A repeated key returns the row that is there.       *)
CreatePayment(o) ==
    /\ status[o] = "absent"
    /\ SetStatus(o, "created")
    /\ UNCHANGED <<facilitatorVars, handlerVars, confirmerVars,
                   txHash, overdue, proofs, credits, events>>

(* expires_at passes. *)
DeadlinePasses(o) ==
    /\ o \notin overdue
    /\ status[o] # "absent"
    /\ overdue' = overdue \cup {o}
    /\ UNCHANGED <<facilitatorVars, handlerVars, confirmerVars,
                   status, txHash, proofs, credits, events>>

------------------------------------------------------------------------------
(* POST /v1/payments/{id}/proof                                            *)

(* The row is read without a lock; anything but "created" is a 409. *)
SubmitRead(h, o, tx) ==
    /\ status[o] = "created"
    /\ Start(h, "s_read", o, tx)
    /\ UNCHANGED <<facilitatorVars, storeVars, confirmerVars>>

SubmitInvalid(h) ==
    /\ pc[h] = "s_read"
    /\ ~ProofValid(h)
    /\ AddProof(h, FALSE, FALSE)
    /\ Return(h)
    /\ UNCHANGED <<facilitatorVars, confirmerVars, status, txHash, overdue, credits, events>>

(* The proof row and created -> pending commit together, or neither does. *)
SubmitAccept(h) ==
    /\ pc[h] = "s_read"
    /\ ProofValid(h)
    /\ CanMove(hOrder[h], "created", "pending")
    /\ SetStatus(hOrder[h], "pending")
    /\ AddProof(h, TRUE, FALSE)
    /\ Goto(h, "s_accepted")
    /\ UNCHANGED <<facilitatorVars, confirmerVars, txHash, overdue, credits, events>>

SubmitConflict(h) ==
    /\ pc[h] = "s_read"
    /\ ProofValid(h)
    /\ ~CanMove(hOrder[h], "created", "pending")
    /\ Return(h)
    /\ UNCHANGED <<facilitatorVars, storeVars, confirmerVars>>

(* Fault: the refusal is reported to the client but not recorded. *)
SubmitFailedUnrecorded(h) ==
    /\ pc[h] = "s_rejected"
    /\ Return(h)
    /\ UNCHANGED <<facilitatorVars, storeVars, confirmerVars>>

(* pending -> failed after the facilitator refused, failed or timed out. *)
SubmitFailed(h) ==
    /\ pc[h] = "s_rejected"
    /\ MoveIfPossible(hOrder[h], "pending", "failed")
    /\ Return(h)
    /\ UNCHANGED <<facilitatorVars, confirmerVars, txHash, overdue, proofs, credits, events>>

(* pending -> broadcasting with the hash; a conflict or a duplicate hash   *)
(* ends the request with an error and changes nothing.                     *)
SubmitBroadcasting(h) ==
    /\ pc[h] = "s_settled"
    /\ LET o == hOrder[h]
           ok == CanMove(o, "pending", "broadcasting") /\ HashUnused(o, hTx[h])
       IN /\ status' = IF ok THEN [status EXCEPT ![o] = "broadcasting"] ELSE status
          /\ txHash' = IF ok THEN [txHash EXCEPT ![o] = hTx[h]] ELSE txHash
    /\ Return(h)
    /\ UNCHANGED <<facilitatorVars, confirmerVars, overdue, proofs, credits, events>>

------------------------------------------------------------------------------
(* wea.settle, called by both routes.  The protected resource calls        *)
(* wea.verify first, which keeps no state and asks the gateway the         *)
(* question verify_proof has answered: its failure ends the request just   *)
(* as an unreachable facilitator does.                                     *)

AfterRefusal(h) == IF pc[h] = "s_waiting" THEN Goto(h, "s_rejected") ELSE Return(h)

SettleCall(h) ==
    /\ pc[h] \in {"s_accepted", "c_proved"}
    /\ Receive(h, hTx[h])
    /\ Goto(h, IF pc[h] = "s_accepted" THEN "s_waiting" ELSE "c_waiting")
    /\ UNCHANGED <<chain, accepting, storeVars, confirmerVars>>

(* verify fails, or the connection is refused: no settle task starts. *)
SettleUnreachable(h) ==
    /\ pc[h] \in {"s_accepted", "c_proved"}
    /\ IF pc[h] = "s_accepted" THEN Goto(h, "s_rejected") ELSE Return(h)
    /\ UNCHANGED <<facilitatorVars, storeVars, confirmerVars>>

SettleSucceeded(h) ==
    /\ pc[h] \in {"s_waiting", "c_waiting"}
    /\ reply[h] = "success"
    /\ Release(h)
    /\ Goto(h, IF pc[h] = "s_waiting" THEN "s_settled" ELSE "c_settled")
    /\ UNCHANGED <<chain, accepting, storeVars, confirmerVars>>

SettleRefused(h) ==
    /\ pc[h] \in {"s_waiting", "c_waiting"}
    /\ reply[h] \in {"rejected", "unavailable"}
    /\ Release(h)
    /\ AfterRefusal(h)
    /\ UNCHANGED <<chain, accepting, storeVars, confirmerVars>>

(* The reason of a refusal goes into status_reason as it is: one too long  *)
(* is a DataError, which rolls pending -> failed back and ends the request. *)
SettleRefusedAtLength(h) ==
    /\ pc[h] = "s_waiting"
    /\ reply[h] = "rejected"
    /\ hTx[h] \in Wordy
    /\ Release(h)
    /\ Return(h)
    /\ UNCHANGED <<chain, accepting, storeVars, confirmerVars>>

(* Fault: a time-out of the facilitator is taken for its success. *)
SettleTimeoutOptimistic(h) ==
    /\ pc[h] \in {"s_waiting", "c_waiting"}
    /\ phase[h] # "replied"
    /\ Goto(h, IF pc[h] = "s_waiting" THEN "s_settled" ELSE "c_settled")
    /\ UNCHANGED <<facilitatorVars, storeVars, confirmerVars>>

(* WEA_TIMEOUT_SECS pass, or the connection breaks, while the task is      *)
(* still at work: the task goes on without its caller.                     *)
SettleTimeout(h) ==
    /\ pc[h] \in {"s_waiting", "c_waiting"}
    /\ phase[h] # "replied"
    /\ AfterRefusal(h)
    /\ UNCHANGED <<facilitatorVars, storeVars, confirmerVars>>

(* A reply nobody waits for. *)
ReplyLost(h) ==
    /\ pc[h] \notin {"s_waiting", "c_waiting"}
    /\ Release(h)
    /\ UNCHANGED <<chain, accepting, storeVars, handlerVars, confirmerVars>>

------------------------------------------------------------------------------
(* POST /v1/protected/checkout/order with X-PAYMENT                        *)

(* Make or fetch the row; anything but "created" is a 409.  The status     *)
(* read here is not looked at again before the final transaction.          *)
CheckoutRead(h, o, tx) ==
    /\ o \notin TopUps
    /\ status[o] \in {"absent", "created"}
    /\ SetStatus(o, "created")
    /\ Start(h, "c_read", o, tx)
    /\ UNCHANGED <<facilitatorVars, confirmerVars, txHash, overdue, proofs, credits, events>>

CheckoutExpired(h) ==
    /\ pc[h] = "c_read"
    /\ hOrder[h] \in overdue
    /\ MoveIfPossible(hOrder[h], "created", "expired")
    /\ Return(h)
    /\ UNCHANGED <<facilitatorVars, confirmerVars, txHash, overdue, proofs, credits, events>>

(* SELECT by signed_tx_hash. *)
CheckoutReplay(h) ==
    /\ pc[h] = "c_read"
    /\ hOrder[h] \notin overdue
    /\ Seen(hTx[h])
    /\ Return(h)
    /\ UNCHANGED <<facilitatorVars, storeVars, confirmerVars>>

CheckoutFresh(h) ==
    /\ pc[h] = "c_read"
    /\ hOrder[h] \notin overdue
    /\ ~Seen(hTx[h])
    /\ Goto(h, "c_fresh")
    /\ UNCHANGED <<facilitatorVars, storeVars, confirmerVars>>

(* The INSERT of the proof row, in a later transaction than the SELECT:    *)
(* the UNIQUE index refuses a row that came in between (IntegrityError).   *)
CheckoutDuplicate(h) ==
    /\ pc[h] = "c_fresh"
    /\ Seen(hTx[h])
    /\ Return(h)
    /\ UNCHANGED <<facilitatorVars, storeVars, confirmerVars>>

CheckoutInvalid(h) ==
    /\ pc[h] = "c_fresh"
    /\ ~Seen(hTx[h])
    /\ ~ProofValid(h)
    /\ AddProof(h, FALSE, TRUE)
    /\ Return(h)
    /\ UNCHANGED <<facilitatorVars, confirmerVars, status, txHash, overdue, credits, events>>

CheckoutProved(h) ==
    /\ pc[h] = "c_fresh"
    /\ ~Seen(hTx[h])
    /\ ProofValid(h)
    /\ AddProof(h, TRUE, TRUE)
    /\ Goto(h, "c_proved")
    /\ UNCHANGED <<facilitatorVars, confirmerVars, status, txHash, overdue, credits, events>>

(* created -> pending -> broadcasting -> confirmed in one transaction; a   *)
(* conflict rolls all of it back and answers 409 although the payment is   *)
(* on chain.                                                               *)
CheckoutWalk ==
    {<<"created", "pending">>, <<"pending", "broadcasting">>, <<"broadcasting", "confirmed">>}

CheckoutConfirmed(h) ==
    /\ pc[h] = "c_settled"
    /\ LET o == hOrder[h]
           ok == status[o] = "created" /\ CheckoutWalk \subseteq Edges /\ HashUnused(o, hTx[h])
       IN /\ status' = IF ok THEN [status EXCEPT ![o] = "confirmed"] ELSE status
          /\ txHash' = IF ok THEN [txHash EXCEPT ![o] = hTx[h]] ELSE txHash
    /\ Return(h)
    /\ UNCHANGED <<facilitatorVars, confirmerVars, overdue, proofs, credits, events>>

------------------------------------------------------------------------------
(* The confirmer loop                                                      *)

CGoto(c, l) == cpc' = [cpc EXCEPT ![c] = l] /\ UNCHANGED <<todo, cur>>

(* The current order is done with, for this tick: go on with the batch. *)
NextRow(c) ==
    /\ cpc' = [cpc EXCEPT ![c] = IF todo[c] = {} THEN "idle" ELSE "polling"]
    /\ cur' = [cur EXCEPT ![c] = NoOrder]
    /\ UNCHANGED todo

Broadcasting == {o \in Orders : status[o] = "broadcasting" /\ txHash[o] # NoTx}

(* SELECT ... LIMIT without ORDER BY: some batch of broadcasting orders. *)
ConfirmerTick(c) ==
    /\ cpc[c] = "idle"
    /\ Broadcasting # {}
    /\ \E batch \in SUBSET Broadcasting :
         /\ batch # {}
         /\ Cardinality(batch) = BatchSize \/ batch = Broadcasting
         /\ Cardinality(batch) <= BatchSize
         /\ todo' = [todo EXCEPT ![c] = batch]
    /\ cpc' = [cpc EXCEPT ![c] = "polling"]
    /\ UNCHANGED <<facilitatorVars, storeVars, handlerVars, cur>>

(* get_tx_status for the next row of the batch. *)
ConfirmerPoll(c, o) ==
    /\ cpc[c] = "polling"
    /\ o \in todo[c]
    /\ todo' = [todo EXCEPT ![c] = @ \ {o}]
    /\ \E answer \in TxStatusAnswers(txHash[o]) :
         \/ /\ answer \in {"error", "pending"}
            /\ cpc' = [cpc EXCEPT ![c] = IF todo'[c] = {} THEN "idle" ELSE "polling"]
            /\ UNCHANGED cur
         \/ /\ answer \in {"confirmed", "failed"}
            /\ cpc' = [cpc EXCEPT ![c] = IF answer = "failed" THEN "failing" ELSE "confirming"]
            /\ cur' = [cur EXCEPT ![c] = o]
    /\ UNCHANGED <<facilitatorVars, storeVars, handlerVars>>

(* Fault: a replica that lost the race reports the failure all the same. *)
ConfirmerFailTwice(c) ==
    /\ cpc[c] = "failing"
    /\ MoveIfPossible(cur[c], "broadcasting", "failed")
    /\ CGoto(c, "event_failed")
    /\ UNCHANGED <<facilitatorVars, handlerVars, txHash, overdue, proofs, credits, events>>

ConfirmerFail(c) ==
    /\ cpc[c] = "failing"
    /\ MoveIfPossible(cur[c], "broadcasting", "failed")
    /\ IF CanMove(cur[c], "broadcasting", "failed") THEN CGoto(c, "event_failed") ELSE NextRow(c)
    /\ UNCHANGED <<facilitatorVars, handlerVars, txHash, overdue, proofs, credits, events>>

(* Only the replica whose transaction moved the row goes on to credit. *)
ConfirmerConfirm(c) ==
    /\ cpc[c] = "confirming"
    /\ MoveIfPossible(cur[c], "broadcasting", "confirmed")
    /\ IF CanMove(cur[c], "broadcasting", "confirmed")
       THEN CGoto(c, IF cur[c] \in TopUps THEN "crediting" ELSE "event_confirmed")
       ELSE NextRow(c)
    /\ UNCHANGED <<facilitatorVars, handlerVars, txHash, overdue, proofs, credits, events>>

(* POST /internal/credit, 5 s timeout: executed and acknowledged, executed *)
(* with the answer lost, or not executed.                                  *)
ConfirmerCredit(c) ==
    /\ cpc[c] = "crediting"
    /\ credits' = [credits EXCEPT ![cur[c]] = @ + 1]
    /\ CGoto(c, "crediting_done") \/ NextRow(c)
    /\ UNCHANGED <<facilitatorVars, handlerVars, status, txHash, overdue, proofs, events>>

ConfirmerCreditFailed(c) ==
    /\ cpc[c] = "crediting"
    /\ NextRow(c)
    /\ UNCHANGED <<facilitatorVars, storeVars, handlerVars>>

ConfirmerCredited(c) ==
    /\ cpc[c] = "crediting_done"
    /\ MoveIfPossible(cur[c], "confirmed", "token_credited")
    /\ IF CanMove(cur[c], "confirmed", "token_credited")
       THEN CGoto(c, "event_credited")
       ELSE NextRow(c)
    /\ UNCHANGED <<facilitatorVars, handlerVars, txHash, overdue, proofs, credits, events>>

(* _enqueue_event, in a transaction after the one that moved the order. *)
Enqueue(o, e) ==
    events' = IF WebhookOn THEN [events EXCEPT ![o][e] = @ + 1] ELSE events

ConfirmerEnqueue(c) ==
    /\ \/ cpc[c] = "event_confirmed" /\ Enqueue(cur[c], "payment.confirmed")
       \/ cpc[c] = "event_credited" /\ Enqueue(cur[c], "payment.token_credited")
       \/ cpc[c] = "event_failed" /\ Enqueue(cur[c], "payment.failed")
    /\ NextRow(c)
    /\ UNCHANGED <<facilitatorVars, handlerVars, status, txHash, overdue, proofs, credits>>

------------------------------------------------------------------------------
(* The process stops and is started again: requests and loops are gone,    *)
(* the database, the facilitator's tasks and the chain are not.            *)
Crash ==
    /\ CanCrash
    /\ pc' = [h \in Handlers |-> "idle"]
    /\ hOrder' = [h \in Handlers |-> NoOrder]
    /\ hTx' = [h \in Handlers |-> NoTx]
    /\ cpc' = [c \in Confirmers |-> "idle"]
    /\ todo' = [c \in Confirmers |-> {}]
    /\ cur' = [c \in Confirmers |-> NoOrder]
    /\ UNCHANGED <<facilitatorVars, storeVars>>

Environment ==
    /\ FacilitatorStep
    /\ UNCHANGED <<storeVars, handlerVars, confirmerVars>>

SubmitStep(h) ==
    SubmitInvalid(h) \/ SubmitAccept(h) \/ SubmitConflict(h) \/ SubmitFailed(h) \/ SubmitBroadcasting(h)

SettleStep(h) ==
    SettleCall(h) \/ SettleUnreachable(h) \/ SettleSucceeded(h) \/ SettleRefused(h)
        \/ SettleRefusedAtLength(h) \/ SettleTimeout(h) \/ ReplyLost(h)

CheckoutStep(h) ==
    CheckoutExpired(h) \/ CheckoutReplay(h) \/ CheckoutFresh(h) \/ CheckoutDuplicate(h)
        \/ CheckoutInvalid(h) \/ CheckoutProved(h) \/ CheckoutConfirmed(h)

HandlerStep(h) == SubmitStep(h) \/ SettleStep(h) \/ CheckoutStep(h)

ConfirmerStep(c) ==
    \/ ConfirmerTick(c) \/ (\E o \in Orders : ConfirmerPoll(c, o))
    \/ ConfirmerFail(c) \/ ConfirmerConfirm(c)
    \/ ConfirmerCredit(c) \/ ConfirmerCreditFailed(c) \/ ConfirmerCredited(c)
    \/ ConfirmerEnqueue(c)

Request ==
    \/ \E o \in Orders : CreatePayment(o)
    \/ \E h \in Handlers, o \in Orders, tx \in Txs : SubmitRead(h, o, tx) \/ CheckoutRead(h, o, tx)

PaymentNext ==
    \/ Request
    \/ \E o \in Orders : DeadlinePasses(o)
    \/ \E h \in Handlers : HandlerStep(h)
    \/ \E c \in Confirmers : ConfirmerStep(c)
    \/ Environment
    \/ Crash

PaymentSpec == PaymentInit /\ [][PaymentNext]_vars

------------------------------------------------------------------------------
(* Properties                                                              *)

Paid(o) == txHash[o] # NoTx /\ Executed(txHash[o])

(* An order that is broadcasting, confirmed or credited has a transaction  *)
(* of its own (the memo nonce is its own) that the cluster executed: no    *)
(* interleaving of requests, time-outs and crashes confirms an unpaid      *)
(* order, short of a fork that undoes what was confirmed.                  *)
ConfirmedIsPaid ==
    \A o \in Orders : status[o] \in {"broadcasting", "confirmed", "token_credited"} =>
        Paid(o) /\ PaysFor[txHash[o]] = o

(* token-api is asked to credit an order at most once, only for a top-up,  *)
(* and only after the order was confirmed -- with several confirmer        *)
(* replicas polling the same batch, and with crashes at every point.       *)
CreditedOnce ==
    \A o \in Orders : credits[o] > 0 =>
        credits[o] = 1 /\ o \in TopUps /\ status[o] \in {"confirmed", "token_credited"}

(* An order that says token_credited has been credited. *)
CreditedMeansCredited == \A o \in Orders : status[o] = "token_credited" => credits[o] = 1

(* At most one transaction of a top-up order is ever given to the cluster, *)
(* whatever its clients submit concurrently and however calls time out:    *)
(* created -> pending is taken once.                                       *)
TopUpBroadcastOnce ==
    \A s, t \in Txs : /\ PaysFor[s] = PaysFor[t]
                      /\ PaysFor[s] \in TopUps
                      /\ chain[s] # "unseen"
                      /\ chain[t] # "unseen"
                      => s = t

(* Two requests never carry the same signed transaction to the facilitator *)
(* through the protected resource: the SELECT may miss a concurrent row,   *)
(* the UNIQUE index does not.                                              *)
NoConcurrentReplay ==
    \A g, h \in Handlers :
        /\ {pc[g], pc[h]} \subseteq {"c_proved", "c_waiting", "c_settled"}
        /\ hTx[g] = hTx[h]
        => g = h

(* The receiver of webhooks is told at most one outcome of an order, once, *)
(* and the outcome it is told is the one the order keeps.                  *)
EventsTellTheOutcome ==
    \A o \in Orders, e \in EventType : events[o][e] > 0 =>
        /\ events[o][e] = 1
        /\ \A f \in EventType \ {e} : events[o][f] = 0
        /\ status[o] = CASE e = "payment.confirmed" -> "confirmed"
                         [] e = "payment.token_credited" -> "token_credited"
                         [] e = "payment.failed" -> "failed"

(* PaymentOrders implements PaymentLifecycle.                              *)
StageOf(s) ==
    CASE s = "absent" -> "absent"
      [] s = "created" -> "open"
      [] s = "pending" -> "taken"
      [] s \in {"broadcasting", "confirmed", "token_credited"} -> "settled"
      [] OTHER -> "closed"

Lifecycle == INSTANCE PaymentLifecycle WITH
    stage <- [o \in Orders |-> StageOf(status[o])],
    receipt <- txHash,
    landed <- {tx \in Txs : Executed(tx)},
    credit <- credits

(* Every step of the gateway is a step of the promise or no step of it at  *)
(* all, forks included.                                                    *)
ImplementsLifecycle == Lifecycle!LifecycleSpec

------------------------------------------------------------------------------
(* Liveness.  Requests run until they answer, the loops run, the           *)
(* facilitator's tasks run, and a node asked again and again about a       *)
(* confirmed transaction eventually says so.  Clients, clocks, crashes and *)
(* the cluster owe nothing: a transaction a fork has undone may be         *)
(* answered null for ever.                                                 *)

ConfirmerLearns(c) ==
    /\ \E o \in Orders : ConfirmerPoll(c, o) /\ chain[txHash[o]] = "landed"
    /\ cpc'[c] = "confirming"

PaymentFairness ==
    /\ \A h \in Handlers : WF_vars(HandlerStep(h))
    /\ \A h \in Handlers : WF_vars(TaskProgress(h)
                                    /\ UNCHANGED <<storeVars, handlerVars, confirmerVars>>)
    /\ \A c \in Confirmers : WF_vars(ConfirmerStep(c))
    /\ \A c \in Confirmers : SF_vars(ConfirmerLearns(c))

PaymentFairSpec == PaymentSpec /\ PaymentFairness

(* Orders whose transaction was undone by a fork after it was confirmed.   *)
Forked == {o \in Broadcasting : chain[txHash[o]] = "undone"}

(* The refusal of an order's transaction may be too long to record. *)
Unrecordable(o) == status[o] = "pending" /\ \E tx \in Wordy : PaysFor[tx] = o

(* An accepted payment does not stay in pending or broadcasting while the  *)
(* gateway keeps running.  Three things can hold an order there, and no    *)
(* other: a refusal too long for its column; a fork that undoes its own    *)
(* transaction; and, as the confirmer's SELECT has a LIMIT and no ORDER    *)
(* BY, forks of as many other orders as a batch has room for.              *)
AcceptedOrderDecided ==
    \A o \in Orders : status[o] \in {"pending", "broadcasting"} ~>
        \/ status[o] \in {"confirmed", "token_credited", "failed"}
        \/ Unrecordable(o)
        \/ o \in Forked
        \/ Cardinality(Forked) >= BatchSize

==============================================================================
