-------------------------- MODULE PaymentLifecycle --------------------------
(***************************************************************************)
(* What the gateway promises about a payment order, with no requests, no   *)
(* services and no retries in sight: an order is settled only against a    *)
(* transaction of its own that the cluster executed, which it then keeps;  *)
(* a settled top-up is credited at most once; a closed order stays closed. *)
(* PaymentOrders implements it.                                            *)
(***************************************************************************)
EXTENDS Naturals

CONSTANTS Orders, TopUps, Txs, PaysFor, NoTx

VARIABLES
    stage,     \* what has become of each order
    receipt,   \* the transaction an order was settled with
    landed,    \* the transactions the cluster has executed
    credit     \* how often an order's merchant was credited

lifecycleVars == <<stage, receipt, landed, credit>>

LifecycleInit ==
    /\ stage = [o \in Orders |-> "absent"]
    /\ receipt = [o \in Orders |-> NoTx]
    /\ landed = {}
    /\ credit = [o \in Orders |-> 0]

(* Executed on chain, whether or not the gateway will ever know. *)
Execute(tx) ==
    /\ landed' = landed \cup {tx}
    /\ UNCHANGED <<stage, receipt, credit>>

Move(o, from, to) ==
    /\ stage[o] = from
    /\ stage' = [stage EXCEPT ![o] = to]

Open(o) == Move(o, "absent", "open") /\ UNCHANGED <<receipt, landed, credit>>

(* A payment has been accepted for the order; no second one will be. *)
Take(o) == Move(o, "open", "taken") /\ UNCHANGED <<receipt, landed, credit>>

Settle(o, tx) ==
    /\ Move(o, "open", "settled") \/ Move(o, "taken", "settled")
    /\ tx \in landed
    /\ PaysFor[tx] = o
    /\ \A p \in Orders : receipt[p] # tx
    /\ receipt' = [receipt EXCEPT ![o] = tx]
    /\ UNCHANGED <<landed, credit>>

Close(o) ==
    /\ Move(o, "open", "closed") \/ Move(o, "taken", "closed")
    /\ UNCHANGED <<receipt, landed, credit>>

Credit(o) ==
    /\ o \in TopUps
    /\ stage[o] = "settled"
    /\ credit[o] = 0
    /\ credit' = [credit EXCEPT ![o] = 1]
    /\ UNCHANGED <<stage, receipt, landed>>

(* The fork that held the receipt was abandoned before anything followed   *)
(* from the settlement.                                                    *)
Revoke(o) ==
    /\ credit[o] = 0
    /\ Move(o, "settled", "closed")
    /\ UNCHANGED <<receipt, landed, credit>>

LifecycleNext ==
    \/ \E tx \in Txs : Execute(tx)
    \/ \E o \in Orders : Open(o) \/ Take(o) \/ Close(o) \/ Credit(o) \/ Revoke(o)
    \/ \E o \in Orders, tx \in Txs : Settle(o, tx)

LifecycleSpec == LifecycleInit /\ [][LifecycleNext]_lifecycleVars
==============================================================================
