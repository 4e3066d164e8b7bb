---------------------------- MODULE MCPaymentOrders ----------------------------
(* Small instances of PaymentOrders for TLC. *)
EXTENDS PaymentOrders, TLC

CONSTANTS topUp, checkout,      \* one order of each kind
          a1, a2, b1, b2        \* transactions: a1, a2 pay topUp, b1, b2 checkout

(* A transaction whose order is not in the instance carries a stray nonce. *)
MCPaysFor ==
    [tx \in Txs |-> LET o == IF tx \in {a1, a2} THEN topUp ELSE checkout
                    IN IF o \in Orders THEN o ELSE NoOrder]

MCSymmetry == Permutations(Calls)
==============================================================================
