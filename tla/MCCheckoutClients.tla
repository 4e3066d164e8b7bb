-------------------------- MODULE MCCheckoutClients --------------------------
(* A small instance of CheckoutClients for TLC. *)
EXTENDS CheckoutClients
==============================================================================
