--------------------------- MODULE MCWebhookDelivery ---------------------------
(* Small instances of WebhookDelivery for TLC. *)
EXTENDS WebhookDelivery
==============================================================================
