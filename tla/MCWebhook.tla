----------------------------- MODULE MCWebhook ------------------------------
(***************************************************************************)
(* Small instances of WebhookDelivery: dispatches of one transaction.      *)
(***************************************************************************)
EXTENDS WebhookDelivery

CONSTANTS t1, d1, d2, w1, w2

OneTransaction == [d \in Deliveries |-> t1]
=============================================================================
