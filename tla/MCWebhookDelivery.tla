------------------------- MODULE MCWebhookDelivery -------------------------
(* Instances of WebhookDelivery for TLC: one webhook.                      *)
EXTENDS WebhookDelivery

CONSTANTS h1, d1, d2, d3, m1

OneHook == [d \in Deliveries |-> h1]
=============================================================================
