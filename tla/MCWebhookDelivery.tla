------------------------- MODULE MCWebhookDelivery -------------------------
(* A small instance of WebhookDelivery for TLC: the values are in the configurations. *)
EXTENDS WebhookDelivery
=============================================================================
