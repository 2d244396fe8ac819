-------------------------- MODULE MCWebhookDelivery --------------------------
(* Instances of WebhookDelivery for TLC. *)
EXTENDS WebhookDelivery

Anything == {{}, {"crash", "database", "scaledOut"}}

=============================================================================
