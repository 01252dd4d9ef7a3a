-------------------------- MODULE MCWebhookDelivery -------------------------
(* Instances of WebhookDelivery for TLC; the constants are set in the .cfg *)
(* files.                                                                  *)
EXTENDS WebhookDelivery
=============================================================================
