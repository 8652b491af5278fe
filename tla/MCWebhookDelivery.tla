------------------------- MODULE MCWebhookDelivery -------------------------
EXTENDS WebhookDelivery, TLC
=============================================================================
