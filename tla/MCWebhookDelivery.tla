------------------------- MODULE MCWebhookDelivery -------------------------
(* Instances of WebhookDelivery for TLC. *)
EXTENDS WebhookDelivery, TLC

CONSTANTS e1, e2, c1, c2, r1, r2

Symmetric == Permutations(Event) \cup Permutations(Cycle) \cup Permutations(Replayer)
=============================================================================
