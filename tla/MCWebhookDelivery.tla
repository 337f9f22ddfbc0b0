------------------------- MODULE MCWebhookDelivery -------------------------
(***************************************************************************)
(* Instances of WebhookDelivery.  Subscription "all" matches every write,  *)
(* "docs" only the write to a document; "row" is a write of a database.    *)
(* The second retry waits longer than the first, and both longer than the  *)
(* second that text comparison blurs.                                      *)
(***************************************************************************)
EXTENDS WebhookDelivery

MCMatches(s, w) == s = "all" \/ w = "doc"
MCDelay == [n \in 2..MaxAttempts |-> IF n = 2 THEN 3 ELSE 4]

=============================================================================
