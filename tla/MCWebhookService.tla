-------------------------- MODULE MCWebhookService --------------------------
(* TLC instances of WebhookService. *)
EXTENDS WebhookService, TLC

Symmetry == Permutations(Pods)
=============================================================================
