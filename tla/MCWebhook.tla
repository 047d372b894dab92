------------------------------ MODULE MCWebhook ------------------------------
(* Small instances of Webhook for TLC; the cfg files choose among them. *)
EXTENDS Webhook, TLC

\* Deliveries that have not arrived are interchangeable, and so are keys.
Symmetry == Permutations(Deliveries) \cup Permutations(Keys)
=============================================================================
