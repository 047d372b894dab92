----------------------------- MODULE MCCheckout -----------------------------
(* Small instances of Checkout for TLC; the cfg files choose among them. *)
EXTENDS Checkout, TLC

CONSTANTS k1, k2, k3, k4

\* Callers that keep a key to one operation, with retries under the same key
\* and a second key for the operation named.
OneKeyEach   == {<<"initiate", k1>>, <<"confirm", k2>>, <<"refund", k3>>}
TwoConfirms  == OneKeyEach \cup {<<"confirm", k4>>}

\* Callers that refund under two keys, one of them also that of a confirmation.
SharedKeys == {<<"initiate", k1>>, <<"confirm", k2>>, <<"refund", k2>>, <<"refund", k3>>}

\* Calls that have not arrived are interchangeable.
Symmetry == Permutations(Calls)
=============================================================================
