------------------------------ MODULE MCOneShot -------------------------------
(* Small instances of OneShot for TLC.                                       *)
EXTENDS OneShot, TLC

CONSTANTS k1, k2, k3, k4

Ask(op, key, zero) == [op |-> op, key |-> key, zero |-> zero]

\* A key for payouts and agents' payments, one for the latter alone, donations
\* with and without an amount under either, and one shared by pausing and cancelling.
SomeOrders ==
    { Ask("payout", k1, FALSE), Ask("agentic", k1, FALSE), Ask("agentic", k2, FALSE),
      Ask("donation", k1, TRUE), Ask("donation", k2, FALSE), Ask("schedule", k3, FALSE),
      Ask("pause", k4, FALSE), Ask("cancel", k4, FALSE) }

\* Calls that have not arrived are interchangeable.
Symmetry == Permutations(Calls)
===============================================================================
