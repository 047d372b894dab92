---------------------------- MODULE MCSubscription ----------------------------
(* Small instances of Subscription for TLC; the cfg files choose among them. *)
EXTENDS Subscription, TLC

CONSTANTS k1, k2, k3, k4, p1, p2

\* Callers that keep one order to a key: subscribe, move to another plan, cancel
\* now, cancel at the end of the period.
OneOrderEach ==
    { [op |-> "create", key |-> k1, plan |-> p1,   atPeriodEnd |-> FALSE],
      [op |-> "switch", key |-> k2, plan |-> p2,   atPeriodEnd |-> FALSE],
      [op |-> "cancel", key |-> k3, plan |-> None, atPeriodEnd |-> FALSE],
      [op |-> "cancel", key |-> k4, plan |-> None, atPeriodEnd |-> TRUE] }

\* Calls that have not arrived are interchangeable.
Symmetry == Permutations(Calls)
=============================================================================
