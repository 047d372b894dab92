------------------------------- MODULE MCEscrow -------------------------------
(* Small instances of Escrow for TLC.                                        *)
EXTENDS Escrow, TLC

CONSTANTS k1, k2, k3, k4

\* Callers that keep one order to a key: hold, release a tranche, release what
\* is left, dispute.
OneOrderEach ==
    { [op |-> "hold",    key |-> k1, part |-> 0],
      [op |-> "release", key |-> k2, part |-> 1],
      [op |-> "release", key |-> k3, part |-> 0],
      [op |-> "dispute", key |-> k4, part |-> 0] }

\* Calls that have not arrived are interchangeable.
Symmetry == Permutations(Calls)
===============================================================================
