------------------------------ MODULE WireStatus ------------------------------
(***************************************************************************)
(* The statuses a caller reads in a response                               *)
(* (src/src/adapters/inbound/grpc/mappers/entities.ts).  They are fewer    *)
(* than the entities': several of those look alike from outside.           *)
(* "absent" is a response that carries no status.                          *)
(***************************************************************************)

\* A field that was left undefined: 0 on the wire.
Unspecified == "UNSPECIFIED"

\* A dispute is told elsewhere, and callers should not meet an intent.
PaymentOnWire ==
    [absent    |-> Unspecified,
     intent    |-> "PROCESSING",
     pending   |-> "PROCESSING",
     succeeded |-> "SUCCEEDED",
     failed    |-> "FAILED",
     refunded  |-> "REFUNDED",
     disputed  |-> "SUCCEEDED"]

\* What is not started yet appears as paused.
SubscriptionOnWire ==
    [absent     |-> Unspecified,
     intent     |-> "PAUSED",
     incomplete |-> "PAUSED",
     active     |-> "ACTIVE",
     past_due   |-> "PAST_DUE",
     canceled   |-> "CANCELED"]

EscrowOnWire ==
    [absent   |-> Unspecified,
     held     |-> "HELD",
     released |-> "RELEASED",
     disputed |-> "DISPUTED",
     refunded |-> "REFUNDED"]

PayoutOnWire ==
    [absent  |-> Unspecified,
     pending |-> "PENDING",
     paid    |-> "PAID",
     failed  |-> "FAILED"]
===============================================================================
