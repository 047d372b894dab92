---------------------------- MODULE GatewayMappers ----------------------------
(***************************************************************************)
(* How the two adapters translate a gateway's own status words, the wire   *)
(* statuses, into the domain's (src/src/adapters/outbound/gateways, the    *)
(* two mappers.ts).  A table lists the wire statuses the adapter's types   *)
(* and comments name, of those that are mapped alike one each.             *)
(***************************************************************************)

Gateways == {"stripe", "onvopay"}

\* mapPaymentIntentStatus.
StripeConfirmStatus ==
    [succeeded |-> "succeeded", canceled |-> "failed",
     requires_action |-> "requires_action", processing |-> "requires_action"]

\* toConfirmStatus: of the statuses its own charge type names, the switch does
\* not know "pending" and "refunded", which fall to the default.
OnvoConfirmStatus ==
    [succeeded |-> "succeeded", failed |-> "failed", requires_action |-> "requires_action",
     pending |-> "failed", refunded |-> "failed"]

ConfirmStatus == [stripe |-> StripeConfirmStatus, onvopay |-> OnvoConfirmStatus]

\* Faulty variant: a refund that waits for the customer counts as accepted.
StripeRefundStatusOpen ==
    [succeeded |-> "succeeded", pending |-> "succeeded",
     requires_action |-> "succeeded", failed |-> "failed"]

\* mapRefundStatus: an accepted refund counts, its outcome follows by webhook.
\* Everything else is a failure, a refund that waits for the customer included;
\* "failed" stands for "canceled" and for a status that is absent as well.
StripeRefundStatus ==
    [succeeded |-> "succeeded", pending |-> "succeeded",
     requires_action |-> "failed", failed |-> "failed"]

\* The comparison in OnvoPayPaymentGateway.refund: "pending" stands for any
\* status of a refund that may still be paid.
OnvoRefundStatus == [succeeded |-> "succeeded", pending |-> "failed", failed |-> "failed"]

RefundStatus == [stripe |-> StripeRefundStatus, onvopay |-> OnvoRefundStatus]

\* mapSubscriptionStatus.
StripeSubscriptionStatus ==
    [active |-> "active", past_due |-> "past_due", paused |-> "canceled",
     canceled |-> "canceled", incomplete |-> "incomplete"]

\* Faulty variant: a status the switch does not know is taken for an end.
OnvoSubscriptionStatusStrict ==
    [created |-> "intent", awaiting_first_charge |-> "incomplete", active |-> "active",
     past_due |-> "past_due", paused |-> "canceled", canceled |-> "canceled"]

\* toSubscriptionStatus: "paused" stands for the statuses the switch does not
\* know, which it degrades to a recoverable one.
OnvoSubscriptionStatus ==
    [created |-> "intent", awaiting_first_charge |-> "incomplete", active |-> "active",
     past_due |-> "past_due", paused |-> "incomplete", canceled |-> "canceled"]

SubscriptionStatusOf ==
    [stripe |-> StripeSubscriptionStatus, onvopay |-> OnvoSubscriptionStatus]
===============================================================================
