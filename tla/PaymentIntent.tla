---------------------------- MODULE PaymentIntent ----------------------------
(***************************************************************************)
(* The PaymentIntent entity (src/src/domain/entities/payment-intent.ts):   *)
(* its statuses, its transition table and the two constructors every use   *)
(* case goes through.  Amount, consumer and metadata are abstracted away;  *)
(* an entity keeps its status and the gateway reference it was given.      *)
(***************************************************************************)
CONSTANTS
    Refs,   \* the gateway's charges, as the opaque references name them
    None    \* no reference: TypeScript's null

PaymentIntentStatus ==
    {"intent", "pending", "succeeded", "failed", "refunded", "disputed"}

\* The edges of PAYMENT_INTENT_TRANSITIONS; "failed" and "disputed" have none.
PaymentIntentTransitions ==
    { <<"intent", "pending">>,     <<"intent", "failed">>,
      <<"pending", "succeeded">>,  <<"pending", "failed">>,
      <<"succeeded", "refunded">>, <<"succeeded", "disputed">>,
      <<"refunded", "disputed">> }

CanTransition(from, to) == <<from, to>> \in PaymentIntentTransitions

PaymentIntents == [status : PaymentIntentStatus, ref : Refs \cup {None}]

\* createPaymentIntent: always in status "intent", always without a reference.
CreatedIntent == [status |-> "intent", ref |-> None]

\* transitionPaymentIntent for a legal edge: `gatewayRef ?? intent.gatewayRef`.
\* The illegal edge throws; callers test CanTransition and model the throw.
Transitioned(intent, to, newRef) ==
    [status |-> to, ref |-> IF newRef # None THEN newRef ELSE intent.ref]
=============================================================================
