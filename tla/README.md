# payments-core: a TLA+ model of its payment flows

payments-core is a gRPC sidecar that lets applications take payments, run
subscriptions, hold money in escrow, pay out, take donations and receive gateway
webhooks without knowing which gateway (Stripe, OnvoPay) does the work.  It is one
Node process: everything between two `await`s is atomic, and everything that matters
goes wrong at the `await`s, where a call waits for a gateway while others go on,
answers get lost, callers retry and processes die.  That is what the modules model.

Paths below are those of the repository's `src/` directory.

## The system

| Part | State | Operations | Talks to |
| --- | --- | --- | --- |
| Entities (`domain/entities`) | status, gateway reference, running totals | create, transition by table | used by the use cases |
| Checkout (`use_cases/checkout.ts`) | intents by id | initiate, confirm, refund | payment gateway, intent repository, idempotency store |
| Webhooks (`use_cases/webhook.ts`, two `webhook-verifier.ts`) | the verifiers' marks of events | verify, dispatch, remember | idempotency store, event handler |
| Subscriptions (`use_cases/subscription.ts`) | subscriptions by id | create, switch, cancel | subscription gateway, repository, idempotency store |
| Escrow (`use_cases/escrow.ts`) | escrows by id | hold, release, dispute | escrow gateway (a port without adapter), repository, idempotency store |
| Payouts, donations, agentic payments | their records by id | one request each; pause and cancel a schedule | ports without adapters, repositories, idempotency store |
| Gateway adapters (`adapters/outbound/gateways`) | none | hand on the idempotency key, translate wire statuses | Stripe library, OnvoPay client |
| OnvoPay client (`onvopay/client.ts`, `errors.ts`) | the attempts of a request | send, time out, back off, send again, give up | OnvoPay over HTTP |
| Money (`value_objects/money.ts`, the mappers) | none | construct, convert to a gateway's number | everything that carries an amount |
| gRPC handlers (`adapters/inbound/grpc`) | none; health status | validate, call the use case, translate the status, answer | the use cases |
| Process (`main.ts`, `grpc/server.ts`, `main/gateway-registry.ts`) | **one** idempotency store for everything, one repository per entity, the timers of its exit | start, accept, drain, exit | all |

Every use case that changes something has one skeleton: look the idempotency key up;
load the entity; ask the gateway; compute the next entity from the one *loaded
before* the answer; save it; commit the output under the key; answer.  The handler
runs it in a promise that nobody awaits, so an exception outside the `try` blocks is
an unhandled rejection, which ends the process.

What is hard in it, and what each part must therefore guarantee:

- **Races on a key.**  Check and commit are separate; two calls with one key both go
  to the gateway.  The customer must still be charged, refunded, subscribed and paid
  out once, and everyone must be told of the same thing.
- **Stale entities.**  What is saved was loaded before the gateway call.  No status
  may claim money that did not move, no tranche may be counted twice, and callers who
  wait for their answers must find what the gateway did.
- **Lost answers and crashes.**  The gateway may have executed what is reported as an
  error; a retry must neither repeat nor contradict it, also after the in-memory
  stores were lost.
- **Translated statuses.**  An end state stored here must be one at the gateway.
- **Keys shared across operations and layers.**  One store holds the outputs of all
  operations and, for Stripe, the verifier's own records.
- **Repeated requests.**  An attempt that timed out may have been carried out, or may
  still be, after the next attempt or even the next process.  What the last attempt's
  error tells the caller must be true of all of them.
- **Exits.**  A drain must end by its deadline whatever signals follow, and leave calls
  the time their attempts need.
- **Numbers.**  Amounts are bigints here and doubles at a gateway.
- **Progress.**  Every call is answered, or its connection drops.

## The modules

| Module | Models |
| --- | --- |
| `PaymentIntent` | the entity: statuses, table, construction, transition |
| `PaymentIntentLifecycle` | abstract specification: stored statuses appear as pending and move along the table |
| `GatewayMappers` | both gateways' translations of wire statuses |
| `Checkout` | the three checkout use cases with their handlers, adapters, stores and a gateway |
| `CheckoutProofs` | theorems about `Checkout` |
| `CheckoutSerialProofs` | theorems about `Checkout` for callers that overlap on no key and no intent; `EXTENDS CheckoutProofs` |
| `Webhook` | ProcessWebhook with both verifiers and the handler of the RPC |
| `Subscription` | the three subscription use cases with handlers, adapters, stores and a gateway |
| `Escrow` | the three escrow use cases with handlers, stores and a gateway |
| `OneShot` | payouts, agentic payments, donations and the managing of schedules |
| `WireStatus` | the statuses callers read in responses, for the four modules above that answer with one |
| `Money` | amounts: what is accepted, and the number each gateway is sent |
| `OnvoPayClient` | the retry loop of the OnvoPay client, its errors, and OnvoPay at the other end; `EXTENDS Money` |
| `Sidecar` | one process around that client: calls that arrive, signals, drain, exits, restarts; `EXTENDS OnvoPayClient` |
| `GatewayCall` | abstract specification: what a use case may rely on when it awaits a gateway |
| `WebhookProofs`, `SubscriptionProofs`, `EscrowProofs`, `OneShotProofs`, `MoneyProofs`, `SidecarProofs` | theorems about the module each is named after |
| `MC...` | constants of the small instances |

**State.**  `pc[r]` says at which `await` call `r` is suspended, `req[r]` what it was
asked, `local[r]` is the entity in its closure, `answer[r]` what the gateway said and
`reply[r]` what the caller was told.  `repo` and `idem` are the stores; the remaining
variables are the gateway's: its charges, refunds and their `outcome`, subscriptions,
escrows or payouts, and `replay`, what it recorded under each idempotency key.  A call names the id it would
draw (`randomUUID` never repeats one) and what the gateway would open for it.

**Actions.**  `Receive`, then one action per way through the code: `ReturnCached`,
`Reject`/`NotFound`, `Start`, the gateway's actions, `ReturnGatewayError`, and
`Save`, `Commit` or `Finish`.  `Checkout` and `Webhook` interleave at every `await`
(`check`, `load`, `gateway`, `resume`, `commit`), so they also cover stores that do
I/O.  `Subscription`, `Escrow` and `OneShot` take the in-memory stores at their word:
their promises are resolved already, all continuations run before the next event, and
so a call runs in one step to its gateway request and in one step from the answer to
its reply.  `Told(r)` is the status in the response that the reply becomes.  Operators marked "Faulty variant" are plausible bugs; no specification
uses them.

**The sidecar** looks into the await that the other modules take in one step.  Per call,
`phase`, `tries`, `clock` and `response` are the attempt it is at, `outcome` how it
ended; `late` holds the copies of requests that the client gave up on and OnvoPay may
still receive, `record` what OnvoPay carried out under each `Idempotency-Key`.  Of the
process there are its `stage`, the forced exits that signals armed (`forces`) and how
long it drains (`drained`); of the server, each call's `stream` and the `cache` of
outputs.  Its actions are those of the client's loop (`Receive`, `LoseConnection`,
`TimeOut`, `Wake`), of OnvoPay (`Handle`, `Late`), of callers (`Start`, `ReturnCached`,
`RejectAmount`, `HangUp`), of the process (`Boot`, `Shutdown`, `Drained`, `ForceExit`,
`Kill`) and `Tick`, which moves every timer and passes none that has run out.  Responses
are told apart as far as the client and the error mapper tell them apart.  "fetch" is
the await of head and body together.  `PortPromiseKept` and `ImplementsGatewayCall` say
what the other modules take for granted of a gateway.

**The gateway** is external.  It executes a request or refuses it, executes a key once
and answers a repeated one with what it recorded, refuses a key that comes back with
another request, and its answer may get lost.  That is what the adapters rely on: they
send the caller's key as `Idempotency-Key` (`stripe/payment-gateway.ts:55-105`,
`onvopay/client.ts:214-219`).  For escrow, payouts, donations and agentic payments
there are only ports; the gateway of the model keeps the contracts written there
(`domain/ports/index.ts`), and `main.ts:162-199` answers "unavailable", which the
model has as a refusal.

**Callers.**  `SerialCallers` (Checkout) and `patient` (Subscription, Escrow, OneShot)
single out callers that do not start a call on an entity or a key while another one is
executing and, where a lost answer matters, first ask again under the same key
(in `OneShot` they only wait before they retry a key).
Properties that need them say so; all others hold for callers without any discipline.

**Crashes.**  `MaxCrashes` bounds how often the process is killed.  In-memory stores
are then empty; with `Durable` (Checkout) and `shared` (Webhook) they survive, as the
ports' comments intend for a real deployment.  `Sidecar` does not bound them: a process
may be killed and started again at any time.  An `orphan` is a request that its
process did not outlive and that the gateway may still execute.

## What is checked

| Run | Instance | Shows |
| --- | --- | --- |
| `Checkout_shared_keys` | 4 calls, 3 keys, one of them shared by confirmations and refunds, durable stores, Stripe | charged and refunded once per key and refunded only what was captured; cache, store and gateway's record agree; captures, refunds and failures that are stored, cached or answered are true; all who refund under a key are told the same, whatever becomes of the refund later |
| `Checkout_serial` | 4 calls, two confirmation keys, callers that wait, 1 crash, OnvoPay | one stored intent per key; a reported success stays; the stored statuses implement `PaymentIntentLifecycle` |
| `Webhook_deliveries` | 3 deliveries of a Stripe and an OnvoPay event under 2 keys, 1 crash, both kinds of stores, with fairness | an event is dispatched once while memory lasts; what is remembered and accepted was handled; every delivery settles |
| `Subscription_lifecycle` | 4 calls, OnvoPay, four wire statuses | one subscription per key; canceled means that billing ended, and stays; patient callers find the plan they asked for |
| `Escrow_custody` | 4 calls, custody of 2 released in tranches | the total released is never overstated; released means settled; patient callers find the gateway's status and total, and never end the process |
| `OneShot_records` | 3 calls, 8 orders over 4 keys, 1 crash | nothing is opened twice; all answers under a key name one reference; final statuses are true; a reported cancellation happened |
| `Sidecar_calls` | 2 calls, 1 key, 4 orders (an amount a double holds, one it does not, another currency, no money), 2 attempts, 2 signals, any exits and restarts, with fairness | one charge per key; what callers are told is true; the process is gone by its deadline and cuts off last attempts only; the port's promise is kept; every call settles |

Five runs show that the code does not do what a comment says of it:

| Run | Comment | What happens |
| --- | --- | --- |
| `Checkout_pending_failed` | unknown statuses become `failed` as "a terminal event" | OnvoPay's `pending` becomes `failed` as well, and the charge is captured afterwards |
| `Checkout_unhandled` | transition errors are "promoted to the caller" | the exception leaves the handler's promise and the process ends |
| `Webhook_stripe` | the handler's summary is remembered | the Stripe verifier marks the event in the same store, so it is never dispatched |
| `Subscription_no_content` | callers "must tolerate" an answer without a body | OnvoPay's cancel adapter reads it, and the cancellation is reported as an error |
| `Sidecar_key_reuse` | a key reused with another request is an `IdempotencyConflictError` of the store (`domain/errors.ts:89-91`, `ports/index.ts:324`) | the store compares keys only: the second amount is answered with the first one's charge, as a success |

**Bounds.**  Two calls are enough for a race on a key, three for a race and a retry
that comes after it, four for a whole life (open, change, change, end) in which one of
the steps is retried or overlaps another.  One crash separates "before" and "after"; a
second adds nothing to properties that compare two calls.  Two keys are enough for a
clash of keys; one key per operation keeps the other runs small.  A custody of 2 is the
least that has a tranche and a rest.  In `Sidecar_calls` two calls under one key are two
callers, or one that retries after a restart; two attempts are the least that has a
retry and a last attempt; a second signal is the least that could rearm the exit.  An
attempt takes one tick and the deadline two, in the proportion of the defaults (three
attempts of 10 s, 30 s).  Doubles hold what is below 8, and above it multiples of 2, 4
and 8; `MCSidecar` has TLC check `Number` against its definition for all amounts below
64.  Crashes with keys shared by operations are covered by the theorems and, with a key
each, by `Checkout_serial`.  The theorems have no bounds.  Calls that have not
arrived are interchangeable, hence the symmetry, which the liveness runs do without.

**Fairness.**  `Sidecar` owes nothing but its timers: time passes (`Tick`), a timeout
that has run out ends its attempt, a backoff ends, and a forced exit is carried out.
OnvoPay need not respond, callers need not hang up, and nobody need stop the process;
`EveryCallSettles` rests on `AbortSignal.timeout` and the bound on attempts alone
(`onvopay/client.ts:150-185`).  In `Webhook` the event loop resumes every continuation
whose promise has settled (weak fairness of each delivery's handler), and a webhook
handler is assumed to settle.  Deliveries and crashes owe nothing.

## What is proved

Every invariant that a passing run checks is also a theorem, and so are its two
refinements and all its action properties: of what the runs check only liveness is
not.  The theorems hold for all values of the constants (any number of calls, keys,
amounts, crashes) and rest on the modules' `ASSUME`s about the constants alone; where a
property needs more (a gateway, a discipline of the callers), the theorem says so as a
hypothesis.  None of the properties is inductive; what follows says what was added.

`CheckoutProofs` proves, for both gateways, any discipline of the callers, durable and
in-memory stores and any number of crashes:

- `TypeCorrect`: every variable keeps its type;
- `ChargedOnce`, `RefundedOnce`: one charge and one refund per idempotency key;
- `StatusesTrue`, `RefundsFollowCaptures`: no stored, cached or answered status claims a
  capture that did not happen, or a refund that OnvoPay did not pay or Stripe did not
  accept as succeeded or pending; refunds are accepted for captured charges only;
- `CacheAgrees`, `RetriesAgree`: cache, store and gateway's record agree, and all answers
  under a key name one charge;
- `RefundAnswersStand`: all who ask for a refund under one key are told the same of it,
  also when the refund is paid or fails after it was answered;
- `FailuresFinal`, **for Stripe's adapter**: the failure of a payment is final.  It is false
  for OnvoPay, whose adapter calls `failed` what is still pending.

`TypeInv` adds to the types what a call holds at each `await` (a request once it arrived,
an entity with a reference once it asks the gateway), because the handlers use it without
looking again.  `LedgerInv` ties every charge and refund to the gateway's record under the
key of the call that caused it; charged-once follows since a key is recorded once, which
rests on `GatewayKey` handing on the caller's key.  `TruthInv` says that every entity and
answer *in flight* is already true at the gateway, and uses that the gateway's ledger only
grows (`LedgerOnlyGrows`): that is why a stale entity may be old but never false.
`AgreeInv` adds what holds between the save and the commit.  `VerdictInv`, for refunds,
says that a refund's intent is loaded as succeeded and stays so until the answer is used,
so that what is saved, cached and told is the gateway's record of the key and nothing else.

`CheckoutSerialProofs` assumes `SerialCallers` (no call starts while another one on its key
or its intent is executed), and keeps both gateways and any number of crashes:

- `SuccessesKept`: a success that was reported is not taken back;
- `OneIntentKept`, for in-memory stores: one stored intent per key.  Stores that survive an
  exit between save and commit keep the first attempt's intent as well;
- `StoredIntentsLiveOnce`: the stored intents implement `PaymentIntentLifecycle`.

What is added is that one call at a time works on an intent (`OneAtATime`), so the entity in
its closure is the one that is stored (`InStep`), nothing is cached under its key before
it commits (`NothingCachedYet`), and an output that told of a success is still true of the
store (`OutputsKept`).  That the stored statuses move along the table then follows from the
check of the transition against the loaded entity.

`WebhookProofs` proves, for all deliveries, events and keys, both kinds of stores and any
number of exits:

- `TypeCorrect`;
- `MemoryIsTrue`, `AcceptedMeansHandled`: what a request key remembers of an OnvoPay event
  is the summary of a run that completed, and who is told "accepted" finds that some run of
  the event's handler completed;
- `OneRunPerEpoch`: while in-memory stores remember, no event is dispatched twice.

The first two need that every record that tells of an outcome, stored or about to be, names
a completed run of its event (`Truthful`): completed runs never change, so a record outlives
the process that wrote it.  The third needs `TurnInv`: of the deliveries one at a time is at
the stores, as their promises are resolved already, and what ran since the last exit is
known to its verifier.

`SubscriptionProofs` proves, for all calls, keys, plans, orders, sets of wire statuses and
both gateways:

- `TypeCorrect`;
- `OneSubscriptionPerKey`: one subscription per idempotency key;
- `CanceledHasEnded`: what is stored, cached or told as canceled has ended at the gateway,
  provided that the gateway is OnvoPay or has no subscription that is `paused`.  Stripe's
  mapper turns `paused` into canceled, so without that proviso it is false;
- `PlanTracked`: patient callers that are owed no answer find the plan that is billed;
- `CancellationStays`, with the same proviso: patient callers never see a canceled
  subscription revived.

The first two need of the gateway's record only that an opening is recorded under the
key of the call that caused it.  For the third every entity and answer in flight claims an
end only when it has come, and ends are kept (`sub` leaves `canceled` by no action).  The
assumptions say besides that a create or a switch names a plan, as its input's
type says, and that `canceled` is one of the wire statuses.

The last two rest on `PatientInv`.  A switch, or a cancellation at the period's end, is
`Unsettled` when the gateway carried it out and its output is not cached: it is then owed
to the callers or being executed (`Awaited`), and, since a patient caller asks for a lost
answer before anything else, no other call works on that subscription (`UnsettledFirst`).  So the last unsettled switch set
the gateway's plan (`PlanLeft`), and is the only reason for an entity's plan to differ
(`PlanKnown`); and an entity that something unsettled is about is not canceled (`NotOver`).

`EscrowProofs` proves, for all calls, keys, orders and amounts, with overlapping calls:

- `TypeCorrect`, of which it is a part that an entity's total never passes its amount;
- `TranchesCountOnce`: the total an entity reports as released is never more than was paid
  out;
- `SettledOnce`: where an escrow is stored, cached or answered as released, nothing is left
  in custody and the gateway settled it;
- `PatientCallersTrack`, `PatientCallersEndNone`, for patient callers: they find the
  gateway's status and total stored, and never cause the illegal transition that ends the
  process.

The total is a sum over a set of keys, and induction over data is out of reach.  Instead
the invariant `Counted` says that there is a total for every set of keys: zero for the
empty set, larger by what was paid under a key for a set with that key more, and what was
paid altogether for the set of all.  When the gateway records a tranche, the totals of the
sets that hold its key grow by it.  An entity's total is that of a set of committed keys.
For patient callers `PatientInv` says that there is one call at a time per escrow and key, at most one order
per escrow that was carried out and not heard, and that the stored entity is in step with
the gateway or exactly that order behind.

`OneShotProofs` proves all of `OneShot`'s invariants, for all calls, keys, orders and any
number of crashes: `TypeCorrect`, `OneOpeningPerKey`, `OneReferencePerKey`, `BookedOnce`,
`EndsAreTrue`, `CancelsAreDone`.  The argument is that a key has one record at the gateway,
which outlives the process, and that whatever is stored, cached or told under the key is
`Recalled` from it; `Single` (one stored record per key) needs `Alone` besides: callers
that wait have one call at a time under a key, and it asks the gateway only when nothing is
cached.  That the cache is consulted (`Start`) is used there and nowhere else.

`MoneyProofs` proves `NumberIsFaithful`: below `Limit` a gateway is sent the very amount,
above it no double is nearer.  The argument needs of the units only that each divides
the larger ones, as powers of two do, and that a double exists around the amount.

`SidecarProofs` proves of `Sidecar`, for all calls, keys, orders, bounds on attempts,
timeouts, deadlines and numbers of signals, with unlimited kills and restarts:

- `TypeCorrect`, of which the bound on attempts is a part;
- `OneChargePerKey`: one charge per idempotency key;
- `RepliesTrue`: a success names a charge that was opened under the caller's key, for an
  amount asked under it, faithful in the sense of `NumberIsFaithful`; a declined card, a
  conflict and a refused amount moved nothing for this call;
- `ExitsByDeadline`: the first signal's deadline holds, however many signals follow;
- `DrainPatient`: if `Deadline >= (MaxRetries + 1) * Timeout`, a forced exit cuts off only
  calls at their last attempt;
- `PortPromiseKept`: the client implements `GatewayCall`.

The first three and the last rest on one inductive invariant, `Inv`.  It ties whatever
is on its way (a response, a late copy) and whatever is kept (an outcome, a record, a
cache entry) to the key and the order of the call it comes from, since none of them is
true of itself: a response is believed by a client that has given up the attempt before,
and a copy arrives when its process is gone.  Records only grow, so what was true of a
record when an answer left OnvoPay is true when the answer arrives.  That every attempt
carries the same key (`Header`) is what makes a charge single.  `TimeInv` is about time:
the oldest forced exit and the ticks since the first signal add up to the deadline, and
what is left of an accepted call's attempts fits into what is left of the deadline,
because calls are accepted before the first signal only.

Only model-checked: liveness (`EveryCallSettles` and `EveryDeliverySettles`), which is out
of the prover's reach.  The five runs that end in a violation show what the code does not
do; nothing is proved of those properties.

## What the model abstracts, and what it showed besides

Amounts outside escrow, currencies, metadata, descriptions, wording of errors and the
computation of signatures are left out; ids and keys are model values.  The FX lookup
of InitiateCheckout is left out because its handler never asks for it.  Subscription,
Escrow and OneShot leave out crashes except where a run says otherwise.  In `Webhook`
"once while memory lasts" takes deliveries to arrive in turns of the event loop of
their own; with shared stores two deliveries can both be dispatched
(`webhook.ts:106`).

In `Sidecar` requests open charges; confirmations, refunds and subscriptions go through
the same loop with other paths and bodies.  A backoff takes no tick: with the defaults
it takes less than 0.3 s in all, beside attempts of 10 s.  `tryShutdown`, which waits for the open
streams, is the library's.  The health status is left out, because probes reach it
through the very port and listener it describes.  What a payment of Stripe's meets
inside the vendor's library appears as a lost answer in `Checkout` and `Subscription`.

Seen while modelling, each of them a limit of the code that the properties above are
worded around:

- Two overlapping calls with one key store two entities for one charge or payout
  (`checkout.ts:106`, `payout.ts:100`), and the second commit replaces the first.
- Overlapping calls on one entity overwrite each other: a confirmed success goes back
  to pending (`checkout.ts:274`), a dispute back to held (`escrow.ts:201`), a tranche
  is missing from the total (`escrow.ts:199`), a switched plan is undone
  (`subscription.ts:249`), a cancelled subscription is stored as active again
  (`subscription.ts:172`).
- A key that is used for two operations is answered with the other one's output
  (`main.ts:312`).  Where the handler reads a part the other output does not have, the
  process ends: a refund (`handlers/checkout.ts:205`), a payout or an agentic payment
  (`handlers/misc.ts:111`, `:214`), as `CachedMisread` models it.  A confirmation is then
  answered with status 0, which `mappers/entities.ts:10-12` says callers never see.
- OnvoPay's verifier marks an event before it is handled; if the handler fails, the
  redelivery is refused as a duplicate and the event is lost
  (`onvopay/webhook-verifier.ts:131`).
- An agentic payment that succeeds at once cannot move from `intent` to `succeeded`:
  the customer is charged, and every retry is told of an error (`agentic.ts:108`).
- Stripe's `paused` is stored as canceled, and a switch takes it back to active.
- A Stripe refund that waits for the customer (`requires_action`) is reported as failed
  (`stripe/mappers.ts:140`), as is any refund that OnvoPay does not pay at once
  (`onvopay/payment-gateway.ts:161`).  Both may be paid afterwards.  Under the same key this
  is harmless (`RefundedOncePerKey`, `RetriesAgreeOnRefund`); a caller who asks again under
  a new key may be refunded twice, since the stored intent still says succeeded.
- A Stripe refund that is still pending makes the intent `refunded`
  (`stripe/mappers.ts:135-136`), an end state, although it may fail later; `checkout.ts:312-313`
  says that happens "only when the gateway confirms success".
- Interstitial subscriptions "surface as PAST_DUE" (`mappers/entities.ts:151-152`); the
  code returns `PAUSED`.
- `Number()` rounds an OnvoPay amount above 2^53, which `onvopay/mappers.ts:103-106` says
  is passed unchanged; Stripe's mapper refuses it (`stripe/mappers.ts:42`).
- A 4xx is never retried, says `onvopay/client.ts:16-18`; but the body is read before the
  status is looked at (`:162-163`), and one that cannot be read sends the request again.
- A 400 or 429 after an attempt that timed out does not mean that nothing was charged;
  a declined card and a conflict do.
- Stripe's defaults, three attempts of 15 s (`stripe/client.ts:80-81`), do not fit into the
  30 s of the drain (`main.ts:103`).
- `Watch` "stays open", says `health.ts:16-17`; it emits once and ends, and so delays no
  drain.
- A caller that hung up no longer counts for the drain: the process exits cleanly while
  its request is still under way.

## Plan

Done: `PaymentIntent`, `GatewayMappers`, `Checkout`, its proofs and its lifecycle;
`Webhook`; `Subscription`; `Escrow`; `OneShot`; `WireStatus`; `Money`, `OnvoPayClient`,
`Sidecar` with `GatewayCall`; the proofs of all safety properties.

Next, in this order:

1. One abstract specification that `Subscription`, `Escrow` and `OneShot` all implement (an
   order is carried out once per key, and its answer is recalled for ever), with the three
   refinements as theorems; the invariants above already contain what they need.
2. A composition of `Checkout` with the agentic payments that share its repository, once
   the agentic port has an adapter: until then none is stored.

Not modelled: Stripe's client and errors, which configure the vendor's library; the two
read use cases, which keep no state and whose ports are stubs; the validation of keys and
references, which are strings; generated code and protocol files, which are data types;
the reading of the environment.
