------------------------------- MODULE Webhook -------------------------------
(***************************************************************************)
(* ProcessWebhook (src/src/application/use_cases/webhook.ts) with the two  *)
(* verifiers it is wired with and the gRPC handler that runs it.  A        *)
(* gateway delivers each event at least once; a delivery goes through two  *)
(* gates, the request key and the event id, and a third one inside the     *)
(* verifier, before the event is dispatched:                               *)
(*                                                                         *)
(*   check -> verify -> mark -> event -> handler -> commitEvent            *)
(*         -> commitKey -> return -> done                                  *)
(***************************************************************************)
EXTENDS Naturals

CONSTANTS
    Deliveries,    \* the ProcessWebhook calls received
    StripeEvents,  \* event ids Stripe signs
    OnvoEvents,    \* event ids OnvoPay signs
    Keys,          \* idempotency keys of the requests
    None,          \* no event, no delivery
    MaxCrashes     \* bound on exits that no code path of the model causes

Events == StripeEvents \cup OnvoEvents

\* Event ids and request keys are slots of one idempotency store.
ASSUME SlotsApart == /\ StripeEvents \cap OnvoEvents = {}
                     /\ Events \cap Keys = {}
                     /\ None \notin Events \cup Keys \cup Deliveries
ASSUME Bound == MaxCrashes \in Nat

VARIABLES
    shared,   \* the stores the process is wired with.  TRUE: the persistent ones
              \* the ports stand for: they outlive the process, and each
              \* operation on them is an await at which other deliveries run;
              \* FALSE: the in-memory ones of main.ts, whose promises are already
              \* resolved: a delivery that arrives in a turn of the event loop of
              \* its own runs on up to its handler
    pc,       \* where each delivery is suspended
    req,      \* what it carries
    result,   \* the record its use case is about to store or return
    reply,    \* what its callback was given
    run,      \* its invocation of the event handler, if any
    idem,     \* IdempotencyPort: request keys and event ids alike
    seen,     \* the OnvoPay verifier's dedupe store
    epoch,    \* how often the stores were emptied
    crashes   \* exits counted against MaxCrashes

vars == <<shared, pc, req, result, reply, run, idem, seen, epoch, crashes>>

-------------------------------------------------------------------------------
Requests  == [event : Events, key : Keys, signed : BOOLEAN]
NoRequest == [event |-> None, key |-> None, signed |-> FALSE]

\* The store is untyped: the Stripe verifier commits a StoredEvent under the
\* event id, the use case a ProcessWebhookOutput, which names the run it tells of.
Record(kind, e, by) == [kind |-> kind, event |-> e, by |-> by]
StoredEvent(e) == Record("stored", e, None)
Output(e, by)  == Record("output", e, by)
NoRecord       == Record("none", None, None)
Records == {StoredEvent(e) : e \in StripeEvents}
               \cup {Output(e, d) : e \in Events, d \in Deliveries}

Runs  == [state : {"running", "completed", "failed"}, epoch : Nat]
NoRun == [state |-> "none", epoch |-> 0]

AtStore   == {"check", "verify", "mark", "event", "commitEvent", "commitKey", "return"}
Executing == AtStore \cup {"handler"}
Settled   == {"done", "lost"}

Event(d) == req[d].event
Key(d)   == req[d].key

Init ==
    /\ shared  \in BOOLEAN
    /\ pc      = [d \in Deliveries |-> "idle"]
    /\ req     = [d \in Deliveries |-> NoRequest]
    /\ result  = [d \in Deliveries |-> NoRecord]
    /\ reply   = [d \in Deliveries |-> "none"]
    /\ run     = [d \in Deliveries |-> NoRun]
    /\ idem    = [s \in Keys \cup Events |-> NoRecord]
    /\ seen    = {}
    /\ epoch   = 0
    /\ crashes = 0

\* With in-memory stores a delivery that is not inside its event handler runs
\* on without letting go of the event loop.
Turn(d) == shared \/ \A q \in Deliveries \ {d} : pc[q] \notin AtStore

At(d, point) == pc[d] = point /\ Turn(d)

GoTo(d, point) == pc' = [pc EXCEPT ![d] = point]

Return(d, answer) ==
    /\ reply' = [reply EXCEPT ![d] = answer]
    /\ GoTo(d, "done")

-------------------------------------------------------------------------------
(* The process exits: a crash, or a rejection that nothing handles.         *)

ProcessExits ==
    /\ pc' = [d \in Deliveries |-> IF pc[d] \in Executing THEN "lost" ELSE pc[d]]
    /\ \/ /\ shared
          /\ UNCHANGED <<idem, seen, epoch>>
       \/ /\ ~shared
          /\ idem' = [s \in Keys \cup Events |-> NoRecord]
          /\ seen' = {}
          /\ epoch' = epoch + 1
    /\ UNCHANGED <<shared, req, result, reply, run>>

Crash ==
    /\ crashes < MaxCrashes
    /\ crashes' = crashes + 1
    /\ ProcessExits

-------------------------------------------------------------------------------
(* The first gate: the request key.                                         *)

\* The gateway delivers an event, for the first time or again, under any key.
Receive(d) ==
    /\ At(d, "idle")
    /\ \E rq \in Requests : req' = [req EXCEPT ![d] = rq]
    /\ GoTo(d, "check")
    /\ UNCHANGED <<shared, result, reply, run, idem, seen, epoch, crashes>>

ReturnCached(d) ==
    /\ At(d, "check")
    /\ idem[Key(d)] # NoRecord
    /\ result' = [result EXCEPT ![d] = idem[Key(d)]]
    /\ GoTo(d, "return")
    /\ UNCHANGED <<shared, req, reply, run, idem, seen, epoch, crashes>>

StartVerify(d) ==
    /\ At(d, "check")
    /\ idem[Key(d)] = NoRecord
    /\ GoTo(d, "verify")
    /\ UNCHANGED <<shared, req, result, reply, run, idem, seen, epoch, crashes>>

-------------------------------------------------------------------------------
(* The verifier: the signature, then its own memory of event ids, which it   *)
(* reads in one await and writes in the next.                               *)

RejectSignature(d) ==
    /\ At(d, "verify")
    /\ ~req[d].signed
    /\ Return(d, "invalid")
    /\ UNCHANGED <<shared, req, result, run, idem, seen, epoch, crashes>>

\* Faulty variant: the OnvoPay verifier leaves duplicates to the use case.
KnownToStripe(e) == e \in StripeEvents /\ idem[e] # NoRecord

\* Stripe's memory is the use case's own store; OnvoPay's is apart.
Known(e) == \/ e \in StripeEvents /\ idem[e] # NoRecord
            \/ e \in OnvoEvents /\ e \in seen

RejectDuplicate(d) ==
    /\ At(d, "verify")
    /\ req[d].signed
    /\ Known(Event(d))
    /\ Return(d, "duplicate")
    /\ UNCHANGED <<shared, req, result, run, idem, seen, epoch, crashes>>

PassFresh(d) ==
    /\ At(d, "verify")
    /\ req[d].signed
    /\ ~Known(Event(d))
    /\ GoTo(d, "mark")
    /\ UNCHANGED <<shared, req, result, reply, run, idem, seen, epoch, crashes>>

MarkStripe(d) ==
    /\ At(d, "mark")
    /\ Event(d) \in StripeEvents
    /\ idem' = [idem EXCEPT ![Event(d)] = StoredEvent(Event(d))]
    /\ GoTo(d, "event")
    /\ UNCHANGED <<shared, req, result, reply, run, seen, epoch, crashes>>

\* Faulty variant: the OnvoPay verifier marks events in the use case's store too.
MarkOnvoInStore(d) ==
    /\ At(d, "mark")
    /\ idem' = [idem EXCEPT ![Event(d)] = StoredEvent(Event(d))]
    /\ GoTo(d, "event")
    /\ UNCHANGED <<shared, req, result, reply, run, seen, epoch, crashes>>

MarkOnvo(d) ==
    /\ At(d, "mark")
    /\ Event(d) \in OnvoEvents
    /\ seen' = seen \cup {Event(d)}
    /\ GoTo(d, "event")
    /\ UNCHANGED <<shared, req, result, reply, run, idem, epoch, crashes>>

-------------------------------------------------------------------------------
(* The second gate: the event id.                                           *)

\* Whatever is stored under the event id is taken for its outcome.
ReturnByEvent(d) ==
    /\ At(d, "event")
    /\ idem[Event(d)] # NoRecord
    /\ result' = [result EXCEPT ![d] = idem[Event(d)]]
    /\ GoTo(d, "commitKey")
    /\ UNCHANGED <<shared, req, reply, run, idem, seen, epoch, crashes>>

Dispatch(d) ==
    /\ At(d, "event")
    /\ idem[Event(d)] = NoRecord
    /\ run' = [run EXCEPT ![d] = [state |-> "running", epoch |-> epoch]]
    /\ GoTo(d, "handler")
    /\ UNCHANGED <<shared, req, result, reply, idem, seen, epoch, crashes>>

\* The event handler (supplied by the wiring) completes, or throws.
HandlerCompletes(d) ==
    /\ At(d, "handler")
    /\ run' = [run EXCEPT ![d].state = "completed"]
    /\ result' = [result EXCEPT ![d] = Output(Event(d), d)]
    /\ GoTo(d, "commitEvent")
    /\ UNCHANGED <<shared, req, reply, idem, seen, epoch, crashes>>

\* Faulty variants: the failure is stored as an outcome, or retried in place.
HandlerFailureStored(d) ==
    /\ At(d, "handler")
    /\ run' = [run EXCEPT ![d].state = "failed"]
    /\ result' = [result EXCEPT ![d] = Output(Event(d), d)]
    /\ GoTo(d, "commitEvent")
    /\ UNCHANGED <<shared, req, reply, idem, seen, epoch, crashes>>

HandlerRetried(d) ==
    /\ At(d, "handler")
    /\ run' = [run EXCEPT ![d].state = "failed"]
    /\ GoTo(d, "event")
    /\ UNCHANGED <<shared, req, result, reply, idem, seen, epoch, crashes>>

HandlerFails(d) ==
    /\ At(d, "handler")
    /\ run' = [run EXCEPT ![d].state = "failed"]
    /\ Return(d, "error")
    /\ UNCHANGED <<shared, req, result, idem, seen, epoch, crashes>>

CommitEvent(d) ==
    /\ At(d, "commitEvent")
    /\ idem' = [idem EXCEPT ![Event(d)] = result[d]]
    /\ GoTo(d, "commitKey")
    /\ UNCHANGED <<shared, req, result, reply, run, seen, epoch, crashes>>

CommitKey(d) ==
    /\ At(d, "commitKey")
    /\ idem' = [idem EXCEPT ![Key(d)] = result[d]]
    /\ GoTo(d, "return")
    /\ UNCHANGED <<shared, req, result, reply, run, seen, epoch, crashes>>

-------------------------------------------------------------------------------
(* The gRPC handler reads `result.value.result.handled`.                    *)

\* Faulty variant: the read is made optional and its absence taken for success.
AnswerAnyRecord(d) ==
    /\ At(d, "return")
    /\ Return(d, "ok")
    /\ UNCHANGED <<shared, req, result, run, idem, seen, epoch, crashes>>

Answer(d) ==
    /\ At(d, "return")
    /\ result[d].kind = "output"
    /\ Return(d, "ok")
    /\ UNCHANGED <<shared, req, result, run, idem, seen, epoch, crashes>>

\* A StoredEvent has no `result`: a TypeError in a promise nobody awaits.
MisreadStored(d) ==
    /\ At(d, "return")
    /\ result[d].kind = "stored"
    /\ ProcessExits
    /\ UNCHANGED crashes

-------------------------------------------------------------------------------
Verify(d) ==
    \/ RejectSignature(d) \/ RejectDuplicate(d) \/ PassFresh(d)
    \/ MarkStripe(d) \/ MarkOnvo(d)

Step(d) ==
    \/ ReturnCached(d) \/ StartVerify(d) \/ Verify(d) \/ ReturnByEvent(d) \/ Dispatch(d)
    \/ HandlerCompletes(d) \/ HandlerFails(d) \/ CommitEvent(d) \/ CommitKey(d)
    \/ Answer(d) \/ MisreadStored(d)

AllSettled ==
    /\ \A d \in Deliveries : pc[d] \in Settled
    /\ UNCHANGED vars

Next ==
    \/ \E d \in Deliveries : Receive(d) \/ Step(d)
    \/ Crash
    \/ AllSettled

Spec == Init /\ [][Next]_vars

\* The event loop resumes every settled promise, and an event handler settles.
\* Gateways and crashes owe nothing.
FairSpec == Spec /\ \A d \in Deliveries : WF_vars(Step(d))

-------------------------------------------------------------------------------
(* Properties.                                                              *)

\* Every variable ranges over the values the code can put there.
TypeOK ==
    /\ shared \in BOOLEAN
    /\ pc     \in [Deliveries -> {"idle"} \cup Executing \cup Settled]
    /\ req    \in [Deliveries -> Requests \cup {NoRequest}]
    /\ result \in [Deliveries -> Records \cup {NoRecord}]
    /\ reply  \in [Deliveries -> {"none", "ok", "invalid", "duplicate", "error"}]
    /\ run    \in [Deliveries -> Runs \cup {NoRun}]
    /\ idem   \in [Keys \cup Events -> Records \cup {NoRecord}]
    /\ seen   \subseteq OnvoEvents
    /\ epoch  \in Nat
    /\ crashes \in 0 .. MaxCrashes

\* As long as in-memory stores remember, an event is given to its handler once,
\* be it delivered again while the first run is still going on (webhook.ts:73-78).
HandledOncePerEpoch ==
    \A c, d \in Deliveries :
        /\ ~shared
        /\ run[c] # NoRun /\ run[d] # NoRun
        /\ Event(c) = Event(d) /\ run[c].epoch = run[d].epoch
        => c = d

Handled(e) == \E d \in Deliveries : Event(d) = e /\ run[d].state = "completed"

\* What a request key remembers of an OnvoPay event is the summary of a handler's
\* run that completed (webhook.ts:37-39), under both kinds of stores.
RememberedWasHandled ==
    \A k \in Keys : idem[k].event \in OnvoEvents =>
        idem[k].kind = "output" /\ run[idem[k].by].state = "completed"

\* Whatever the gateway, a request key remembers the summary its handler returned,
\* "so replays return the same shape" (webhook.ts:37-39).
RemembersSummaries ==
    \A k \in Keys : idem[k] # NoRecord => idem[k].kind = "output"

\* An answer that is no error names an event for which some handler's run
\* completed: after it the gateway does not deliver that event again.
AcceptedWasHandled ==
    \A d \in Deliveries : reply[d] = "ok" => Handled(result[d].event)

\* Every delivery is answered, or its connection drops with the process.
EveryDeliverySettles ==
    \A d \in Deliveries : pc[d] = "check" ~> pc[d] \in Settled
=============================================================================
