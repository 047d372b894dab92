----------------------------- MODULE Subscription -----------------------------
(***************************************************************************)
(* CreateSubscription, SwitchSubscription and CancelSubscription           *)
(* (src/src/application/use_cases/subscription.ts) with the adapters they  *)
(* call and the gRPC handlers that run them.  The in-memory stores resolve *)
(* at once, so a call runs in one step up to its gateway request and in    *)
(* one step from the answer to its reply; calls overlap at the gateway:    *)
(*                                                                         *)
(*     idle -> [arrived] -> gateway -> answered -> done                    *)
(***************************************************************************)
EXTENDS Naturals, GatewayMappers, WireStatus

CONSTANTS
    Calls,    \* the calls received; names the id a create draws, and the
              \* gateway's subscription that it opens
    Keys,     \* idempotency keys
    Plans,    \* plan ids
    Offered,  \* what callers ask under each key (Orders)
    None,     \* no plan, no reference
    Gateway,  \* the gateway the calls name, with its adapter
    Words     \* the wire statuses its subscriptions go through

Operations == {"create", "switch", "cancel"}
Orders == [op : Operations, key : Keys, plan : Plans \cup {None}, atPeriodEnd : BOOLEAN]

ASSUME Parameters == /\ Offered \subseteq Orders
                     /\ \A o \in Offered : o.op # "cancel" => o.plan \in Plans
                     /\ Gateway \in Gateways
                     /\ Words \subseteq DOMAIN SubscriptionStatusOf[Gateway]
                     /\ "canceled" \in Words
                     /\ None \notin Calls \cup Plans

-------------------------------------------------------------------------------
(* The entity (src/src/domain/entities/subscription.ts).                    *)

SubscriptionStatus == {"intent", "active", "past_due", "canceled", "incomplete"}

SubscriptionTransitions ==
    [intent     |-> {"active", "incomplete", "canceled"},
     active     |-> {"past_due", "canceled"},
     past_due   |-> {"active", "canceled"},
     canceled   |-> {},
     incomplete |-> {"active", "canceled"}]

CanTransition(from, to) == to \in SubscriptionTransitions[from]

Subscriptions  == [status : SubscriptionStatus, plan : Plans, ref : Calls \cup {None}]
NoSubscription == [status |-> "absent", plan |-> None, ref |-> None]

-------------------------------------------------------------------------------
VARIABLES
    patient,  \* TRUE: callers wait for an answer, and retry a lost one first
    pc,       \* where each call is suspended
    req,      \* the order it carries
    id,       \* the subscription it is about
    local,    \* the entity in its closure
    answer,   \* what the gateway answered it
    reply,    \* what its callback was given
    repo,     \* SubscriptionRepositoryPort
    idem,     \* IdempotencyPort
    sub,      \* gateway: its subscriptions
    replay    \* gateway: what it recorded under each idempotency key

processVars == <<pc, req, id, local, answer, reply>>
storeVars   == <<repo, idem>>
gatewayVars == <<sub, replay>>
vars == <<patient, processVars, storeVars, gatewayVars>>

NoOrder  == [op |-> "none", key |-> None, plan |-> None, atPeriodEnd |-> FALSE]
NoOutput == [id |-> None, subscription |-> NoSubscription]
Outputs  == [id : Calls, subscription : Subscriptions]

\* The gateway's own subscription: its wire status, "none" while it has none.
FirstWords == Words \cap {"created", "incomplete", "awaiting_first_charge", "active"}
Billed(c) == sub[c].word \notin {"none", "canceled"}

\* An answer carries the wire status and whether there was a body to read it from.
Answers  == [kind : {"body", "empty"}, word : Words, ref : Calls]
NoAnswer == [kind |-> "none", word |-> "none", ref |-> None]
Refused  == [kind |-> "refused", word |-> "none", ref |-> None]
Lost     == [kind |-> "lost", word |-> "none", ref |-> None]
Unused   == [order |-> NoOrder, answer |-> NoAnswer]

NoReply     == [kind |-> "none",  out |-> NoOutput]
ErrorReply  == [kind |-> "error", out |-> NoOutput]
OkReply(out) == [kind |-> "ok", out |-> out]

\* The status in the response of a call.
Told(r) == SubscriptionOnWire[reply[r].out.subscription.status]

Op(r)  == req[r].op
Key(r) == req[r].key
Executing == {"arrived", "gateway", "answered"}

Init ==
    /\ patient \in BOOLEAN
    /\ pc     = [r \in Calls |-> "idle"]
    /\ req    = [r \in Calls |-> NoOrder]
    /\ id     = [r \in Calls |-> None]
    /\ local  = [r \in Calls |-> NoSubscription]
    /\ answer = [r \in Calls |-> NoAnswer]
    /\ reply  = [r \in Calls |-> NoReply]
    /\ repo   = [i \in Calls |-> NoSubscription]
    /\ idem   = [k \in Keys |-> NoOutput]
    /\ sub    = [c \in Calls |-> [word |-> "none", plan |-> None]]
    /\ replay = [k \in Keys |-> Unused]

-------------------------------------------------------------------------------
(* A call arrives: its order under that order's key, first time or retry,    *)
(* about a subscription some call named before or one that is not known.    *)

\* Orders about subscription i whose answer was lost and not yet obtained.
Owed(i) == { Key(q) : q \in {q \in Calls : id[q] = i /\ answer[q] = Lost} }
           \ { Key(q) : q \in {q \in Calls : answer[q].kind \in {"body", "empty"}} }

Admissible(order, i) ==
    patient => /\ \A q \in Calls : pc[q] \in Executing => id[q] # i /\ Key(q) # order.key
               /\ Owed(i) \subseteq {order.key}

Receive(r) ==
    /\ pc[r] = "idle"
    /\ \E order \in Offered, i \in ({r} \cup {id[q] : q \in Calls}) \ {None} :
          /\ order.op = "create" => i = r
          /\ Admissible(order, i)
          /\ req' = [req EXCEPT ![r] = order]
          /\ id' = [id EXCEPT ![r] = i]
    /\ pc' = [pc EXCEPT ![r] = "arrived"]
    /\ UNCHANGED <<patient, local, answer, reply, storeVars, gatewayVars>>

Return(r, rep) ==
    /\ reply' = [reply EXCEPT ![r] = rep]
    /\ pc' = [pc EXCEPT ![r] = "done"]

ReturnCached(r) ==
    /\ pc[r] = "arrived"
    /\ idem[Key(r)] # NoOutput
    /\ Return(r, OkReply(idem[Key(r)]))
    /\ UNCHANGED <<patient, req, id, local, answer, storeVars, gatewayVars>>

NotFound(r) ==
    /\ pc[r] = "arrived"
    /\ idem[Key(r)] = NoOutput
    /\ Op(r) # "create"
    /\ repo[id[r]].ref = None
    /\ Return(r, ErrorReply)
    /\ UNCHANGED <<patient, req, id, local, answer, storeVars, gatewayVars>>

Created(r) == [status |-> "intent", plan |-> req[r].plan, ref |-> None]

\* Faulty variant: the cache is not consulted.
StartUncached(r) ==
    /\ pc[r] = "arrived"
    /\ Op(r) # "create" => repo[id[r]].ref # None
    /\ local' = [local EXCEPT ![r] = IF Op(r) = "create" THEN Created(r) ELSE repo[id[r]]]
    /\ pc' = [pc EXCEPT ![r] = "gateway"]
    /\ UNCHANGED <<patient, req, id, answer, reply, storeVars, gatewayVars>>

Start(r) ==
    /\ pc[r] = "arrived"
    /\ idem[Key(r)] = NoOutput
    /\ Op(r) # "create" => repo[id[r]].ref # None
    /\ local' = [local EXCEPT ![r] = IF Op(r) = "create" THEN Created(r) ELSE repo[id[r]]]
    /\ pc' = [pc EXCEPT ![r] = "gateway"]
    /\ UNCHANGED <<patient, req, id, answer, reply, storeVars, gatewayVars>>

-------------------------------------------------------------------------------
(* The gateway (external): one execution per key, the recorded answer for a  *)
(* repeated one.  An answer may get lost: the client gives up.              *)

Subject(r) == IF Op(r) = "create" THEN r ELSE local[r].ref

Answered(r, ans) ==
    /\ \E a \in {ans, Lost} : answer' = [answer EXCEPT ![r] = a]
    /\ pc' = [pc EXCEPT ![r] = "answered"]

GatewayRefuses(r) ==
    /\ pc[r] = "gateway"
    /\ answer' = [answer EXCEPT ![r] = Refused]
    /\ pc' = [pc EXCEPT ![r] = "answered"]
    /\ UNCHANGED <<patient, req, id, local, reply, storeVars, gatewayVars>>

\* Faulty variant: a header of the call's own hides a retry from the gateway.
HeaderKeyPerCall(r) == None

\* The header both adapters set: the caller's key.
HeaderKey(r) == Key(r)

SeenBefore(r) == HeaderKey(r) \in Keys /\ replay[HeaderKey(r)] # Unused

GatewayReplays(r) ==
    /\ pc[r] = "gateway"
    /\ SeenBefore(r)
    /\ replay[HeaderKey(r)].order = req[r]
    /\ Op(r) # "create" => replay[HeaderKey(r)].answer.ref = Subject(r)
    /\ Answered(r, replay[HeaderKey(r)].answer)
    /\ UNCHANGED <<patient, req, id, local, reply, storeVars, gatewayVars>>

\* The first request under a key leaves the subscription with this word and plan.
Executed(r, kind, word, plan) ==
    LET ans == [kind |-> kind, word |-> word, ref |-> Subject(r)] IN
    /\ ~SeenBefore(r)
    /\ sub' = [sub EXCEPT ![Subject(r)] = [word |-> word, plan |-> plan]]
    /\ replay' = [k \in Keys |-> IF k = HeaderKey(r)
                                 THEN [order |-> req[r], answer |-> ans] ELSE replay[k]]
    /\ Answered(r, ans)
    /\ UNCHANGED <<patient, req, id, local, reply, storeVars>>

GatewayOpens(r) ==
    /\ pc[r] = "gateway"
    /\ Op(r) = "create"
    /\ \E word \in FirstWords : Executed(r, "body", word, req[r].plan)

GatewaySwitches(r) ==
    /\ pc[r] = "gateway"
    /\ Op(r) = "switch"
    /\ Billed(Subject(r))
    /\ Executed(r, "body", sub[Subject(r)].word, req[r].plan)

\* At the period's end the subscription goes on for now; an immediate cancel at
\* OnvoPay may be answered without a body.
GatewayCancels(r) ==
    /\ pc[r] = "gateway"
    /\ Op(r) = "cancel"
    /\ Billed(Subject(r))
    /\ LET word == IF req[r].atPeriodEnd THEN sub[Subject(r)].word ELSE "canceled" IN
       \E kind \in {"body", "empty"} :
          /\ kind = "empty" => Gateway = "onvopay" /\ ~req[r].atPeriodEnd
          /\ Executed(r, kind, word, sub[Subject(r)].plan)

\* Billing goes on by itself: paid, unpaid, paused, resumed, or ended.
BillingMoves(c) ==
    /\ Billed(c)
    /\ \E word \in Words \ {"created"} : sub' = [sub EXCEPT ![c].word = word]
    /\ UNCHANGED <<patient, processVars, storeVars, replay>>

-------------------------------------------------------------------------------
(* The call resumes with the answer.                                        *)

Read(r) == pc[r] = "answered" /\ answer[r].kind = "body"

\* Both clients' errors are mapped and returned; so is the TypeError of reading
\* `sub.id` where there was no body.
ReturnGatewayError(r) ==
    /\ pc[r] = "answered"
    /\ answer[r].kind # "body"
    /\ Return(r, ErrorReply)
    /\ UNCHANGED <<patient, req, id, local, answer, storeVars, gatewayVars>>

\* Faulty variant: the wire status is passed through.
StatusUnmapped(r) == answer[r].word

Status(r) == SubscriptionStatusOf[Gateway][answer[r].word]

\* create transitions, cancel does so when the answer is the end; switch assigns.
LegalMove(r) ==
    Op(r) = "create" \/ (Op(r) = "cancel" /\ Status(r) = "canceled") =>
        CanTransition(local[r].status, Status(r))

RejectTransition(r) ==
    /\ Read(r)
    /\ ~LegalMove(r)
    /\ Return(r, ErrorReply)
    /\ UNCHANGED <<patient, req, id, local, answer, storeVars, gatewayVars>>

\* Faulty variant: the plan is left to the gateway.
AdvancedKeepsPlan(r) ==
    [status |-> Status(r), plan |-> local[r].plan, ref |-> answer[r].ref]

Advanced(r) ==
    [status |-> Status(r),
     plan   |-> IF Op(r) = "switch" THEN req[r].plan ELSE local[r].plan,
     ref    |-> IF Op(r) = "create" THEN answer[r].ref ELSE local[r].ref]

Finish(r) ==
    /\ Read(r)
    /\ LegalMove(r)
    /\ LET out == [id |-> id[r], subscription |-> Advanced(r)] IN
       /\ repo' = [repo EXCEPT ![id[r]] = Advanced(r)]
       /\ idem' = [idem EXCEPT ![Key(r)] = out]
       /\ Return(r, OkReply(out))
    /\ UNCHANGED <<patient, req, id, local, answer, gatewayVars>>

-------------------------------------------------------------------------------
Handler(r) ==
    \/ ReturnCached(r) \/ NotFound(r) \/ Start(r)
    \/ ReturnGatewayError(r) \/ RejectTransition(r) \/ Finish(r)

GatewayActs(r) ==
    \/ GatewayRefuses(r) \/ GatewayReplays(r)
    \/ GatewayOpens(r) \/ GatewaySwitches(r) \/ GatewayCancels(r)

AllDone ==
    /\ \A r \in Calls : pc[r] = "done"
    /\ UNCHANGED vars

Next ==
    \/ \E r \in Calls : Receive(r) \/ Handler(r) \/ GatewayActs(r) \/ BillingMoves(r)
    \/ AllDone

Spec == Init /\ [][Next]_vars

-------------------------------------------------------------------------------
(* Properties.                                                              *)

\* Every variable ranges over the values the code can put there.
TypeOK ==
    /\ patient \in BOOLEAN
    /\ pc     \in [Calls -> {"idle", "done"} \cup Executing]
    /\ req    \in [Calls -> Orders \cup {NoOrder}]
    /\ id     \in [Calls -> Calls \cup {None}]
    /\ local  \in [Calls -> Subscriptions \cup {NoSubscription}]
    /\ answer \in [Calls -> Answers \cup {NoAnswer, Refused, Lost}]
    /\ reply  \in [Calls -> [kind : {"none", "error", "ok"}, out : Outputs \cup {NoOutput}]]
    /\ repo   \in [Calls -> Subscriptions \cup {NoSubscription}]
    /\ idem   \in [Keys -> Outputs \cup {NoOutput}]
    /\ sub    \in [Calls -> [word : Words \cup {"none"}, plan : Plans \cup {None}]]
    /\ replay \in [Keys -> [order : Orders \cup {NoOrder}, answer : Answers \cup {NoAnswer}]]

\* A customer is subscribed at most once per idempotency key, however callers
\* retry: the create that opened it handed the caller's own key on.
OpenedOncePerKey ==
    \A q, r \in Calls :
        sub[q].word # "none" /\ sub[r].word # "none" /\ Key(q) = Key(r) => q = r

Ended(subscription) ==
    subscription.status = "canceled" => sub[subscription.ref].word = "canceled"

\* Where a subscription is stored, cached or answered as canceled its billing has
\* ended: an unknown status must stay recoverable (onvopay/mappers.ts:157-160).
CanceledIsEnded ==
    /\ \A i \in Calls : Ended(repo[i])
    /\ \A k \in Keys  : Ended(idem[k].subscription)
    /\ \A r \in Calls : Told(r) = "CANCELED" =>
                             sub[reply[r].out.subscription.ref].word = "canceled"

\* No edge leaves "canceled" (entities/subscription.ts:35), although a switch
\* assigns whatever status the gateway answered, possibly long ago.
CanceledStays ==
    [][patient => \A i \in Calls :
          repo[i].status = "canceled" => repo'[i].status = "canceled"]_repo

\* The entity tracks the gateway's plan (subscription.ts:168-171): patient
\* callers that are owed nothing find it stored, lost answers notwithstanding.
PlanTracksGateway ==
    \A i \in Calls :
        /\ patient /\ repo[i] # NoSubscription
        /\ Owed(i) = {} /\ \A q \in Calls : pc[q] \in Executing => id[q] # i
        => repo[i].plan = sub[repo[i].ref].plan

\* A cancellation the gateway carried out and confirmed is reported as done:
\* callers of the client "must tolerate" an answer without a body
\* (onvopay/client.ts:156-158).
ConfirmedCancelsReported ==
    \A r \in Calls :
        Op(r) = "cancel" /\ answer[r].kind \in {"body", "empty"} /\ pc[r] = "done"
            => reply[r].kind = "ok"
=============================================================================
