------------------------------- MODULE Checkout -------------------------------
(***************************************************************************)
(* The three checkout use cases (InitiateCheckout, ConfirmCheckout and     *)
(* RefundPayment, src/src/application/use_cases/checkout.ts) as the gRPC   *)
(* handlers run them: many calls in flight in one Node process, each one   *)
(* suspended at an `await` on a port while the others go on.  A call is    *)
(*                                                                         *)
(*    check -> [load] -> gateway -> resume (save) -> commit -> done        *)
(*                                                                         *)
(* and shares with the others the payment-intent repository, the one       *)
(* idempotency store of the wiring, and the gateway, which keeps its own   *)
(* charges and its own idempotency keys.  Every `await` is an interleaving *)
(* point; what runs between two of them is one step.                       *)
(***************************************************************************)
EXTENDS Naturals, GatewayMappers, WireStatus

CONSTANTS
    Calls,          \* the gRPC calls received; also names the intent id that
                    \* an InitiateCheckout draws and the charge it opens
    Keys,           \* idempotency keys
    Offered,        \* the <<operation, key>> pairs callers use: all of them, or
                    \* fewer when each operation has its keys
    None,           \* no reference (null)
    Gateway,        \* the gateway the calls name, with its adapter
    SerialCallers,  \* TRUE: no caller starts a call while another call on the
                    \* same key or on the same intent is being executed
    Durable,        \* TRUE: the two stores survive a process exit (the ports'
                    \* declared intent); FALSE: the in-memory stores of main.ts
    MaxCrashes      \* bound on exits that no code path of the model causes

ASSUME NoneIsNoCall == None \notin Calls
ASSUME Parameters == /\ Offered \subseteq {"initiate", "confirm", "refund"} \X Keys
                     /\ Gateway \in Gateways
                     /\ SerialCallers \in BOOLEAN
                     /\ Durable \in BOOLEAN
                     /\ MaxCrashes \in Nat

INSTANCE PaymentIntent WITH Refs <- Calls

VARIABLES
    pc,        \* where each call is suspended
    req,       \* the request it carries
    local,     \* the PaymentIntent held in its closure: `existing`, `advanced`
    answer,    \* what the gateway answered it
    reply,     \* what its callback was given
    repo,      \* PaymentIntentRepositoryPort: intent id -> stored intent
    idem,      \* IdempotencyPort: key -> committed output
    charge,    \* gateway: state of each charge
    refunds,   \* gateway: <<charge, call>> of the refunds it accepted
    outcome,   \* gateway: what became of the refund a call opened
    replay,    \* gateway: answer recorded under each idempotency key
    crashes    \* exits counted against MaxCrashes

processVars == <<pc, req, local, answer, reply>>
storeVars   == <<repo, idem>>
gatewayVars == <<charge, refunds, outcome, replay>>
vars == <<processVars, storeVars, gatewayVars, crashes>>

-------------------------------------------------------------------------------
(* Data.  Absent values are records of the same shape, told apart by a tag. *)

Operations == {"initiate", "confirm", "refund"}
Requests   == [op : Operations, key : Keys, id : Calls]
NoRequest  == [op |-> "none", key |-> None, id |-> None]

StoredIntents == PaymentIntents
NoIntent      == [status |-> "absent", ref |-> None]

Outputs  == [op : Operations, id : Calls, intent : PaymentIntents]
NoOutput == [op |-> "none", id |-> None, intent |-> NoIntent]

\* A gateway answer names the charge it is about and what became of it.
AnswerKinds == {"created", "succeeded", "failed", "requires_action"}
Answers  == [kind : AnswerKinds, ref : Calls]
NoAnswer == [kind |-> "none", ref |-> None]
Failure  == [kind |-> "error", ref |-> None]   \* the adapter threw

\* The gateway records answers under the idempotency header it was sent; the
\* header could carry a caller's key or an id of ours.
HeaderKeys == Keys \cup Calls
Recorded == [op : Operations, answer : Answers]
Unused   == [op |-> "none", answer |-> NoAnswer]

NoReply    == [kind |-> "none",  out |-> NoOutput]
ErrorReply == [kind |-> "error", out |-> NoOutput]
OkReply(out) == [kind |-> "ok", out |-> out]

Executing == {"check", "load", "gateway", "resume", "commit"}
Settled   == {"done", "lost", "orphan"}

Op(r)  == req[r].op
Key(r) == req[r].key
Id(r)  == req[r].id

\* The status in the response of a call.  ConfirmCheckout reads the finalStatus
\* of its output, which another operation's output does not have.
Told(r) == IF Op(r) = "confirm" /\ reply[r].out.op # "confirm"
             THEN Unspecified ELSE PaymentOnWire[reply[r].out.intent.status]

Init ==
    /\ pc      = [r \in Calls |-> "idle"]
    /\ req     = [r \in Calls |-> NoRequest]
    /\ local   = [r \in Calls |-> NoIntent]
    /\ answer  = [r \in Calls |-> NoAnswer]
    /\ reply   = [r \in Calls |-> NoReply]
    /\ repo    = [i \in Calls |-> NoIntent]
    /\ idem    = [k \in Keys |-> NoOutput]
    /\ charge  = [c \in Calls |-> "none"]
    /\ refunds = {}
    /\ outcome = [r \in Calls |-> "none"]
    /\ replay  = [h \in HeaderKeys |-> Unused]
    /\ crashes = 0

-------------------------------------------------------------------------------
(* The process exits: a crash, or a rejection that nothing handles.  Calls   *)
(* that were executing never reach their callback; a request that was on     *)
(* its way to the gateway may still be executed there ("orphan").            *)

ProcessExits ==
    /\ pc' = [r \in Calls |-> IF pc[r] = "gateway" THEN "orphan"
                              ELSE IF pc[r] \in Executing THEN "lost"
                              ELSE pc[r]]
    /\ repo' = IF Durable THEN repo ELSE [i \in Calls |-> NoIntent]
    /\ idem' = IF Durable THEN idem ELSE [k \in Keys |-> NoOutput]
    /\ UNCHANGED <<req, local, answer, reply, gatewayVars>>

Crash ==
    /\ crashes < MaxCrashes
    /\ crashes' = crashes + 1
    /\ ProcessExits

-------------------------------------------------------------------------------
(* A call arrives, first time or retry.  InitiateCheckout draws a fresh id. *)

Admissible(rq) ==
    SerialCallers =>
        \A q \in Calls : pc[q] \in Executing => Key(q) # rq.key /\ Id(q) # rq.id

Receive(r) ==
    /\ pc[r] = "idle"
    /\ \E rq \in Requests :
          /\ <<rq.op, rq.key>> \in Offered
          /\ rq.op = "initiate" => rq.id = r
          /\ Admissible(rq)
          /\ req' = [req EXCEPT ![r] = rq]
    /\ pc' = [pc EXCEPT ![r] = "check"]
    /\ UNCHANGED <<local, answer, reply, storeVars, gatewayVars, crashes>>

Return(r, rep) ==
    /\ reply' = [reply EXCEPT ![r] = rep]
    /\ pc' = [pc EXCEPT ![r] = "done"]

\* The output cached under the key, whichever operation committed it.
ReturnCached(r) ==
    /\ pc[r] = "check"
    /\ idem[Key(r)] # NoOutput
    /\ Op(r) = "refund" => idem[Key(r)].op = "refund"
    /\ Return(r, OkReply(idem[Key(r)]))
    /\ UNCHANGED <<req, local, answer, storeVars, gatewayVars, crashes>>

\* A refund handed another operation's output reads `refundGatewayRef
\* .externalId` of undefined: a TypeError in a promise nobody awaits.
CachedMisread(r) ==
    /\ pc[r] = "check"
    /\ idem[Key(r)] # NoOutput
    /\ Op(r) = "refund"
    /\ idem[Key(r)].op # "refund"
    /\ ProcessExits
    /\ UNCHANGED crashes

\* Faulty variant: the cache is not consulted before a new intent is made.
StartInitiateUnchecked(r) ==
    /\ pc[r] = "check"
    /\ Op(r) = "initiate"
    /\ local' = [local EXCEPT ![r] = CreatedIntent]
    /\ pc' = [pc EXCEPT ![r] = "gateway"]
    /\ UNCHANGED <<req, answer, reply, storeVars, gatewayVars, crashes>>

StartInitiate(r) ==
    /\ pc[r] = "check"
    /\ idem[Key(r)] = NoOutput
    /\ Op(r) = "initiate"
    /\ local' = [local EXCEPT ![r] = CreatedIntent]
    /\ pc' = [pc EXCEPT ![r] = "gateway"]
    /\ UNCHANGED <<req, answer, reply, storeVars, gatewayVars, crashes>>

StartOnExisting(r) ==
    /\ pc[r] = "check"
    /\ idem[Key(r)] = NoOutput
    /\ Op(r) \in {"confirm", "refund"}
    /\ pc' = [pc EXCEPT ![r] = "load"]
    /\ UNCHANGED <<req, local, answer, reply, storeVars, gatewayVars, crashes>>

\* Faulty variant: a refund is not held back by the intent's status.
UsableAnyStatus(r, intent) == intent # NoIntent /\ intent.ref # None

\* findById found an intent with a gatewayRef, and a refund may leave its status.
Usable(r, intent) ==
    /\ intent # NoIntent
    /\ intent.ref # None
    /\ Op(r) = "refund" => CanTransition(intent.status, "refunded")

Load(r) ==
    /\ pc[r] = "load"
    /\ Usable(r, repo[Id(r)])
    /\ local' = [local EXCEPT ![r] = repo[Id(r)]]
    /\ pc' = [pc EXCEPT ![r] = "gateway"]
    /\ UNCHANGED <<req, answer, reply, storeVars, gatewayVars, crashes>>

Reject(r) ==
    /\ pc[r] = "load"
    /\ ~Usable(r, repo[Id(r)])
    /\ Return(r, ErrorReply)
    /\ UNCHANGED <<req, local, answer, storeVars, gatewayVars, crashes>>

-------------------------------------------------------------------------------
(* The gateway (external).  It executes a request at most once per key: a    *)
(* repeated key gets the recorded answer, a key reused for something else is *)
(* refused.  It may refuse anything, and its answer may not come back.       *)

\* Faulty variant: a header of the call's own, as an SDK draws when given none.
GatewayKeyPerCall(r) == r

\* The header the adapter sets: the caller's key, unchanged.
GatewayKey(r) == Key(r)

\* The charge a request is about: the one it opens, or the intent's own.
Subject(r) == IF Op(r) = "initiate" THEN r ELSE local[r].ref

Outstanding(r) == pc[r] \in {"gateway", "orphan"}

\* The answer reaches the call (or, the process gone, nobody), or is lost.
Answered(r, ans) ==
    IF pc[r] = "orphan"
    THEN /\ pc' = [pc EXCEPT ![r] = "lost"]
         /\ UNCHANGED answer
    ELSE /\ pc' = [pc EXCEPT ![r] = "resume"]
         /\ \E a \in {ans, Failure} : answer' = [answer EXCEPT ![r] = a]

GatewayRefuses(r) ==
    /\ pc[r] = "gateway"
    /\ answer' = [answer EXCEPT ![r] = Failure]
    /\ pc' = [pc EXCEPT ![r] = "resume"]
    /\ UNCHANGED <<req, local, reply, storeVars, gatewayVars, crashes>>

GatewayReplays(r) ==
    /\ Outstanding(r)
    /\ replay[GatewayKey(r)].op = Op(r)
    /\ Op(r) # "initiate" => replay[GatewayKey(r)].answer.ref = Subject(r)
    /\ Answered(r, replay[GatewayKey(r)].answer)
    /\ UNCHANGED <<req, local, reply, storeVars, gatewayVars, crashes>>

\* A first request under this key, answered `kind` and recorded.
Executed(r, kind) ==
    LET ans == [kind |-> kind, ref |-> Subject(r)] IN
    /\ replay[GatewayKey(r)] = Unused
    /\ replay' = [replay EXCEPT ![GatewayKey(r)] = [op |-> Op(r), answer |-> ans]]
    /\ Answered(r, ans)
    /\ UNCHANGED <<req, local, reply, storeVars, crashes>>

GatewayCreates(r) ==
    /\ Outstanding(r)
    /\ Op(r) = "initiate"
    /\ Executed(r, "created")
    /\ charge' = [charge EXCEPT ![r] = "open"]
    /\ UNCHANGED <<refunds, outcome>>

\* The wire statuses in which each gateway may report a charge.
Words == [
    stripe  |-> [open |-> {"requires_action", "processing"},
                 captured |-> {"succeeded"}, declined |-> {"canceled"}],
    onvopay |-> [open |-> {"requires_action", "pending"},
                 captured |-> {"succeeded", "refunded"}, declined |-> {"failed"}] ]

PaidBack(c) == \E r \in Calls : <<c, r>> \in refunds /\ outcome[r] = "succeeded"

\* An open charge is captured, is declined for good, or stays open for the payer
\* or the bank; a settled one is reported as it is.
GatewayConfirms(r) ==
    /\ Outstanding(r)
    /\ Op(r) = "confirm"
    /\ \E s \in {"open", "captured", "declined"} :
          /\ charge[Subject(r)] \in {"open", s}
          /\ \E word \in Words[Gateway][s] :
                /\ word = "refunded" => PaidBack(Subject(r))
                /\ Executed(r, ConfirmStatus[Gateway][word])
          /\ charge' = [charge EXCEPT ![Subject(r)] = s]
    /\ UNCHANGED <<refunds, outcome>>

\* A refund is refused for good ("failed"), or accepted: paid at once, on its way
\* ("pending"), or waiting for the customer ("requires_action").
GatewayRefunds(r) ==
    /\ Outstanding(r)
    /\ Op(r) = "refund"
    /\ charge[Subject(r)] = "captured"
    /\ \E word \in DOMAIN RefundStatus[Gateway] :
          /\ Executed(r, RefundStatus[Gateway][word])
          /\ IF word = "failed" THEN UNCHANGED <<refunds, outcome>>
             ELSE /\ refunds' = refunds \cup {<<Subject(r), r>>}
                  /\ outcome' = [outcome EXCEPT ![r] = word]
    /\ UNCHANGED charge

\* An accepted refund is paid in the end, or fails, whatever was answered.
RefundSettles(r) ==
    /\ outcome[r] \in {"pending", "requires_action"}
    /\ \E s \in {"succeeded", "failed"} : outcome' = [outcome EXCEPT ![r] = s]
    /\ UNCHANGED <<processVars, storeVars, charge, refunds, replay, crashes>>

\* The payer finishes on the gateway's page with the client secret, or gives
\* up, or the bank answers at last.
ChargeSettles(c) ==
    /\ charge[c] = "open"
    /\ \E s \in {"captured", "declined"} : charge' = [charge EXCEPT ![c] = s]
    /\ UNCHANGED <<processVars, storeVars, refunds, outcome, replay, crashes>>

-------------------------------------------------------------------------------
(* The call resumes with the answer.                                        *)

\* Faulty variant: the failed attempt is cached.
CacheGatewayError(r) ==
    /\ pc[r] = "resume"
    /\ answer[r] = Failure
    /\ idem' = [idem EXCEPT ![Key(r)] = [op |-> Op(r), id |-> Id(r), intent |-> local[r]]]
    /\ Return(r, ErrorReply)
    /\ UNCHANGED <<req, local, answer, repo, gatewayVars, crashes>>

ReturnGatewayError(r) ==
    /\ pc[r] = "resume"
    /\ answer[r] = Failure
    /\ Return(r, ErrorReply)
    /\ UNCHANGED <<req, local, answer, storeVars, gatewayVars, crashes>>

\* Faulty variant: a confirmation that captured nothing yet is a failure.
TargetFailsUnlessCaptured(r) ==
    CASE Op(r) = "initiate" -> "pending"
      [] Op(r) = "confirm"  -> IF answer[r].kind = "succeeded" THEN "succeeded" ELSE "failed"
      [] Op(r) = "refund"   -> IF answer[r].kind = "succeeded" THEN "refunded" ELSE "none"

\* The status this answer moves the intent to, or "none": a confirmation still
\* waiting for the payer and a failed refund leave the intent as it was loaded.
Target(r) ==
    CASE Op(r) = "initiate" -> "pending"
      [] Op(r) = "confirm"  -> IF answer[r].kind \in {"succeeded", "failed"}
                               THEN answer[r].kind ELSE "none"
      [] Op(r) = "refund"   -> IF answer[r].kind = "succeeded" THEN "refunded" ELSE "none"

\* The reference handed to the transition: only InitiateCheckout passes one.
NewRef(r) == IF Op(r) = "initiate" THEN answer[r].ref ELSE None

\* Faulty variant: the gateway's own status is stored when none is mapped.
AdvancedUnmapped(r) ==
    IF Target(r) = "none" THEN [local[r] EXCEPT !.status = answer[r].kind]
    ELSE Transitioned(local[r], Target(r), NewRef(r))

Advanced(r) ==
    IF Target(r) = "none" THEN local[r]
    ELSE Transitioned(local[r], Target(r), NewRef(r))

\* Faulty variant: the status is assigned without consulting the table.
AnyMove(r) == TRUE

LegalMove(r) == Target(r) # "none" => CanTransition(local[r].status, Target(r))

\* Faulty variant: the repository inserts a new intent but never updates one.
SaveInsertOnly(r) ==
    /\ pc[r] = "resume"
    /\ answer[r] # Failure
    /\ LegalMove(r)
    /\ local' = [local EXCEPT ![r] = Advanced(r)]
    /\ repo' = IF repo[Id(r)] = NoIntent
               THEN [repo EXCEPT ![Id(r)] = Advanced(r)] ELSE repo
    /\ pc' = [pc EXCEPT ![r] = "commit"]
    /\ UNCHANGED <<req, answer, reply, idem, gatewayVars, crashes>>

\* Save what the call computed from the intent it loaded before the gateway call.
Save(r) ==
    /\ pc[r] = "resume"
    /\ answer[r] # Failure
    /\ LegalMove(r)
    /\ local' = [local EXCEPT ![r] = Advanced(r)]
    /\ repo' = [repo EXCEPT ![Id(r)] = Advanced(r)]
    /\ pc' = [pc EXCEPT ![r] = "commit"]
    /\ UNCHANGED <<req, answer, reply, idem, gatewayVars, crashes>>

\* safeTransition throws outside the try block: the handler's promise rejects,
\* nothing handles the rejection, and Node ends the process.
IllegalTransition(r) ==
    /\ pc[r] = "resume"
    /\ answer[r] # Failure
    /\ ~LegalMove(r)
    /\ ProcessExits
    /\ UNCHANGED crashes

Output(r) == [op |-> Op(r), id |-> Id(r), intent |-> local[r]]

Commit(r) ==
    /\ pc[r] = "commit"
    /\ idem' = [idem EXCEPT ![Key(r)] = Output(r)]
    /\ Return(r, OkReply(Output(r)))
    /\ UNCHANGED <<req, local, answer, repo, gatewayVars, crashes>>

-------------------------------------------------------------------------------
Handler(r) ==
    \/ ReturnCached(r) \/ CachedMisread(r) \/ StartInitiate(r) \/ StartOnExisting(r)
    \/ Load(r) \/ Reject(r)
    \/ ReturnGatewayError(r) \/ Save(r) \/ IllegalTransition(r) \/ Commit(r)

GatewayActs(r) ==
    \/ GatewayRefuses(r) \/ GatewayReplays(r) \/ GatewayCreates(r)
    \/ GatewayConfirms(r) \/ GatewayRefunds(r)

\* Every call of the instance was received and settled: the server is idle.
AllSettled ==
    /\ \A r \in Calls : pc[r] \in Settled
    /\ UNCHANGED vars

Next ==
    \/ \E r \in Calls :
          \/ Receive(r) \/ Handler(r) \/ GatewayActs(r)
          \/ ChargeSettles(r) \/ RefundSettles(r)
    \/ Crash
    \/ AllSettled

Spec == Init /\ [][Next]_vars

-------------------------------------------------------------------------------
(* Properties.                                                              *)

\* Every variable ranges over the values the code can put there.
TypeOK ==
    /\ pc      \in [Calls -> {"idle"} \cup Executing \cup Settled]
    /\ req     \in [Calls -> Requests \cup {NoRequest}]
    /\ local   \in [Calls -> PaymentIntents \cup {NoIntent}]
    /\ answer  \in [Calls -> Answers \cup {NoAnswer, Failure}]
    /\ reply   \in [Calls -> [kind : {"none", "error", "ok"}, out : Outputs \cup {NoOutput}]]
    /\ repo    \in [Calls -> StoredIntents \cup {NoIntent}]
    /\ idem    \in [Keys -> Outputs \cup {NoOutput}]
    /\ charge  \in [Calls -> {"none", "open", "captured", "declined"}]
    /\ refunds \subseteq Calls \X Calls
    /\ outcome \in [Calls -> {"none", "pending", "requires_action", "succeeded", "failed"}]
    /\ replay  \in [HeaderKeys -> Recorded \cup {Unused}]
    /\ crashes \in 0 .. MaxCrashes

\* The customer is charged at most once per idempotency key, however often,
\* however concurrently and across however many process exits the caller
\* retries ("Safe to retry", checkout.ts:99): it rests on the code handing the
\* caller's own key to the gateway, not on the local cache.
ChargedOncePerKey ==
    \A q, r \in Calls :
        charge[q] # "none" /\ charge[r] # "none" /\ Key(q) = Key(r) => q = r

\* Likewise the gateway accepts at most one refund per idempotency key.
RefundedOncePerKey ==
    \A c, d, q, r \in Calls :
        <<c, q>> \in refunds /\ <<d, r>> \in refunds /\ Key(q) = Key(r)
            => c = d /\ q = r

\* What a refund must have come to for its intent to be called refunded: OnvoPay
\* has paid it; Stripe has accepted it as succeeded or pending, and a pending one
\* may have failed since ("final confirmation lands via webhook").
Counted == [stripe |-> {"succeeded", "pending", "failed"}, onvopay |-> {"succeeded"}]

Refunded(c) == \E r \in Calls : <<c, r>> \in refunds /\ outcome[r] \in Counted[Gateway]

\* The charge an intent claims was captured was, and refunded if it says so.
Backed(intent) ==
    /\ intent.status \in {"succeeded", "refunded", "disputed"} => charge[intent.ref] = "captured"
    /\ intent.status = "refunded" => Refunded(intent.ref)

ReplyBacked(r) == LET ref == reply[r].out.intent.ref IN
    /\ Told(r) \in {"SUCCEEDED", "REFUNDED"} => charge[ref] = "captured"
    /\ Told(r) = "REFUNDED" => Refunded(ref)

\* No stored intent, cached output or answer given to a caller claims a capture
\* that the gateway did not carry out, or a refund that it did not accept (a
\* Stripe refund accepted as pending counts, one that waits for the customer does
\* not; stripe/mappers.ts:135-141), although each is computed from an intent read
\* before the gateway call and written after it.
StatusBackedByGateway ==
    /\ \A i \in Calls : Backed(repo[i])
    /\ \A k \in Keys  : Backed(idem[k].intent)
    /\ \A r \in Calls : ReplyBacked(r)

\* The charge an intent claims has failed can no longer be captured.
Final(intent) == intent.status = "failed" => charge[intent.ref] = "declined"

\* "failed" is the end of an intent (payment-intent.ts:42): where it is stored,
\* cached or answered, the payer will not be charged after all.
FailedIsFinal ==
    /\ \A i \in Calls : Final(repo[i])
    /\ \A k \in Keys  : Final(idem[k].intent)
    /\ \A r \in Calls : Told(r) = "FAILED" => charge[reply[r].out.intent.ref] = "declined"

\* All callers that ask for a refund under one key are told the same of it, through
\* races, the cache, the gateway's replays and process exits, also while a refund
\* that was answered as failed is paid after all (stripe/mappers.ts:140): together
\* with RefundedOncePerKey, asking again under the key neither pays twice nor tells news.
RetriesAgreeOnRefund ==
    \A q, r \in Calls :
        /\ Op(q) = "refund" /\ reply[q].kind = "ok"
        /\ Op(r) = "refund" /\ reply[r].kind = "ok"
        /\ Key(q) = Key(r)
        => Told(q) = Told(r)

\* A refund is only ever asked for a charge that was captured, even when the
\* intent it was loaded from has been overwritten meanwhile.
RefundsOnlyCaptured ==
    \A r \in Calls : Outstanding(r) /\ Op(r) = "refund" => charge[Subject(r)] = "captured"

\* An output is cached only after its intent was stored, and it is about the
\* very charge the gateway recorded under the same key: a replay served from
\* the cache and one served by the gateway cannot disagree.
CommittedOutputsAgree ==
    \A k \in Keys : idem[k] # NoOutput =>
        /\ repo[idem[k].id].ref = idem[k].intent.ref
        /\ replay[k].op = idem[k].op
        /\ replay[k].answer.ref = idem[k].intent.ref

\* Callers that retry with one key are all told about the same charge, through
\* races, key reuse across operations and process exits alike.
RetriesNameOneCharge ==
    \A q, r \in Calls :
        reply[q].kind = "ok" /\ reply[r].kind = "ok" /\ Key(q) = Key(r)
            => reply[q].out.intent.ref = reply[r].out.intent.ref

\* Retries converge on one persisted intent (idempotency-key.ts:4-6).
OneIntentPerKey ==
    \A i, j \in Calls :
        repo[i] # NoIntent /\ repo[j] # NoIntent /\ Key(i) = Key(j) => i = j

\* A success reported to a caller is not taken back: as long as the intent is
\* known at all, its stored status is still "succeeded", or refunded since.
ReportedSuccessKept ==
    \A r \in Calls :
        Told(r) = "SUCCEEDED" =>
            repo[reply[r].out.id] = NoIntent
              \/ repo[reply[r].out.id].status \in {"succeeded", "refunded"}

\* No call ends the process it runs in: every exit is a crash of its own.
OnlyCrashesExit ==
    [][(\E r \in Calls : pc[r] \in Executing /\ pc'[r] = "lost") => crashes' # crashes]_vars

\* The stored intents, seen alone, implement their lifecycle.
Lifecycle == INSTANCE PaymentIntentLifecycle
                 WITH Intents <- Calls, Refs <- Calls,
                      status <- [i \in Calls |-> repo[i].status]

ImplementsLifecycle == Lifecycle!Spec
=============================================================================
