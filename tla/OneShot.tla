------------------------------- MODULE OneShot --------------------------------
(***************************************************************************)
(* The use cases that make one gateway request and record its result:      *)
(* CreatePayout, HandleAgenticPayment, CreateOneTimeDonation,              *)
(* CreateRecurringDonation and ManageRecurringDonation                     *)
(* (src/src/application/use_cases/payout.ts, agentic.ts, donations.ts).    *)
(* Their ports have only stubs in the wiring so far; the gateway keeps the *)
(* contracts of src/src/domain/ports/index.ts.  The in-memory stores       *)
(* resolve at once, so a call runs in one step up to its gateway request   *)
(* and in one step from the answer to its reply:                           *)
(*                                                                         *)
(*     idle -> [arrived] -> gateway -> answered -> done | dropped          *)
(***************************************************************************)
EXTENDS Naturals, WireStatus

CONSTANTS
    Calls,     \* the calls received; names the id a call draws, and what the
               \* gateway opens for it
    Keys,      \* idempotency keys
    Offered,   \* what callers ask (Orders)
    None,      \* no reference
    MaxCrashes \* how often the process is killed

Creations  == {"payout", "agentic", "donation", "schedule"}
Answering  == {"payout", "agentic"}   \* those an RPC serves
Donations  == {"donation", "schedule"}
Managed    == {"pause", "cancel"}
Operations == Creations \cup Managed

\* zero: the amount is zero, which only the donation use cases look at.
Orders == [op : Operations, key : Keys, zero : BOOLEAN]

ASSUME Parameters == /\ Offered \subseteq Orders
                     /\ None \notin Calls
                     /\ MaxCrashes \in Nat

\* The entity an agentic payment is stored as.
INSTANCE PaymentIntent WITH Refs <- Calls

-------------------------------------------------------------------------------
(* The payout entity (src/src/domain/entities/simple-entities.ts).          *)

PayoutStatus == {"pending", "paid", "failed"}

PayoutTransitions == [pending |-> {"paid", "failed"}, paid |-> {}, failed |-> {}]

CanTransitionPayout(from, to) == to \in PayoutTransitions[from]

-------------------------------------------------------------------------------
VARIABLES
    patient,  \* TRUE: callers wait for an answer before they retry its key
    crashes,  \* how often the process was killed
    pc,       \* where each call is suspended
    req,      \* the order it carries
    about,    \* the gateway reference a pause or cancel names
    answer,   \* what the gateway answered it
    reply,    \* what its callback was given
    repo,     \* the payout, donation and payment intent repositories, by id
    idem,     \* IdempotencyPort
    thing,    \* gateway: its payouts, charges and schedules
    replay    \* gateway: what it recorded under each idempotency key

callVars    == <<pc, req, about, answer, reply>>
storeVars   == <<repo, idem>>
gatewayVars == <<thing, replay>>
vars == <<patient, crashes, callVars, storeVars, gatewayVars>>

\* What is stored, committed and returned: the entity, or what was managed.
Statuses == PayoutStatus \cup PaymentIntentStatus
Records  == [op : Creations, key : Keys, status : Statuses, ref : Calls]
NoRecord == [op |-> "none", key |-> None, status |-> "absent", ref |-> None]
Outputs  == Records \cup [op : Managed, key : Keys, status : {"absent"}, ref : Calls]

NoOrder == [op |-> "none", key |-> None, zero |-> FALSE]

\* The gateway's words; a payout is "paid" where a charge has "succeeded".
Words == {"none", "pending", "paid", "succeeded", "failed", "active", "paused", "cancelled"}
FirstWords ==
    [payout |-> PayoutStatus, agentic |-> {"pending", "succeeded", "failed"},
     donation |-> {"pending"}, schedule |-> {"active"}]

Answers  == [kind : {"body"}, word : Words, ref : Calls]
NoAnswer == [kind |-> "none",    word |-> "none", ref |-> None]
Refused  == [kind |-> "refused", word |-> "none", ref |-> None]
Lost     == [kind |-> "lost",    word |-> "none", ref |-> None]
Unused   == [op |-> "none", answer |-> NoAnswer]

NoReply      == [kind |-> "none",  out |-> NoRecord]
ErrorReply   == [kind |-> "error", out |-> NoRecord]
OkReply(out) == [kind |-> "ok", out |-> out]

\* The status in the response of an RPC.
Told(r) == LET status == reply[r].out.status IN
    CASE reply[r].out.op = "payout"  -> PayoutOnWire[status]
      [] reply[r].out.op = "agentic" -> PaymentOnWire[status]
      [] OTHER -> Unspecified

Op(r)  == req[r].op
Key(r) == req[r].key
Executing == {"arrived", "gateway", "answered"}

Init ==
    /\ patient \in BOOLEAN
    /\ crashes = 0
    /\ pc     = [r \in Calls |-> "idle"]
    /\ req    = [r \in Calls |-> NoOrder]
    /\ about  = [r \in Calls |-> None]
    /\ answer = [r \in Calls |-> NoAnswer]
    /\ reply  = [r \in Calls |-> NoReply]
    /\ repo   = [i \in Calls |-> NoRecord]
    /\ idem   = [k \in Keys |-> NoRecord]
    /\ thing  = [c \in Calls |-> "none"]
    /\ replay = [k \in Keys |-> Unused]

-------------------------------------------------------------------------------
(* A call arrives, first time or retry.  A pause or cancel names a schedule  *)
(* whose reference some caller was given.                                   *)

Known(c) == \E q \in Calls : reply[q].out.op = "schedule" /\ reply[q].out.ref = c

Admissible(order) ==
    patient => \A q \in Calls : pc[q] \in Executing => Key(q) # order.key

Receive(r) ==
    /\ pc[r] = "idle"
    /\ \E order \in Offered :
          /\ Admissible(order)
          /\ req' = [req EXCEPT ![r] = order]
          /\ IF order.op \in Managed
             THEN \E c \in {c \in Calls : Known(c)} : about' = [about EXCEPT ![r] = c]
             ELSE UNCHANGED about
    /\ pc' = [pc EXCEPT ![r] = "arrived"]
    /\ UNCHANGED <<patient, crashes, answer, reply, storeVars, gatewayVars>>

\* The process ends: its memory is gone, the callers' connections drop.
ProcessExits ==
    /\ pc'   = [r \in Calls |-> IF pc[r] \in Executing THEN "dropped" ELSE pc[r]]
    /\ repo' = [i \in Calls |-> NoRecord]
    /\ idem' = [k \in Keys |-> NoRecord]
    /\ UNCHANGED <<patient, req, about, answer, reply, gatewayVars>>

\* The process is killed.
Crash ==
    /\ crashes < MaxCrashes
    /\ crashes' = crashes + 1
    /\ ProcessExits

Return(r, rep) ==
    /\ reply' = [reply EXCEPT ![r] = rep]
    /\ pc' = [pc EXCEPT ![r] = "done"]

\* Faulty variant: the reply names the action asked for, not the one cached.
ReturnCachedAsAsked(r) ==
    /\ pc[r] = "arrived"
    /\ idem[Key(r)] # NoRecord
    /\ Op(r) \in Answering => idem[Key(r)].op = Op(r)
    /\ Return(r, OkReply([idem[Key(r)] EXCEPT !.op = Op(r)]))
    /\ UNCHANGED <<patient, crashes, req, about, answer, storeVars, gatewayVars>>

\* The output cached under the key, whichever operation committed it ...
ReturnCached(r) ==
    /\ pc[r] = "arrived"
    /\ idem[Key(r)] # NoRecord
    /\ Op(r) \in Answering => idem[Key(r)].op = Op(r)
    /\ Return(r, OkReply(idem[Key(r)]))
    /\ UNCHANGED <<patient, crashes, req, about, answer, storeVars, gatewayVars>>

\* ... but an RPC that is handed another operation's output reads the gatewayRef
\* of undefined: a TypeError in a promise nobody awaits, which ends the process.
CachedMisread(r) ==
    /\ pc[r] = "arrived"
    /\ idem[Key(r)] # NoRecord
    /\ Op(r) \in Answering
    /\ idem[Key(r)].op # Op(r)
    /\ ProcessExits
    /\ UNCHANGED crashes

Invalid(r) == Op(r) \in Donations /\ req[r].zero

RejectAmount(r) ==
    /\ pc[r] = "arrived"
    /\ idem[Key(r)] = NoRecord
    /\ Invalid(r)
    /\ Return(r, ErrorReply)
    /\ UNCHANGED <<patient, crashes, req, about, answer, storeVars, gatewayVars>>

Proceed(r) ==
    /\ ~Invalid(r)
    /\ pc' = [pc EXCEPT ![r] = "gateway"]
    /\ UNCHANGED <<patient, crashes, req, about, answer, reply, storeVars, gatewayVars>>

\* Faulty variant: the cache is not consulted.
StartUncached(r) == pc[r] = "arrived" /\ Proceed(r)

Start(r) == pc[r] = "arrived" /\ idem[Key(r)] = NoRecord /\ Proceed(r)

-------------------------------------------------------------------------------
(* The gateway (external): one execution per key, the recorded answer for a  *)
(* repeated one.  An answer may get lost: the adapter gives up.             *)

Subject(r) == IF Op(r) \in Creations THEN r ELSE about[r]

Answered(r, ans) ==
    /\ \E a \in {ans, Lost} : answer' = [answer EXCEPT ![r] = a]
    /\ pc' = [pc EXCEPT ![r] = "answered"]
    /\ UNCHANGED <<patient, crashes, req, about, reply, storeVars>>

GatewayRefuses(r) ==
    /\ pc[r] = "gateway"
    /\ answer' = [answer EXCEPT ![r] = Refused]
    /\ pc' = [pc EXCEPT ![r] = "answered"]
    /\ UNCHANGED <<patient, crashes, req, about, reply, storeVars, gatewayVars>>

\* Faulty variant: a key of the call's own hides a retry from the gateway.
PortKeyPerCall(r) == None

\* Every port call is handed the caller's key.
PortKey(r) == Key(r)

SeenBefore(r) == PortKey(r) \in Keys /\ replay[PortKey(r)] # Unused

GatewayReplays(r) ==
    /\ pc[r] = "gateway"
    /\ SeenBefore(r)
    /\ replay[PortKey(r)].op = Op(r)
    /\ Op(r) \in Managed => replay[PortKey(r)].answer.ref = Subject(r)
    /\ Answered(r, replay[PortKey(r)].answer)
    /\ UNCHANGED gatewayVars

Executed(r, word) ==
    LET ans == [kind |-> "body", word |-> word, ref |-> Subject(r)] IN
    /\ pc[r] = "gateway"
    /\ ~SeenBefore(r)
    /\ thing' = [thing EXCEPT ![Subject(r)] = word]
    /\ replay' = [k \in Keys |-> IF k = PortKey(r) THEN [op |-> Op(r), answer |-> ans]
                                                   ELSE replay[k]]
    /\ Answered(r, ans)

GatewayCreates(r) ==
    /\ Op(r) \in Creations
    /\ \E word \in FirstWords[Op(r)] : Executed(r, word)

\* Pausing what is paused and cancelling what is cancelled are no-ops.
GatewayPauses(r) ==
    /\ Op(r) = "pause"
    /\ thing[about[r]] \in {"active", "paused"}
    /\ Executed(r, "paused")

GatewayCancels(r) ==
    /\ Op(r) = "cancel"
    /\ thing[about[r]] \in {"active", "paused", "cancelled"}
    /\ Executed(r, "cancelled")

\* A payout or charge goes through, or does not.
Settles(c) ==
    /\ thing[c] = "pending"
    /\ \E word \in {IF Op(c) = "payout" THEN "paid" ELSE "succeeded", "failed"} :
          thing' = [thing EXCEPT ![c] = word]
    /\ UNCHANGED <<patient, crashes, callVars, storeVars, replay>>

-------------------------------------------------------------------------------
(* The call resumes with the answer.                                        *)

ReturnGatewayError(r) ==
    /\ pc[r] = "answered"
    /\ answer[r] \in {Refused, Lost}
    /\ Return(r, ErrorReply)
    /\ UNCHANGED <<patient, crashes, req, about, answer, storeVars, gatewayVars>>

Read(r) == pc[r] = "answered" /\ answer[r] \in Answers

\* Faulty variant: whatever is no longer pending is paid.
StatusIfSettled(r) ==
    IF Op(r) = "payout" /\ answer[r].word # "pending" THEN "paid"
    ELSE IF Op(r) \in Donations THEN "pending" ELSE answer[r].word

\* Faulty variant: the gateway's word is passed on.
StatusPassedOn(r) == answer[r].word

\* A donation is stored as pending whatever became of it.
Status(r) == IF Op(r) \in Donations THEN "pending" ELSE answer[r].word

\* A payout starts pending, an agentic payment as an intent.
LegalMove(r) ==
    /\ Op(r) = "payout" /\ Status(r) # "pending" => CanTransitionPayout("pending", Status(r))
    /\ Op(r) = "agentic" => CanTransition("intent", Status(r))

RejectTransition(r) ==
    /\ Read(r)
    /\ ~LegalMove(r)
    /\ Return(r, ErrorReply)
    /\ UNCHANGED <<patient, crashes, req, about, answer, storeVars, gatewayVars>>

\* Faulty variant: the id the call drew stands for the gateway's reference.
OutputOwnRef(r) ==
    [op |-> Op(r), key |-> Key(r), ref |-> Subject(r),
     status |-> IF Op(r) \in Creations THEN Status(r) ELSE "absent"]

Output(r) ==
    [op |-> Op(r), key |-> Key(r), ref |-> answer[r].ref,
     status |-> IF Op(r) \in Creations THEN Status(r) ELSE "absent"]

\* Managing a schedule stores nothing: a donation records a single charge.
Finish(r) ==
    /\ Read(r)
    /\ LegalMove(r)
    /\ repo' = IF Op(r) \in Creations THEN [repo EXCEPT ![r] = Output(r)] ELSE repo
    /\ idem' = [idem EXCEPT ![Key(r)] = Output(r)]
    /\ Return(r, OkReply(Output(r)))
    /\ UNCHANGED <<patient, crashes, req, about, answer, gatewayVars>>

-------------------------------------------------------------------------------
Handler(r) ==
    \/ ReturnCached(r) \/ CachedMisread(r) \/ RejectAmount(r) \/ Start(r)
    \/ ReturnGatewayError(r) \/ RejectTransition(r) \/ Finish(r)

GatewayActs(r) ==
    \/ GatewayRefuses(r) \/ GatewayReplays(r)
    \/ GatewayCreates(r) \/ GatewayPauses(r) \/ GatewayCancels(r)

AllDone ==
    /\ \A r \in Calls : pc[r] \in {"done", "dropped"}
    /\ UNCHANGED vars

Next ==
    \/ \E r \in Calls : Receive(r) \/ Handler(r) \/ GatewayActs(r) \/ Settles(r)
    \/ Crash
    \/ AllDone

Spec == Init /\ [][Next]_vars

-------------------------------------------------------------------------------
(* Properties.                                                              *)

\* Every variable ranges over the values the code can put there.
TypeOK ==
    /\ patient \in BOOLEAN /\ crashes \in 0 .. MaxCrashes
    /\ pc     \in [Calls -> {"idle", "done", "dropped"} \cup Executing]
    /\ req    \in [Calls -> Orders \cup {NoOrder}]
    /\ about  \in [Calls -> Calls \cup {None}]
    /\ answer \in [Calls -> Answers \cup {NoAnswer, Refused, Lost}]
    /\ reply  \in [Calls -> [kind : {"none", "error", "ok"}, out : Outputs \cup {NoRecord}]]
    /\ repo   \in [Calls -> Records \cup {NoRecord}]
    /\ idem   \in [Keys -> Outputs \cup {NoRecord}]
    /\ thing  \in [Calls -> Words]
    /\ replay \in [Keys -> [op : Operations \cup {"none"}, answer : Answers \cup {NoAnswer}]]

\* A payout is made, a charge or a schedule opened, at most once per idempotency
\* key, however calls overlap and are retried, also after the memory was lost.
OpenedOncePerKey ==
    \A q, r \in Calls :
        thing[q] # "none" /\ thing[r] # "none" /\ Key(q) = Key(r) => q = r

\* Everyone who was answered under a key was told of the same gateway reference,
\* before and after a crash, although each retry draws an id of its own.
RetriesNameOneReference ==
    \A q, r \in Calls :
        reply[q].kind = "ok" /\ reply[r].kind = "ok" /\ Key(q) = Key(r)
            => reply[q].out.ref = reply[r].out.ref

\* Callers that wait for an answer before they retry leave one record per key:
\* nothing is booked twice.
OneRecordPerKey ==
    \A i, j \in Calls :
        patient /\ repo[i] # NoRecord /\ repo[j] # NoRecord /\ repo[i].key = repo[j].key
            => i = j

\* What is stored, cached or answered as paid, succeeded or failed is that.
IsTrue(record) ==
    record.status \in {"paid", "succeeded", "failed"} => thing[record.ref] = record.status

WordTold == [PAID |-> "paid", SUCCEEDED |-> "succeeded", FAILED |-> "failed"]

FinalStatusIsTrue ==
    /\ \A i \in Calls : IsTrue(repo[i])
    /\ \A k \in Keys  : IsTrue(idem[k])
    /\ \A r \in Calls : Told(r) \in DOMAIN WordTold =>
                             thing[reply[r].out.ref] = WordTold[Told(r)]

\* Where a cancellation is reported the schedule has ended, and a pause that is
\* late or repeated does not revive it.
ReportedCancelIsDone ==
    \A r \in Calls : reply[r].out.op = "cancel" => thing[reply[r].out.ref] = "cancelled"
===============================================================================
