-------------------------------- MODULE Escrow --------------------------------
(***************************************************************************)
(* HoldEscrow, ReleaseEscrow and DisputeEscrow                             *)
(* (src/src/application/use_cases/escrow.ts) and the gRPC handlers that    *)
(* run them, over an EscrowPort that keeps the contract of                 *)
(* src/src/domain/ports/index.ts:198-244; the wiring has only a stub of it *)
(* so far.  The in-memory stores resolve at once, so a call runs in one    *)
(* step up to its gateway request and in one step from the answer to its   *)
(* reply; calls overlap at the gateway:                                    *)
(*                                                                         *)
(*     idle -> [arrived] -> gateway -> answered -> done                    *)
(***************************************************************************)
EXTENDS Naturals, WireStatus

CONSTANTS
    Calls,    \* the calls received; names the id a hold draws, and the
              \* gateway's escrow that it funds
    Keys,     \* idempotency keys
    Amount,   \* what a hold puts in custody
    Offered,  \* what callers ask under each key (Orders)
    None      \* no reference

Operations == {"hold", "release", "dispute"}

\* A release asks for a part of the amount or, with 0, for all that is left.
Orders == [op : Operations, key : Keys, part : 0 .. Amount]

ASSUME Parameters == /\ Amount \in Nat \ {0}
                     /\ Offered \subseteq Orders
                     /\ None \notin Calls

-------------------------------------------------------------------------------
(* The entity (src/src/domain/entities/escrow.ts).                          *)

EscrowStatus == {"held", "released", "refunded", "disputed"}

EscrowTransitions ==
    [held     |-> {"released", "refunded", "disputed"},
     disputed |-> {"released", "refunded"},
     released |-> {},
     refunded |-> {}]

CanTransition(from, to) == to \in EscrowTransitions[from]

Escrows  == [status : EscrowStatus, released : 0 .. Amount, ref : Calls \cup {None}]
NoEscrow == [status |-> "absent", released |-> 0, ref |-> None]
CreatedEscrow == [status |-> "held", released |-> 0, ref |-> None]

-------------------------------------------------------------------------------
VARIABLES
    patient,  \* TRUE: callers wait for an answer, and retry a lost one first
    up,       \* the process runs
    pc,       \* where each call is suspended
    req,      \* the order it carries
    id,       \* the escrow it is about
    local,    \* the entity in its closure
    answer,   \* what the gateway answered it
    reply,    \* what its callback was given
    repo,     \* EscrowRepositoryPort
    idem,     \* IdempotencyPort
    esc,      \* gateway: its escrows
    replay    \* gateway: what it recorded under each idempotency key

processVars == <<up, pc, req, id, local, answer, reply>>
storeVars   == <<repo, idem>>
gatewayVars == <<esc, replay>>
vars == <<patient, processVars, storeVars, gatewayVars>>

NoOrder  == [op |-> "none", key |-> None, part |-> 0]
NoOutput == [id |-> None, escrow |-> NoEscrow]
Outputs  == [id : Calls, escrow : Escrows]

\* The gateway's own escrow; "awarded" is a dispute that the payee won.
Words == {"none", "held", "disputed", "awarded", "released", "refunded"}

Answers  == [kind : {"body"}, status : EscrowStatus, paid : 0 .. Amount, ref : Calls]
NoAnswer == [kind |-> "none",    status |-> "absent", paid |-> 0, ref |-> None]
Refused  == [kind |-> "refused", status |-> "absent", paid |-> 0, ref |-> None]
Lost     == [kind |-> "lost",    status |-> "absent", paid |-> 0, ref |-> None]
Unused   == [order |-> NoOrder, answer |-> NoAnswer]

NoReply      == [kind |-> "none",  out |-> NoOutput]
ErrorReply   == [kind |-> "error", out |-> NoOutput]
OkReply(out) == [kind |-> "ok", out |-> out]

\* The status in the response of a call.
Told(r) == EscrowOnWire[reply[r].out.escrow.status]

Op(r)  == req[r].op
Key(r) == req[r].key
Executing == {"arrived", "gateway", "answered"}

Init ==
    /\ patient \in BOOLEAN
    /\ up     = TRUE
    /\ pc     = [r \in Calls |-> "idle"]
    /\ req    = [r \in Calls |-> NoOrder]
    /\ id     = [r \in Calls |-> None]
    /\ local  = [r \in Calls |-> NoEscrow]
    /\ answer = [r \in Calls |-> NoAnswer]
    /\ reply  = [r \in Calls |-> NoReply]
    /\ repo   = [i \in Calls |-> NoEscrow]
    /\ idem   = [k \in Keys |-> NoOutput]
    /\ esc    = [c \in Calls |-> [word |-> "none", paid |-> 0]]
    /\ replay = [k \in Keys |-> Unused]

-------------------------------------------------------------------------------
(* A call arrives: its order under that order's key, first time or retry,    *)
(* about an escrow some call named before or one that is not known.         *)

\* Keys of orders about escrow i whose answer was lost and not yet obtained.
Owed(i) == { Key(q) : q \in {q \in Calls : id[q] = i /\ answer[q] = Lost} }
           \ { Key(q) : q \in {q \in Calls : answer[q] \in Answers} }

Unfinished(i) == Owed(i) # {} \/ \E q \in Calls : pc[q] \in Executing /\ id[q] = i

Admissible(order, i) ==
    patient => /\ \A q \in Calls : pc[q] \in Executing => id[q] # i /\ Key(q) # order.key
               /\ Owed(i) \subseteq {order.key}

Receive(r) ==
    /\ up
    /\ pc[r] = "idle"
    /\ \E order \in Offered, i \in ({r} \cup {id[q] : q \in Calls}) \ {None} :
          /\ order.op = "hold" => i = r
          /\ Admissible(order, i)
          /\ req' = [req EXCEPT ![r] = order]
          /\ id' = [id EXCEPT ![r] = i]
    /\ pc' = [pc EXCEPT ![r] = "arrived"]
    /\ UNCHANGED <<patient, up, local, answer, reply, storeVars, gatewayVars>>

Return(r, rep) ==
    /\ up
    /\ reply' = [reply EXCEPT ![r] = rep]
    /\ pc' = [pc EXCEPT ![r] = "done"]

ReturnCached(r) ==
    /\ pc[r] = "arrived"
    /\ idem[Key(r)] # NoOutput
    /\ Return(r, OkReply(idem[Key(r)]))
    /\ UNCHANGED <<patient, up, req, id, local, answer, storeVars, gatewayVars>>

\* Not found, without a reference, or disputed already.
Reject(r) ==
    /\ pc[r] = "arrived"
    /\ idem[Key(r)] = NoOutput
    /\ Op(r) # "hold"
    /\ repo[id[r]].ref = None \/ (Op(r) = "dispute" /\ repo[id[r]].status = "disputed")
    /\ Return(r, ErrorReply)
    /\ UNCHANGED <<patient, up, req, id, local, answer, storeVars, gatewayVars>>

Proceed(r) ==
    /\ up
    /\ Op(r) # "hold" => repo[id[r]].ref # None
    /\ Op(r) = "dispute" => repo[id[r]].status # "disputed"
    /\ local' = [local EXCEPT ![r] = IF Op(r) = "hold" THEN CreatedEscrow ELSE repo[id[r]]]
    /\ pc' = [pc EXCEPT ![r] = "gateway"]
    /\ UNCHANGED <<patient, up, req, id, answer, reply, storeVars, gatewayVars>>

\* Faulty variant: the cache is not consulted.
StartUncached(r) == pc[r] = "arrived" /\ Proceed(r)

Start(r) == pc[r] = "arrived" /\ idem[Key(r)] = NoOutput /\ Proceed(r)

-------------------------------------------------------------------------------
(* The gateway (external): one execution per key, the recorded answer for a  *)
(* repeated one.  An answer may get lost: the adapter gives up.             *)

Subject(r) == IF Op(r) = "hold" THEN r ELSE local[r].ref

Answered(r, ans) ==
    /\ up
    /\ \E a \in {ans, Lost} : answer' = [answer EXCEPT ![r] = a]
    /\ pc' = [pc EXCEPT ![r] = "answered"]
    /\ UNCHANGED <<patient, up, req, id, local, reply, storeVars>>

GatewayRefuses(r) ==
    /\ up
    /\ pc[r] = "gateway"
    /\ answer' = [answer EXCEPT ![r] = Refused]
    /\ pc' = [pc EXCEPT ![r] = "answered"]
    /\ UNCHANGED <<patient, up, req, id, local, reply, storeVars, gatewayVars>>

\* Faulty variant: a key of the call's own hides a retry from the gateway.
PortKeyPerCall(r) == None

\* Every port call is handed the caller's key.
PortKey(r) == Key(r)

SeenBefore(r) == PortKey(r) \in Keys /\ replay[PortKey(r)] # Unused

GatewayReplays(r) ==
    /\ pc[r] = "gateway"
    /\ SeenBefore(r)
    /\ replay[PortKey(r)].order = req[r]
    /\ Op(r) # "hold" => replay[PortKey(r)].answer.ref = Subject(r)
    /\ Answered(r, replay[PortKey(r)].answer)
    /\ UNCHANGED gatewayVars

\* The first request under a key: the escrow's new word, its status in the
\* answer, and the amount that is paid out.
Executed(r, word, status, paid) ==
    LET c   == Subject(r)
        ans == [kind |-> "body", status |-> status, paid |-> paid, ref |-> c] IN
    /\ ~SeenBefore(r)
    /\ esc' = [esc EXCEPT ![c] = [word |-> word, paid |-> @.paid + paid]]
    /\ replay' = [k \in Keys |-> IF k = PortKey(r)
                                 THEN [order |-> req[r], answer |-> ans] ELSE replay[k]]
    /\ Answered(r, ans)

GatewayHolds(r) ==
    /\ pc[r] = "gateway"
    /\ Op(r) = "hold"
    /\ Executed(r, "held", "held", 0)

Remaining(c) == Amount - esc[c].paid
Asked(r) == IF req[r].part = 0 THEN Remaining(Subject(r)) ELSE req[r].part

\* A tranche leaves the escrow held, the last one settles it; an escrow whose
\* dispute the payee won is released as a whole.
GatewayReleases(r) ==
    /\ pc[r] = "gateway"
    /\ Op(r) = "release"
    /\ LET c == Subject(r) IN
       \/ /\ esc[c].word = "held"
          /\ Asked(r) < Remaining(c)
          /\ Executed(r, "held", "held", Asked(r))
       \/ /\ esc[c].word \in {"held", "awarded"}
          /\ Asked(r) = Remaining(c)
          /\ Executed(r, "released", "released", Asked(r))

GatewayDisputes(r) ==
    /\ pc[r] = "gateway"
    /\ Op(r) = "dispute"
    /\ esc[Subject(r)].word = "held"
    /\ Executed(r, "disputed", "disputed", 0)

DisputeResolved(c) ==
    /\ esc[c].word = "disputed"
    /\ \E word \in {"awarded", "refunded"} : esc' = [esc EXCEPT ![c].word = word]
    /\ UNCHANGED <<patient, processVars, storeVars, replay>>

-------------------------------------------------------------------------------
(* The call resumes with the answer.                                        *)

ReturnGatewayError(r) ==
    /\ pc[r] = "answered"
    /\ answer[r] \in {Refused, Lost}
    /\ Return(r, ErrorReply)
    /\ UNCHANGED <<patient, up, req, id, local, answer, storeVars, gatewayVars>>

Read(r) == pc[r] = "answered" /\ answer[r] \in Answers

\* Faulty variant: every release that is answered settles the escrow.
TargetSettled(r) == IF Op(r) = "release" THEN "released" ELSE answer[r].status

\* A hold keeps the status of createEscrow, a dispute names its own, a release
\* takes the gateway's.
Target(r) ==
    CASE Op(r) = "hold"    -> local[r].status
      [] Op(r) = "release" -> answer[r].status
      [] Op(r) = "dispute" -> "disputed"

\* Only a release may find the status it goes to (applyEscrowStatus).
LegalMove(r) ==
    \/ Op(r) # "dispute" /\ Target(r) = local[r].status
    \/ CanTransition(local[r].status, Target(r))

\* DisputeEscrow wraps the error of the transition in a result ...
RejectTransition(r) ==
    /\ Read(r)
    /\ Op(r) = "dispute"
    /\ ~LegalMove(r)
    /\ Return(r, ErrorReply)
    /\ UNCHANGED <<patient, up, req, id, local, answer, storeVars, gatewayVars>>

\* ... ReleaseEscrow does not: the promise rejects, nobody handles it, and the
\* process ends.
ProcessExits(r) ==
    /\ up
    /\ Read(r)
    /\ Op(r) = "release"
    /\ ~LegalMove(r)
    /\ up' = FALSE
    /\ UNCHANGED <<patient, pc, req, id, local, answer, reply, storeVars, gatewayVars>>

\* Faulty variant: the amount of the last tranche instead of the running total.
AdvancedByTranche(r) ==
    [status   |-> Target(r),
     released |-> IF Op(r) = "release" THEN answer[r].paid ELSE local[r].released,
     ref      |-> IF Op(r) = "hold" THEN answer[r].ref ELSE local[r].ref]

Advanced(r) ==
    [status   |-> Target(r),
     released |-> local[r].released + (IF Op(r) = "release" THEN answer[r].paid ELSE 0),
     ref      |-> IF Op(r) = "hold" THEN answer[r].ref ELSE local[r].ref]

Finish(r) ==
    /\ Read(r)
    /\ LegalMove(r)
    /\ LET out == [id |-> id[r], escrow |-> Advanced(r)] IN
       /\ repo' = [repo EXCEPT ![id[r]] = Advanced(r)]
       /\ idem' = [idem EXCEPT ![Key(r)] = out]
       /\ Return(r, OkReply(out))
    /\ UNCHANGED <<patient, up, req, id, local, answer, gatewayVars>>

-------------------------------------------------------------------------------
Handler(r) ==
    \/ ReturnCached(r) \/ Reject(r) \/ Start(r)
    \/ ReturnGatewayError(r) \/ RejectTransition(r) \/ ProcessExits(r) \/ Finish(r)

GatewayActs(r) ==
    \/ GatewayRefuses(r) \/ GatewayReplays(r)
    \/ GatewayHolds(r) \/ GatewayReleases(r) \/ GatewayDisputes(r)

AllDone ==
    /\ ~up \/ \A r \in Calls : pc[r] = "done"
    /\ UNCHANGED vars

Next ==
    \/ \E r \in Calls : Receive(r) \/ Handler(r) \/ GatewayActs(r) \/ DisputeResolved(r)
    \/ AllDone

Spec == Init /\ [][Next]_vars

-------------------------------------------------------------------------------
(* Properties.                                                              *)

\* Every variable ranges over the values the code can put there.
TypeOK ==
    /\ patient \in BOOLEAN /\ up \in BOOLEAN
    /\ pc     \in [Calls -> {"idle", "done"} \cup Executing]
    /\ req    \in [Calls -> Orders \cup {NoOrder}]
    /\ id     \in [Calls -> Calls \cup {None}]
    /\ local  \in [Calls -> Escrows \cup {NoEscrow}]
    /\ answer \in [Calls -> Answers \cup {NoAnswer, Refused, Lost}]
    /\ reply  \in [Calls -> [kind : {"none", "error", "ok"}, out : Outputs \cup {NoOutput}]]
    /\ repo   \in [Calls -> Escrows \cup {NoEscrow}]
    /\ idem   \in [Keys -> Outputs \cup {NoOutput}]
    /\ esc    \in [Calls -> [word : Words, paid : 0 .. Amount]]
    /\ replay \in [Keys -> [order : Orders \cup {NoOrder}, answer : Answers \cup {NoAnswer}]]

\* What the gateway paid out is never overstated, however callers overlap and
\* retry: releasedAmount is "the total of all previously-released tranches"
\* (entities/escrow.ts:75), each counted once although the use case adds to the
\* total it loaded before the gateway call.
NeverOverstated ==
    \A i \in Calls : repo[i] # NoEscrow => repo[i].released <= esc[repo[i].ref].paid

\* Where an escrow is stored, cached or answered as released nothing is left in
\* custody: a tranche must leave it held (use_cases/escrow.ts:193-195).
Settled(escrow) == escrow.status = "released" => esc[escrow.ref].word = "released"

ReleasedIsSettled ==
    /\ \A i \in Calls : Settled(repo[i])
    /\ \A k \in Keys  : Settled(idem[k].escrow)
    /\ \A r \in Calls : Told(r) = "RELEASED" => esc[reply[r].out.escrow.ref].word = "released"

\* How the gateway's word is stored; nothing tells of a dispute's resolution.
StatusOfWord(word) ==
    CASE word = "held" -> "held" [] word = "released" -> "released" [] OTHER -> "disputed"

\* Callers that wait for their answers, and first ask again for a lost one, find
\* the gateway's status and total stored: no tranche and no dispute is lost.
TracksGateway ==
    \A i \in Calls :
        patient /\ up /\ repo[i] # NoEscrow /\ ~Unfinished(i) =>
            LET e == esc[repo[i].ref] IN
            repo[i].released = e.paid /\ repo[i].status = StatusOfWord(e.word)

\* Nor do they ever meet the illegal transition that ends the process: a replayed
\* tranche of an escrow that was disputed or settled since.
PatientCallersEndNothing == patient => up
===============================================================================
