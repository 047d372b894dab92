-------------------------------- MODULE Sidecar --------------------------------
(***************************************************************************)
(* One process of payments-core around the client of OnvoPay: the start,   *)
(* drain and exit of src/src/main.ts:452-512, InitiateCheckout calls that  *)
(* arrive over gRPC, and the restart that follows an exit.                 *)
(*                                                                         *)
(*     running -> draining -> exited -> running                            *)
(*                                                                         *)
(* The first signal stops the server from accepting calls; it exits when   *)
(* those it has are over, or when the deadline of a signal has passed.     *)
(***************************************************************************)
EXTENDS OnvoPayClient, Sequences

CONSTANTS
    Deadline,    \* SHUTDOWN_DEADLINE_MS, in ticks
    MaxSignals,  \* bound: signals to one process
    Impatient,   \* the calls whose callers may hang up
    None         \* no charge

ASSUME Limits == /\ Deadline \in Nat \ {0}
                 /\ MaxSignals \in Nat
                 /\ Impatient \subseteq Calls
                 /\ None \notin Calls \cup Keys

VARIABLES
    stage,    \* of the process
    forces,   \* what is left of the forced exit each signal armed
    drained,  \* ticks since the first signal (history)
    stream,   \* each call's gRPC stream; it closes with an answer or without
    cache     \* the in-memory IdempotencyPort: the charge of the output

processVars == <<stage, forces, drained>>
serverVars  == <<stream, cache>>
vars == <<clientVars, processVars, serverVars>>

Init ==
    /\ ClientInit
    /\ stage   = "exited"
    /\ forces  = <<>>
    /\ drained = 0
    /\ stream  = [r \in Calls |-> "none"]
    /\ cache   = [k \in Keys |-> None]

Up == stage # "exited"

-------------------------------------------------------------------------------
(* Calls.  The in-memory stores resolve at once, so all that follows an      *)
(* answer, the commit and the reply included, happens in the answer's step.  *)

\* The continuation of call r in the use case and in its handler.
Continues(r) ==
    /\ stream' = [stream EXCEPT ![r] =
           IF outcome'[r] # NoOutcome /\ @ = "open" THEN "closed" ELSE @]
    /\ cache'  = IF outcome'[r].kind = "ok"
                   THEN [cache EXCEPT ![order[r].key] = outcome'[r].charge]
                   ELSE cache

Answer(r, o, result) ==
    /\ order'   = [order EXCEPT ![r] = o]
    /\ phase'   = [phase EXCEPT ![r] = "done"]
    /\ outcome' = [outcome EXCEPT ![r] = result]
    /\ stream'  = [stream EXCEPT ![r] = "closed"]
    /\ UNCHANGED <<tries, clock, response, onvoPayVars, processVars, cache>>

\* Faulty variant: the server goes on accepting calls while it drains.
ArrivesAnyTime(r) == Up /\ phase[r] = "idle"

Arrives(r) == stage = "running" /\ phase[r] = "idle"

\* The handler cannot make money of the amount.
RejectAmount(r) ==
    /\ Arrives(r)
    /\ \E o \in Offered : /\ ~AcceptedMoney(o.money)
                          /\ Answer(r, o, Error("InvalidMoney"))

\* The use case finds an output under the key.
ReturnCached(r) ==
    /\ Arrives(r)
    /\ \E o \in Offered : /\ AcceptedMoney(o.money)
                          /\ cache[o.key] # None
                          /\ Answer(r, o, Ok(cache[o.key]))

Start(r) ==
    /\ Arrives(r)
    /\ \E o \in Offered :
          /\ AcceptedMoney(o.money)
          /\ cache[o.key] = None
          /\ Send(r, o)
          /\ stream' = [stream EXCEPT ![r] = IF OnvoPayTakes(o.money) THEN "open" ELSE "closed"]
    /\ UNCHANGED <<processVars, cache>>

\* Every other step of the client resumes the use case when it ends the request.
Proceed(r, Step) ==
    /\ Up
    /\ Step
    /\ Continues(r)
    /\ UNCHANGED processVars

Receive(r)        == Proceed(r, Receives(r))
LoseConnection(r) == Proceed(r, ConnectionFails(r))
TimeOut(r)        == Proceed(r, TimesOut(r))
Wake(r)           == Proceed(r, WakesUp(r))

\* OnvoPay works whether or not the process does.
Handle(r)  == OnvoPayHandles(r) /\ UNCHANGED <<processVars, serverVars>>
Late(copy) == HandlesLate(copy) /\ UNCHANGED <<processVars, serverVars>>

\* The caller gives up; its handler does not notice.
HangUp(r) ==
    /\ Up
    /\ r \in Impatient
    /\ stream[r] = "open"
    /\ stream' = [stream EXCEPT ![r] = "closed"]
    /\ UNCHANGED <<clientVars, processVars, cache>>

-------------------------------------------------------------------------------
(* The process.                                                              *)

\* A process starts and binds its port.  One that does not get that far, because
\* its configuration is not valid, the port is taken or a signal comes before there
\* is a handler for it, leaves everything as it is.
Boot ==
    /\ stage = "exited"
    /\ stage' = "running"
    /\ UNCHANGED <<clientVars, forces, drained, serverVars>>

Exit ==
    /\ stage'   = "exited"
    /\ forces'  = <<>>
    /\ drained' = 0
    /\ stream'  = [r \in Calls |-> IF stream[r] = "open" THEN "closed" ELSE stream[r]]
    /\ cache'   = [k \in Keys |-> None]
    /\ ClientDies

\* SIGKILL.
Kill == Up /\ Exit

\* Faulty variant: one timer, armed anew by every signal.
ShutdownRearmed ==
    /\ Up
    /\ stage'  = "draining"
    /\ forces' = <<Deadline>>
    /\ UNCHANGED <<clientVars, drained, serverVars>>

\* SIGTERM or SIGINT: every one arms a forced exit of its own, and only the
\* first finds something to stop.
Shutdown ==
    /\ Up
    /\ Len(forces) < MaxSignals
    /\ stage'  = "draining"
    /\ forces' = Append(forces, Deadline)
    /\ UNCHANGED <<clientVars, drained, serverVars>>

\* tryShutdown calls back when no stream is left: exit code 0.
Drained ==
    /\ stage = "draining"
    /\ \A r \in Calls : stream[r] # "open"
    /\ Exit

\* A deadline has passed: exit code 1.
ForceExit ==
    /\ stage = "draining"
    /\ \E i \in DOMAIN forces : forces[i] = 0
    /\ Exit

\* A tick of the clock: no timer that has run out is passed.
Tick ==
    /\ Up
    /\ ClientMayTick
    /\ \A i \in DOMAIN forces : forces[i] > 0
    /\ ClientTicks
    /\ forces'  = [i \in DOMAIN forces |-> forces[i] - 1]
    /\ drained' = IF stage = "draining" THEN drained + 1 ELSE drained
    /\ UNCHANGED <<stage, serverVars>>

CallStep(r) ==
    \/ RejectAmount(r) \/ ReturnCached(r) \/ Start(r) \/ HangUp(r)
    \/ Receive(r) \/ LoseConnection(r) \/ TimeOut(r) \/ Wake(r)

OnvoPayStep == (\E r \in Calls : Handle(r)) \/ (\E copy \in late : Late(copy))

ProcessStep == Boot \/ Kill \/ Shutdown \/ Drained \/ ForceExit

Next == (\E r \in Calls : CallStep(r)) \/ OnvoPayStep \/ ProcessStep \/ Tick

Spec == Init /\ [][Next]_vars

\* Timers run out and wake who waits for them; OnvoPay owes nothing.
Fairness ==
    /\ WF_vars(Tick)
    /\ WF_vars(ForceExit)
    /\ \A r \in Calls : WF_vars(TimeOut(r)) /\ WF_vars(Wake(r))

FairSpec == Spec /\ Fairness

-------------------------------------------------------------------------------
(* Properties.                                                               *)

TypeOK ==
    /\ order    \in [Calls -> Offered \cup {NoOrder}]
    /\ phase    \in [Calls -> Phases]
    /\ tries    \in [Calls -> Attempts]
    /\ clock    \in [Calls -> 0 .. Timeout]
    /\ response \in [Calls -> Responses \cup {NoResponse}]
    /\ outcome  \in [Calls -> Outcomes]
    /\ late     \subseteq Calls \X Headers
    /\ record   \in [Headers -> Records \cup {Unused}]
    /\ stage    \in {"running", "draining", "exited"}
    /\ forces   \in Seq(0 .. Deadline)
    /\ drained  \in Nat
    /\ stream   \in [Calls -> {"none", "open", "closed"}]
    /\ cache    \in [Keys -> Calls \cup {None}]

\* However often a request is sent again, whatever copies arrive late and
\* whichever process sends it, one charge is opened per idempotency key
\* (client.ts:141-191: every attempt carries the caller's key).
Charges         == { h \in Headers : record[h].kind = "charged" }
ChargesUnder(k) == { h \in Charges : order[record[h].by].key = k }

ChargedOncePerKey ==
    \A k \in Keys : \A g, h \in ChargesUnder(k) : g = h

\* What a caller is told happened (errors.ts:61-110 of the adapter and of the
\* server).  Success names a charge that was opened under the caller's key, for
\* an amount asked under it, exact when a double holds it and never further off
\* than the nearest double.  A declined card, a conflict and an amount that is
\* refused moved no money for this call, nor will a copy that is still under
\* way; a conflict means that the key was used for another amount.
ToldSuccess(r) ==
    \E h \in ChargesUnder(order[r].key) :
       /\ record[h].by = outcome[r].charge
       /\ Faithful(record[h].wire, order[record[h].by].money.amount)

RepliesAreTrue ==
    \A r \in Calls :
       /\ outcome[r].kind = "ok" => ToldSuccess(r)
       /\ outcome[r].kind \in {"CardDeclined", "IdempotencyConflict", "InvalidMoney"} =>
             \A h \in Charges : record[h].by # r
       /\ outcome[r].kind = "CardDeclined" => ChargesUnder(order[r].key) = {}
       /\ outcome[r].kind = "IdempotencyConflict" =>
             record[order[r].key] # Unused /\ record[order[r].key].wire # Wire(r)

\* The process is gone a deadline after the first signal, however many follow
\* (main.ts:479-497).
GoneByDeadline == drained <= Deadline

\* A deadline cuts off nobody but calls that are at their last attempt: with the
\* defaults, three attempts of 10 s fit into the 30 s of the drain
\* (client.ts:99-100, main.ts:103).
DrainCutsOnlyLastAttempt ==
    [][ForceExit => \A r \in Calls : stream[r] = "open" => tries[r] = MaxRetries]_vars

\* The retries, the late copies and the restarts implement GatewayCall.
Result(kept) ==
    CASE kept.kind = "unused"   -> [kind |-> "unused"]
      [] kept.kind = "charged"  -> [kind |-> "charged", by |-> kept.by]
      [] kept.kind = "declined" -> [kind |-> "declined"]

ToldOf(result) ==
    CASE result.kind = "none" -> [kind |-> "nothing"]
      [] result.kind = "ok" -> [kind |-> "charged", by |-> result.charge]
      [] result.kind = "CardDeclined" -> [kind |-> "declined"]
      [] OTHER -> [kind |-> "failure"]

Abstract == INSTANCE GatewayCall WITH
    asked <- [r \in Calls |-> IF phase[r] = "idle" THEN None ELSE order[r].key],
    told  <- [r \in Calls |-> ToldOf(outcome[r])],
    done  <- [k \in Keys |-> Result(record[k])]

ImplementsGatewayCall == Abstract!Spec

\* Every call that arrived is answered or its stream ends, though OnvoPay may
\* never respond: the timeouts and the bound on retries see to it.
EveryCallSettles ==
    \A r \in Calls : stream[r] = "open" ~> stream[r] # "open"

-------------------------------------------------------------------------------
(* What a comment says and the code does not do.                             *)

\* domain/errors.ts:89-91: an idempotency conflict is "thrown by
\* `IdempotencyStorePort` implementations when the same idempotency key is reused
\* with a different request body".
KeyReuseRefused ==
    \A r, q \in Calls :
       outcome[r].kind = "ok" /\ outcome[q].kind = "ok" /\ order[r].key = order[q].key
          => order[r].money = order[q].money
===============================================================================
