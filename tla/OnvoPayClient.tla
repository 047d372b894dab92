----------------------------- MODULE OnvoPayClient -----------------------------
(***************************************************************************)
(* The HTTP client of the OnvoPay adapter                                  *)
(* (src/src/adapters/outbound/gateways/onvopay/client.ts) as it opens      *)
(* charges, and OnvoPay at the other end of it.  A request is sent up to   *)
(* MaxRetries + 1 times with one body and one Idempotency-Key:             *)
(*                                                                         *)
(*     idle -> fetch -> done                                               *)
(*             |   ^                                                       *)
(*             sleep      timeout, broken connection, unparsable body      *)
(*                                                                         *)
(* "fetch" is the await of the response and of its body: either may fail   *)
(* when OnvoPay has handled the request and when it has not.  The copy of  *)
(* an attempt that the client gave up on may still reach OnvoPay, at any   *)
(* later time and after the process that sent it is gone.                  *)
(***************************************************************************)
EXTENDS Money, FiniteSets

CONSTANTS
    Calls,       \* the calls; also names the charge OnvoPay opens for one
    Keys,        \* idempotency keys
    Offered,     \* what callers ask for (Orders)
    MaxRetries,  \* 2 unless configured
    Timeout      \* of one attempt, in ticks of the clock

Orders == [key : Keys, money : [amount : Int, currency : STRING]]

\* An amount is an int64: there are doubles around it.
ASSUME Requests == /\ Offered \subseteq Orders
                   /\ \A o \in Offered : \E u \in Units : o.money.amount < Limit * u
                   /\ MaxRetries \in Nat
                   /\ Timeout \in Nat \ {0}

VARIABLES
    order,     \* what each call asks for
    phase,     \* where its request is suspended
    tries,     \* the attempt it is at, from 0
    clock,     \* what is left of AbortSignal.timeout
    response,  \* OnvoPay's response to this attempt, on its way
    outcome,   \* how the call ended, as a domain error or ok
    late,      \* given-up copies that OnvoPay may still receive, by call and header
    record     \* OnvoPay: what it carried out under each Idempotency-Key

requestVars == <<order, phase, tries, clock, response, outcome>>
onvoPayVars == <<late, record>>
clientVars  == <<requestVars, onvoPayVars>>

Attempts == 0 .. MaxRetries
Phases   == {"idle", "fetch", "sleep", "done", "lost"}
NoOrder  == [key |-> "none", money |-> Missing]

\* HTTP responses by what the client and the error mapper make of them:
\* success 200, garbled 200 with a body that is no JSON, empty 204 or no body,
\* declined 402, conflict 409, refused 400, 401, 403, 422 or 429, unavailable 5xx.
Responses == {"success", "garbled", "empty", "declined", "conflict", "refused",
              "unavailable"}
NoResponse == "none"

Wire(r) == ToOnvoPay(order[r].money)

\* Faulty variant: every attempt draws a key of its own.
HeaderPerAttempt(r) == <<order[r].key, r, tries[r]>>

Header(r) == order[r].key

Headers == Keys \cup (Keys \X Calls \X Attempts)
Unused  == [kind |-> "unused"]
Wires   == { ToOnvoPay(o.money) : o \in Offered }
Records == [kind : {"charged", "declined"}, by : Calls, wire : Wires]

-------------------------------------------------------------------------------
(* Errors.  The adapter turns what the client throws into a domain error,    *)
(* and reading an absent body into an unknown one; the handler turns that    *)
(* into a status of the RPC.                                                 *)

NoOutcome == [kind |-> "none"]
Ok(c)     == [kind |-> "ok", charge |-> c]
Error(e)  == [kind |-> e]

\* Faulty variant: every 4xx but a conflict is a declined card.
OnvoPayErrorCoarse ==
    [empty       |-> "Unknown",
     declined    |-> "CardDeclined",
     conflict    |-> "IdempotencyConflict",
     refused     |-> "CardDeclined",
     unavailable |-> "GatewayUnavailable"]

OnvoPayError ==
    [empty       |-> "Unknown",
     declined    |-> "CardDeclined",
     conflict    |-> "IdempotencyConflict",
     refused     |-> "InvalidRequest",
     unavailable |-> "GatewayUnavailable"]

NetworkError == "GatewayUnavailable"

GrpcStatus ==
    [GatewayUnavailable  |-> "UNAVAILABLE",
     InvalidMoney        |-> "INVALID_ARGUMENT",
     IdempotencyConflict |-> "ALREADY_EXISTS",
     CardDeclined        |-> "INTERNAL",
     InvalidRequest      |-> "INTERNAL",
     Unknown             |-> "INTERNAL"]

Outcomes == {NoOutcome} \cup { Ok(c) : c \in Calls } \cup { Error(e) : e \in DOMAIN GrpcStatus }

ClientInit ==
    /\ order    = [r \in Calls |-> NoOrder]
    /\ phase    = [r \in Calls |-> "idle"]
    /\ tries    = [r \in Calls |-> 0]
    /\ clock    = [r \in Calls |-> 0]
    /\ response = [r \in Calls |-> NoResponse]
    /\ outcome  = [r \in Calls |-> NoOutcome]
    /\ late     = {}
    /\ record   = [h \in Headers |-> Unused]

-------------------------------------------------------------------------------
(* OnvoPay, which is external, gets a copy of the request of call r under    *)
(* header h and responds with resp.  It carries out a header once, keeps     *)
(* what came of it, and refuses the header with another body.                *)

Refuses(resp) ==
    /\ resp \in {"refused", "unavailable"}
    /\ UNCHANGED record

CarriesOut(r, h, resp) ==
    /\ record[h] = Unused
    /\ \E kind \in {"charged", "declined"} :
          /\ \/ kind = "charged"  /\ resp \in {"success", "garbled", "empty", "unavailable"}
             \/ kind = "declined" /\ resp \in {"declined", "unavailable"}
          /\ record' = [record EXCEPT ![h] = [kind |-> kind, by |-> r, wire |-> Wire(r)]]

Replays(r, h, resp) ==
    /\ record[h] # Unused
    /\ \/ record[h].wire # Wire(r) /\ resp = "conflict"
       \/ record[h].wire = Wire(r) /\ record[h].kind = "charged"  /\ resp \in {"success", "garbled", "empty"}
       \/ record[h].wire = Wire(r) /\ record[h].kind = "declined" /\ resp = "declined"
    /\ UNCHANGED record

Handles(r, h, resp) == Refuses(resp) \/ CarriesOut(r, h, resp) \/ Replays(r, h, resp)

\* It handles the attempt the client is waiting for.
OnvoPayHandles(r) ==
    /\ phase[r] = "fetch"
    /\ response[r] = NoResponse
    /\ \E resp \in Responses :
          /\ Handles(r, Header(r), resp)
          /\ response' = [response EXCEPT ![r] = resp]
    /\ UNCHANGED <<order, phase, tries, clock, outcome, late>>

\* It handles a copy nobody is waiting for any more.
HandlesLate(copy) ==
    /\ copy \in late
    /\ late' = late \ {copy}
    /\ \E resp \in Responses : Handles(copy[1], copy[2], resp)
    /\ UNCHANGED requestVars

-------------------------------------------------------------------------------
(* The client.                                                               *)

\* OnvoPayPaymentGateway.initiate: what the adapter takes is sent, the rest is
\* refused before anything is sent.
Send(r, o) ==
    /\ order' = [order EXCEPT ![r] = o]
    /\ IF OnvoPayTakes(o.money)
         THEN /\ phase' = [phase EXCEPT ![r] = "fetch"]
              /\ clock' = [clock EXCEPT ![r] = Timeout]
              /\ UNCHANGED outcome
         ELSE /\ phase' = [phase EXCEPT ![r] = "done"]
              /\ outcome' = [outcome EXCEPT ![r] = Error("InvalidMoney")]
              /\ UNCHANGED clock
    /\ UNCHANGED <<tries, response, onvoPayVars>>

\* The attempt of call r that OnvoPay has not handled yet, if there is one.
Unhandled(r) ==
    IF phase[r] = "fetch" /\ response[r] = NoResponse THEN {<<r, Header(r)>>} ELSE {}

Finish(r, result) ==
    /\ phase'    = [phase EXCEPT ![r] = "done"]
    /\ outcome'  = [outcome EXCEPT ![r] = result]
    /\ tries'    = [tries EXCEPT ![r] = 0]
    /\ clock'    = [clock EXCEPT ![r] = 0]
    /\ response' = [response EXCEPT ![r] = NoResponse]
    /\ late'     = late \cup Unhandled(r)
    /\ UNCHANGED <<order, record>>

BacksOff(r) ==
    /\ phase'    = [phase EXCEPT ![r] = "sleep"]
    /\ clock'    = [clock EXCEPT ![r] = 0]
    /\ response' = [response EXCEPT ![r] = NoResponse]
    /\ late'     = late \cup Unhandled(r)
    /\ UNCHANGED <<order, tries, outcome, record>>

\* Faulty variant: the bound is off by one.
TryAgainOnceMore(r) ==
    IF tries[r] <= MaxRetries THEN BacksOff(r) ELSE Finish(r, Error(NetworkError))

\* The catch of the loop for what is not an HTTP error.
TryAgain(r) ==
    IF tries[r] < MaxRetries THEN BacksOff(r) ELSE Finish(r, Error(NetworkError))

\* Faulty variant: a response without a body passes for a success of this call.
ReceivesEmptySuccess(r) ==
    /\ phase[r] = "fetch"
    /\ response[r] # NoResponse
    /\ CASE response[r] = "success" -> Finish(r, Ok(record[Header(r)].by))
         [] response[r] = "empty" -> Finish(r, Ok(r))
         [] response[r] = "garbled" -> TryAgain(r)
         [] OTHER -> Finish(r, Error(OnvoPayError[response[r]]))

\* The response is there, with its body.
Receives(r) ==
    /\ phase[r] = "fetch"
    /\ response[r] # NoResponse
    /\ CASE response[r] = "success" -> Finish(r, Ok(record[Header(r)].by))
         [] response[r] = "garbled" -> TryAgain(r)
         [] OTHER -> Finish(r, Error(OnvoPayError[response[r]]))

\* The connection cannot be made or breaks: before OnvoPay handled the request,
\* after it, or while the body of the response, also of an error, is read.
ConnectionFails(r) ==
    /\ phase[r] = "fetch"
    /\ TryAgain(r)

TimesOut(r) ==
    /\ phase[r] = "fetch"
    /\ clock[r] = 0
    /\ TryAgain(r)

\* Faulty variant: the attempts are not counted.
WakesUpUncounted(r) ==
    /\ phase[r] = "sleep"
    /\ phase' = [phase EXCEPT ![r] = "fetch"]
    /\ clock' = [clock EXCEPT ![r] = Timeout]
    /\ UNCHANGED <<order, tries, response, outcome, onvoPayVars>>

\* The end of the backoff.
WakesUp(r) ==
    /\ phase[r] = "sleep"
    /\ phase' = [phase EXCEPT ![r] = "fetch"]
    /\ tries' = [tries EXCEPT ![r] = @ + 1]
    /\ clock' = [clock EXCEPT ![r] = Timeout]
    /\ UNCHANGED <<order, response, outcome, onvoPayVars>>

-------------------------------------------------------------------------------
(* The clock.  Timers are prompt: it does not pass one that has run out.  A  *)
(* backoff, at most 0.3 s, is short against a timeout of 10 s and takes none *)
(* of its ticks.                                                             *)

ClientMayTick ==
    \A r \in Calls : phase[r] # "sleep" /\ (phase[r] = "fetch" => clock[r] > 0)

ClientTicks ==
    /\ clock' = [r \in Calls |-> IF phase[r] = "fetch" THEN clock[r] - 1 ELSE clock[r]]
    /\ UNCHANGED <<order, phase, tries, response, outcome, onvoPayVars>>

\* The process ends: its connections break, its requests may have been sent.
ClientDies ==
    /\ phase'    = [r \in Calls |-> IF phase[r] \in {"fetch", "sleep"} THEN "lost" ELSE phase[r]]
    /\ tries'    = [r \in Calls |-> 0]
    /\ clock'    = [r \in Calls |-> 0]
    /\ response' = [r \in Calls |-> NoResponse]
    /\ late'     = late \cup UNION { Unhandled(r) : r \in Calls }
    /\ UNCHANGED <<order, outcome, record>>
===============================================================================
