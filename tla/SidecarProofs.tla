----------------------------- MODULE SidecarProofs -----------------------------
(***************************************************************************)
(* Proofs about Sidecar: for every set of calls, keys and orders, any      *)
(* number of attempts and of signals, and every pair of timeouts.          *)
(***************************************************************************)
EXTENDS Sidecar, MoneyProofs

-------------------------------------------------------------------------------
(* The inductive invariant.                                                  *)

\* Where a call is tells what it holds.
CallHolds(r) ==
    /\ phase[r] = "idle" => tries[r] = 0 /\ stream[r] = "none"
    /\ phase[r] # "idle" => order[r] \in Offered
    /\ phase[r] # "idle" /\ outcome[r].kind # "InvalidMoney" => AcceptedMoney(order[r].money)
    /\ phase[r] = "done" <=> outcome[r] # NoOutcome
    /\ phase[r] = "sleep" => tries[r] < MaxRetries
    /\ response[r] # NoResponse => phase[r] = "fetch"
    /\ stream[r] = "open" => phase[r] \in {"fetch", "sleep"}

\* A late copy and a record carry the key of the call they come from.
CopyHolds(copy) == phase[copy[1]] # "idle" /\ copy[2] = order[copy[1]].key

RecordHolds(h) ==
    record[h].kind # "unused" =>
       /\ phase[record[h].by] # "idle"
       /\ order[record[h].by] \in Offered
       /\ h = order[record[h].by].key
       /\ record[h].wire = Wire(record[h].by)

\* A response on its way and an answer that was given agree with the record.
Declined(k)    == record[k].kind = "declined"
Conflicts(k, w) == record[k].kind # "unused" /\ record[k].wire # w

ResponseHolds(r) ==
    /\ response[r] = "success"  => record[order[r].key].kind = "charged"
    /\ response[r] = "declined" => Declined(order[r].key)
    /\ response[r] = "conflict" => Conflicts(order[r].key, Wire(r))

NeverSent(r) ==
    /\ \A h \in Headers : record[h].kind # "unused" => record[h].by # r
    /\ \A copy \in late : copy[1] # r

Charged(k, c) == record[k].kind = "charged" /\ record[k].by = c

OutcomeHolds(r) ==
    /\ outcome[r].kind = "ok" => Charged(order[r].key, outcome[r].charge)
    /\ outcome[r].kind = "CardDeclined" => Declined(order[r].key)
    /\ outcome[r].kind = "IdempotencyConflict" => Conflicts(order[r].key, Wire(r))
    /\ outcome[r].kind = "InvalidMoney" => NeverSent(r)

CacheHolds(k) == cache[k] # None => Charged(k, cache[k])

Inv ==
    /\ TypeOK
    /\ \A r \in Calls : CallHolds(r) /\ ResponseHolds(r) /\ OutcomeHolds(r)
    /\ \A copy \in late : CopyHolds(copy)
    /\ \A h \in Headers : RecordHolds(h)
    /\ \A k \in Keys : CacheHolds(k)

-------------------------------------------------------------------------------
(* Data.                                                                     *)

\* What callers offer has a key and an amount.
LEMMA OrderType ==
    ASSUME NEW o \in Offered
    PROVE  /\ o.key \in Keys
           /\ o.money.amount \in Int
           /\ o.key \in Headers
           /\ ToOnvoPay(o.money) \in Wires
  BY Requests DEF Orders, Headers, Wires

\* How a call can end, and that the ways are distinct.
LEMMA ResultTypes ==
    /\ NoOutcome \in Outcomes /\ NoOutcome.kind = "none"
    /\ \A c \in Calls : /\ Ok(c) \in Outcomes
                        /\ Ok(c).kind = "ok" /\ Ok(c).charge = c /\ Ok(c) # NoOutcome
    /\ \A e \in DOMAIN GrpcStatus : /\ Error(e) \in Outcomes
                                    /\ Error(e).kind = e /\ Error(e) # NoOutcome
    /\ DOMAIN GrpcStatus = {"GatewayUnavailable", "InvalidMoney", "IdempotencyConflict",
                            "CardDeclined", "InvalidRequest", "Unknown"}
  BY DEF NoOutcome, Ok, Error, Outcomes, GrpcStatus

\* A success names a call.
LEMMA OkType ==
    ASSUME NEW x \in Outcomes, x.kind = "ok"
    PROVE  x.charge \in Calls /\ x = Ok(x.charge)
  <1>1. CASE x = NoOutcome
    BY <1>1, ResultTypes
  <1>2. CASE \E c \in Calls : x = Ok(c)
    BY <1>2, ResultTypes
  <1>3. CASE \E e \in DOMAIN GrpcStatus : x = Error(e)
    BY <1>3, ResultTypes
  <1> QED BY <1>1, <1>2, <1>3 DEF Outcomes

\* A key is unused, or there is a record of what became of it.
LEMMA RecordTypes ==
    ASSUME NEW x \in Records \cup {Unused}
    PROVE  /\ x = Unused <=> x.kind = "unused"
           /\ x # Unused => /\ x.kind \in {"charged", "declined"}
                            /\ x.by \in Calls
                            /\ x.wire \in Wires
  BY DEF Records, Unused

\* The invariant holds when nothing has happened yet.
LEMMA InitHolds == Init => Inv
  <1> SUFFICES ASSUME Init PROVE Inv
    OBVIOUS
  <1> USE DEF Init, ClientInit
  <1>1. TypeOK
    BY Requests, Limits, ResultTypes
    DEF TypeOK, Phases, Attempts
  <1>2. ASSUME NEW r \in Calls PROVE CallHolds(r) /\ ResponseHolds(r) /\ OutcomeHolds(r)
    BY ResultTypes DEF CallHolds, ResponseHolds, OutcomeHolds, NoResponse
  <1>3. ASSUME NEW h \in Headers PROVE RecordHolds(h)
    BY RecordTypes DEF RecordHolds, Unused
  <1>4. ASSUME NEW k \in Keys PROVE CacheHolds(k)
    BY DEF CacheHolds
  <1> QED BY <1>1, <1>2, <1>3, <1>4 DEF Inv

-------------------------------------------------------------------------------
(* Steps.  A call that is no longer idle keeps its order.                    *)

Settles == \A q \in Calls : phase[q] # "idle" => phase'[q] # "idle" /\ order'[q] = order[q]

\* A record that is left alone stays right, and so does a late copy.
LEMMA RecordKept ==
    ASSUME Inv, Settles, UNCHANGED record, NEW h \in Headers
    PROVE  RecordHolds(h)'
  <1>1. RecordHolds(h) /\ record[h] \in Records \cup {Unused}
    BY DEF Inv, TypeOK
  <1> QED BY <1>1, RecordTypes DEF RecordHolds, Settles, Wire

LEMMA CopyKept ==
    ASSUME Inv, Settles, NEW copy \in late
    PROVE  CopyHolds(copy)'
  <1>1. CopyHolds(copy) /\ copy[1] \in Calls
    BY DEF Inv, TypeOK
  <1> QED BY <1>1 DEF CopyHolds, Settles

\* A call is answered as it arrives.
LEMMA AnswerHolds ==
    ASSUME Inv, NEW r \in Calls, NEW o \in Offered, NEW result \in Outcomes,
           Answer(r, o, result), phase[r] = "idle", result # NoOutcome,
           result.kind = "ok" => Charged(o.key, result.charge),
           result.kind # "InvalidMoney" => AcceptedMoney(o.money),
           result.kind \notin {"CardDeclined", "IdempotencyConflict"}
    PROVE  Inv'
  <1> USE DEF Answer, onvoPayVars, processVars
  <1>1. TypeOK'
    BY DEF Inv, TypeOK, Phases
  <1>2. Settles
    BY DEF Settles, Inv, TypeOK
  <1>3. ASSUME NEW q \in Calls PROVE CallHolds(q)' /\ ResponseHolds(q)' /\ OutcomeHolds(q)'
    <2>1. CallHolds(q) /\ ResponseHolds(q) /\ OutcomeHolds(q)
      BY DEF Inv
    <2>2. CASE q # r
      BY <2>1, <2>2
      DEF Inv, TypeOK, CallHolds, ResponseHolds, OutcomeHolds, NeverSent, Charged, Declined, Conflicts, Wire
    <2>3. CASE q = r
      <3>1. /\ phase'[r] = "done" /\ order'[r] = o /\ outcome'[r] = result
            /\ stream'[r] = "closed" /\ response'[r] = response[r] /\ response[r] = NoResponse
        BY <2>1, <2>3 DEF Inv, TypeOK, CallHolds
      <3>2. NeverSent(r)'
        <4>1. ASSUME NEW h \in Headers, record[h].kind # "unused" PROVE record[h].by # r
          BY <4>1 DEF Inv, RecordHolds
        <4>2. ASSUME NEW copy \in late PROVE copy[1] # r
          BY <4>2 DEF Inv, CopyHolds
        <4> QED BY <4>1, <4>2 DEF NeverSent
      <3> QED
        BY <2>1, <2>3, <3>1, <3>2
        DEF CallHolds, ResponseHolds, OutcomeHolds, Charged, NoResponse
    <2> QED BY <2>2, <2>3
  <1>4. ASSUME NEW k \in Keys PROVE CacheHolds(k)'
    BY DEF Inv, CacheHolds, Charged
  <1> QED BY <1>1, <1>2, <1>3, <1>4, RecordKept, CopyKept DEF Inv

\* A call arrives and sends its request.
Sends(r, o) ==
    /\ phase[r] = "idle"
    /\ AcceptedMoney(o.money)
    /\ order'  = [order EXCEPT ![r] = o]
    /\ phase'  = [phase EXCEPT ![r] = "fetch"]
    /\ clock'  = [clock EXCEPT ![r] = Timeout]
    /\ stream' = [stream EXCEPT ![r] = "open"]
    /\ UNCHANGED <<tries, response, outcome, onvoPayVars, processVars, cache>>

\* It does not disturb the invariant: nothing is recorded for it yet.
LEMMA SendHolds ==
    ASSUME Inv, NEW r \in Calls, NEW o \in Offered, Sends(r, o)
    PROVE  Inv'
  <1> USE DEF Sends, onvoPayVars, processVars
  <1>1. TypeOK'
    BY Requests DEF Inv, TypeOK, Phases
  <1>2. Settles
    BY DEF Settles, Inv, TypeOK
  <1>3. ASSUME NEW q \in Calls PROVE CallHolds(q)' /\ ResponseHolds(q)' /\ OutcomeHolds(q)'
    <2>1. CallHolds(q) /\ ResponseHolds(q) /\ OutcomeHolds(q)
      BY DEF Inv
    <2>2. CASE q # r
      BY <2>1, <2>2
      DEF Inv, TypeOK, CallHolds, ResponseHolds, OutcomeHolds, NeverSent, Charged, Declined, Conflicts, Wire
    <2>3. CASE q = r
      <3>1. /\ phase'[r] = "fetch" /\ order'[r] = o /\ outcome'[r] = NoOutcome
            /\ stream'[r] = "open" /\ response'[r] = NoResponse
        BY <2>1, <2>3 DEF Inv, TypeOK, CallHolds
      <3> QED
        BY <2>1, <2>3, <3>1, ResultTypes
        DEF CallHolds, ResponseHolds, OutcomeHolds, NoResponse
    <2> QED BY <2>2, <2>3
  <1>4. ASSUME NEW k \in Keys PROVE CacheHolds(k)'
    BY DEF Inv, CacheHolds, Charged
  <1> QED BY <1>1, <1>2, <1>3, <1>4, RecordKept, CopyKept DEF Inv

\* A request ends with a result that agrees with the record, and the use case
\* caches and answers it.
Ends(r, result) ==
    /\ Finish(r, result)
    /\ stream' = [stream EXCEPT ![r] = IF @ = "open" THEN "closed" ELSE @]
    /\ cache'  = IF result.kind = "ok" THEN [cache EXCEPT ![order[r].key] = result.charge] ELSE cache
    /\ UNCHANGED processVars

Agrees(r, result) ==
    /\ result.kind = "ok" => Charged(order[r].key, result.charge)
    /\ result.kind = "CardDeclined" => Declined(order[r].key)
    /\ result.kind = "IdempotencyConflict" => Conflicts(order[r].key, Wire(r))
    /\ result.kind # "InvalidMoney"

\* An attempt nobody waits for any more carries the key of its call.
LEMMA UnhandledType ==
    ASSUME Inv, NEW r \in Calls, phase[r] # "idle"
    PROVE  Unhandled(r) \subseteq {<<r, order[r].key>>} /\ order[r].key \in Headers /\ order[r].key \in Keys
  <1>1. order[r] \in Offered
    BY DEF Inv, CallHolds
  <1> QED BY <1>1, OrderType DEF Unhandled, Header

\* What a call is told is then as true as the record.
LEMMA EndHolds ==
    ASSUME Inv, NEW r \in Calls, NEW result \in Outcomes, Ends(r, result), Agrees(r, result),
           phase[r] = "fetch", result # NoOutcome,
           result.kind = "ok" => result.charge \in Calls
    PROVE  Inv'
  <1> USE DEF Ends, Finish, processVars
  <1>1. late' = late \cup Unhandled(r) /\ Unhandled(r) \subseteq {<<r, order[r].key>>}
        /\ order[r].key \in Headers /\ order[r].key \in Keys
    BY UnhandledType
  <1>2. TypeOK'
    BY <1>1, Requests DEF Inv, TypeOK, Phases, Attempts
  <1>3. Settles
    BY DEF Settles, Inv, TypeOK
  <1>4. ASSUME NEW q \in Calls PROVE CallHolds(q)' /\ ResponseHolds(q)' /\ OutcomeHolds(q)'
    <2>1. CallHolds(q) /\ ResponseHolds(q) /\ OutcomeHolds(q)
      BY DEF Inv
    <2>2. CASE q # r
      <3>1. NeverSent(q) => NeverSent(q)'
        BY <1>1, <2>2 DEF NeverSent
      <3> QED
        BY <2>1, <2>2, <3>1
        DEF Inv, TypeOK, CallHolds, ResponseHolds, OutcomeHolds, Charged, Declined, Conflicts, Wire
    <2>3. CASE q = r
      <3>1. /\ phase'[r] = "done" /\ order'[r] = order[r] /\ outcome'[r] = result
            /\ stream'[r] # "open" /\ response'[r] = NoResponse
            /\ AcceptedMoney(order[r].money)
        BY <2>1, <2>3, ResultTypes DEF Inv, TypeOK, CallHolds
      <3> QED
        BY <2>1, <2>3, <3>1
        DEF CallHolds, ResponseHolds, OutcomeHolds, Agrees, NoResponse, Charged, Declined, Conflicts, Wire
    <2> QED BY <2>2, <2>3
  <1>5. ASSUME NEW k \in Keys PROVE CacheHolds(k)'
    BY <1>1 DEF Inv, TypeOK, CacheHolds, Charged, Agrees
  <1>6. ASSUME NEW copy \in late' PROVE CopyHolds(copy)'
    <2>1. CASE copy \in late
      BY <1>3, <2>1, CopyKept
    <2>2. CASE copy = <<r, order[r].key>>
      BY <2>2 DEF CopyHolds, Inv, TypeOK
    <2> QED BY <1>1, <1>6, <2>1, <2>2
  <1> QED BY <1>2, <1>3, <1>4, <1>5, <1>6, RecordKept DEF Inv

\* A request waits to be sent again, and is sent again.
Retries(r) ==
    /\ BacksOff(r)
    /\ UNCHANGED <<processVars, stream, cache>>

\* The copy that is given up may be late.
LEMMA RetryHolds ==
    ASSUME Inv, NEW r \in Calls, Retries(r), phase[r] = "fetch", tries[r] < MaxRetries
    PROVE  Inv'
  <1> USE DEF Retries, BacksOff, processVars
  <1>1. late' = late \cup Unhandled(r) /\ Unhandled(r) \subseteq {<<r, order[r].key>>}
        /\ order[r].key \in Headers
    BY UnhandledType
  <1>2. TypeOK'
    BY <1>1, Requests DEF Inv, TypeOK, Phases
  <1>3. Settles
    BY DEF Settles, Inv, TypeOK
  <1>4. ASSUME NEW q \in Calls PROVE CallHolds(q)' /\ ResponseHolds(q)' /\ OutcomeHolds(q)'
    <2>1. CallHolds(q) /\ ResponseHolds(q) /\ OutcomeHolds(q)
      BY DEF Inv
    <2>2. CASE q # r
      <3>1. NeverSent(q) => NeverSent(q)'
        BY <1>1, <2>2 DEF NeverSent
      <3> QED
        BY <2>1, <2>2, <3>1
        DEF Inv, TypeOK, CallHolds, ResponseHolds, OutcomeHolds, Charged, Declined, Conflicts, Wire
    <2>3. CASE q = r
      <3>1. phase'[r] = "sleep" /\ outcome[r] = NoOutcome /\ response'[r] = NoResponse
        BY <2>1, <2>3 DEF Inv, TypeOK, CallHolds
      <3> QED
        BY <2>1, <2>3, <3>1, ResultTypes DEF CallHolds, ResponseHolds, OutcomeHolds, NoResponse
    <2> QED BY <2>2, <2>3
  <1>5. ASSUME NEW k \in Keys PROVE CacheHolds(k)'
    BY DEF Inv, CacheHolds, Charged
  <1>6. ASSUME NEW copy \in late' PROVE CopyHolds(copy)'
    <2>1. CASE copy \in late
      BY <1>3, <2>1, CopyKept
    <2>2. CASE copy = <<r, order[r].key>>
      BY <2>2 DEF CopyHolds, Inv, TypeOK
    <2> QED BY <1>1, <1>6, <2>1, <2>2
  <1> QED BY <1>2, <1>3, <1>4, <1>5, <1>6, RecordKept DEF Inv

Resends(r) ==
    /\ WakesUp(r)
    /\ UNCHANGED <<processVars, stream, cache>>

\* The next attempt is one of those the bound allows.
LEMMA ResendHolds ==
    ASSUME Inv, NEW r \in Calls, Resends(r)
    PROVE  Inv'
  <1> USE DEF Resends, WakesUp, processVars, onvoPayVars
  <1>1. CallHolds(r)
    BY DEF Inv
  <1>2. TypeOK'
    BY <1>1, Requests DEF Inv, TypeOK, Phases, Attempts, CallHolds
  <1>3. Settles
    BY DEF Settles, Inv, TypeOK
  <1>4. ASSUME NEW q \in Calls PROVE CallHolds(q)' /\ ResponseHolds(q)' /\ OutcomeHolds(q)'
    BY <1>1
    DEF Inv, TypeOK, CallHolds, ResponseHolds, OutcomeHolds, NeverSent, Charged, Declined, Conflicts, Wire
  <1>5. ASSUME NEW k \in Keys PROVE CacheHolds(k)'
    BY DEF Inv, CacheHolds, Charged
  <1> QED BY <1>2, <1>3, <1>4, <1>5, RecordKept, CopyKept DEF Inv

-------------------------------------------------------------------------------
(* OnvoPay.  What it has recorded it keeps.                                  *)

Keeps == \A h \in Headers : record[h].kind # "unused" => record'[h] = record[h]

\* Handling a copy under the key of its call records what the call asks for, or
\* changes nothing, and the response agrees with the record.
LEMMA HandlingRecords ==
    ASSUME Inv, NEW r \in Calls, phase[r] # "idle", NEW resp \in Responses,
           Handles(r, order[r].key, resp)
    PROVE  /\ record' \in [Headers -> Records \cup {Unused}]
           /\ Keeps
           /\ \A h \in Headers :
                 record'[h] # record[h] => /\ h = order[r].key
                                          /\ record'[h].kind # "unused"
                                          /\ record'[h].by = r
                                          /\ record'[h].wire = Wire(r)
           /\ resp = "success"  => record'[order[r].key].kind = "charged"
           /\ resp = "declined" => record'[order[r].key].kind = "declined"
           /\ resp = "conflict" => /\ record'[order[r].key].kind # "unused"
                                   /\ record'[order[r].key].wire # Wire(r)
  <1> DEFINE k == order[r].key
  <1>1. order[r] \in Offered /\ k \in Headers /\ Wire(r) \in Wires
    BY OrderType DEF Inv, CallHolds, Wire
  <1>2. record \in [Headers -> Records \cup {Unused}]
    BY DEF Inv, TypeOK
  <1>3. CASE Refuses(resp)
    BY <1>1, <1>2, <1>3 DEF Refuses, Keeps
  <1>4. CASE CarriesOut(r, k, resp)
    <2>1. PICK kind \in {"charged", "declined"} :
             /\ \/ kind = "charged"  /\ resp \in {"success", "garbled", "empty", "unavailable"}
                \/ kind = "declined" /\ resp \in {"declined", "unavailable"}
             /\ record' = [record EXCEPT ![k] = [kind |-> kind, by |-> r, wire |-> Wire(r)]]
      BY <1>4 DEF CarriesOut
    <2>2. [kind |-> kind, by |-> r, wire |-> Wire(r)] \in Records
      BY <1>1, <2>1 DEF Records
    <2>3. record[k] = Unused
      BY <1>4 DEF CarriesOut
    <2> QED
      BY <1>1, <1>2, <2>1, <2>2, <2>3 DEF Keeps, Unused
  <1>5. CASE Replays(r, k, resp)
    BY <1>1, <1>2, <1>5, RecordTypes DEF Replays, Keeps
  <1> QED BY <1>3, <1>4, <1>5 DEF Handles

\* What was said of the record stays true as the record grows.
LEMMA GrownRecord ==
    ASSUME Inv, Keeps, NEW k \in Headers, NEW c \in Calls, NEW w
    PROVE  /\ Charged(k, c) => Charged(k, c)'
           /\ Declined(k) => Declined(k)'
           /\ Conflicts(k, w) => record'[k].kind # "unused" /\ record'[k].wire # w
  BY DEF Keeps, Charged, Declined, Conflicts

\* A new record is the handled call's; a late copy under the same key finds it.
LEMMA GrownRecordHolds ==
    ASSUME Inv, NEW r \in Calls, phase[r] # "idle", NEW resp \in Responses,
           Handles(r, order[r].key, resp), UNCHANGED <<order, phase>>, NEW h \in Headers
    PROVE  RecordHolds(h)'
  <1>1. RecordHolds(h) /\ order[r] \in Offered
    BY DEF Inv, CallHolds
  <1>2. CASE record'[h] = record[h]
    BY <1>1, <1>2 DEF RecordHolds, Wire
  <1>3. CASE record'[h] # record[h]
    BY <1>1, <1>3, HandlingRecords DEF RecordHolds, Wire
  <1> QED BY <1>2, <1>3

\* The cache speaks of records that are kept.
LEMMA GrownCache ==
    ASSUME Inv, Keeps, UNCHANGED cache, NEW k \in Keys
    PROVE  CacheHolds(k)'
  <1>1. CacheHolds(k) /\ k \in Headers /\ cache[k] \in Calls \cup {None}
    BY DEF Inv, TypeOK, Headers
  <1> QED BY <1>1, GrownRecord DEF CacheHolds

\* So do the answers that were given.
LEMMA GrownOutcome ==
    ASSUME Inv, Keeps, UNCHANGED <<order, outcome>>, NEW q \in Calls,
           outcome[q].kind = "InvalidMoney" => NeverSent(q)'
    PROVE  OutcomeHolds(q)'
  <1>1. OutcomeHolds(q) /\ CallHolds(q)
    BY DEF Inv
  <1>2. CASE outcome[q] = NoOutcome
    BY <1>2, ResultTypes DEF OutcomeHolds
  <1>3. CASE outcome[q] # NoOutcome
    <2>1. order[q] \in Offered
      BY <1>1, <1>3 DEF CallHolds
    <2>2. order[q].key \in Headers
      BY <2>1, OrderType
    <2>3. outcome[q].kind = "ok" => outcome[q].charge \in Calls
      BY OkType DEF Inv, TypeOK
    <2> QED
      BY <1>1, <2>2, <2>3, GrownRecord DEF OutcomeHolds, Conflicts, Wire
  <1> QED BY <1>2, <1>3

\* Handling the attempt a call waits for.
LEMMA HandleHolds ==
    ASSUME Inv, NEW r \in Calls, Handle(r)
    PROVE  Inv' /\ Keeps
  <1> USE DEF Handle, OnvoPayHandles, processVars, serverVars
  <1>1. PICK resp \in Responses :
           Handles(r, order[r].key, resp) /\ response' = [response EXCEPT ![r] = resp]
    BY DEF Header
  <1>2. phase[r] # "idle" /\ order[r].key \in Headers
    BY OrderType DEF Inv, CallHolds
  <1>3. record' \in [Headers -> Records \cup {Unused}] /\ Keeps
    BY <1>1, <1>2, HandlingRecords
  <1>4. TypeOK'
    BY <1>1, <1>3 DEF Inv, TypeOK
  <1>5. Settles
    BY DEF Settles
  <1>6. ASSUME NEW q \in Calls PROVE CallHolds(q)' /\ ResponseHolds(q)' /\ OutcomeHolds(q)'
    <2>1. CallHolds(q) /\ ResponseHolds(q) /\ OutcomeHolds(q)
      BY DEF Inv
    <2>2. CallHolds(q)'
      BY <1>1, <2>1 DEF Inv, TypeOK, CallHolds
    <2>3. ResponseHolds(q)'
      <3>1. CASE q = r
        BY <1>1, <1>2, <3>1, HandlingRecords
        DEF ResponseHolds, Declined, Conflicts, Wire, Inv, TypeOK
      <3>2. CASE q # r /\ response[q] = NoResponse
        BY <1>1, <3>2 DEF ResponseHolds, NoResponse, Inv, TypeOK
      <3>3. CASE q # r /\ response[q] # NoResponse
        <4>1. order[q].key \in Headers
          BY <2>1, <3>3, OrderType DEF CallHolds
        <4> QED
          BY <1>1, <1>3, <2>1, <3>3, <4>1
          DEF ResponseHolds, Keeps, Declined, Conflicts, Wire, Inv, TypeOK
      <3> QED BY <3>1, <3>2, <3>3
    <2>4. outcome[q].kind = "InvalidMoney" => NeverSent(q)'
      <3>1. CASE q = r
        BY <2>1, <3>1, ResultTypes DEF CallHolds
      <3>2. CASE q # r
        BY <1>1, <1>2, <2>1, <3>2, HandlingRecords DEF OutcomeHolds, NeverSent
      <3> QED BY <3>1, <3>2
    <2> QED BY <1>3, <2>2, <2>3, <2>4, GrownOutcome
  <1>7. \A k \in Keys : CacheHolds(k)'
    BY <1>3, GrownCache
  <1>8. \A h \in Headers : RecordHolds(h)'
    BY <1>1, <1>2, GrownRecordHolds
  <1> QED BY <1>3, <1>4, <1>5, <1>6, <1>7, <1>8, CopyKept DEF Inv

\* Handling a copy that nobody waits for.
LEMMA LateHolds ==
    ASSUME Inv, NEW copy \in late, Late(copy)
    PROVE  Inv' /\ Keeps
  <1> USE DEF Late, HandlesLate, processVars, serverVars, requestVars
  <1> DEFINE r == copy[1]
  <1>1. r \in Calls /\ phase[r] # "idle" /\ copy[2] = order[r].key
    BY DEF Inv, TypeOK, CopyHolds
  <1>2. PICK resp \in Responses : Handles(r, order[r].key, resp)
    BY <1>1
  <1> HIDE DEF r
  <1>3. record' \in [Headers -> Records \cup {Unused}] /\ Keeps
    BY <1>1, <1>2, HandlingRecords
  <1>4. TypeOK'
    BY <1>3 DEF Inv, TypeOK
  <1>5. Settles
    BY DEF Settles
  <1>6. ASSUME NEW q \in Calls PROVE CallHolds(q)' /\ ResponseHolds(q)' /\ OutcomeHolds(q)'
    <2>1. CallHolds(q) /\ ResponseHolds(q) /\ OutcomeHolds(q)
      BY DEF Inv
    <2>2. CallHolds(q)'
      BY <2>1 DEF CallHolds
    <2>3. ResponseHolds(q)'
      <3>1. CASE response[q] = NoResponse
        BY <3>1 DEF ResponseHolds, NoResponse
      <3>2. CASE response[q] # NoResponse
        <4>1. order[q].key \in Headers
          BY <2>1, <3>2, OrderType DEF CallHolds
        <4> QED
          BY <1>3, <2>1, <4>1 DEF ResponseHolds, Keeps, Declined, Conflicts, Wire
      <3> QED BY <3>1, <3>2
    <2>4. outcome[q].kind = "InvalidMoney" => NeverSent(q)'
      <3>1. ASSUME NeverSent(q) PROVE q # r
        BY <3>1 DEF NeverSent, r
      <3>2. ASSUME NeverSent(q) PROVE NeverSent(q)'
        BY <1>1, <1>2, <3>1, <3>2, HandlingRecords DEF NeverSent
      <3> QED BY <2>1, <3>2 DEF OutcomeHolds
    <2> QED BY <1>3, <2>2, <2>3, <2>4, GrownOutcome
  <1>7. \A k \in Keys : CacheHolds(k)'
    BY <1>3, GrownCache
  <1>8. \A h \in Headers : RecordHolds(h)'
    BY <1>1, <1>2, GrownRecordHolds
  <1> QED BY <1>3, <1>4, <1>5, <1>6, <1>7, <1>8, CopyKept DEF Inv

-------------------------------------------------------------------------------
(* The process.                                                              *)

\* What concerns neither requests nor OnvoPay disturbs nothing but types.
LEMMA ProcessHolds ==
    ASSUME Inv, TypeOK', UNCHANGED <<order, phase, tries, response, outcome, onvoPayVars, cache>>,
           \A r \in Calls : stream'[r] # stream[r] => stream'[r] = "closed" /\ stream[r] = "open"
    PROVE  Inv'
  <1> USE DEF onvoPayVars
  <1>1. Settles
    BY DEF Settles
  <1>2. ASSUME NEW q \in Calls PROVE CallHolds(q)' /\ ResponseHolds(q)' /\ OutcomeHolds(q)'
    BY DEF Inv, CallHolds, ResponseHolds, OutcomeHolds, NeverSent, Charged, Declined, Conflicts, Wire
  <1>3. ASSUME NEW k \in Keys PROVE CacheHolds(k)'
    BY DEF Inv, CacheHolds, Charged
  <1> QED BY <1>1, <1>2, <1>3, RecordKept, CopyKept DEF Inv

\* An exit turns attempts into late copies, and empties the cache.
LEMMA ExitHolds ==
    ASSUME Inv, Exit
    PROVE  Inv'
  <1> USE DEF Exit, ClientDies
  <1>1. ASSUME NEW copy \in late' \ late
        PROVE  \E r \in Calls : phase[r] = "fetch" /\ copy = <<r, order[r].key>>
                                /\ order[r].key \in Headers
    <2>1. PICK r \in Calls : copy \in Unhandled(r)
      BY <1>1
    <2>2. phase[r] = "fetch"
      BY <2>1 DEF Unhandled
    <2> QED BY <2>1, <2>2, UnhandledType
  <1>2. TypeOK'
    <2>1. ASSUME NEW copy \in late' PROVE copy \in Calls \X Headers
      <3>1. CASE copy \in late
        BY <3>1 DEF Inv, TypeOK
      <3>2. CASE copy \notin late
        BY <1>1, <3>2
      <3> QED BY <3>1, <3>2
    <2> QED BY <2>1, Requests DEF Inv, TypeOK, Phases, Attempts
  <1>3. Settles
    BY DEF Settles, Inv, TypeOK
  <1>4. ASSUME NEW q \in Calls PROVE CallHolds(q)' /\ ResponseHolds(q)' /\ OutcomeHolds(q)'
    <2>1. CallHolds(q) /\ OutcomeHolds(q)
      BY DEF Inv
    <2>2. NeverSent(q) /\ phase[q] = "done" => NeverSent(q)'
      BY <1>1 DEF NeverSent
    <2>3. outcome[q] # NoOutcome => phase[q] = "done"
      BY <2>1 DEF CallHolds
    <2>4. CallHolds(q)'
      BY <2>1 DEF CallHolds, Inv, TypeOK
    <2>5. ResponseHolds(q)'
      BY DEF ResponseHolds, NoResponse
    <2>6. OutcomeHolds(q)'
      BY <2>1, <2>2, <2>3, ResultTypes DEF OutcomeHolds, Charged, Declined, Conflicts, Wire
    <2> QED BY <2>4, <2>5, <2>6
  <1>5. ASSUME NEW k \in Keys PROVE CacheHolds(k)'
    BY DEF CacheHolds
  <1>6. ASSUME NEW copy \in late' PROVE CopyHolds(copy)'
    <2>1. CASE copy \in late
      BY <1>3, <2>1, CopyKept
    <2>2. CASE copy \notin late
      BY <1>1, <1>3, <2>2 DEF CopyHolds, Settles
    <2> QED BY <2>1, <2>2
  <1> QED BY <1>2, <1>3, <1>4, <1>5, <1>6, RecordKept DEF Inv

-------------------------------------------------------------------------------
(* Every step of the specification is one of these.                          *)

\* A call that finds no output sends its request or is refused its currency.
LEMMA StartSplits ==
    ASSUME NEW r \in Calls, Start(r)
    PROVE  \E o \in Offered : \/ Sends(r, o)
                             \/ Answer(r, o, Error("InvalidMoney"))
  <1>1. PICK o \in Offered :
           /\ Send(r, o) /\ AcceptedMoney(o.money)
           /\ stream' = [stream EXCEPT ![r] = IF OnvoPayTakes(o.money) THEN "open" ELSE "closed"]
    BY DEF Start
  <1>2. phase[r] = "idle" /\ UNCHANGED <<processVars, cache>>
    BY DEF Start, Arrives
  <1>3. CASE OnvoPayTakes(o.money)
    BY <1>1, <1>2, <1>3 DEF Send, Sends
  <1>4. CASE ~OnvoPayTakes(o.money)
    BY <1>1, <1>2, <1>4 DEF Send, Answer
  <1> QED BY <1>3, <1>4

\* The continuation of a request that ended.
LEMMA FinishContinues ==
    ASSUME Inv, NEW r \in Calls, NEW result \in Outcomes, result # NoOutcome,
           Finish(r, result), Continues(r), UNCHANGED processVars
    PROVE  Ends(r, result)
  <1>1. outcome'[r] = result
    BY DEF Finish, Inv, TypeOK
  <1>2. stream' = [stream EXCEPT ![r] = IF @ = "open" THEN "closed" ELSE @]
    BY <1>1 DEF Continues
  <1>3. cache' = IF result.kind = "ok" THEN [cache EXCEPT ![order[r].key] = result.charge] ELSE cache
    BY <1>1 DEF Continues
  <1> QED BY <1>2, <1>3 DEF Ends

\* A request that goes on continues nothing.
LEMMA NothingContinues ==
    ASSUME Inv, NEW r \in Calls, phase[r] \in {"fetch", "sleep"}, UNCHANGED outcome, Continues(r)
    PROVE  UNCHANGED <<stream, cache>>
  <1>1. outcome'[r] = NoOutcome /\ outcome'[r].kind # "ok"
    BY ResultTypes DEF Inv, CallHolds
  <1> QED BY <1>1 DEF Continues, Inv, TypeOK

\* The end of an attempt: another one follows, or the request ends.
AttemptEnds(r) ==
    \/ Retries(r) /\ tries[r] < MaxRetries
    \/ \E result \in Outcomes \ {NoOutcome} :
          Ends(r, result) /\ Agrees(r, result) /\ (result.kind = "ok" => result.charge \in Calls)

\* After the last attempt the error is the caller's.
LEMMA TryAgainSplits ==
    ASSUME Inv, NEW r \in Calls, phase[r] = "fetch", TryAgain(r), Continues(r), UNCHANGED processVars
    PROVE  AttemptEnds(r)
  <1>1. CASE tries[r] < MaxRetries
    <2>1. BacksOff(r)
      BY <1>1 DEF TryAgain
    <2>2. UNCHANGED <<stream, cache>>
      BY <2>1, NothingContinues DEF BacksOff
    <2> QED BY <1>1, <2>1, <2>2 DEF AttemptEnds, Retries
  <1>2. CASE ~(tries[r] < MaxRetries)
    <2> DEFINE result == Error(NetworkError)
    <2>1. result \in Outcomes \ {NoOutcome} /\ result.kind = "GatewayUnavailable"
      BY ResultTypes DEF NetworkError
    <2>2. Finish(r, result)
      BY <1>2 DEF TryAgain
    <2>3. Ends(r, result)
      BY <2>1, <2>2, FinishContinues
    <2> QED BY <2>1, <2>3 DEF AttemptEnds, Agrees
  <1> QED BY <1>1, <1>2

\* A response ends the request, unless it cannot be parsed.
LEMMA ReceiveSplits ==
    ASSUME Inv, NEW r \in Calls, Receive(r)
    PROVE  AttemptEnds(r)
  <1>1. /\ phase[r] = "fetch" /\ response[r] # NoResponse
        /\ Continues(r) /\ UNCHANGED processVars
    BY DEF Receive, Proceed, Receives
  <1>2. response[r] \in Responses
    BY <1>1 DEF Inv, TypeOK
  <1>3. ResponseHolds(r) /\ order[r] \in Offered /\ order[r].key \in Headers
    BY <1>1, OrderType DEF Inv, CallHolds
  <1>4. CASE response[r] = "success"
    <2> DEFINE result == Ok(record[order[r].key].by)
    <2>1. Finish(r, result)
      BY <1>1, <1>4 DEF Receive, Proceed, Receives, Header
    <2>2. Charged(order[r].key, record[order[r].key].by) /\ record[order[r].key].by \in Calls
      BY <1>3, <1>4, RecordTypes DEF ResponseHolds, Charged, Inv, TypeOK
    <2>3. /\ result \in Outcomes \ {NoOutcome} /\ result.kind = "ok"
          /\ result.charge = record[order[r].key].by
      BY <2>2, ResultTypes
    <2>4. Ends(r, result)
      BY <1>1, <2>1, <2>3, FinishContinues
    <2>5. Agrees(r, result)
      BY <2>2, <2>3 DEF Agrees
    <2> QED BY <2>2, <2>3, <2>4, <2>5 DEF AttemptEnds
  <1>5. CASE response[r] = "garbled"
    <2>1. TryAgain(r)
      BY <1>1, <1>5 DEF Receive, Proceed, Receives
    <2> QED BY <1>1, <2>1, TryAgainSplits
  <1>6. CASE response[r] \in {"empty", "declined", "conflict", "refused", "unavailable"}
    <2> DEFINE result == Error(OnvoPayError[response[r]])
    <2>1. Finish(r, result)
      BY <1>1, <1>6 DEF Receive, Proceed, Receives
    <2>2. /\ OnvoPayError[response[r]] \in DOMAIN GrpcStatus \ {"InvalidMoney"}
          /\ OnvoPayError[response[r]] = "CardDeclined" => response[r] = "declined"
          /\ OnvoPayError[response[r]] = "IdempotencyConflict" => response[r] = "conflict"
      BY <1>6 DEF OnvoPayError, GrpcStatus
    <2>3. result \in Outcomes \ {NoOutcome} /\ result.kind = OnvoPayError[response[r]]
      BY <2>2, ResultTypes
    <2>4. result.kind # "ok" /\ result.kind # "InvalidMoney"
      BY <2>2, <2>3, ResultTypes
    <2>5. Ends(r, result)
      BY <1>1, <2>1, <2>3, FinishContinues
    <2>6. Agrees(r, result)
      BY <1>3, <2>2, <2>3, <2>4 DEF Agrees, ResponseHolds
    <2> QED BY <2>3, <2>4, <2>5, <2>6 DEF AttemptEnds
  <1> QED BY <1>2, <1>4, <1>5, <1>6 DEF Responses

\* Responses, broken connections and timeouts end an attempt.
LEMMA AttemptSplits ==
    ASSUME Inv, NEW r \in Calls, Receive(r) \/ LoseConnection(r) \/ TimeOut(r)
    PROVE  AttemptEnds(r) /\ phase[r] = "fetch"
  <1>1. CASE Receive(r)
    BY <1>1, ReceiveSplits DEF Receive, Proceed, Receives
  <1>2. CASE LoseConnection(r)
    BY <1>2, TryAgainSplits DEF LoseConnection, Proceed, ConnectionFails
  <1>3. CASE TimeOut(r)
    BY <1>3, TryAgainSplits DEF TimeOut, Proceed, TimesOut
  <1> QED BY <1>1, <1>2, <1>3

\* The end of an attempt keeps the invariant.
LEMMA AttemptHolds ==
    ASSUME Inv, NEW r \in Calls, AttemptEnds(r), phase[r] = "fetch"
    PROVE  Inv'
  BY RetryHolds, EndHolds DEF AttemptEnds

\* The end of a backoff starts the next attempt.
LEMMA WakeResends ==
    ASSUME Inv, NEW r \in Calls, Wake(r)
    PROVE  Resends(r)
  <1>1. WakesUp(r) /\ Continues(r) /\ UNCHANGED processVars
    BY DEF Wake, Proceed
  <1>2. phase[r] = "sleep" /\ UNCHANGED outcome
    BY <1>1 DEF WakesUp
  <1>3. UNCHANGED <<stream, cache>>
    BY <1>1, <1>2, NothingContinues
  <1> QED BY <1>1, <1>3 DEF Resends

\* A call that is answered as it arrives is refused or served from the cache.
LEMMA AnswersAtOnce ==
    ASSUME Inv, NEW r \in Calls, RejectAmount(r) \/ ReturnCached(r)
    PROVE  \E o \in Offered : \/ Answer(r, o, Error("InvalidMoney"))
                             \/ /\ cache[o.key] # None /\ AcceptedMoney(o.money)
                                /\ Answer(r, o, Ok(cache[o.key]))
  BY DEF RejectAmount, ReturnCached

\* Steps of calls, of the clock and all steps keep the invariant.
LEMMA CallStepHolds ==
    ASSUME Inv, NEW r \in Calls, CallStep(r)
    PROVE  Inv'
  <1>1. Error("InvalidMoney") \in Outcomes \ {NoOutcome} /\ Error("InvalidMoney").kind = "InvalidMoney"
    BY ResultTypes
  <1>2. CASE RejectAmount(r) \/ ReturnCached(r)
    <2>1. phase[r] = "idle"
      BY <1>2 DEF RejectAmount, ReturnCached, Arrives
    <2>2. PICK o \in Offered :
             \/ Answer(r, o, Error("InvalidMoney"))
             \/ cache[o.key] # None /\ AcceptedMoney(o.money) /\ Answer(r, o, Ok(cache[o.key]))
      BY <1>2, AnswersAtOnce
    <2>3. CASE Answer(r, o, Error("InvalidMoney"))
      BY <1>1, <2>1, <2>3, AnswerHolds
    <2>4. CASE cache[o.key] # None /\ AcceptedMoney(o.money) /\ Answer(r, o, Ok(cache[o.key]))
      <3>1. cache[o.key] \in Calls /\ Charged(o.key, cache[o.key])
        BY <2>4, OrderType DEF Inv, TypeOK, CacheHolds
      <3>2. /\ Ok(cache[o.key]) \in Outcomes \ {NoOutcome}
            /\ Ok(cache[o.key]).kind = "ok" /\ Ok(cache[o.key]).charge = cache[o.key]
        BY <3>1, ResultTypes
      <3> QED BY <2>1, <2>4, <3>1, <3>2, AnswerHolds
    <2> QED BY <2>2, <2>3, <2>4
  <1>3. CASE Start(r)
    <2>1. phase[r] = "idle"
      BY <1>3 DEF Start, Arrives
    <2> QED BY <1>1, <1>3, <2>1, StartSplits, SendHolds, AnswerHolds
  <1>4. CASE HangUp(r)
    <2>1. TypeOK'
      BY <1>4 DEF HangUp, Inv, TypeOK, clientVars, requestVars, onvoPayVars, processVars
    <2> QED BY <1>4, <2>1, ProcessHolds DEF HangUp, Inv, TypeOK, clientVars, requestVars
  <1>5. CASE Receive(r) \/ LoseConnection(r) \/ TimeOut(r)
    BY <1>5, AttemptSplits, AttemptHolds
  <1>6. CASE Wake(r)
    BY <1>6, WakeResends, ResendHolds
  <1> QED BY <1>2, <1>3, <1>4, <1>5, <1>6 DEF CallStep

LEMMA TickTypes ==
    ASSUME Inv, Tick
    PROVE  Inv'
  <1>1. /\ UNCHANGED <<order, phase, tries, response, outcome, onvoPayVars, stage, stream, cache>>
        /\ clock' = [r \in Calls |-> IF phase[r] = "fetch" THEN clock[r] - 1 ELSE clock[r]]
        /\ \A r \in Calls : phase[r] = "fetch" => clock[r] > 0
    BY DEF Tick, ClientMayTick, ClientTicks, serverVars
  <1>2. clock' \in [Calls -> 0 .. Timeout]
    BY <1>1, Requests DEF Inv, TypeOK
  <1>3. forces' \in Seq(0 .. Deadline)
    BY Limits DEF Tick, Inv, TypeOK
  <1>4. drained' \in Nat
    BY DEF Tick, Inv, TypeOK
  <1>5. TypeOK'
    BY <1>1, <1>2, <1>3, <1>4 DEF Inv, TypeOK, onvoPayVars
  <1> QED BY <1>1, <1>5, ProcessHolds

LEMMA NextHolds ==
    ASSUME Inv, [Next]_vars
    PROVE  Inv'
  <1>1. CASE \E r \in Calls : CallStep(r)
    BY <1>1, CallStepHolds
  <1>2. CASE OnvoPayStep
    BY <1>2, HandleHolds, LateHolds DEF OnvoPayStep
  <1>3. CASE Boot
    <2>1. TypeOK'
      BY <1>3 DEF Boot, Inv, TypeOK, clientVars, requestVars, onvoPayVars, serverVars
    <2> QED BY <1>3, <2>1, ProcessHolds DEF Boot, clientVars, requestVars, serverVars
  <1>4. CASE Shutdown
    <2>1. TypeOK'
      BY <1>4, Limits DEF Shutdown, Inv, TypeOK, clientVars, requestVars, onvoPayVars, serverVars
    <2> QED BY <1>4, <2>1, ProcessHolds DEF Shutdown, clientVars, requestVars, serverVars
  <1>5. CASE Kill \/ Drained \/ ForceExit
    BY <1>5, ExitHolds DEF Kill, Drained, ForceExit
  <1>6. CASE Tick
    BY <1>6, TickTypes
  <1>7. CASE UNCHANGED vars
    <2>1. TypeOK'
      BY <1>7 DEF vars, Inv, TypeOK, clientVars, requestVars, onvoPayVars, serverVars, processVars
    <2> QED BY <1>7, <2>1, ProcessHolds DEF vars, clientVars, requestVars, serverVars
  <1> QED BY <1>1, <1>2, <1>3, <1>4, <1>5, <1>6, <1>7 DEF Next, ProcessStep

\* Every variable keeps its type.
THEOREM TypeCorrect == Spec => []TypeOK
  <1>1. Inv => TypeOK
    BY DEF Inv
  <1> QED BY <1>1, InitHolds, NextHolds, PTL DEF Spec

-------------------------------------------------------------------------------
(* What callers may rely on.                                                 *)

\* The invariant holds throughout.
LEMMA InvHolds == Spec => []Inv
  BY InitHolds, NextHolds, PTL DEF Spec

\* A charge under a key is the record of that key.
LEMMA ChargeIsRecord ==
    ASSUME Inv, NEW k \in Keys, NEW h \in ChargesUnder(k)
    PROVE  h = k /\ record[k].kind = "charged"
  BY DEF ChargesUnder, Charges, Inv, RecordHolds

\* One charge is opened per idempotency key: every attempt, of whichever process,
\* carries the caller's key, and OnvoPay carries out a key once.
THEOREM OneChargePerKey == Spec => []ChargedOncePerKey
  <1>1. Inv => ChargedOncePerKey
    BY ChargeIsRecord DEF ChargedOncePerKey
  <1> QED BY <1>1, InvHolds, PTL

\* A call that caused a charge or has a copy under way was not refused its amount,
\* and what was sent for it is faithful to it.
LEMMA SentIsFaithful ==
    ASSUME Inv, NEW h \in Charges
    PROVE  /\ record[h].by \in Calls
           /\ h = order[record[h].by].key
           /\ Faithful(record[h].wire, order[record[h].by].money.amount)
  <1> DEFINE r == record[h].by
             o == order[r]
  <1>1. h \in Headers /\ record[h].kind = "charged"
    BY DEF Charges
  <1>2. r \in Calls
    BY <1>1, RecordTypes DEF Inv, TypeOK
  <1>3. /\ phase[r] # "idle" /\ o \in Offered
        /\ h = o.key /\ record[h].wire = ToOnvoPay(o.money)
    BY <1>1 DEF Inv, RecordHolds, Wire
  <1>4. outcome[r].kind # "InvalidMoney"
    BY <1>1, <1>2 DEF Inv, OutcomeHolds, NeverSent
  <1>5. AcceptedMoney(o.money)
    BY <1>2, <1>3, <1>4 DEF Inv, CallHolds
  <1>6. o.money.amount \in Nat
    BY <1>3, <1>5, OrderType DEF AcceptedMoney, IsMoney
  <1>7. PICK w \in Units : o.money.amount < Limit * w
    BY <1>3, Requests
  <1>8. Faithful(Number(o.money.amount), o.money.amount)
    BY <1>6, <1>7, NumberIsFaithful
  <1> QED BY <1>2, <1>3, <1>8 DEF ToOnvoPay

\* A success names a charge that is there, under the caller's key and for what
\* was asked under it; a declined card, a conflict and a refused amount moved no
\* money for the call.
THEOREM RepliesTrue == Spec => []RepliesAreTrue
  <1>1. ASSUME Inv PROVE RepliesAreTrue
    <2> SUFFICES ASSUME NEW r \in Calls
                 PROVE  /\ outcome[r].kind = "ok" => ToldSuccess(r)
                        /\ outcome[r].kind \in {"CardDeclined", "IdempotencyConflict", "InvalidMoney"} =>
                              \A h \in Charges : record[h].by # r
                        /\ outcome[r].kind = "CardDeclined" => ChargesUnder(order[r].key) = {}
                        /\ outcome[r].kind = "IdempotencyConflict" =>
                              record[order[r].key] # Unused /\ record[order[r].key].wire # Wire(r)
      BY DEF RepliesAreTrue
    <2>1. OutcomeHolds(r) /\ CallHolds(r)
      BY <1>1 DEF Inv
    <2>2. outcome[r] # NoOutcome => order[r].key \in Headers /\ order[r].key \in Keys
      BY <2>1, OrderType DEF CallHolds
    <2>3. ASSUME outcome[r].kind = "ok" PROVE ToldSuccess(r)
      <3> DEFINE h == order[r].key
      <3>1. Charged(h, outcome[r].charge) /\ h \in Headers
        BY <2>1, <2>2, <2>3, ResultTypes DEF OutcomeHolds
      <3>2. h \in Charges
        BY <3>1 DEF Charged, Charges
      <3>3. h = order[record[h].by].key /\ Faithful(record[h].wire, order[record[h].by].money.amount)
        BY <1>1, <3>2, SentIsFaithful
      <3> QED BY <3>1, <3>2, <3>3 DEF ToldSuccess, ChargesUnder, Charged
    <2>4. ASSUME NEW h \in Charges, record[h].by = r
          PROVE  h = order[r].key /\ record[h].kind = "charged" /\ record[h].wire = Wire(r)
      BY <1>1, <2>4 DEF Charges, Inv, RecordHolds
    <2>5. ASSUME outcome[r].kind = "CardDeclined"
          PROVE  ChargesUnder(order[r].key) = {} /\ \A h \in Charges : record[h].by # r
      <3>1. record[order[r].key].kind = "declined" /\ order[r].key \in Keys
        BY <2>1, <2>2, <2>5, ResultTypes DEF OutcomeHolds, Declined
      <3> QED BY <1>1, <2>4, <3>1, ChargeIsRecord
    <2>6. ASSUME outcome[r].kind = "IdempotencyConflict"
          PROVE  /\ record[order[r].key] # Unused /\ record[order[r].key].wire # Wire(r)
                 /\ \A h \in Charges : record[h].by # r
      <3>1. /\ record[order[r].key].kind # "unused" /\ record[order[r].key].wire # Wire(r)
            /\ record[order[r].key] \in Records \cup {Unused}
        BY <1>1, <2>1, <2>2, <2>6, ResultTypes DEF OutcomeHolds, Conflicts, Inv, TypeOK
      <3> QED BY <2>4, <3>1, RecordTypes
    <2>7. ASSUME outcome[r].kind = "InvalidMoney"
          PROVE  \A h \in Charges : record[h].by # r
      BY <2>1, <2>7 DEF OutcomeHolds, NeverSent, Charges
    <2> QED BY <2>3, <2>5, <2>6, <2>7
  <1> QED BY <1>1, InvHolds, PTL

-------------------------------------------------------------------------------
(* The drain.                                                                *)

\* The first forced exit and the ticks since then make up the deadline, and what
\* is left of an attempt and of the attempts before it fits into its share.
InTime(r) ==
    /\ phase[r] = "fetch" => drained + clock[r] <= (tries[r] + 1) * Timeout
    /\ phase[r] = "sleep" => drained <= (tries[r] + 1) * Timeout

TimeInv ==
    /\ stage # "draining" => forces = <<>> /\ drained = 0
    /\ stage = "draining" => /\ Len(forces) > 0
                             /\ forces[1] + drained = Deadline
                             /\ \A i \in DOMAIN forces : forces[i] + drained >= Deadline
    /\ \A r \in Calls : InTime(r)

\* Multiples of the timeout.
LEMMA Attempt ==
    ASSUME NEW t \in Nat
    PROVE  /\ t * Timeout \in Nat
           /\ (t + 1) * Timeout = t * Timeout + Timeout
           /\ \A m \in Nat : t <= m => t * Timeout <= m * Timeout
           /\ \A m \in Nat : m * Timeout <= t * Timeout => m <= t
  <1>1. Timeout \in Nat \ {0}
    BY Requests
  <1>2. ASSUME NEW m \in Nat, t < m PROVE t * Timeout < m * Timeout
    <2>1. PICK d \in Nat : m = t + 1 + d
      <3>1. m = t + 1 + (m - t - 1) /\ m - t - 1 \in Nat
        BY <1>2
      <3> QED BY <3>1
    <2>2. m * Timeout = t * Timeout + Timeout + d * Timeout
      BY <1>1, <2>1
    <2>3. d * Timeout \in Nat /\ t * Timeout \in Nat
      BY <1>1, <2>1
    <2> QED BY <1>1, <2>2, <2>3
  <1>3. ASSUME NEW m \in Nat, m < t PROVE m * Timeout < t * Timeout
    <2>1. PICK d \in Nat : t = m + 1 + d
      <3>1. t = m + 1 + (t - m - 1) /\ t - m - 1 \in Nat
        BY <1>3
      <3> QED BY <3>1
    <2>2. t * Timeout = m * Timeout + Timeout + d * Timeout
      BY <1>1, <2>1
    <2>3. d * Timeout \in Nat /\ m * Timeout \in Nat
      BY <1>1, <2>1
    <2> QED BY <1>1, <2>2, <2>3
  <1>4. t * Timeout \in Nat /\ (t + 1) * Timeout = t * Timeout + Timeout
    BY <1>1
  <1>5. \A m \in Nat : m * Timeout \in Nat
    BY <1>1
  <1> QED BY <1>2, <1>3, <1>4, <1>5

\* What is left of the attempts is a number, and the timers are a sequence of them.
LEMMA TimeTypes ==
    ASSUME Inv, NEW r \in Calls
    PROVE  /\ tries[r] \in Nat /\ tries[r] <= MaxRetries
           /\ clock[r] \in Nat
           /\ drained \in Nat
           /\ (tries[r] + 1) * Timeout \in Nat
  <1>1. /\ tries[r] \in Nat /\ tries[r] <= MaxRetries
        /\ clock[r] \in Nat /\ drained \in Nat /\ Timeout \in Nat
    BY Requests DEF Inv, TypeOK, Attempts
  <1>2. tries[r] + 1 \in Nat
    BY <1>1
  <1> HIDE DEF Inv
  <1>3. (tries[r] + 1) * Timeout \in Nat
    BY <1>1, <1>2
  <1> QED BY <1>1, <1>3

LEMMA Timers ==
    ASSUME NEW s \in Seq(0 .. Deadline)
    PROVE  /\ Len(s) \in Nat
           /\ DOMAIN s = 1 .. Len(s)
           /\ \A i \in DOMAIN s : s[i] \in Nat /\ s[i] <= Deadline
  BY Limits

\* A tick takes one from every timer.
LEMMA TimersTick ==
    ASSUME NEW s \in Seq(0 .. Deadline), NEW t, t = [i \in DOMAIN s |-> s[i] - 1]
    PROVE  /\ Len(t) = Len(s) /\ DOMAIN t = DOMAIN s
           /\ \A i \in DOMAIN s : t[i] = s[i] - 1
  <1>1. DOMAIN s = 1 .. Len(s) /\ Len(s) \in Nat
    BY Timers
  <1>2. DOMAIN t = 1 .. Len(s)
    BY <1>1
  <1> QED BY <1>1, <1>2

\* Steps of one call take no time.
LEMMA CallStepInTime ==
    ASSUME Inv, TimeInv, NEW r \in Calls, CallStep(r)
    PROVE  TimeInv'
  <1> USE DEF processVars
  <1>1. UNCHANGED <<stage, forces, drained>>
    BY DEF CallStep, RejectAmount, ReturnCached, Start, HangUp, Receive, LoseConnection,
           TimeOut, Wake, Proceed, Answer
  <1>2. ASSUME NEW q \in Calls, q # r
        PROVE  phase'[q] = phase[q] /\ tries'[q] = tries[q] /\ clock'[q] = clock[q]
    <2>1. CASE RejectAmount(r) \/ ReturnCached(r)
      BY <1>2, <2>1 DEF RejectAmount, ReturnCached, Answer, Inv, TypeOK
    <2>2. CASE Start(r)
      <3>1. PICK o \in Offered : Sends(r, o) \/ Answer(r, o, Error("InvalidMoney"))
        BY <2>2, StartSplits
      <3> QED BY <1>2, <3>1 DEF Sends, Answer, Inv, TypeOK
    <2>3. CASE HangUp(r)
      BY <2>3 DEF HangUp, clientVars, requestVars
    <2>4. CASE Receive(r) \/ LoseConnection(r) \/ TimeOut(r)
      BY <1>2, <2>4, AttemptSplits DEF AttemptEnds, Retries, Ends, BacksOff, Finish, Inv, TypeOK
    <2>5. CASE Wake(r)
      BY <1>2, <2>5, WakeResends DEF Resends, WakesUp, Inv, TypeOK
    <2> QED BY <2>1, <2>2, <2>3, <2>4, <2>5 DEF CallStep
  <1>3. InTime(r)'
    <2>1. InTime(r) /\ CallHolds(r) /\ clock[r] \in Nat /\ tries[r] \in Nat /\ drained \in Nat
      BY TimeTypes DEF TimeInv, Inv
    <2>2. CASE RejectAmount(r) \/ ReturnCached(r)
      BY <2>2 DEF RejectAmount, ReturnCached, Answer, Inv, TypeOK, InTime
    <2>3. CASE Start(r)
      <3>1. PICK o \in Offered : Sends(r, o) \/ Answer(r, o, Error("InvalidMoney"))
        BY <2>3, StartSplits
      <3>2. CASE Answer(r, o, Error("InvalidMoney"))
        BY <3>2 DEF Answer, InTime, Inv, TypeOK
      <3>3. CASE Sends(r, o)
        <4>1. drained = 0 /\ tries[r] = 0
          BY <2>1, <2>3, <3>3 DEF Start, Arrives, TimeInv, Sends, CallHolds
        <4>2. phase'[r] = "fetch" /\ clock'[r] = Timeout /\ tries'[r] = 0 /\ drained' = 0
          BY <1>1, <3>3, <4>1 DEF Sends, Inv, TypeOK
        <4> QED BY <4>2, Requests DEF InTime
      <3> QED BY <3>1, <3>2, <3>3
    <2>4. CASE HangUp(r)
      BY <1>1, <2>1, <2>4 DEF HangUp, clientVars, requestVars, InTime
    <2>5. CASE Receive(r) \/ LoseConnection(r) \/ TimeOut(r)
      <3>1. AttemptEnds(r) /\ phase[r] = "fetch"
        BY <2>5, AttemptSplits
      <3>2. CASE Retries(r)
        <4>1. phase'[r] = "sleep" /\ tries'[r] = tries[r] /\ drained' = drained
          BY <1>1, <3>2 DEF Retries, BacksOff, Inv, TypeOK
        <4>2. drained <= (tries[r] + 1) * Timeout
          BY <2>1, <3>1, TimeTypes DEF InTime
        <4> QED BY <4>1, <4>2 DEF InTime
      <3>3. CASE \E result \in Outcomes : Ends(r, result)
        BY <3>3 DEF Ends, Finish, InTime, Inv, TypeOK
      <3> QED BY <3>1, <3>2, <3>3 DEF AttemptEnds
    <2>6. CASE Wake(r)
      <3>1. Resends(r)
        BY <2>6, WakeResends
      <3>2. /\ phase[r] = "sleep" /\ phase'[r] = "fetch" /\ clock'[r] = Timeout
            /\ tries'[r] = tries[r] + 1 /\ drained' = drained
        BY <1>1, <3>1 DEF Resends, WakesUp, Inv, TypeOK
      <3>3. drained <= (tries[r] + 1) * Timeout
        BY <2>1, <3>2 DEF InTime
      <3>4. (tries[r] + 1 + 1) * Timeout = (tries[r] + 1) * Timeout + Timeout
            /\ (tries[r] + 1) * Timeout \in Nat
        BY <2>1, Attempt
      <3> QED BY <2>1, <3>2, <3>3, <3>4, Requests DEF InTime
    <2> QED BY <2>2, <2>3, <2>4, <2>5, <2>6 DEF CallStep
  <1>4. ASSUME NEW q \in Calls PROVE InTime(q)'
    BY <1>1, <1>2, <1>3 DEF TimeInv, InTime
  <1> QED BY <1>1, <1>4 DEF TimeInv

\* A tick takes as much from the clocks as it adds to the drain.
LEMMA TickInTime ==
    ASSUME Inv, TimeInv, Tick
    PROVE  TimeInv'
  <1>1. /\ stage' = stage /\ phase' = phase /\ tries' = tries
        /\ clock' = [r \in Calls |-> IF phase[r] = "fetch" THEN clock[r] - 1 ELSE clock[r]]
        /\ forces' = [i \in DOMAIN forces |-> forces[i] - 1]
        /\ drained' = IF stage = "draining" THEN drained + 1 ELSE drained
        /\ \A r \in Calls : phase[r] # "sleep"
    BY DEF Tick, ClientTicks, ClientMayTick
  <1>2. forces \in Seq(0 .. Deadline) /\ drained \in Nat
    BY DEF Inv, TypeOK
  <1>3. CASE stage # "draining"
    <2>1. forces' = <<>> /\ drained' = 0
      BY <1>1, <1>3 DEF TimeInv
    <2>2. ASSUME NEW r \in Calls PROVE InTime(r)'
      <3>1. clock[r] \in Nat /\ InTime(r) /\ tries[r] \in Nat /\ (tries[r] + 1) * Timeout \in Nat
        BY TimeTypes DEF TimeInv
      <3> QED BY <1>1, <1>2, <1>3, <3>1 DEF InTime, TimeInv
    <2> QED BY <1>1, <1>3, <2>1, <2>2 DEF TimeInv
  <1>4. CASE stage = "draining"
    <2>1. /\ Len(forces) > 0 /\ forces[1] + drained = Deadline
          /\ \A i \in DOMAIN forces : forces[i] + drained >= Deadline
      BY <1>4 DEF TimeInv
    <2>2. /\ Len(forces') > 0 /\ DOMAIN forces' = DOMAIN forces
          /\ \A i \in DOMAIN forces : forces'[i] = forces[i] - 1 /\ forces[i] \in Int
          /\ 1 \in DOMAIN forces
      BY <1>1, <1>2, <2>1, Timers, TimersTick
    <2>3. forces'[1] + drained' = Deadline
      BY <1>1, <1>2, <1>4, <2>1, <2>2, Limits
    <2>4. \A i \in DOMAIN forces' : forces'[i] + drained' >= Deadline
      BY <1>1, <1>2, <1>4, <2>1, <2>2, Limits
    <2>5. ASSUME NEW r \in Calls PROVE InTime(r)'
      <3>1. clock[r] \in Nat /\ InTime(r) /\ tries[r] \in Nat /\ (tries[r] + 1) * Timeout \in Nat
        BY TimeTypes DEF TimeInv
      <3> QED BY <1>1, <1>2, <1>4, <3>1 DEF InTime
    <2> QED BY <1>1, <1>4, <2>2, <2>3, <2>4, <2>5 DEF TimeInv
  <1> QED BY <1>3, <1>4

\* A later signal only adds timers that run longer.
LEMMA ShutdownInTime ==
    ASSUME Inv, TimeInv, Shutdown
    PROVE  TimeInv'
  <1>1. /\ stage' = "draining" /\ forces' = Append(forces, Deadline)
        /\ UNCHANGED <<drained, phase, tries, clock>>
    BY DEF Shutdown, clientVars, requestVars
  <1>2. forces \in Seq(0 .. Deadline) /\ drained \in Nat /\ Deadline \in Nat
    BY Limits DEF Inv, TypeOK
  <1>3. /\ Len(forces') = Len(forces) + 1
        /\ forces'[Len(forces) + 1] = Deadline
        /\ \A i \in DOMAIN forces : forces'[i] = forces[i]
        /\ DOMAIN forces = 1 .. Len(forces)
        /\ DOMAIN forces' = 1 .. Len(forces) + 1
        /\ Len(forces) \in Nat
        /\ \A i \in DOMAIN forces : forces[i] \in Nat
    BY <1>1, <1>2
  <1>4. forces'[1] + drained' = Deadline
    <2>1. CASE stage # "draining"
      BY <1>1, <1>2, <1>3, <2>1 DEF TimeInv
    <2>2. CASE stage = "draining"
      BY <1>1, <1>3, <2>2 DEF TimeInv
    <2> QED BY <2>1, <2>2
  <1>5. ASSUME NEW i \in DOMAIN forces' PROVE forces'[i] + drained' >= Deadline
    <2>1. CASE i = Len(forces) + 1
      BY <1>1, <1>2, <1>3, <2>1
    <2>2. CASE i \in DOMAIN forces
      <3>1. stage = "draining"
        BY <1>3, <2>2 DEF TimeInv
      <3> QED BY <1>1, <1>3, <2>2, <3>1 DEF TimeInv
    <2> QED BY <1>3, <1>5, <2>1, <2>2
  <1>6. ASSUME NEW r \in Calls PROVE InTime(r)'
    BY <1>1 DEF TimeInv, InTime
  <1> QED BY <1>1, <1>3, <1>4, <1>5, <1>6 DEF TimeInv

\* After an exit there is nothing to be late.
LEMMA ExitInTime ==
    ASSUME Inv, TimeInv, Exit
    PROVE  TimeInv'
  <1>1. \A r \in Calls : phase'[r] \notin {"fetch", "sleep"}
    BY DEF Exit, ClientDies
  <1> QED BY <1>1 DEF Exit, TimeInv, InTime

\* Every step keeps the times.
LEMMA NextInTime ==
    ASSUME Inv, TimeInv, [Next]_vars
    PROVE  TimeInv'
  <1> USE DEF clientVars, requestVars, processVars
  <1>1. CASE \E r \in Calls : CallStep(r)
    BY <1>1, CallStepInTime
  <1>2. CASE OnvoPayStep \/ UNCHANGED vars
    BY <1>2 DEF OnvoPayStep, Handle, OnvoPayHandles, Late, HandlesLate, vars, TimeInv, InTime
  <1>3. CASE Boot
    BY <1>3 DEF Boot, TimeInv, InTime
  <1>4. CASE Kill \/ Drained \/ ForceExit
    BY <1>4, ExitInTime DEF Kill, Drained, ForceExit
  <1> QED
    BY <1>1, <1>2, <1>3, <1>4, ShutdownInTime, TickInTime DEF Next, ProcessStep

\* Both invariants hold throughout.
LEMMA TimeHolds == Spec => [](Inv /\ TimeInv)
  <1>1. Init => TimeInv
    BY DEF Init, ClientInit, TimeInv, InTime
  <1> QED BY <1>1, InitHolds, NextHolds, NextInTime, PTL DEF Spec

\* A process is gone a deadline after the first signal, whatever follows it.
THEOREM ExitsByDeadline == Spec => []GoneByDeadline
  <1>1. ASSUME Inv, TimeInv PROVE GoneByDeadline
    <2>1. CASE stage = "draining"
      <3>1. forces \in Seq(0 .. Deadline) /\ Len(forces) > 0 /\ forces[1] + drained = Deadline
        BY <1>1, <2>1 DEF Inv, TypeOK, TimeInv
      <3>2. forces[1] \in Nat
        BY <3>1, Timers
      <3> QED BY <1>1, <3>1, <3>2, Limits DEF GoneByDeadline, Inv, TypeOK
    <2>2. CASE stage # "draining"
      BY <1>1, <2>2, Limits DEF TimeInv, GoneByDeadline
    <2> QED BY <2>1, <2>2
  <1> QED BY <1>1, TimeHolds, PTL

\* Counting attempts.
LEMMA SameCount ==
    ASSUME NEW t \in Nat, NEW m \in Nat, t <= m, m + 1 <= t + 1
    PROVE  t = m
  OBVIOUS

\* With a deadline that leaves room for every attempt, the forced exit cuts off
\* only calls at their last one.
THEOREM DrainPatient ==
    ASSUME Deadline >= (MaxRetries + 1) * Timeout
    PROVE  Spec => DrainCutsOnlyLastAttempt
  <1>1. ASSUME Inv, TimeInv, ForceExit, NEW r \in Calls, stream[r] = "open"
        PROVE  tries[r] = MaxRetries
    <2>1. /\ tries[r] \in Nat /\ tries[r] <= MaxRetries /\ clock[r] \in Nat /\ drained \in Nat
          /\ (tries[r] + 1) * Timeout \in Nat
      BY <1>1, TimeTypes
    <2>2. drained >= Deadline
      <3>1. PICK i \in DOMAIN forces : forces[i] = 0
        BY <1>1 DEF ForceExit
      <3>2. forces[i] + drained >= Deadline
        BY <1>1 DEF ForceExit, TimeInv
      <3> QED BY <2>1, <3>1, <3>2
    <2>3. drained <= (tries[r] + 1) * Timeout
      <3>1. phase[r] \in {"fetch", "sleep"} /\ InTime(r)
        BY <1>1 DEF Inv, CallHolds, TimeInv
      <3> QED BY <2>1, <3>1 DEF InTime
    <2>4. (MaxRetries + 1) * Timeout <= (tries[r] + 1) * Timeout
      <3>1. (MaxRetries + 1) * Timeout \in Nat /\ Deadline \in Nat
        BY Requests, Limits
      <3> QED BY <2>1, <2>2, <2>3, <3>1
    <2>5. MaxRetries \in Nat /\ MaxRetries + 1 \in Nat /\ tries[r] + 1 \in Nat
      BY <2>1, Requests
    <2>6. MaxRetries + 1 <= tries[r] + 1
      BY <2>4, <2>5, Attempt
    <2> QED BY <2>1, <2>5, <2>6, SameCount
  <1>2. Inv /\ TimeInv /\ [Next]_vars =>
           [ForceExit => \A r \in Calls : stream[r] = "open" => tries[r] = MaxRetries]_vars
    BY <1>1
  <1> QED BY <1>2, TimeHolds, PTL DEF Spec, DrainCutsOnlyLastAttempt

-------------------------------------------------------------------------------
(* The refinement of GatewayCall.                                            *)

askedBar == [r \in Calls |-> IF phase[r] = "idle" THEN None ELSE order[r].key]
toldBar  == [r \in Calls |-> ToldOf(outcome[r])]
doneBar  == [k \in Keys |-> Result(record[k])]

\* The abstract answers.
LEMMA ToldOfTypes ==
    /\ ToldOf(NoOutcome) = Abstract!Nothing
    /\ \A c \in Calls : ToldOf(Ok(c)) = [kind |-> "charged", by |-> c]
    /\ ToldOf(Error("CardDeclined")) = [kind |-> "declined"]
    /\ \A e \in DOMAIN GrpcStatus \ {"CardDeclined"} : ToldOf(Error(e)) = Abstract!Failure
  BY DEF ToldOf, NoOutcome, Ok, Error, GrpcStatus, Abstract!Nothing, Abstract!Failure

\* The abstract records.
LEMMA ResultOfTypes ==
    /\ Result(Unused) = Abstract!Unused
    /\ \A x \in Records : /\ x.kind = "charged" => Result(x) = [kind |-> "charged", by |-> x.by]
                          /\ x.kind = "declined" => Result(x) = [kind |-> "declined"]
                          /\ Result(x) # Abstract!Unused
  <1>1. Result(Unused) = Abstract!Unused
    BY DEF Result, Unused, Abstract!Unused
  <1>2. ASSUME NEW x \in Records
        PROVE  /\ x.kind = "charged" => Result(x) = [kind |-> "charged", by |-> x.by]
               /\ x.kind = "declined" => Result(x) = [kind |-> "declined"]
               /\ Result(x) # Abstract!Unused
    <2>1. x.kind \in {"charged", "declined"}
      BY DEF Records
    <2> QED BY <2>1 DEF Result, Abstract!Unused
  <1> QED BY <1>1, <1>2

\* Nothing is asked, told or done at first.
LEMMA InitMaps == Init => Abstract!Init
  <1> SUFFICES ASSUME Init PROVE Abstract!Init
    OBVIOUS
  <1>1. askedBar = [r \in Calls |-> None]
    BY DEF Init, ClientInit, askedBar
  <1>2. toldBar = [r \in Calls |-> Abstract!Nothing]
    BY ToldOfTypes DEF Init, ClientInit, toldBar
  <1>3. doneBar = [k \in Keys |-> Abstract!Unused]
    BY ResultOfTypes DEF Init, ClientInit, doneBar, Headers
  <1> QED BY <1>1, <1>2, <1>3 DEF Abstract!Init, askedBar, toldBar, doneBar

\* A call that arrives asks.
LEMMA ArrivalAsks ==
    ASSUME Inv, NEW r \in Calls, NEW o \in Offered, NEW result \in Outcomes,
           phase[r] = "idle", phase' = [phase EXCEPT ![r] = IF result = NoOutcome THEN "fetch" ELSE "done"],
           order' = [order EXCEPT ![r] = o], outcome' = [outcome EXCEPT ![r] = result],
           UNCHANGED record,
           \/ result \in {NoOutcome, Error("InvalidMoney")}
           \/ cache[o.key] # None /\ result = Ok(cache[o.key])
    PROVE  Abstract!Ask(r, o.key)
  <1>1. askedBar[r] = None
    BY DEF askedBar
  <1>2. askedBar' = [askedBar EXCEPT ![r] = o.key]
    BY DEF askedBar, Inv, TypeOK
  <1>3. toldBar' = [toldBar EXCEPT ![r] = ToldOf(result)]
    BY DEF toldBar, Inv, TypeOK
  <1>4. ToldOf(result) \in {Abstract!Nothing, Abstract!Failure, doneBar[o.key]} \ {Abstract!Unused}
    <2>1. CASE result \in {NoOutcome, Error("InvalidMoney")}
      <3>1. ToldOf(result) \in {Abstract!Nothing, Abstract!Failure}
        BY <2>1, ToldOfTypes, ResultTypes
      <3> QED BY <3>1 DEF Abstract!Nothing, Abstract!Failure, Abstract!Unused
    <2>2. CASE cache[o.key] # None /\ result = Ok(cache[o.key])
      <3>1. o.key \in Keys /\ cache[o.key] \in Calls /\ Charged(o.key, cache[o.key])
        BY <2>2, OrderType DEF Inv, TypeOK, CacheHolds
      <3>2. record[o.key] \in Records
        BY <3>1, OrderType, RecordTypes DEF Inv, TypeOK, Charged
      <3>3. Result(record[o.key]) = ToldOf(result) /\ Result(record[o.key]) # Abstract!Unused
        BY <2>2, <3>1, <3>2, ToldOfTypes, ResultOfTypes DEF Charged
      <3> QED BY <3>1, <3>3 DEF doneBar
    <2> QED BY <2>1, <2>2
  <1>5. doneBar' = doneBar
    BY DEF doneBar
  <1> QED BY <1>1, <1>2, <1>3, <1>4, <1>5 DEF Abstract!Ask, askedBar, toldBar, doneBar

\* A request that ends delivers what is recorded, or fails.
LEMMA EndDelivers ==
    ASSUME Inv, NEW r \in Calls, NEW result \in Outcomes \ {NoOutcome}, phase[r] = "fetch",
           Ends(r, result), Agrees(r, result), result.kind = "ok" => result.charge \in Calls
    PROVE  Abstract!Deliver(r) \/ Abstract!Fail(r)
  <1> USE DEF Ends, Finish
  <1> DEFINE k == order[r].key
  <1>1. k \in Keys /\ k \in Headers /\ outcome[r] = NoOutcome
    BY OrderType DEF Inv, CallHolds
  <1>2. askedBar[r] = k /\ askedBar[r] # None /\ askedBar' = askedBar
    BY <1>1, Limits DEF askedBar, Inv, TypeOK
  <1>3. toldBar[r] = Abstract!Nothing /\ toldBar' = [toldBar EXCEPT ![r] = ToldOf(result)]
    BY <1>1, ToldOfTypes DEF toldBar, Inv, TypeOK
  <1>4. doneBar' = doneBar /\ doneBar[k] = Result(record[k])
    BY <1>1 DEF doneBar
  <1>5. CASE result.kind \in {"ok", "CardDeclined"}
    <2>1. record[k] \in Records
      BY <1>1, <1>5, RecordTypes DEF Agrees, Charged, Declined, Inv, TypeOK
    <2>2. ToldOf(result) = Result(record[k])
      <3>1. CASE result.kind = "ok"
        BY <2>1, <3>1, OkType, ToldOfTypes, ResultOfTypes DEF Agrees, Charged
      <3>2. CASE result.kind = "CardDeclined"
        <4>1. ToldOf(result) = [kind |-> "declined"]
          BY <3>2 DEF ToldOf
        <4> QED BY <2>1, <3>2, <4>1, ResultOfTypes DEF Agrees, Declined
      <3> QED BY <1>5, <3>1, <3>2
    <2>3. Result(record[k]) # Abstract!Unused
      BY <2>1, ResultOfTypes
    <2> QED
      BY <1>2, <1>3, <1>4, <2>2, <2>3 DEF Abstract!Deliver, askedBar, toldBar, doneBar
  <1>6. CASE result.kind \notin {"ok", "CardDeclined"}
    <2>1. result.kind # "none"
      <3>1. \/ \E c \in Calls : result = Ok(c)
            \/ \E e \in DOMAIN GrpcStatus : result = Error(e)
        BY DEF Outcomes
      <3> QED BY <3>1, ResultTypes
    <2>2. ToldOf(result) = Abstract!Failure
      BY <1>6, <2>1 DEF ToldOf, Abstract!Failure
    <2> QED
      BY <1>2, <1>3, <1>4, <2>2 DEF Abstract!Fail, askedBar, toldBar, doneBar
  <1> QED BY <1>5, <1>6

\* OnvoPay executes, or nothing happens.
LEMMA HandlingExecutes ==
    ASSUME Inv, NEW r \in Calls, phase[r] # "idle", NEW resp \in Responses,
           Handles(r, order[r].key, resp), UNCHANGED <<order, phase, outcome>>
    PROVE  Abstract!Execute(r) \/ UNCHANGED <<askedBar, toldBar, doneBar>>
  <1> DEFINE k == order[r].key
  <1>1. k \in Keys /\ k \in Headers /\ askedBar[r] = k /\ k # None
    BY OrderType, Limits DEF Inv, CallHolds, askedBar
  <1>2. UNCHANGED <<askedBar, toldBar>>
    BY DEF askedBar, toldBar
  <1>3. CASE UNCHANGED record
    BY <1>2, <1>3 DEF doneBar
  <1>4. CASE CarriesOut(r, k, resp)
    <2>1. PICK kind \in {"charged", "declined"} :
             record' = [record EXCEPT ![k] = [kind |-> kind, by |-> r, wire |-> Wire(r)]]
      BY <1>4 DEF CarriesOut
    <2> DEFINE x == [kind |-> kind, by |-> r, wire |-> Wire(r)]
    <2>2. x \in Records /\ x.kind = kind /\ x.by = r
      BY OrderType DEF Records, Inv, CallHolds, Wire
    <2>3. record[k] = Unused
      BY <1>4 DEF CarriesOut
    <2>4. doneBar[k] = Abstract!Unused
      BY <1>1, <2>3, ResultOfTypes DEF doneBar
    <2>5. doneBar' = [doneBar EXCEPT ![k] = Result(x)]
      <3>1. ASSUME NEW j \in Keys PROVE record'[j] = IF j = k THEN x ELSE record[j]
        BY <1>1, <2>1 DEF Inv, TypeOK, Headers
      <3> QED BY <3>1 DEF doneBar
    <2>6. Result(x) \in { [kind |-> "charged", by |-> r], [kind |-> "declined"] }
      BY <2>2, ResultOfTypes
    <2>7. toldBar[r] \in {Abstract!Nothing, Abstract!Failure}
      <3>1. outcome[r] \in Outcomes /\ outcome[r].kind # "ok" /\ outcome[r].kind # "CardDeclined"
        BY <2>3, <1>1, RecordTypes DEF Inv, TypeOK, OutcomeHolds, Charged, Declined
      <3>2. outcome[r] = NoOutcome \/ \E e \in DOMAIN GrpcStatus \ {"CardDeclined"} : outcome[r] = Error(e)
        BY <3>1, ResultTypes DEF Outcomes
      <3> QED BY <3>2, ToldOfTypes DEF toldBar
    <2> QED
      BY <1>1, <1>2, <2>4, <2>5, <2>6, <2>7 DEF Abstract!Execute, askedBar, toldBar, doneBar
  <1> QED BY <1>3, <1>4 DEF Handles, Refuses, Replays

\* Every step is one of GatewayCall, or none.
LEMMA NextMaps ==
    ASSUME Inv, [Next]_vars
    PROVE  [Abstract!Next]_Abstract!gatewayCallVars
  <1> DEFINE Quiet == UNCHANGED <<askedBar, toldBar, doneBar>>
  <1>1. Quiet => UNCHANGED Abstract!gatewayCallVars
    BY DEF Abstract!gatewayCallVars, askedBar, toldBar, doneBar
  <1>2. ASSUME UNCHANGED <<order, phase, outcome, record>> PROVE Quiet
    BY <1>2 DEF askedBar, toldBar, doneBar
  <1>3. ASSUME NEW r \in Calls, CallStep(r)
        PROVE  \/ Quiet
               \/ \E k \in Keys : Abstract!Ask(r, k)
               \/ Abstract!Deliver(r)
               \/ Abstract!Fail(r)
    <2>1. CASE RejectAmount(r) \/ ReturnCached(r)
      <3>1. phase[r] = "idle"
        BY <2>1 DEF RejectAmount, ReturnCached, Arrives
      <3>2. PICK o \in Offered :
               \/ Answer(r, o, Error("InvalidMoney"))
               \/ cache[o.key] # None /\ Answer(r, o, Ok(cache[o.key]))
        BY <1>3, <2>1, AnswersAtOnce
      <3>3. o.key \in Keys
        BY OrderType
      <3>4. cache[o.key] # None => Ok(cache[o.key]) \in Outcomes \ {NoOutcome}
        BY <3>3, ResultTypes DEF Inv, TypeOK
      <3>5. Error("InvalidMoney") \in Outcomes \ {NoOutcome}
        BY ResultTypes
      <3>6. Abstract!Ask(r, o.key)
        BY <3>1, <3>2, <3>4, <3>5, ArrivalAsks DEF Answer, onvoPayVars
      <3> QED BY <3>3, <3>6
    <2>2. CASE Start(r)
      <3>1. phase[r] = "idle"
        BY <2>2 DEF Start, Arrives
      <3>2. PICK o \in Offered : Sends(r, o) \/ Answer(r, o, Error("InvalidMoney"))
        BY <2>2, StartSplits
      <3>3. o.key \in Keys /\ Error("InvalidMoney") \in Outcomes \ {NoOutcome} /\ NoOutcome \in Outcomes
        BY OrderType, ResultTypes
      <3>4. CASE Answer(r, o, Error("InvalidMoney"))
        BY <3>1, <3>3, <3>4, ArrivalAsks DEF Answer, onvoPayVars
      <3>5. CASE Sends(r, o)
        <4>1. outcome' = [outcome EXCEPT ![r] = NoOutcome]
          BY <3>1, <3>5 DEF Sends, Inv, TypeOK, CallHolds
        <4> QED BY <3>1, <3>3, <3>5, <4>1, ArrivalAsks DEF Sends, onvoPayVars
      <3> QED BY <3>2, <3>3, <3>4, <3>5
    <2>3. CASE HangUp(r)
      BY <1>2, <2>3 DEF HangUp, clientVars, requestVars, onvoPayVars
    <2>4. CASE Receive(r) \/ LoseConnection(r) \/ TimeOut(r)
      <3>1. AttemptEnds(r) /\ phase[r] = "fetch"
        BY <1>3, <2>4, AttemptSplits
      <3>2. CASE Retries(r)
        <4>1. askedBar' = askedBar
          BY <3>1, <3>2 DEF Retries, BacksOff, askedBar, Inv, TypeOK
        <4> QED BY <3>2, <4>1 DEF Retries, BacksOff, toldBar, doneBar
      <3> QED BY <3>1, <3>2, EndDelivers DEF AttemptEnds
    <2>5. CASE Wake(r)
      <3>1. Resends(r)
        BY <2>5, WakeResends
      <3>2. askedBar' = askedBar
        BY <3>1 DEF Resends, WakesUp, askedBar, Inv, TypeOK
      <3> QED BY <3>1, <3>2 DEF Resends, WakesUp, onvoPayVars, toldBar, doneBar
    <2> QED BY <1>3, <2>1, <2>2, <2>3, <2>4, <2>5 DEF CallStep
  <1>4. ASSUME NEW r \in Calls, Handle(r) PROVE Quiet \/ Abstract!Execute(r)
    <2>1. PICK resp \in Responses : Handles(r, order[r].key, resp)
      BY <1>4 DEF Handle, OnvoPayHandles, Header
    <2>2. phase[r] # "idle" /\ UNCHANGED <<order, phase, outcome>>
      BY <1>4 DEF Handle, OnvoPayHandles
    <2> QED BY <2>1, <2>2, HandlingExecutes
  <1>5. ASSUME NEW copy \in late, Late(copy) PROVE Quiet \/ Abstract!Execute(copy[1])
    <2>1. copy[1] \in Calls /\ phase[copy[1]] # "idle" /\ copy[2] = order[copy[1]].key
      BY DEF Inv, TypeOK, CopyHolds
    <2>2. PICK resp \in Responses : Handles(copy[1], order[copy[1]].key, resp)
      BY <1>5, <2>1 DEF Late, HandlesLate
    <2>3. UNCHANGED <<order, phase, outcome>>
      BY <1>5 DEF Late, HandlesLate, requestVars
    <2> QED BY <2>1, <2>2, <2>3, HandlingExecutes
  <1>6. ASSUME ProcessStep \/ Tick \/ UNCHANGED vars PROVE Quiet
    <2>1. CASE Kill \/ Drained \/ ForceExit
      <3>1. Exit
        BY <2>1 DEF Kill, Drained, ForceExit
      <3>2. askedBar' = askedBar
        <4>1. ASSUME NEW r \in Calls PROVE (phase'[r] = "idle") = (phase[r] = "idle")
          BY <3>1 DEF Exit, ClientDies
        <4> QED BY <3>1, <4>1 DEF Exit, ClientDies, askedBar
      <3> QED BY <3>1, <3>2 DEF Exit, ClientDies, toldBar, doneBar
    <2>2. CASE Boot \/ Shutdown \/ Tick \/ UNCHANGED vars
      BY <1>2, <2>2
      DEF Boot, Shutdown, Tick, ClientTicks, vars, clientVars, requestVars, onvoPayVars
    <2> QED BY <1>6, <2>1, <2>2 DEF ProcessStep
  <1>7. \A copy \in late : copy[1] \in Calls
    BY DEF Inv, TypeOK
  <1> HIDE DEF Quiet
  <1>8. Quiet \/ Abstract!Next
    BY <1>3, <1>4, <1>5, <1>6, <1>7 DEF Next, OnvoPayStep, Abstract!Next
  <1> QED BY <1>1, <1>8

\* Retries, late copies, kills and drains implement GatewayCall.
THEOREM PortPromiseKept == Spec => ImplementsGatewayCall
  BY InitMaps, NextMaps, InvHolds, PTL DEF Spec, ImplementsGatewayCall, Abstract!Spec
===============================================================================
