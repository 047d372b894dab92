---------------------------- MODULE WebhookProofs -----------------------------
(***************************************************************************)
(* Proofs about Webhook, for every set of deliveries, events and keys,     *)
(* both kinds of stores and any number of exits.                           *)
(***************************************************************************)
EXTENDS Webhook, TLAPS

\* A record that tells of an outcome names a run that completed, for its event.
Truthful(record) == record.kind = "output" =>
    /\ record.by \in Deliveries
    /\ run[record.by].state = "completed"
    /\ Event(record.by) = record.event

\* What a delivery holds at each point of its handler; its event is handed on at
\* most once.
DeliveryHolds(d) ==
    /\ pc[d] # "idle" => req[d] \in Requests
    /\ pc[d] \in {"idle", "check", "verify", "mark", "event"} => run[d] = NoRun
    /\ pc[d] = "handler" => run[d].state = "running"
    /\ pc[d] \in {"commitEvent", "commitKey", "return"} => result[d] \in Records
    /\ reply[d] = "ok" => pc[d] = "done" /\ result[d].kind = "output"

\* What is stored, and what a delivery is about to store or return.
RecordsHold ==
    /\ \A s \in Keys \cup Events : Truthful(idem[s])
    /\ \A d \in Deliveries : Truthful(result[d])

\* The part of the invariant that every kind of store keeps.
Inv ==
    /\ TypeOK
    /\ \A d \in Deliveries : DeliveryHolds(d)
    /\ RecordsHold

\* The event of a run of this epoch.
RanNow(d) == run[d] # NoRun /\ run[d].epoch = epoch

\* With in-memory stores one delivery at a time is at them.  What was handed to
\* its handler since they were emptied is known to its verifier, and what has just
\* been found unknown was not handed on: nobody came in between.
TurnInv == ~shared =>
    /\ \A c, d \in Deliveries : pc[c] \in AtStore /\ pc[d] \in AtStore => c = d
    /\ \A d \in Deliveries : run[d].epoch <= epoch
    /\ \A d \in Deliveries : RanNow(d) \/ pc[d] = "event" => Known(Event(d))
    /\ \A c, d \in Deliveries :
          pc[d] \in {"mark", "event"} /\ RanNow(c) => Event(c) # Event(d)
    /\ HandledOncePerEpoch

-------------------------------------------------------------------------------
(* Helpers.                                                                  *)

\* A request that was accepted names an event and a key.
LEMMA RequestTypes ==
    ASSUME NEW d \in Deliveries, req[d] \in Requests
    PROVE  /\ Event(d) \in Events /\ Key(d) \in Keys
           /\ Event(d) \in Keys \cup Events /\ Key(d) \in Keys \cup Events
  BY DEF Requests, Event, Key

\* A record names an event, by itself or by a run; only Stripe's are just stored.
LEMMA RecordTypes ==
    ASSUME NEW record \in Records
    PROVE  /\ record # NoRecord
           /\ record.event \in Events
           /\ record.kind \in {"stored", "output"}
           /\ record.kind = "stored" => record.event \in StripeEvents
           /\ record.kind = "output" => record.by \in Deliveries
  BY SlotsApart DEF Records, StoredEvent, Output, Record, NoRecord, Events

\* What a completed run did stays true.
LEMMA TruthStays ==
    ASSUME NEW record, Truthful(record),
           \A q \in Deliveries :
              run[q].state = "completed" => run'[q] = run[q] /\ Event(q)' = Event(q)
    PROVE  Truthful(record)'
  BY DEF Truthful

\* A step of one delivery: the others stay as they were, and so does its own run
\* once it has completed.  It takes a record from the store, or makes that of its
\* own run, and stores the one it holds.
LEMMA OneDeliveryMoves ==
    ASSUME Inv, NEW d \in Deliveries, TypeOK', DeliveryHolds(d)',
           \A q \in Deliveries \ {d} :
              /\ pc'[q] = pc[q] /\ req'[q] = req[q] /\ result'[q] = result[q]
              /\ reply'[q] = reply[q] /\ run'[q] = run[q],
           run[d].state = "completed" => run'[d] = run[d] /\ req'[d] = req[d],
           \/ result'[d] = result[d]
           \/ \E s \in Keys \cup Events : result'[d] = idem[s]
           \/ /\ result'[d] = Output(Event(d), d)
              /\ run'[d].state = "completed" /\ req'[d] = req[d],
           \A s \in Keys \cup Events :
              idem'[s] = idem[s] \/ idem'[s].kind = "stored" \/ idem'[s] = result[d]
    PROVE  Inv'
  <1>1. \A q \in Deliveries :
           run[q].state = "completed" => run'[q] = run[q] /\ Event(q)' = Event(q)
    BY DEF Event
  <1>2. ASSUME NEW q \in Deliveries PROVE DeliveryHolds(q)'
    <2>1. CASE q = d
      BY <2>1
    <2>2. CASE q # d
      <3>1. /\ pc'[q] = pc[q] /\ req'[q] = req[q] /\ result'[q] = result[q]
            /\ reply'[q] = reply[q] /\ run'[q] = run[q]
        BY <2>2
      <3>2. DeliveryHolds(q)
        BY DEF Inv
      <3> QED BY <3>1, <3>2 DEF DeliveryHolds, Event
    <2> QED BY <2>1, <2>2
  <1>3. ASSUME NEW s \in Keys \cup Events PROVE Truthful(idem[s])'
    <2>1. Truthful(idem[s]) /\ Truthful(result[d])
      BY DEF Inv, RecordsHold
    <2> QED BY <1>1, <2>1 DEF Truthful
  <1>4. ASSUME NEW q \in Deliveries PROVE Truthful(result[q])'
    <2>1. CASE q # d
      <3>1. Truthful(result[q]) /\ result'[q] = result[q]
        BY <2>1 DEF Inv, RecordsHold
      <3> QED BY <1>1, <3>1 DEF Truthful
    <2>2. CASE q = d /\ result'[d] = result[d]
      <3>1. Truthful(result[d])
        BY DEF Inv, RecordsHold
      <3> QED BY <1>1, <2>2, <3>1 DEF Truthful
    <2>3. CASE q = d /\ \E s \in Keys \cup Events : result'[d] = idem[s]
      <3>1. PICK s \in Keys \cup Events : result'[d] = idem[s]
        BY <2>3
      <3>2. Truthful(idem[s])
        BY DEF Inv, RecordsHold
      <3> QED BY <1>1, <2>3, <3>1, <3>2 DEF Truthful
    <2>4. CASE /\ q = d /\ result'[d] = Output(Event(d), d)
               /\ run'[d].state = "completed" /\ req'[d] = req[d]
      BY <2>4 DEF Truthful, Output, Record, Event
    <2> QED BY <2>1, <2>2, <2>3, <2>4
  <1> QED BY <1>2, <1>3, <1>4 DEF Inv, RecordsHold

\* Once the process has exited nobody executes; what was answered stays so.
LEMMA ExitKeepsInv ==
    ASSUME Inv, ProcessExits, crashes' \in 0 .. MaxCrashes PROVE Inv'
  <1>1. UNCHANGED <<shared, req, result, reply, run>>
    BY DEF ProcessExits
  <1>2. \A q \in Deliveries : pc'[q] = IF pc[q] \in Executing THEN "lost" ELSE pc[q]
    BY DEF ProcessExits
  <1>3. TypeOK'
    <2>1. pc' \in [Deliveries -> {"idle"} \cup Executing \cup Settled]
      BY DEF ProcessExits, Inv, TypeOK, Settled
    <2>2. /\ idem' \in [Keys \cup Events -> Records \cup {NoRecord}]
          /\ seen' \subseteq OnvoEvents /\ epoch' \in Nat
      BY DEF ProcessExits, Inv, TypeOK
    <2> QED BY <1>1, <2>1, <2>2 DEF Inv, TypeOK
  <1>4. ASSUME NEW q \in Deliveries PROVE DeliveryHolds(q)'
    <2>1. DeliveryHolds(q)
      BY DEF Inv
    <2>2. pc'[q] = pc[q] \/ (pc'[q] = "lost" /\ pc[q] \notin {"idle", "done"})
      BY <1>2 DEF Executing, AtStore
    <2> QED BY <1>1, <2>1, <2>2 DEF DeliveryHolds, Event
  <1>5. ASSUME NEW s \in Keys \cup Events PROVE Truthful(idem[s])'
    <2>1. idem'[s] = idem[s] \/ idem'[s] = NoRecord
      BY DEF ProcessExits
    <2>2. Truthful(idem[s])
      BY DEF Inv, RecordsHold
    <2> QED BY <1>1, <2>1, <2>2 DEF Truthful, NoRecord, Record, Event
  <1>6. \A q \in Deliveries : Truthful(result[q])'
    BY <1>1 DEF Inv, RecordsHold, Truthful, Event
  <1> QED BY <1>3, <1>4, <1>5, <1>6 DEF Inv, RecordsHold

-------------------------------------------------------------------------------
(* Truth.                                                                    *)

LEMMA InvInitially == Init => Inv
  <1> SUFFICES ASSUME Init PROVE Inv
    OBVIOUS
  <1>1. TypeOK
    BY Bound DEF Init, TypeOK
  <1>2. \A d \in Deliveries : DeliveryHolds(d)
    BY DEF Init, DeliveryHolds
  <1>3. RecordsHold
    BY DEF Init, RecordsHold, Truthful, NoRecord, Record
  <1> QED BY <1>1, <1>2, <1>3 DEF Inv

LEMMA InvStep == Inv /\ [Next]_vars => Inv'
  <1> SUFFICES ASSUME Inv, [Next]_vars PROVE Inv'
    OBVIOUS
  <1> USE DEF At
  <1>1. ASSUME NEW d \in Deliveries, Receive(d) PROVE Inv'
    <2>1. PICK rq \in Requests : req' = [req EXCEPT ![d] = rq]
      BY <1>1 DEF Receive
    <2>2. /\ pc[d] = "idle" /\ pc' = [pc EXCEPT ![d] = "check"]
          /\ UNCHANGED <<shared, result, reply, run, idem, seen, epoch, crashes>>
      BY <1>1 DEF Receive, GoTo
    <2>3. TypeOK'
      BY <2>1, <2>2 DEF Inv, TypeOK, Executing, AtStore
    <2>4. DeliveryHolds(d) /\ run[d] = NoRun
      BY <2>2 DEF Inv, DeliveryHolds
    <2>5. pc'[d] = "check" /\ req'[d] \in Requests
      BY <2>1, <2>2 DEF Inv, TypeOK
    <2>6. DeliveryHolds(d)'
      BY <2>2, <2>4, <2>5 DEF DeliveryHolds
    <2> QED BY <2>1, <2>2, <2>3, <2>4, <2>6, OneDeliveryMoves DEF Inv, TypeOK, NoRun
  <1>2. ASSUME NEW d \in Deliveries, ReturnCached(d) PROVE Inv'
    <2>1. /\ pc[d] = "check" /\ pc' = [pc EXCEPT ![d] = "return"]
          /\ idem[Key(d)] # NoRecord /\ result' = [result EXCEPT ![d] = idem[Key(d)]]
          /\ UNCHANGED <<shared, req, reply, run, idem, seen, epoch, crashes>>
      BY <1>2 DEF ReturnCached, GoTo
    <2>2. DeliveryHolds(d) /\ Key(d) \in Keys \cup Events
      BY <2>1, RequestTypes DEF Inv, DeliveryHolds
    <2>3. idem[Key(d)] \in Records
      BY <2>1, <2>2 DEF Inv, TypeOK
    <2>4. TypeOK'
      BY <2>1, <2>3 DEF Inv, TypeOK, Executing, AtStore
    <2>5. pc'[d] = "return" /\ result'[d] = idem[Key(d)]
      BY <2>1 DEF Inv, TypeOK
    <2>6. DeliveryHolds(d)'
      BY <2>1, <2>2, <2>3, <2>5 DEF DeliveryHolds
    <2>7. \E s \in Keys \cup Events : result'[d] = idem[s]
      BY <2>2, <2>5
    <2> QED BY <2>1, <2>4, <2>6, <2>7, OneDeliveryMoves DEF Inv, TypeOK
  <1>3. ASSUME NEW d \in Deliveries, StartVerify(d) \/ PassFresh(d) PROVE Inv'
    <2>1. /\ pc[d] \in {"check", "verify"}
          /\ \E point \in {"verify", "mark"} : pc' = [pc EXCEPT ![d] = point]
          /\ UNCHANGED <<shared, req, result, reply, run, idem, seen, epoch, crashes>>
      BY <1>3 DEF StartVerify, PassFresh, GoTo
    <2>2. TypeOK'
      BY <2>1 DEF Inv, TypeOK, Executing, AtStore
    <2>3. DeliveryHolds(d)
      BY DEF Inv
    <2>4. pc'[d] \in {"verify", "mark"}
      BY <2>1 DEF Inv, TypeOK
    <2>5. DeliveryHolds(d)'
      BY <2>1, <2>3, <2>4 DEF DeliveryHolds
    <2> QED BY <2>1, <2>2, <2>5, OneDeliveryMoves DEF Inv, TypeOK
  <1>4. ASSUME NEW d \in Deliveries, RejectSignature(d) \/ RejectDuplicate(d) PROVE Inv'
    <2>1. /\ pc[d] = "verify" /\ pc' = [pc EXCEPT ![d] = "done"]
          /\ \E answer \in {"invalid", "duplicate"} : reply' = [reply EXCEPT ![d] = answer]
          /\ UNCHANGED <<shared, req, result, run, idem, seen, epoch, crashes>>
      BY <1>4 DEF RejectSignature, RejectDuplicate, Return, GoTo
    <2>2. TypeOK'
      BY <2>1 DEF Inv, TypeOK, Settled
    <2>3. DeliveryHolds(d)
      BY DEF Inv
    <2>4. pc'[d] = "done" /\ reply'[d] # "ok"
      BY <2>1 DEF Inv, TypeOK
    <2>5. DeliveryHolds(d)'
      BY <2>1, <2>3, <2>4 DEF DeliveryHolds
    <2> QED BY <2>1, <2>2, <2>5, OneDeliveryMoves DEF Inv, TypeOK
  <1>5. ASSUME NEW d \in Deliveries, MarkStripe(d) \/ MarkOnvo(d) PROVE Inv'
    <2>1. /\ pc[d] = "mark" /\ pc' = [pc EXCEPT ![d] = "event"]
          /\ UNCHANGED <<shared, req, result, reply, run, epoch, crashes>>
      BY <1>5 DEF MarkStripe, MarkOnvo, GoTo
    <2>2. \/ /\ Event(d) \in StripeEvents /\ UNCHANGED seen
             /\ idem' = [idem EXCEPT ![Event(d)] = StoredEvent(Event(d))]
          \/ /\ Event(d) \in OnvoEvents /\ UNCHANGED idem
             /\ seen' = seen \cup {Event(d)}
      BY <1>5 DEF MarkStripe, MarkOnvo
    <2>3. TypeOK'
      <3>1. Event(d) \in StripeEvents => StoredEvent(Event(d)) \in Records
        BY DEF Records
      <3>2. idem' \in [Keys \cup Events -> Records \cup {NoRecord}] /\ seen' \subseteq OnvoEvents
        BY <2>2, <3>1 DEF Inv, TypeOK
      <3> QED BY <2>1, <3>2 DEF Inv, TypeOK, Executing, AtStore
    <2>4. DeliveryHolds(d)
      BY DEF Inv
    <2>5. pc'[d] = "event"
      BY <2>1 DEF Inv, TypeOK
    <2>6. DeliveryHolds(d)'
      BY <2>1, <2>4, <2>5 DEF DeliveryHolds
    <2>7. \A s \in Keys \cup Events : idem'[s] = idem[s] \/ idem'[s].kind = "stored"
      BY <2>2 DEF Inv, TypeOK, StoredEvent, Record
    <2> QED BY <2>1, <2>3, <2>6, <2>7, OneDeliveryMoves DEF Inv, TypeOK
  <1>6. ASSUME NEW d \in Deliveries, ReturnByEvent(d) PROVE Inv'
    <2>1. /\ pc[d] = "event" /\ pc' = [pc EXCEPT ![d] = "commitKey"]
          /\ idem[Event(d)] # NoRecord /\ result' = [result EXCEPT ![d] = idem[Event(d)]]
          /\ UNCHANGED <<shared, req, reply, run, idem, seen, epoch, crashes>>
      BY <1>6 DEF ReturnByEvent, GoTo
    <2>2. DeliveryHolds(d) /\ Event(d) \in Keys \cup Events
      BY <2>1, RequestTypes DEF Inv, DeliveryHolds
    <2>3. idem[Event(d)] \in Records
      BY <2>1, <2>2 DEF Inv, TypeOK
    <2>4. TypeOK'
      BY <2>1, <2>3 DEF Inv, TypeOK, Executing, AtStore
    <2>5. pc'[d] = "commitKey" /\ result'[d] = idem[Event(d)]
      BY <2>1 DEF Inv, TypeOK
    <2>6. DeliveryHolds(d)'
      BY <2>1, <2>2, <2>3, <2>5 DEF DeliveryHolds
    <2>7. \E s \in Keys \cup Events : result'[d] = idem[s]
      BY <2>2, <2>5
    <2> QED BY <2>1, <2>4, <2>6, <2>7, OneDeliveryMoves DEF Inv, TypeOK
  <1>7. ASSUME NEW d \in Deliveries, Dispatch(d) PROVE Inv'
    <2>1. /\ pc[d] = "event" /\ pc' = [pc EXCEPT ![d] = "handler"]
          /\ run' = [run EXCEPT ![d] = [state |-> "running", epoch |-> epoch]]
          /\ UNCHANGED <<shared, req, result, reply, idem, seen, epoch, crashes>>
      BY <1>7 DEF Dispatch, GoTo
    <2>2. TypeOK'
      <3>1. [state |-> "running", epoch |-> epoch] \in Runs
        BY DEF Inv, TypeOK, Runs
      <3> QED BY <2>1, <3>1 DEF Inv, TypeOK, Executing
    <2>3. DeliveryHolds(d) /\ run[d] = NoRun
      BY <2>1 DEF Inv, DeliveryHolds
    <2>4. pc'[d] = "handler" /\ run'[d].state = "running"
      BY <2>1 DEF Inv, TypeOK
    <2>5. DeliveryHolds(d)'
      BY <2>1, <2>3, <2>4 DEF DeliveryHolds
    <2> QED BY <2>1, <2>2, <2>3, <2>5, OneDeliveryMoves DEF Inv, TypeOK, NoRun
  <1>8. ASSUME NEW d \in Deliveries, HandlerCompletes(d) PROVE Inv'
    <2>1. /\ pc[d] = "handler" /\ pc' = [pc EXCEPT ![d] = "commitEvent"]
          /\ run' = [run EXCEPT ![d].state = "completed"]
          /\ result' = [result EXCEPT ![d] = Output(Event(d), d)]
          /\ UNCHANGED <<shared, req, reply, idem, seen, epoch, crashes>>
      BY <1>8 DEF HandlerCompletes, GoTo
    <2>2. DeliveryHolds(d) /\ Event(d) \in Events /\ run[d].state = "running"
      BY <2>1, RequestTypes DEF Inv, DeliveryHolds
    <2>3. run[d] \in Runs
      BY <2>2 DEF Inv, TypeOK, NoRun
    <2>4. Output(Event(d), d) \in Records
      BY <2>2 DEF Records
    <2>5. TypeOK'
      <3>1. run' \in [Deliveries -> Runs \cup {NoRun}]
        BY <2>1, <2>3 DEF Inv, TypeOK, Runs
      <3> QED BY <2>1, <2>4, <3>1 DEF Inv, TypeOK, Executing, AtStore
    <2>6. /\ pc'[d] = "commitEvent" /\ result'[d] = Output(Event(d), d)
          /\ run'[d].state = "completed"
      BY <2>1, <2>3 DEF Inv, TypeOK, Runs
    <2>7. DeliveryHolds(d)'
      BY <2>1, <2>2, <2>4, <2>6 DEF DeliveryHolds, Output, Record, Event
    <2> QED BY <2>1, <2>2, <2>5, <2>6, <2>7, OneDeliveryMoves DEF Inv, TypeOK
  <1>9. ASSUME NEW d \in Deliveries, HandlerFails(d) PROVE Inv'
    <2>1. /\ pc[d] = "handler" /\ pc' = [pc EXCEPT ![d] = "done"]
          /\ run' = [run EXCEPT ![d].state = "failed"]
          /\ reply' = [reply EXCEPT ![d] = "error"]
          /\ UNCHANGED <<shared, req, result, idem, seen, epoch, crashes>>
      BY <1>9 DEF HandlerFails, Return, GoTo
    <2>2. DeliveryHolds(d) /\ run[d].state = "running"
      BY <2>1 DEF Inv, DeliveryHolds
    <2>3. run[d] \in Runs
      BY <2>2 DEF Inv, TypeOK, NoRun
    <2>4. TypeOK'
      <3>1. run' \in [Deliveries -> Runs \cup {NoRun}]
        BY <2>1, <2>3 DEF Inv, TypeOK, Runs
      <3> QED BY <2>1, <3>1 DEF Inv, TypeOK, Settled
    <2>5. pc'[d] = "done" /\ reply'[d] = "error"
      BY <2>1 DEF Inv, TypeOK
    <2>6. DeliveryHolds(d)'
      BY <2>1, <2>2, <2>5 DEF DeliveryHolds
    <2> QED BY <2>1, <2>2, <2>4, <2>6, OneDeliveryMoves DEF Inv, TypeOK
  <1>10. ASSUME NEW d \in Deliveries, CommitEvent(d) \/ CommitKey(d) PROVE Inv'
    <2>1. /\ pc[d] \in {"commitEvent", "commitKey"}
          /\ \E point \in {"commitKey", "return"} : pc' = [pc EXCEPT ![d] = point]
          /\ \E s \in {Key(d), Event(d)} : idem' = [idem EXCEPT ![s] = result[d]]
          /\ UNCHANGED <<shared, req, result, reply, run, seen, epoch, crashes>>
      BY <1>10 DEF CommitEvent, CommitKey, GoTo
    <2>2. DeliveryHolds(d) /\ result[d] \in Records
      BY <2>1 DEF Inv, DeliveryHolds
    <2>3. TypeOK'
      BY <2>1, <2>2 DEF Inv, TypeOK, Executing, AtStore
    <2>4. pc'[d] \in {"commitKey", "return"}
      BY <2>1 DEF Inv, TypeOK
    <2>5. DeliveryHolds(d)'
      BY <2>1, <2>2, <2>4 DEF DeliveryHolds
    <2>6. \A s \in Keys \cup Events : idem'[s] = idem[s] \/ idem'[s] = result[d]
      BY <2>1 DEF Inv, TypeOK
    <2> QED BY <2>1, <2>3, <2>5, <2>6, OneDeliveryMoves DEF Inv, TypeOK
  <1>11. ASSUME NEW d \in Deliveries, Answer(d) PROVE Inv'
    <2>1. /\ pc[d] = "return" /\ pc' = [pc EXCEPT ![d] = "done"]
          /\ result[d].kind = "output" /\ reply' = [reply EXCEPT ![d] = "ok"]
          /\ UNCHANGED <<shared, req, result, run, idem, seen, epoch, crashes>>
      BY <1>11 DEF Answer, Return, GoTo
    <2>2. TypeOK'
      BY <2>1 DEF Inv, TypeOK, Settled
    <2>3. DeliveryHolds(d)
      BY DEF Inv
    <2>4. pc'[d] = "done"
      BY <2>1 DEF Inv, TypeOK
    <2>5. DeliveryHolds(d)'
      BY <2>1, <2>3, <2>4 DEF DeliveryHolds
    <2> QED BY <2>1, <2>2, <2>5, OneDeliveryMoves DEF Inv, TypeOK
  <1>12. ASSUME NEW d \in Deliveries, MisreadStored(d) PROVE Inv'
    BY <1>12, ExitKeepsInv DEF MisreadStored, Inv, TypeOK
  <1>13. CASE Crash
    <2>1. crashes' \in 0 .. MaxCrashes
      BY <1>13, Bound DEF Crash, Inv, TypeOK
    <2> QED BY <1>13, <2>1, ExitKeepsInv DEF Crash
  <1>14. CASE UNCHANGED vars
    BY <1>14 DEF vars, Inv, TypeOK, DeliveryHolds, RecordsHold, Truthful, Event
  <1> QED
    BY <1>1, <1>2, <1>3, <1>4, <1>5, <1>6, <1>7, <1>8, <1>9, <1>10, <1>11, <1>12, <1>13, <1>14
    DEF Next, Step, Verify, AllSettled

LEMMA InvAlways == Spec => []Inv
  BY InvInitially, InvStep, PTL DEF Spec

-------------------------------------------------------------------------------
(* Once.                                                                     *)

\* A delivery that takes its turn: nobody else is at the stores, which forget
\* nothing.  It gets to the event gate past its verifier only.
LEMMA TurnMoves ==
    ASSUME Inv, TurnInv, ~shared, NEW d \in Deliveries, Turn(d),
           shared' = shared, epoch' = epoch,
           \A q \in Deliveries \ {d} : pc'[q] = pc[q] /\ req'[q] = req[q] /\ run'[q] = run[q],
           run'[d].epoch = run[d].epoch,
           run'[d] # NoRun => run[d] # NoRun /\ req'[d] = req[d],
           \A e \in Events : Known(e) => Known(e)',
           \A q \in Deliveries : run[q] # NoRun => Event(q) \in Events,
           pc'[d] = "mark" => ~Known(Event(d)) /\ req'[d] = req[d],
           pc'[d] = "event" => pc[d] = "mark" /\ Known(Event(d))' /\ req'[d] = req[d]
    PROVE  TurnInv'
  <1>1. \A q \in Deliveries \ {d} : pc[q] \notin AtStore /\ pc'[q] \notin AtStore
    BY DEF Turn
  <1>2. \A q \in Deliveries : run'[q] # NoRun =>
           run[q] # NoRun /\ run'[q].epoch = run[q].epoch /\ Event(q)' = Event(q)
    BY DEF Event
  <1>3. \A q \in Deliveries : RanNow(q)' => RanNow(q) /\ Event(q)' = Event(q)
    BY <1>2 DEF RanNow
  <1>4. \A q, c \in Deliveries : pc'[q] \in AtStore /\ pc'[c] \in AtStore => q = c
    BY <1>1
  <1>5. \A q \in Deliveries : run'[q].epoch <= epoch'
    BY DEF TurnInv
  <1>6. ASSUME NEW q \in Deliveries, RanNow(q)' \/ pc'[q] = "event"
        PROVE  Known(Event(q))'
    <2>1. CASE RanNow(q)'
      <3>1. RanNow(q) /\ Event(q)' = Event(q) /\ Event(q) \in Events
        BY <1>3, <2>1 DEF RanNow
      <3>2. Known(Event(q))
        BY <3>1 DEF TurnInv
      <3> QED BY <3>1, <3>2 DEF Known
    <2>2. CASE pc'[q] = "event"
      BY <1>1, <2>2 DEF AtStore
    <2> QED BY <1>6, <2>1, <2>2
  <1>7. ASSUME NEW c \in Deliveries, NEW q \in Deliveries,
               pc'[q] \in {"mark", "event"}, RanNow(c)'
        PROVE  Event(c)' # Event(q)'
    <2>1. q = d /\ RanNow(c) /\ Event(c)' = Event(c) /\ Event(d)' = Event(d)
      BY <1>1, <1>3, <1>7 DEF AtStore, Event
    <2>2. CASE pc'[d] = "mark"
      BY <2>1, <2>2 DEF TurnInv
    <2>3. CASE pc'[d] = "event"
      BY <2>1, <2>3 DEF TurnInv
    <2> QED BY <1>7, <2>1, <2>2, <2>3
  <1>8. HandledOncePerEpoch'
    BY <1>2 DEF TurnInv, HandledOncePerEpoch
  <1> QED BY <1>4, <1>5, <1>6, <1>7, <1>8 DEF TurnInv

\* An event is handed on when no run of this epoch has it.
LEMMA DispatchKeepsTurns ==
    ASSUME Inv, TurnInv, ~shared, NEW d \in Deliveries, Dispatch(d)
    PROVE  TurnInv'
  <1>1. /\ pc[d] = "event" /\ Turn(d) /\ pc' = [pc EXCEPT ![d] = "handler"]
        /\ run' = [run EXCEPT ![d] = [state |-> "running", epoch |-> epoch]]
        /\ UNCHANGED <<shared, req, result, reply, idem, seen, epoch, crashes>>
    BY DEF Dispatch, At, GoTo
  <1>2. \A q \in Deliveries : /\ pc'[q] \notin AtStore
                              /\ q # d => run'[q] = run[q]
    BY <1>1 DEF Inv, TypeOK, Turn, AtStore
  <1>3. run'[d] = [state |-> "running", epoch |-> epoch] /\ epoch \in Nat
    BY <1>1 DEF Inv, TypeOK
  <1>4. \A q \in Deliveries : run'[q].epoch <= epoch'
    BY <1>1, <1>2, <1>3 DEF TurnInv
  <1>5. ASSUME NEW q \in Deliveries, RanNow(q)' PROVE Known(Event(q))'
    <2>1. Known(Event(q))
      BY <1>1, <1>2, <1>5 DEF RanNow, TurnInv
    <2> QED BY <1>1, <2>1 DEF Known, Event
  <1>6. \A q \in Deliveries : RanNow(q) => Event(q) # Event(d)
    BY <1>1 DEF TurnInv
  <1>7. HandledOncePerEpoch'
    <2> SUFFICES ASSUME NEW b \in Deliveries, NEW c \in Deliveries,
                        run'[b] # NoRun, run'[c] # NoRun,
                        Event(b) = Event(c), run'[b].epoch = run'[c].epoch
                 PROVE  b = c
      BY <1>1 DEF HandledOncePerEpoch, Event
    <2>1. CASE b # d /\ c # d
      BY <1>2, <2>1 DEF TurnInv, HandledOncePerEpoch
    <2>2. CASE b = d /\ c # d
      BY <1>2, <1>3, <1>6, <2>2 DEF RanNow
    <2>3. CASE b # d /\ c = d
      BY <1>2, <1>3, <1>6, <2>3 DEF RanNow
    <2> QED BY <2>1, <2>2, <2>3
  <1> QED BY <1>2, <1>4, <1>5, <1>7 DEF TurnInv, AtStore

\* The stores are emptied, and a new epoch begins, in which nothing ran.
LEMMA ExitKeepsTurns ==
    ASSUME Inv, TurnInv, ~shared, ProcessExits PROVE TurnInv'
  <1>1. UNCHANGED <<shared, req, run>> /\ epoch' = epoch + 1 /\ epoch \in Nat
    BY DEF ProcessExits, Inv, TypeOK
  <1>2. \A q \in Deliveries : pc'[q] \notin AtStore
    BY DEF ProcessExits, Executing, AtStore
  <1>3. \A q \in Deliveries : run[q].epoch \in Nat
    BY DEF Inv, TypeOK, Runs, NoRun
  <1>4. \A q \in Deliveries : ~RanNow(q)' /\ run'[q].epoch <= epoch'
    BY <1>1, <1>3 DEF TurnInv, RanNow
  <1>5. HandledOncePerEpoch'
    BY <1>1 DEF TurnInv, HandledOncePerEpoch, Event
  <1> QED BY <1>2, <1>4, <1>5 DEF TurnInv, AtStore

LEMMA TurnStep == Inv /\ TurnInv /\ [Next]_vars => TurnInv'
  <1> SUFFICES ASSUME Inv, TurnInv, [Next]_vars, ~shared PROVE TurnInv'
    <2>1. ASSUME NEW d \in Deliveries, Receive(d) \/ Step(d) PROVE shared' = shared
      <3>1. CASE Verify(d)
        BY <3>1 DEF Verify, RejectSignature, RejectDuplicate, PassFresh, MarkStripe, MarkOnvo
      <3>2. CASE MisreadStored(d)
        BY <3>2 DEF MisreadStored, ProcessExits
      <3> QED
        BY <2>1, <3>1, <3>2 DEF Step, Receive, ReturnCached, StartVerify, ReturnByEvent,
            Dispatch, HandlerCompletes, HandlerFails, CommitEvent, CommitKey, Answer
    <2>2. Crash \/ UNCHANGED vars => shared' = shared
      BY DEF Crash, ProcessExits, vars
    <2> QED BY <2>1, <2>2 DEF Next, AllSettled, TurnInv
  <1>1. \A q \in Deliveries :
           /\ DeliveryHolds(q)
           /\ run[q] # NoRun => Event(q) \in Events
    <2>1. \A q \in Deliveries : DeliveryHolds(q)
      BY DEF Inv
    <2> QED BY <2>1, RequestTypes DEF DeliveryHolds
  <1> USE DEF At, GoTo
  <1>2. ASSUME NEW d \in Deliveries, Receive(d) PROVE TurnInv'
    <2>1. /\ pc[d] = "idle" /\ Turn(d) /\ pc' = [pc EXCEPT ![d] = "check"]
          /\ \E rq : req' = [req EXCEPT ![d] = rq]
          /\ UNCHANGED <<shared, result, reply, run, idem, seen, epoch, crashes>>
      BY <1>2 DEF Receive
    <2>2. run'[d] = NoRun /\ pc'[d] = "check"
      BY <1>1, <2>1 DEF DeliveryHolds, Inv, TypeOK
    <2>3. \A q \in Deliveries \ {d} : pc'[q] = pc[q] /\ req'[q] = req[q] /\ run'[q] = run[q]
      BY <2>1 DEF Inv, TypeOK
    <2>4. \A e \in Events : Known(e) => Known(e)'
      BY <2>1 DEF Known
    <2> QED BY <1>1, <2>1, <2>2, <2>3, <2>4, TurnMoves
  <1>3. ASSUME NEW d \in Deliveries,
               \/ ReturnCached(d) \/ StartVerify(d) \/ RejectSignature(d) \/ RejectDuplicate(d)
               \/ ReturnByEvent(d) \/ Answer(d)
        PROVE  TurnInv'
    <2>1. /\ Turn(d) /\ UNCHANGED <<shared, req, run, idem, seen, epoch>>
          /\ \E point \in {"return", "verify", "done", "commitKey"} :
                pc' = [pc EXCEPT ![d] = point]
      BY <1>3 DEF ReturnCached, StartVerify, RejectSignature, RejectDuplicate, ReturnByEvent,
          Answer, Return
    <2>2. pc'[d] \notin {"mark", "event"}
      BY <2>1 DEF Inv, TypeOK
    <2>3. \A q \in Deliveries \ {d} : pc'[q] = pc[q] /\ req'[q] = req[q] /\ run'[q] = run[q]
      BY <2>1 DEF Inv, TypeOK
    <2>4. \A e \in Events : Known(e) => Known(e)'
      BY <2>1 DEF Known
    <2> QED BY <1>1, <2>1, <2>2, <2>3, <2>4, TurnMoves
  <1>4. ASSUME NEW d \in Deliveries, PassFresh(d) PROVE TurnInv'
    <2>1. /\ Turn(d) /\ UNCHANGED <<shared, req, run, idem, seen, epoch>>
          /\ ~Known(Event(d)) /\ pc' = [pc EXCEPT ![d] = "mark"]
      BY <1>4 DEF PassFresh
    <2>2. pc'[d] = "mark"
      BY <2>1 DEF Inv, TypeOK
    <2>3. \A q \in Deliveries \ {d} : pc'[q] = pc[q] /\ req'[q] = req[q] /\ run'[q] = run[q]
      BY <2>1 DEF Inv, TypeOK
    <2>4. \A e \in Events : Known(e) => Known(e)'
      BY <2>1 DEF Known
    <2> QED BY <1>1, <2>1, <2>2, <2>3, <2>4, TurnMoves
  <1>5. ASSUME NEW d \in Deliveries, MarkStripe(d) \/ MarkOnvo(d) PROVE TurnInv'
    <2>1. /\ pc[d] = "mark" /\ Turn(d) /\ pc' = [pc EXCEPT ![d] = "event"]
          /\ UNCHANGED <<shared, req, run, epoch>>
          /\ \/ /\ Event(d) \in StripeEvents /\ seen' = seen
                /\ idem' = [idem EXCEPT ![Event(d)] = StoredEvent(Event(d))]
             \/ /\ Event(d) \in OnvoEvents /\ idem' = idem
                /\ seen' = seen \cup {Event(d)}
      BY <1>5 DEF MarkStripe, MarkOnvo
    <2>2. pc'[d] = "event"
      BY <2>1 DEF Inv, TypeOK
    <2>3. \A q \in Deliveries \ {d} : pc'[q] = pc[q] /\ req'[q] = req[q] /\ run'[q] = run[q]
      BY <2>1 DEF Inv, TypeOK
    <2>4. StoredEvent(Event(d)) # NoRecord
      BY DEF StoredEvent, NoRecord, Record
    <2>5. /\ \A e \in Events : Known(e) => Known(e)'
          /\ Known(Event(d))'
      BY <2>1, <2>4 DEF Known, Inv, TypeOK, Events, Event
    <2> QED BY <1>1, <2>1, <2>2, <2>3, <2>5, TurnMoves
  <1>6. ASSUME NEW d \in Deliveries, Dispatch(d) PROVE TurnInv'
    BY <1>6, DispatchKeepsTurns
  <1>7. ASSUME NEW d \in Deliveries, HandlerCompletes(d) \/ HandlerFails(d) PROVE TurnInv'
    <2>1. /\ pc[d] = "handler" /\ Turn(d) /\ UNCHANGED <<shared, req, idem, seen, epoch>>
          /\ \E point \in {"commitEvent", "done"} : pc' = [pc EXCEPT ![d] = point]
          /\ \E state \in {"completed", "failed"} : run' = [run EXCEPT ![d].state = state]
      BY <1>7 DEF HandlerCompletes, HandlerFails, Return
    <2>2. run[d] # NoRun /\ run[d] \in Runs \cup {NoRun}
      BY <1>1, <2>1 DEF DeliveryHolds, NoRun, Inv, TypeOK
    <2>3. run'[d].epoch = run[d].epoch /\ pc'[d] \notin {"mark", "event"}
      BY <2>1, <2>2 DEF Inv, TypeOK, Runs, NoRun
    <2>4. \A q \in Deliveries \ {d} : pc'[q] = pc[q] /\ req'[q] = req[q] /\ run'[q] = run[q]
      BY <2>1 DEF Inv, TypeOK
    <2>5. \A e \in Events : Known(e) => Known(e)'
      BY <2>1 DEF Known
    <2> QED BY <1>1, <2>1, <2>2, <2>3, <2>4, <2>5, TurnMoves
  <1>8. ASSUME NEW d \in Deliveries, CommitEvent(d) \/ CommitKey(d) PROVE TurnInv'
    <2>1. /\ pc[d] \in {"commitEvent", "commitKey"} /\ Turn(d)
          /\ \E point \in {"commitKey", "return"} : pc' = [pc EXCEPT ![d] = point]
          /\ \E s \in {Key(d), Event(d)} : idem' = [idem EXCEPT ![s] = result[d]]
          /\ UNCHANGED <<shared, req, run, seen, epoch>>
      BY <1>8 DEF CommitEvent, CommitKey
    <2>2. result[d] # NoRecord
      BY <1>1, <2>1, RecordTypes DEF DeliveryHolds
    <2>3. pc'[d] \notin {"mark", "event"}
      BY <2>1 DEF Inv, TypeOK
    <2>4. \A q \in Deliveries \ {d} : pc'[q] = pc[q] /\ req'[q] = req[q] /\ run'[q] = run[q]
      BY <2>1 DEF Inv, TypeOK
    <2>5. \A e \in Events : Known(e) => Known(e)'
      BY <2>1, <2>2 DEF Known, Inv, TypeOK, Events
    <2> QED BY <1>1, <2>1, <2>3, <2>4, <2>5, TurnMoves
  <1>9. ASSUME NEW d \in Deliveries, MisreadStored(d) PROVE TurnInv'
    BY <1>9, ExitKeepsTurns DEF MisreadStored
  <1>10. CASE Crash
    BY <1>10, ExitKeepsTurns DEF Crash
  <1>11. CASE UNCHANGED vars
    BY <1>11 DEF vars, TurnInv, HandledOncePerEpoch, RanNow, Known, Event
  <1> QED
    BY <1>2, <1>3, <1>4, <1>5, <1>6, <1>7, <1>8, <1>9, <1>10, <1>11
    DEF Next, Step, Verify, AllSettled

LEMMA TurnAlways == Spec => []TurnInv
  <1>1. Init => TurnInv
    BY DEF Init, TurnInv, RanNow, HandledOncePerEpoch, AtStore, NoRun
  <1> QED BY <1>1, InvInitially, InvStep, TurnStep, PTL DEF Spec

-------------------------------------------------------------------------------
(* What follows.                                                             *)

\* Every variable ranges over the values the code can put there.
THEOREM TypeCorrect == Spec => []TypeOK
  BY InvAlways, PTL DEF Inv

\* While in-memory stores remember, an event is given to its handler once: its
\* verifier marks it in the turn in which it found it unmarked, nobody else gets
\* there in between, and a mark goes only with the process.
THEOREM OneRunPerEpoch == Spec => []HandledOncePerEpoch
  <1>1. TurnInv => HandledOncePerEpoch
    BY DEF TurnInv, HandledOncePerEpoch
  <1> QED BY <1>1, TurnAlways, PTL

\* What a request key remembers of an OnvoPay event is the summary of a run that
\* completed, for any interleaving over shared stores and any exits.
THEOREM MemoryIsTrue == Spec => []RememberedWasHandled
  <1>1. ASSUME Inv, NEW k \in Keys, idem[k].event \in OnvoEvents
        PROVE  idem[k].kind = "output" /\ run[idem[k].by].state = "completed"
    <2>1. /\ k \in Keys \cup Events
          /\ idem[k] \in Records \cup {NoRecord} /\ Truthful(idem[k])
      BY <1>1 DEF Inv, TypeOK, RecordsHold
    <2>2. idem[k] # NoRecord
      BY <1>1, SlotsApart DEF NoRecord, Record, Events
    <2>3. idem[k].kind = "output"
      BY <1>1, <2>1, <2>2, RecordTypes, SlotsApart
    <2> QED BY <2>1, <2>3 DEF Truthful
  <1>2. Inv => RememberedWasHandled
    BY <1>1 DEF RememberedWasHandled
  <1> QED BY <1>2, InvAlways, PTL

\* A delivery is accepted only when some run of its event's handler has completed.
THEOREM AcceptedMeansHandled == Spec => []AcceptedWasHandled
  <1>1. Inv => AcceptedWasHandled
    BY DEF Inv, DeliveryHolds, RecordsHold, Truthful, AcceptedWasHandled, Handled
  <1> QED BY <1>1, InvAlways, PTL
===============================================================================
