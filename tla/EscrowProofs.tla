----------------------------- MODULE EscrowProofs -----------------------------
(***************************************************************************)
(* Proofs about Escrow, for every set of calls, keys and orders, every     *)
(* amount, and callers of either discipline.                               *)
(***************************************************************************)
EXTENDS Escrow, TLAPS

\* An escrow that is stored or handed out has a reference, and is settled if it
\* is called released.
Kept(escrow) == escrow # NoEscrow => escrow.ref \in Calls /\ Settled(escrow)

\* What a call holds at each point of its handler.  Only a hold opens an escrow,
\* and no other than its own.
CallHolds(r) ==
    /\ pc[r] # "idle" => req[r] \in Offered /\ id[r] \in Calls /\ (Op(r) = "hold" => id[r] = r)
    /\ pc[r] \in {"idle", "arrived", "gateway"} =>
          answer[r] = NoAnswer /\ esc[r] = [word |-> "none", paid |-> 0]
    /\ pc[r] \in {"gateway", "answered"} =>
          IF Op(r) = "hold" THEN local[r] = CreatedEscrow
                            ELSE local[r] # NoEscrow /\ Kept(local[r])
    /\ answer[r] \in Answers =>
          /\ replay[Key(r)] = [order |-> req[r], answer |-> answer[r]]
          /\ Op(r) # "hold" => answer[r].ref = local[r].ref
    /\ Kept(reply[r].out.escrow)

\* A record of the gateway's tells what it did: an opening of the call's own
\* escrow, a tranche, a settlement or a dispute.
RecordHolds(k) == replay[k] # Unused =>
    LET order == replay[k].order  ans == replay[k].answer IN
    /\ order \in Offered /\ order.key = k
    /\ ans \in Answers
    /\ esc[ans.ref].word # "none"
    /\ order.op = "hold" => ans.status = "held" /\ ans.paid = 0 /\ req[ans.ref] = order
    /\ order.op = "dispute" => ans.status = "disputed" /\ ans.paid = 0
    /\ order.op = "release" => ans.status \in {"held", "released"}
    /\ ans.status = "released" => esc[ans.ref].word = "released"

CallsHold   == \A r \in Calls : CallHolds(r)
RecordsHold == \A k \in Keys  : RecordHolds(k)
StoresHold  ==
    /\ \A i \in Calls : Kept(repo[i])
    /\ \A k \in Keys  : Kept(idem[k].escrow)
    /\ \A k \in Keys  : idem[k] # NoOutput => replay[k] # Unused

\* What was paid out of c under key k.
PaidUnder(c, k) == IF replay[k].answer.ref = c THEN replay[k].answer.paid ELSE 0

\* total[c][S] is what was paid out of c under the keys of S: nothing under none,
\* and with a further key what was paid under it on top.
Sums(total) ==
    /\ total \in [Calls -> [SUBSET Keys -> Nat]]
    /\ \A c \in Calls :
          /\ total[c][{}] = 0
          /\ \A S \in SUBSET Keys, k \in Keys :
                k \notin S => total[c][S \cup {k}] = total[c][S] + PaidUnder(c, k)
          /\ \A S, T \in SUBSET Keys : S \subseteq T => total[c][S] <= total[c][T]
          /\ total[c][Keys] = esc[c].paid

Committed == {k \in Keys : idem[k] # NoOutput}

\* The total of an entity is that of tranches whose keys are committed, each
\* counted once; a call adds the tranche of a key that is not among them.
CountedOnce(total) ==
    /\ \A i \in Calls : repo[i] # NoEscrow =>
          \E S \in SUBSET Committed : repo[i].released = total[repo[i].ref][S]
    /\ \A r \in Calls : pc[r] \in {"gateway", "answered"} /\ Op(r) # "hold" =>
          \E S \in SUBSET (Committed \ {Key(r)}) : local[r].released = total[local[r].ref][S]

Counted == \E total : Sums(total) /\ CountedOnce(total)

Inv == TypeOK /\ CallsHold /\ RecordsHold /\ StoresHold /\ Counted

-------------------------------------------------------------------------------
(* Helpers.                                                                  *)

\* An order that was accepted is one.
LEMMA OrderTypes ==
    ASSUME NEW r \in Calls, req[r] \in Offered
    PROVE  /\ req[r] \in Orders /\ Op(r) \in Operations /\ Key(r) \in Keys
           /\ req[r].part \in 0 .. Amount
  BY Parameters DEF Op, Key, Orders

\* The absent escrow and the absent outcomes are none of the real ones.
LEMMA AbsentAreNone ==
    /\ NoEscrow \notin Escrows /\ NoEscrow.ref \notin Calls
    /\ NoOutput \notin Outputs
    /\ Unused.answer.ref \notin Calls
    /\ {NoAnswer, Refused, Lost} \cap Answers = {}
  <1>1. NoEscrow.status \notin EscrowStatus
    BY DEF NoEscrow, EscrowStatus
  <1>2. NoEscrow \notin Escrows /\ NoEscrow.ref \notin Calls
    BY <1>1, Parameters DEF Escrows, NoEscrow
  <1>3. NoOutput \notin Outputs
    BY Parameters DEF Outputs, NoOutput
  <1>4. Unused.answer.ref \notin Calls
    BY Parameters DEF Unused, NoAnswer
  <1>5. {NoAnswer, Refused, Lost} \cap Answers = {}
    BY DEF NoAnswer, Refused, Lost, Answers
  <1> QED BY <1>2, <1>3, <1>4, <1>5

\* What the three ways to execute a request come to.
LEMMA Executes ==
    ASSUME Inv, NEW r \in Calls, GatewayHolds(r) \/ GatewayReleases(r) \/ GatewayDisputes(r)
    PROVE  \E word \in {"held", "released", "disputed"}, paid \in 0 .. Amount :
              /\ pc[r] = "gateway"
              /\ Executed(r, word, word, paid)
              /\ Subject(r) \in Calls
              /\ paid <= Remaining(Subject(r))
              /\ esc[Subject(r)].word # "released"
              /\ Op(r) = "hold" => word = "held" /\ paid = 0 /\ Subject(r) = r
              /\ Op(r) # "hold" => Subject(r) = local[r].ref /\ esc[Subject(r)].word # "none"
              /\ Op(r) = "release" => word \in {"held", "released"}
              /\ Op(r) = "dispute" => word = "disputed" /\ paid = 0
  <1>1. pc[r] = "gateway"
    BY DEF GatewayHolds, GatewayReleases, GatewayDisputes
  <1>2. CallHolds(r)
    BY DEF Inv, CallsHold
  <1>3. /\ req[r] \in Offered /\ esc[r].word = "none"
        /\ Op(r) # "hold" => local[r].ref \in Calls
    BY <1>1, <1>2 DEF CallHolds, Kept
  <1>4. Subject(r) \in Calls /\ (Op(r) # "hold" => Subject(r) = local[r].ref)
    BY <1>3 DEF Subject
  <1>5. esc[Subject(r)] \in [word : Words, paid : 0 .. Amount]
    BY <1>4 DEF Inv, TypeOK
  <1>6. req[r].part \in 0 .. Amount
    BY <1>3, OrderTypes
  <1>7. Remaining(Subject(r)) \in 0 .. Amount
    BY <1>5, Parameters DEF Remaining
  <1>8. CASE GatewayHolds(r)
    <2>1. Executed(r, "held", "held", 0) /\ Op(r) = "hold" /\ Subject(r) = r
      BY <1>8 DEF GatewayHolds, Subject
    <2>2. 0 \in 0 .. Amount
      BY Parameters
    <2> QED BY <1>1, <1>3, <1>4, <1>7, <2>1, <2>2
  <1>9. CASE GatewayReleases(r)
    <2>1. Op(r) = "release" /\ Asked(r) \in 0 .. Amount
      BY <1>6, <1>7, <1>9 DEF GatewayReleases, Asked
    <2>2. \/ Executed(r, "held", "held", Asked(r)) /\ Asked(r) < Remaining(Subject(r))
          \/ Executed(r, "released", "released", Asked(r)) /\ Asked(r) = Remaining(Subject(r))
      BY <1>9 DEF GatewayReleases
    <2>3. esc[Subject(r)].word \notin {"released", "none"}
      BY <1>9 DEF GatewayReleases
    <2> QED BY <1>1, <1>4, <1>7, <2>1, <2>2, <2>3
  <1>10. CASE GatewayDisputes(r)
    <2>1. Executed(r, "disputed", "disputed", 0) /\ Op(r) = "dispute"
      BY <1>10 DEF GatewayDisputes
    <2>2. 0 \in 0 .. Amount /\ esc[Subject(r)].word \notin {"released", "none"}
      BY <1>10, Parameters DEF GatewayDisputes
    <2> QED BY <1>1, <1>4, <1>7, <2>1, <2>2
  <1> QED BY <1>8, <1>9, <1>10

\* A request that is executed is recorded under the caller's key, which was not
\* used before, and its answer is delivered or lost.
LEMMA ExecutedRecords ==
    ASSUME Inv, NEW r \in Calls, req[r] \in Offered, Subject(r) \in Calls,
           NEW word, NEW paid, Executed(r, word, word, paid)
    PROVE  LET ans == [kind |-> "body", status |-> word, paid |-> paid, ref |-> Subject(r)] IN
           /\ replay[Key(r)] = Unused
           /\ replay' = [replay EXCEPT ![Key(r)] = [order |-> req[r], answer |-> ans]]
           /\ esc' = [esc EXCEPT ![Subject(r)] = [word |-> word, paid |-> esc[Subject(r)].paid + paid]]
           /\ answer' \in {[answer EXCEPT ![r] = ans], [answer EXCEPT ![r] = Lost]}
           /\ pc' = [pc EXCEPT ![r] = "answered"]
           /\ UNCHANGED <<patient, up, req, id, local, reply, storeVars>>
  <1>1. Key(r) \in Keys
    BY OrderTypes
  <1>2. replay[Key(r)] = Unused
    BY <1>1 DEF Executed, SeenBefore, PortKey
  <1>3. replay \in [Keys -> [order : Orders \cup {NoOrder}, answer : Answers \cup {NoAnswer}]]
    BY DEF Inv, TypeOK
  <1> QED BY <1>1, <1>2, <1>3 DEF Executed, Answered, PortKey

\* The outcome of a call that is answered: an entity whose total adds the tranche
\* of a key that nobody committed.
LEMMA AdvancedCounts ==
    ASSUME Inv, NEW r \in Calls, Read(r), LegalMove(r),
           NEW total, Sums(total), CountedOnce(total)
    PROVE  /\ id[r] \in Calls /\ Key(r) \in Keys
           /\ replay[Key(r)] # Unused
           /\ Advanced(r) \in Escrows
           /\ Advanced(r).ref \in Calls /\ Settled(Advanced(r))
           /\ \E S \in SUBSET (Committed \cup {Key(r)}) :
                 Advanced(r).released = total[Advanced(r).ref][S]
  <1> DEFINE k == Key(r)  e == Advanced(r)
  <1>1. pc[r] = "answered" /\ answer[r] \in Answers
    BY DEF Read
  <1>2. CallHolds(r)
    BY DEF Inv, CallsHold
  <1>3. /\ req[r] \in Offered /\ id[r] \in Calls
        /\ replay[k] = [order |-> req[r], answer |-> answer[r]]
        /\ IF Op(r) = "hold" THEN local[r] = CreatedEscrow
           ELSE local[r] # NoEscrow /\ Kept(local[r]) /\ answer[r].ref = local[r].ref
    BY <1>1, <1>2 DEF CallHolds
  <1>4. k \in Keys /\ Op(r) \in Operations
    BY <1>3, OrderTypes
  <1>5. /\ replay[k] # Unused
        /\ answer[r].status \in EscrowStatus /\ answer[r].paid \in 0 .. Amount /\ answer[r].ref \in Calls
    BY <1>1, <1>3, AbsentAreNone DEF Answers, Unused
  <1>6. RecordHolds(k)
    BY <1>4 DEF Inv, RecordsHold
  <1>7. answer[r].status = "released" => esc[answer[r].ref].word = "released"
    BY <1>3, <1>5, <1>6 DEF RecordHolds
  <1>8. PaidUnder(answer[r].ref, k) = answer[r].paid
    BY <1>3 DEF PaidUnder
  <1>9. e.status \in EscrowStatus /\ e.ref = answer[r].ref /\ e.ref \in Calls
    BY <1>3, <1>4, <1>5 DEF Advanced, Target, EscrowStatus, CreatedEscrow, Operations
  <1>10. Settled(e)
    BY <1>3, <1>4, <1>7, <1>9 DEF Advanced, Target, Settled, CreatedEscrow, Operations
  <1>11. \E S \in SUBSET (Committed \cup {k}) : e.released = total[e.ref][S]
    <2>1. CASE Op(r) = "hold"
      <3>1. e.released = 0
        BY <1>3, <2>1 DEF Advanced, CreatedEscrow
      <3>2. {} \in SUBSET (Committed \cup {k}) /\ total[e.ref][{}] = 0
        BY <1>9 DEF Sums
      <3> QED BY <3>1, <3>2
    <2>2. CASE Op(r) # "hold"
      <3>1. PICK S \in SUBSET (Committed \ {k}) : local[r].released = total[e.ref][S]
        BY <1>1, <1>3, <1>9, <2>2 DEF CountedOnce
      <3>2. S \in SUBSET Keys /\ k \notin S
        BY DEF Committed
      <3>3. total[e.ref][S \cup {k}] = total[e.ref][S] + PaidUnder(e.ref, k)
        BY <1>4, <1>9, <3>2 DEF Sums
      <3>4. CASE Op(r) = "release"
        <4>1. e.released = total[e.ref][S \cup {k}]
          BY <1>8, <1>9, <3>1, <3>3, <3>4 DEF Advanced
        <4>2. S \cup {k} \in SUBSET (Committed \cup {k})
          OBVIOUS
        <4> HIDE DEF e, k
        <4> QED BY <4>1, <4>2
      <3>5. CASE Op(r) = "dispute"
        <4>1. e.released = total[e.ref][S] + 0 /\ total[e.ref][S] \in Nat
          BY <1>9, <3>1, <3>2, <3>5 DEF Advanced, Sums
        <4>2. S \in SUBSET (Committed \cup {k})
          OBVIOUS
        <4> HIDE DEF e, k
        <4> QED BY <4>1, <4>2
      <3> QED BY <1>4, <2>2, <3>4, <3>5 DEF Operations
    <2> QED BY <2>1, <2>2
  <1>12. e.released \in 0 .. Amount
    <2>1. PICK S \in SUBSET (Committed \cup {k}) : e.released = total[e.ref][S]
      BY <1>11
    <2>2. S \in SUBSET Keys
      BY <1>4 DEF Committed
    <2>3. total[e.ref][S] \in Nat /\ total[e.ref][S] <= total[e.ref][Keys]
      BY <1>9, <2>2 DEF Sums
    <2>4. total[e.ref][Keys] = esc[e.ref].paid /\ esc[e.ref].paid \in 0 .. Amount
      BY <1>9 DEF Sums, Inv, TypeOK
    <2> HIDE DEF e
    <2> QED BY <2>1, <2>3, <2>4, Parameters
  <1>13. e \in Escrows
    <2>1. e = [status |-> e.status, released |-> e.released, ref |-> e.ref]
      BY DEF Advanced
    <2> HIDE DEF e
    <2> QED BY <1>9, <1>12, <2>1 DEF Escrows
  <1> QED BY <1>3, <1>4, <1>5, <1>9, <1>10, <1>11, <1>13

-------------------------------------------------------------------------------
(* The invariant holds initially.                                            *)

LEMMA InitInv == Init => Inv
  <1> SUFFICES ASSUME Init PROVE Inv
    OBVIOUS
  <1>1. TypeOK
    BY Parameters DEF Init, TypeOK, Words, NoReply, Unused
  <1>2. CallsHold
    BY AbsentAreNone DEF Init, CallsHold, CallHolds, Kept, NoReply, NoOutput
  <1>3. RecordsHold
    BY DEF Init, RecordsHold, RecordHolds
  <1>4. StoresHold
    BY DEF Init, StoresHold, Kept, NoOutput
  <1>5. Counted
    <2> DEFINE zero == [c \in Calls |-> [S \in SUBSET Keys |-> 0]]
    <2>1. \A c \in Calls, k \in Keys : PaidUnder(c, k) = 0
      BY AbsentAreNone DEF Init, PaidUnder
    <2>2. \A c \in Calls : esc[c].paid = 0
      BY DEF Init
    <2>3. Sums(zero)
      BY <2>1, <2>2 DEF Sums
    <2>4. CountedOnce(zero)
      BY DEF Init, CountedOnce
    <2> QED BY <2>3, <2>4 DEF Counted
  <1> QED BY <1>1, <1>2, <1>3, <1>4, <1>5 DEF Inv

-------------------------------------------------------------------------------
(* Every step preserves its first part, the types.                           *)

LEMMA TypesPreserved == Inv /\ [Next]_vars => TypeOK'
  <1> SUFFICES ASSUME Inv, [Next]_vars PROVE TypeOK'
    OBVIOUS
  <1> USE DEF Inv
  <1>0. \A r \in Calls : CallHolds(r)
    BY DEF CallsHold
  <1>1. ASSUME NEW r \in Calls, Receive(r) PROVE TypeOK'
    <2>1. PICK order \in Offered, i \in ({r} \cup {id[q] : q \in Calls}) \ {None} :
             req' = [req EXCEPT ![r] = order] /\ id' = [id EXCEPT ![r] = i]
      BY <1>1 DEF Receive
    <2>2. order \in Orders /\ i \in Calls
      BY Parameters DEF TypeOK
    <2> QED BY <1>1, <2>1, <2>2 DEF Receive, TypeOK, storeVars, gatewayVars, Executing
  <1>2. ASSUME NEW r \in Calls, ReturnCached(r) PROVE TypeOK'
    <2>1. Key(r) \in Keys
      BY <1>0, <1>2, OrderTypes DEF CallHolds, ReturnCached
    <2>2. idem[Key(r)] \in Outputs \cup {NoOutput}
      BY <2>1 DEF TypeOK
    <2>3. OkReply(idem[Key(r)]) \in [kind : {"none", "error", "ok"}, out : Outputs \cup {NoOutput}]
      BY <2>2 DEF OkReply
    <2> QED BY <1>2, <2>3 DEF ReturnCached, Return, TypeOK, storeVars, gatewayVars
  <1>3. ASSUME NEW r \in Calls, Reject(r) \/ ReturnGatewayError(r) \/ RejectTransition(r)
        PROVE TypeOK'
    <2>1. ErrorReply \in [kind : {"none", "error", "ok"}, out : Outputs \cup {NoOutput}]
      BY DEF ErrorReply
    <2>2. /\ reply' = [reply EXCEPT ![r] = ErrorReply] /\ pc' = [pc EXCEPT ![r] = "done"]
          /\ UNCHANGED <<patient, up, req, id, local, answer, storeVars, gatewayVars>>
      BY <1>3 DEF Reject, ReturnGatewayError, RejectTransition, Return
    <2> QED BY <2>1, <2>2 DEF TypeOK, storeVars, gatewayVars
  <1>4. ASSUME NEW r \in Calls, Start(r) PROVE TypeOK'
    <2>1. id[r] \in Calls
      BY <1>0, <1>4 DEF CallHolds, Start
    <2>2. CreatedEscrow \in Escrows
      BY Parameters DEF CreatedEscrow, Escrows, EscrowStatus
    <2> QED BY <1>4, <2>1, <2>2 DEF Start, Proceed, TypeOK, Executing, storeVars, gatewayVars
  <1>5. ASSUME NEW r \in Calls, ProcessExits(r) PROVE TypeOK'
    BY <1>5 DEF ProcessExits, TypeOK, storeVars, gatewayVars
  <1>6. ASSUME NEW r \in Calls, Finish(r) PROVE TypeOK'
    <2>1. PICK total : Sums(total) /\ CountedOnce(total)
      BY DEF Counted
    <2>2. id[r] \in Calls /\ Key(r) \in Keys /\ Advanced(r) \in Escrows
      BY <1>6, <2>1, AdvancedCounts DEF Finish
    <2> DEFINE out == [id |-> id[r], escrow |-> Advanced(r)]
    <2>3. out \in Outputs
      BY <2>2 DEF Outputs
    <2>4. /\ repo' = [repo EXCEPT ![id[r]] = Advanced(r)]
          /\ idem' = [idem EXCEPT ![Key(r)] = out]
          /\ reply' = [reply EXCEPT ![r] = OkReply(out)]
          /\ pc' = [pc EXCEPT ![r] = "done"]
          /\ UNCHANGED <<patient, up, req, id, local, answer, gatewayVars>>
      BY <1>6 DEF Finish, Return
    <2>5. OkReply(out) \in [kind : {"none", "error", "ok"}, out : Outputs \cup {NoOutput}]
      BY <2>3 DEF OkReply
    <2> HIDE DEF out
    <2> QED BY <2>2, <2>3, <2>4, <2>5 DEF TypeOK, gatewayVars
  <1>7. ASSUME NEW r \in Calls, GatewayRefuses(r) PROVE TypeOK'
    BY <1>7 DEF GatewayRefuses, TypeOK, storeVars, gatewayVars, Executing
  <1>8. ASSUME NEW r \in Calls, GatewayReplays(r) PROVE TypeOK'
    <2>1. replay[PortKey(r)].answer \in Answers \cup {NoAnswer}
      BY <1>8 DEF GatewayReplays, SeenBefore, TypeOK
    <2> QED BY <1>8, <2>1 DEF GatewayReplays, Answered, TypeOK, storeVars, gatewayVars, Executing
  <1>9. ASSUME NEW r \in Calls, GatewayHolds(r) \/ GatewayReleases(r) \/ GatewayDisputes(r)
        PROVE TypeOK'
    <2>1. PICK word \in {"held", "released", "disputed"}, paid \in 0 .. Amount :
             /\ pc[r] = "gateway" /\ Subject(r) \in Calls
             /\ Executed(r, word, word, paid) /\ paid <= Remaining(Subject(r))
      BY <1>9, Executes
    <2> DEFINE ans == [kind |-> "body", status |-> word, paid |-> paid, ref |-> Subject(r)]
    <2>2. req[r] \in Offered
      BY <1>0, <2>1 DEF CallHolds
    <2>3. Key(r) \in Keys /\ req[r] \in Orders
      BY <2>2, OrderTypes
    <2>4. ans \in Answers
      BY <2>1 DEF Answers, EscrowStatus
    <2>5. [order |-> req[r], answer |-> ans] \in
             [order : Orders \cup {NoOrder}, answer : Answers \cup {NoAnswer}]
      BY <2>3, <2>4
    <2>6. /\ replay' = [replay EXCEPT ![Key(r)] = [order |-> req[r], answer |-> ans]]
          /\ esc' = [esc EXCEPT ![Subject(r)] = [word |-> word, paid |-> esc[Subject(r)].paid + paid]]
          /\ answer' \in {[answer EXCEPT ![r] = ans], [answer EXCEPT ![r] = Lost]}
          /\ pc' = [pc EXCEPT ![r] = "answered"]
          /\ UNCHANGED <<patient, up, req, id, local, reply, storeVars>>
      BY <2>1, <2>2, ExecutedRecords
    <2>7. esc[Subject(r)].paid + paid \in 0 .. Amount
      <3>1. esc[Subject(r)].paid \in 0 .. Amount
        BY <2>1 DEF TypeOK
      <3> QED BY <2>1, <3>1, Parameters DEF Remaining
    <2>8. esc' \in [Calls -> [word : Words, paid : 0 .. Amount]]
      BY <2>6, <2>7 DEF TypeOK, Words
    <2>9. answer' \in [Calls -> Answers \cup {NoAnswer, Refused, Lost}]
      BY <2>4, <2>6 DEF TypeOK
    <2>10. replay' \in [Keys -> [order : Orders \cup {NoOrder}, answer : Answers \cup {NoAnswer}]]
      BY <2>3, <2>5, <2>6 DEF TypeOK
    <2> HIDE DEF ans
    <2> QED BY <2>6, <2>8, <2>9, <2>10 DEF TypeOK, storeVars, Executing
  <1>10. ASSUME NEW c \in Calls, DisputeResolved(c) PROVE TypeOK'
    <2>1. PICK word \in {"awarded", "refunded"} : esc' = [esc EXCEPT ![c].word = word]
      BY <1>10 DEF DisputeResolved
    <2>2. esc' \in [Calls -> [word : Words, paid : 0 .. Amount]]
      BY <2>1 DEF TypeOK, Words
    <2> QED BY <1>10, <2>2 DEF DisputeResolved, TypeOK, processVars, storeVars
  <1>11. ASSUME UNCHANGED vars PROVE TypeOK'
    BY <1>11 DEF vars, processVars, storeVars, gatewayVars, TypeOK
  <1> QED BY <1>1, <1>2, <1>3, <1>4, <1>5, <1>6, <1>7, <1>8, <1>9, <1>10, <1>11
          DEF Next, Handler, GatewayActs, AllDone

-------------------------------------------------------------------------------
(* What no step takes back: a settlement, an opening, a record, a commit; and  *)
(* a call that has not been at the gateway has no escrow there.              *)

Grows ==
    /\ \A c \in Calls : esc[c].word = "released" => esc'[c].word = "released"
    /\ \A c \in Calls : esc[c].word # "none" => esc'[c].word # "none"
    /\ \A k \in Keys  : replay[k] # Unused => replay'[k] = replay[k]
    /\ \A k \in Keys  : idem[k] # NoOutput => idem'[k] # NoOutput
    /\ \A q \in Calls : pc'[q] \in {"idle", "arrived", "gateway"} => esc'[q] = esc[q]

LEMMA StepsGrow == Inv /\ [Next]_vars => Grows
  <1> SUFFICES ASSUME Inv, [Next]_vars PROVE Grows
    OBVIOUS
  <1> USE DEF Inv
  <1>0. \A r \in Calls : CallHolds(r)
    BY DEF CallsHold
  <1>01. ASSUME NEW q \in Calls, pc[q] \in {"idle", "arrived", "gateway"} PROVE esc[q].word = "none"
    <2>1. esc[q] = [word |-> "none", paid |-> 0]
      BY <1>0, <1>01 DEF CallHolds
    <2> QED BY <2>1
  <1>1. CASE UNCHANGED <<esc, replay, idem>>
    BY <1>1 DEF Grows
  <1>2. ASSUME NEW r \in Calls, Finish(r) PROVE Grows
    <2>1. PICK total : Sums(total) /\ CountedOnce(total)
      BY DEF Counted
    <2>2. id[r] \in Calls /\ Key(r) \in Keys
      BY <1>2, <2>1, AdvancedCounts DEF Finish
    <2>3. idem' = [idem EXCEPT ![Key(r)] = [id |-> id[r], escrow |-> Advanced(r)]]
          /\ UNCHANGED <<esc, replay>>
      BY <1>2 DEF Finish, gatewayVars
    <2>4. [id |-> id[r], escrow |-> Advanced(r)] # NoOutput
      BY <2>2, Parameters DEF NoOutput
    <2>5. \A k \in Keys : idem[k] # NoOutput => idem'[k] # NoOutput
      BY <2>3, <2>4 DEF TypeOK
    <2> QED BY <2>3, <2>5 DEF Grows
  <1>3. ASSUME NEW r \in Calls, GatewayHolds(r) \/ GatewayReleases(r) \/ GatewayDisputes(r)
        PROVE Grows
    <2>1. PICK word \in {"held", "released", "disputed"}, paid \in 0 .. Amount :
             /\ pc[r] = "gateway" /\ Subject(r) \in Calls
             /\ Executed(r, word, word, paid)
             /\ esc[Subject(r)].word # "released"
             /\ Op(r) = "hold" => Subject(r) = r
             /\ Op(r) # "hold" => esc[Subject(r)].word # "none"
      BY <1>3, Executes
    <2> DEFINE rec == [order |-> req[r], answer |->
                         [kind |-> "body", status |-> word, paid |-> paid, ref |-> Subject(r)]]
               next == [word |-> word, paid |-> esc[Subject(r)].paid + paid]
    <2>2. req[r] \in Offered
      BY <1>0, <2>1 DEF CallHolds
    <2>3. /\ replay[Key(r)] = Unused
          /\ replay' = [replay EXCEPT ![Key(r)] = rec]
          /\ esc' = [esc EXCEPT ![Subject(r)] = next]
          /\ pc' = [pc EXCEPT ![r] = "answered"]
          /\ UNCHANGED storeVars
      BY <2>1, <2>2, ExecutedRecords
    <2>4. next.word \notin {"none"}
      BY <2>1
    <2> HIDE DEF rec, next
    <2>5. \A k \in Keys : replay[k] # Unused => replay'[k] = replay[k]
      BY <2>3 DEF TypeOK
    <2>6. \A c \in Calls : /\ esc[c].word = "released" => esc'[c].word = "released"
                           /\ esc[c].word # "none" => esc'[c].word # "none"
      BY <2>1, <2>3, <2>4 DEF TypeOK
    <2>7. ASSUME NEW q \in Calls, pc'[q] \in {"idle", "arrived", "gateway"}
          PROVE  esc'[q] = esc[q]
      <3>1. q # r /\ pc'[q] = pc[q]
        BY <2>3, <2>7 DEF TypeOK
      <3>2. esc[q].word = "none"
        BY <1>01, <2>7, <3>1
      <3>3. q # Subject(r)
        BY <2>1, <3>1, <3>2
      <3> QED BY <2>3, <3>3 DEF TypeOK
    <2> QED BY <2>3, <2>5, <2>6, <2>7 DEF Grows, storeVars
  <1>4. ASSUME NEW c \in Calls, DisputeResolved(c) PROVE Grows
    <2>1. PICK word \in {"awarded", "refunded"} :
             /\ esc[c].word = "disputed" /\ esc' = [esc EXCEPT ![c].word = word]
             /\ UNCHANGED <<pc, idem, replay>>
      BY <1>4 DEF DisputeResolved, processVars, storeVars
    <2>2. \A d \in Calls : d # c => esc'[d] = esc[d]
      BY <2>1 DEF TypeOK
    <2>3. esc'[c].word = word
      BY <2>1 DEF TypeOK
    <2>4. pc'[c] \notin {"idle", "arrived", "gateway"}
      BY <1>01, <2>1
    <2> QED BY <2>1, <2>2, <2>3, <2>4 DEF Grows
  <1>5. ASSUME NEW r \in Calls,
               \/ Receive(r) \/ ReturnCached(r) \/ Reject(r) \/ Start(r) \/ ReturnGatewayError(r)
               \/ RejectTransition(r) \/ ProcessExits(r) \/ GatewayRefuses(r) \/ GatewayReplays(r)
        PROVE UNCHANGED <<esc, replay, idem>>
    <2>1. CASE Receive(r) \/ ReturnCached(r) \/ Reject(r)
      BY <2>1 DEF Receive, ReturnCached, Reject, storeVars, gatewayVars
    <2>2. CASE Start(r) \/ ReturnGatewayError(r) \/ RejectTransition(r)
      BY <2>2 DEF Start, Proceed, ReturnGatewayError, RejectTransition, storeVars, gatewayVars
    <2>3. CASE ProcessExits(r) \/ GatewayRefuses(r) \/ GatewayReplays(r)
      BY <2>3 DEF ProcessExits, GatewayRefuses, GatewayReplays, Answered, storeVars, gatewayVars
    <2> QED BY <1>5, <2>1, <2>2, <2>3
  <1>6. ASSUME UNCHANGED vars PROVE UNCHANGED <<esc, replay, idem>>
    BY <1>6 DEF vars, storeVars, gatewayVars
  <1> QED BY <1>1, <1>2, <1>3, <1>4, <1>5, <1>6 DEF Next, Handler, GatewayActs, AllDone

-------------------------------------------------------------------------------
(* Every step preserves what the calls hold.                                 *)

\* A call that takes no part in a step keeps what it holds.
LEMMA OthersKeep ==
    ASSUME Inv, Grows, NEW q \in Calls,
           pc'[q] = pc[q], req'[q] = req[q], id'[q] = id[q], local'[q] = local[q],
           answer'[q] = answer[q], reply'[q] = reply[q]
    PROVE  CallHolds(q)'
  <1>1. CallHolds(q)
    BY DEF Inv, CallsHold
  <1>2. \A escrow : Kept(escrow) => Kept(escrow)'
    BY DEF Grows, Kept, Settled
  <1>3. (Op(q) = Op(q)') /\ (Key(q) = Key(q)')
    BY DEF Op, Key
  <1>4. pc[q] \in {"idle", "arrived", "gateway"} => esc'[q] = esc[q]
    BY DEF Grows
  <1>5. answer[q] \in Answers => replay'[Key(q)] = replay[Key(q)]
    <2> SUFFICES ASSUME answer[q] \in Answers PROVE replay'[Key(q)] = replay[Key(q)]
      OBVIOUS
    <2>1. pc[q] # "idle" /\ replay[Key(q)] # Unused
      BY <1>1, AbsentAreNone DEF CallHolds, Unused
    <2>2. Key(q) \in Keys
      BY <1>1, <2>1, OrderTypes DEF CallHolds
    <2> QED BY <2>1, <2>2 DEF Grows
  <1> QED BY <1>1, <1>2, <1>3, <1>4, <1>5 DEF CallHolds

LEMMA CallsPreserved == Inv /\ [Next]_vars => CallsHold'
  <1> SUFFICES ASSUME Inv, [Next]_vars, NEW q \in Calls PROVE CallHolds(q)'
    BY DEF CallsHold
  <1> USE DEF Inv
  <1>a. Grows
    BY StepsGrow
  <1>b. CallHolds(q)
    BY DEF CallsHold
  <1>c. \A escrow : Kept(escrow) => Kept(escrow)'
    BY <1>a DEF Grows, Kept, Settled
  <1>d. pc'[q] \in {"idle", "arrived", "gateway"} => esc'[q] = esc[q]
    BY <1>a DEF Grows
  <1>e. ASSUME answer[q] \in Answers PROVE Key(q) \in Keys /\ replay'[Key(q)] = replay[Key(q)]
    <2>1. pc[q] # "idle" /\ replay[Key(q)] # Unused
      BY <1>b, <1>e, AbsentAreNone DEF CallHolds, Unused
    <2>2. Key(q) \in Keys
      BY <1>b, <2>1, OrderTypes DEF CallHolds
    <2> QED BY <1>a, <2>1, <2>2 DEF Grows
  <1>1. ASSUME NEW r \in Calls, Receive(r) PROVE CallHolds(q)'
    <2>1. CASE q # r
      BY <1>1, <1>a, <2>1, OthersKeep DEF Receive, TypeOK
    <2>2. CASE q = r
      <3>1. PICK order \in Offered, i \in ({r} \cup {id[p] : p \in Calls}) \ {None} :
               /\ order.op = "hold" => i = r
               /\ req' = [req EXCEPT ![r] = order] /\ id' = [id EXCEPT ![r] = i]
        BY <1>1 DEF Receive
      <3>2. i \in Calls /\ req'[r] = order /\ id'[r] = i /\ Op(r)' = order.op
        BY <3>1 DEF TypeOK, Op
      <3>3. pc[r] = "idle" /\ pc'[r] = "arrived" /\ UNCHANGED <<answer, reply>>
        BY <1>1 DEF Receive, TypeOK
      <3>4. answer'[r] = NoAnswer /\ NoAnswer \notin Answers
        BY <1>b, <2>2, <3>3, AbsentAreNone DEF CallHolds
      <3> QED BY <1>b, <1>c, <1>d, <2>2, <3>1, <3>2, <3>3, <3>4 DEF CallHolds
    <2> QED BY <2>1, <2>2
  <1>2. ASSUME NEW r \in Calls,
               ReturnCached(r) \/ Reject(r) \/ ReturnGatewayError(r) \/ RejectTransition(r)
        PROVE CallHolds(q)'
    <2>1. PICK rep \in {OkReply(idem[Key(r)]), ErrorReply} :
             /\ pc[r] \in {"arrived", "answered"}
             /\ pc' = [pc EXCEPT ![r] = "done"] /\ reply' = [reply EXCEPT ![r] = rep]
             /\ UNCHANGED <<req, id, local, answer>>
             /\ rep = OkReply(idem[Key(r)]) => pc[r] = "arrived"
      <3>1. CASE ReturnCached(r)
        BY <3>1 DEF ReturnCached, Return
      <3>2. ErrorReply # OkReply(idem[Key(r)])
        BY DEF ErrorReply, OkReply
      <3>3. CASE Reject(r) \/ ReturnGatewayError(r) \/ RejectTransition(r)
        BY <3>2, <3>3 DEF Reject, ReturnGatewayError, RejectTransition, Return, Read
      <3> QED BY <1>2, <3>1, <3>3
    <2>2. CASE q # r
      BY <1>a, <2>1, <2>2, OthersKeep DEF TypeOK
    <2>3. CASE q = r
      <3>1. Key(r) \in Keys
        BY <1>b, <2>1, <2>3, OrderTypes DEF CallHolds
      <3>2. Kept(rep.out.escrow)
        BY <2>1, <3>1 DEF StoresHold, OkReply, ErrorReply, NoOutput, Kept
      <3>3. pc'[q] = "done" /\ reply'[q] = rep
        BY <2>1, <2>3 DEF TypeOK
      <3>4. (Op(q) = Op(q)') /\ (Key(q) = Key(q)')
        BY <2>1 DEF Op, Key
      <3> QED BY <1>b, <1>c, <1>e, <2>1, <2>3, <3>2, <3>3, <3>4 DEF CallHolds
    <2> QED BY <2>2, <2>3
  <1>3. ASSUME NEW r \in Calls, Start(r) PROVE CallHolds(q)'
    <2>1. /\ pc[r] = "arrived" /\ pc' = [pc EXCEPT ![r] = "gateway"]
          /\ local' = [local EXCEPT ![r] = IF Op(r) = "hold" THEN CreatedEscrow ELSE repo[id[r]]]
          /\ Op(r) # "hold" => repo[id[r]].ref # None
          /\ UNCHANGED <<req, id, answer, reply>>
      BY <1>3 DEF Start, Proceed
    <2>2. CASE q # r
      BY <1>a, <2>1, <2>2, OthersKeep DEF TypeOK
    <2>3. CASE q = r
      <3>1. id[r] \in Calls
        BY <1>b, <2>1, <2>3 DEF CallHolds
      <3>2. Op(r) # "hold" => repo[id[r]] # NoEscrow /\ Kept(repo[id[r]])
        BY <2>1, <3>1 DEF StoresHold, NoEscrow
      <3>3. pc'[r] = "gateway"
            /\ local'[r] = IF Op(r) = "hold" THEN CreatedEscrow ELSE repo[id[r]]
        BY <2>1 DEF TypeOK
      <3>4. answer[q] = NoAnswer /\ NoAnswer \notin Answers
        BY <1>b, <2>1, <2>3, AbsentAreNone DEF CallHolds
      <3>5. (Op(q) = Op(q)') /\ (Key(q) = Key(q)')
        BY <2>1 DEF Op, Key
      <3> QED BY <1>b, <1>c, <1>d, <2>1, <2>3, <3>2, <3>3, <3>4, <3>5 DEF CallHolds
    <2> QED BY <2>2, <2>3
  <1>4. ASSUME NEW r \in Calls, Finish(r) PROVE CallHolds(q)'
    <2>1. PICK total : Sums(total) /\ CountedOnce(total)
      BY DEF Counted
    <2>2. Kept(Advanced(r))
      BY <1>4, <2>1, AdvancedCounts DEF Finish, Kept
    <2>3. /\ pc[r] = "answered" /\ pc' = [pc EXCEPT ![r] = "done"]
          /\ reply' = [reply EXCEPT ![r] = OkReply([id |-> id[r], escrow |-> Advanced(r)])]
          /\ UNCHANGED <<req, id, local, answer>>
      BY <1>4 DEF Finish, Read, Return
    <2>4. CASE q # r
      BY <1>a, <2>3, <2>4, OthersKeep DEF TypeOK
    <2>5. CASE q = r
      <3>1. pc'[q] = "done" /\ reply'[q].out.escrow = Advanced(r)
        BY <2>3, <2>5 DEF TypeOK, OkReply
      <3>2. (Op(q) = Op(q)') /\ (Key(q) = Key(q)')
        BY <2>3 DEF Op, Key
      <3> QED BY <1>b, <1>c, <1>e, <2>2, <2>3, <2>5, <3>1, <3>2 DEF CallHolds
    <2> QED BY <2>4, <2>5
  <1>5. ASSUME NEW r \in Calls, NEW ans, pc[r] = "gateway",
               pc' = [pc EXCEPT ![r] = "answered"], answer' = [answer EXCEPT ![r] = ans],
               UNCHANGED <<req, id, local, reply>>,
               ans \in Answers => /\ replay'[Key(r)] = [order |-> req[r], answer |-> ans]
                                  /\ Op(r) # "hold" => ans.ref = local[r].ref
        PROVE CallHolds(q)'
    <2>1. CASE q # r
      BY <1>5, <1>a, <2>1, OthersKeep DEF TypeOK
    <2>2. CASE q = r
      <3>1. pc'[q] = "answered" /\ answer'[q] = ans
        BY <1>5, <2>2 DEF TypeOK
      <3>2. (Op(q) = Op(q)') /\ (Key(q) = Key(q)')
        BY <1>5 DEF Op, Key
      <3> QED BY <1>5, <1>b, <1>c, <2>2, <3>1, <3>2 DEF CallHolds
    <2> QED BY <2>1, <2>2
  <1>6. ASSUME NEW r \in Calls, GatewayRefuses(r) PROVE CallHolds(q)'
    BY <1>5, <1>6, AbsentAreNone DEF GatewayRefuses
  <1>7. ASSUME NEW r \in Calls, GatewayReplays(r) PROVE CallHolds(q)'
    <2>1. /\ pc[r] = "gateway" /\ replay[Key(r)].order = req[r] /\ Key(r) \in Keys
          /\ Op(r) # "hold" => replay[Key(r)].answer.ref = local[r].ref
          /\ pc' = [pc EXCEPT ![r] = "answered"]
          /\ UNCHANGED <<req, id, local, reply, replay>>
      BY <1>7 DEF GatewayReplays, SeenBefore, PortKey, Subject, Answered, gatewayVars
    <2>2. PICK ans \in {replay[Key(r)].answer, Lost} : answer' = [answer EXCEPT ![r] = ans]
      BY <1>7 DEF GatewayReplays, Answered, PortKey
    <2>3. replay[Key(r)] = [order |-> req[r], answer |-> replay[Key(r)].answer]
      BY <2>1 DEF TypeOK
    <2>4. ans \in Answers => /\ replay'[Key(r)] = [order |-> req[r], answer |-> ans]
                             /\ Op(r) # "hold" => ans.ref = local[r].ref
      BY <2>1, <2>2, <2>3, AbsentAreNone
    <2> QED BY <1>5, <2>1, <2>2, <2>4
  <1>8. ASSUME NEW r \in Calls, GatewayHolds(r) \/ GatewayReleases(r) \/ GatewayDisputes(r)
        PROVE CallHolds(q)'
    <2>1. PICK word \in {"held", "released", "disputed"}, paid \in 0 .. Amount :
             /\ pc[r] = "gateway" /\ Subject(r) \in Calls
             /\ Executed(r, word, word, paid)
             /\ Op(r) # "hold" => Subject(r) = local[r].ref
      BY <1>8, Executes
    <2> DEFINE body == [kind |-> "body", status |-> word, paid |-> paid, ref |-> Subject(r)]
    <2>2. req[r] \in Offered
      BY <2>1 DEF CallsHold, CallHolds
    <2>3. Key(r) \in Keys
      BY <2>2, OrderTypes
    <2>4. /\ replay' = [replay EXCEPT ![Key(r)] = [order |-> req[r], answer |-> body]]
          /\ answer' \in {[answer EXCEPT ![r] = body], [answer EXCEPT ![r] = Lost]}
          /\ pc' = [pc EXCEPT ![r] = "answered"]
          /\ UNCHANGED <<req, id, local, reply>>
      BY <2>1, <2>2, ExecutedRecords
    <2>5. PICK ans \in {body, Lost} : answer' = [answer EXCEPT ![r] = ans]
      BY <2>4
    <2>6. body.ref = Subject(r)
      OBVIOUS
    <2> HIDE DEF body
    <2>7. replay'[Key(r)] = [order |-> req[r], answer |-> body]
      BY <2>3, <2>4 DEF TypeOK
    <2>8. ans \in Answers => /\ replay'[Key(r)] = [order |-> req[r], answer |-> ans]
                             /\ Op(r) # "hold" => ans.ref = local[r].ref
      BY <2>1, <2>5, <2>6, <2>7, AbsentAreNone
    <2> QED BY <1>5, <2>1, <2>4, <2>5, <2>8
  <1>9. ASSUME NEW r \in Calls, ProcessExits(r) \/ DisputeResolved(r) PROVE CallHolds(q)'
    BY <1>9, <1>a, OthersKeep DEF ProcessExits, DisputeResolved, processVars
  <1>10. ASSUME UNCHANGED vars PROVE CallHolds(q)'
    BY <1>10, <1>a, OthersKeep DEF vars, processVars
  <1> QED BY <1>1, <1>2, <1>3, <1>4, <1>6, <1>7, <1>8, <1>9, <1>10
          DEF Next, Handler, GatewayActs, AllDone

-------------------------------------------------------------------------------
(* Every step preserves what the records and the stores hold.                *)

\* The only steps that write a record.
LEMMA QuietRecords ==
    ASSUME [Next]_vars,
           ~ \E r \in Calls : GatewayHolds(r) \/ GatewayReleases(r) \/ GatewayDisputes(r)
    PROVE  UNCHANGED replay
  <1>1. ASSUME NEW r \in Calls, Receive(r) \/ ReturnCached(r) \/ Reject(r) \/ Start(r)
        PROVE UNCHANGED replay
    BY <1>1 DEF Receive, ReturnCached, Reject, Start, Proceed, gatewayVars
  <1>2. ASSUME NEW r \in Calls, ReturnGatewayError(r) \/ RejectTransition(r) \/ ProcessExits(r)
        PROVE UNCHANGED replay
    BY <1>2 DEF ReturnGatewayError, RejectTransition, ProcessExits, gatewayVars
  <1>3. ASSUME NEW r \in Calls,
               Finish(r) \/ GatewayRefuses(r) \/ GatewayReplays(r) \/ DisputeResolved(r)
        PROVE UNCHANGED replay
    BY <1>3 DEF Finish, GatewayRefuses, GatewayReplays, DisputeResolved, gatewayVars
  <1>4. ASSUME UNCHANGED vars PROVE UNCHANGED replay
    BY <1>4 DEF vars, gatewayVars
  <1> QED BY <1>1, <1>2, <1>3, <1>4 DEF Next, Handler, GatewayActs, AllDone

\* The only steps that take an order.
LEMMA QuietOrders ==
    ASSUME Inv, [Next]_vars, NEW c \in Calls, esc[c].word # "none"
    PROVE  req'[c] = req[c]
  <1>1. pc[c] # "idle"
    <2>1. CallHolds(c)
      BY DEF Inv, CallsHold
    <2>2. CASE esc[c] = [word |-> "none", paid |-> 0]
      <3>1. esc[c].word = "none"
        BY <2>2
      <3> QED BY <3>1
    <2> QED BY <2>1, <2>2 DEF CallHolds
  <1>2. ASSUME NEW r \in Calls, Receive(r) PROVE req'[c] = req[c]
    <2>1. r # c /\ \E order \in Offered : req' = [req EXCEPT ![r] = order]
      BY <1>1, <1>2 DEF Receive
    <2> QED BY <2>1 DEF Inv, TypeOK
  <1>3. ASSUME NEW r \in Calls, ReturnCached(r) \/ Reject(r) \/ Start(r) \/ ReturnGatewayError(r)
        PROVE UNCHANGED req
    BY <1>3 DEF ReturnCached, Reject, Start, Proceed, ReturnGatewayError
  <1>4. ASSUME NEW r \in Calls,
               \/ RejectTransition(r) \/ ProcessExits(r) \/ Finish(r)
               \/ GatewayRefuses(r) \/ GatewayReplays(r) \/ DisputeResolved(r)
        PROVE UNCHANGED req
    BY <1>4 DEF RejectTransition, ProcessExits, Finish, GatewayRefuses, GatewayReplays, Answered,
                DisputeResolved, processVars
  <1>5. ASSUME NEW r \in Calls, GatewayHolds(r) \/ GatewayReleases(r) \/ GatewayDisputes(r)
        PROVE UNCHANGED req
    BY <1>5 DEF GatewayHolds, GatewayReleases, GatewayDisputes, Executed, Answered
  <1>6. ASSUME UNCHANGED vars PROVE UNCHANGED req
    BY <1>6 DEF vars, processVars
  <1> QED BY <1>2, <1>3, <1>4, <1>5, <1>6 DEF Next, Handler, GatewayActs, AllDone

LEMMA RecordsPreserved == Inv /\ [Next]_vars => RecordsHold'
  <1> SUFFICES ASSUME Inv, [Next]_vars, NEW k \in Keys, replay'[k] # Unused
               PROVE  RecordHolds(k)'
    BY DEF RecordsHold, RecordHolds
  <1> USE DEF Inv
  <1>1. Grows
    BY StepsGrow
  <1>2. CASE replay[k] # Unused
    <2>1. RecordHolds(k) /\ replay'[k] = replay[k]
      BY <1>1, <1>2 DEF RecordsHold, Grows
    <2>2. replay[k].answer.ref \in Calls /\ esc[replay[k].answer.ref].word # "none"
      BY <1>2, <2>1 DEF RecordHolds, Answers
    <2>3. req'[replay[k].answer.ref] = req[replay[k].answer.ref]
      BY <2>2, QuietOrders
    <2>4. /\ esc'[replay[k].answer.ref].word # "none"
          /\ esc[replay[k].answer.ref].word = "released" => esc'[replay[k].answer.ref].word = "released"
      BY <1>1, <2>2 DEF Grows
    <2> QED BY <1>2, <2>1, <2>3, <2>4 DEF RecordHolds
  <1>3. CASE replay[k] = Unused
    <2>1. PICK r \in Calls : GatewayHolds(r) \/ GatewayReleases(r) \/ GatewayDisputes(r)
      BY <1>3, QuietRecords
    <2>2. PICK word \in {"held", "released", "disputed"}, paid \in 0 .. Amount :
             /\ pc[r] = "gateway" /\ Subject(r) \in Calls
             /\ Executed(r, word, word, paid)
             /\ Op(r) = "hold" => word = "held" /\ paid = 0 /\ Subject(r) = r
             /\ Op(r) = "release" => word \in {"held", "released"}
             /\ Op(r) = "dispute" => word = "disputed" /\ paid = 0
      BY <2>1, Executes
    <2> DEFINE c == Subject(r)
               body == [kind |-> "body", status |-> word, paid |-> paid, ref |-> c]
    <2>3. req[r] \in Offered
      BY <2>2 DEF CallsHold, CallHolds
    <2>4. Key(r) \in Keys
      BY <2>3, OrderTypes
    <2>5. /\ replay' = [replay EXCEPT ![Key(r)] = [order |-> req[r], answer |-> body]]
          /\ esc' = [esc EXCEPT ![c] = [word |-> word, paid |-> esc[c].paid + paid]]
          /\ req' = req
      BY <2>2, <2>3, ExecutedRecords
    <2>6. k = Key(r) /\ replay'[k] = [order |-> req[r], answer |-> body]
      BY <1>3, <2>4, <2>5 DEF TypeOK
    <2>7. esc'[c].word = word
      BY <2>2, <2>5 DEF TypeOK
    <2>8. body \in Answers /\ body.status = word /\ body.paid = paid /\ body.ref = c
      BY <2>2 DEF Answers, EscrowStatus
    <2> HIDE DEF body
    <2>9. replay'[k].order = req[r] /\ replay'[k].answer = body
      BY <2>6
    <2> QED BY <2>2, <2>3, <2>5, <2>6, <2>7, <2>8, <2>9 DEF RecordHolds, Op, Key
  <1> QED BY <1>2, <1>3

\* Only a call that finishes writes the stores.
LEMMA QuietStores ==
    ASSUME [Next]_vars, ~ \E r \in Calls : Finish(r)
    PROVE  UNCHANGED storeVars
  <1>1. ASSUME NEW r \in Calls, Receive(r) \/ ReturnCached(r) \/ Reject(r) \/ Start(r)
        PROVE UNCHANGED storeVars
    BY <1>1 DEF Receive, ReturnCached, Reject, Start, Proceed
  <1>2. ASSUME NEW r \in Calls,
               ReturnGatewayError(r) \/ RejectTransition(r) \/ ProcessExits(r) \/ DisputeResolved(r)
        PROVE UNCHANGED storeVars
    BY <1>2 DEF ReturnGatewayError, RejectTransition, ProcessExits, DisputeResolved
  <1>3. ASSUME NEW r \in Calls,
               \/ GatewayRefuses(r) \/ GatewayReplays(r)
               \/ GatewayHolds(r) \/ GatewayReleases(r) \/ GatewayDisputes(r)
        PROVE UNCHANGED storeVars
    BY <1>3 DEF GatewayRefuses, GatewayReplays, GatewayHolds, GatewayReleases, GatewayDisputes,
                Executed, Answered
  <1>4. ASSUME UNCHANGED vars PROVE UNCHANGED storeVars
    BY <1>4 DEF vars, storeVars
  <1> QED BY <1>1, <1>2, <1>3, <1>4 DEF Next, Handler, GatewayActs, AllDone

LEMMA StoresPreserved == Inv /\ [Next]_vars => StoresHold'
  <1> SUFFICES ASSUME Inv, [Next]_vars PROVE StoresHold'
    OBVIOUS
  <1> USE DEF Inv
  <1>1. Grows
    BY StepsGrow
  <1>2. \A escrow : Kept(escrow) => Kept(escrow)'
    BY <1>1 DEF Grows, Kept, Settled
  <1>3. CASE UNCHANGED storeVars
    BY <1>1, <1>2, <1>3 DEF StoresHold, Grows, storeVars
  <1>4. ASSUME NEW r \in Calls, Finish(r) PROVE StoresHold'
    <2>1. PICK total : Sums(total) /\ CountedOnce(total)
      BY DEF Counted
    <2>2. Key(r) \in Keys /\ replay[Key(r)] # Unused /\ Kept(Advanced(r))
      BY <1>4, <2>1, AdvancedCounts DEF Finish, Kept
    <2>3. /\ repo' = [repo EXCEPT ![id[r]] = Advanced(r)]
          /\ idem' = [idem EXCEPT ![Key(r)] = [id |-> id[r], escrow |-> Advanced(r)]]
      BY <1>4 DEF Finish
    <2>4. (Advanced(r) = Advanced(r)')
      <3>1. UNCHANGED <<req, local, answer>>
        BY <1>4 DEF Finish
      <3> QED BY <3>1 DEF Advanced, Target, Op
    <2>5. Kept(Advanced(r))'
      BY <1>2, <2>2, <2>4
    <2>6. \A i \in Calls : Kept(repo[i])'
      BY <1>2, <2>3, <2>4, <2>5 DEF StoresHold, TypeOK
    <2>7. \A k \in Keys : Kept(idem[k].escrow)'
      BY <1>2, <2>3, <2>4, <2>5 DEF StoresHold, TypeOK
    <2>8. \A k \in Keys : idem'[k] # NoOutput => replay'[k] # Unused
      BY <1>1, <2>2, <2>3 DEF StoresHold, TypeOK, Grows
    <2> QED BY <2>6, <2>7, <2>8 DEF StoresHold
  <1> QED BY <1>3, <1>4, QuietStores

-------------------------------------------------------------------------------
(* Every step preserves the account of what was paid out.                    *)

\* A commit adds to the keys that may count.
LEMMA CommittedGrows == Grows => Committed \subseteq Committed'
  BY DEF Grows, Committed

\* A key that nothing was recorded under is not committed, and nothing was paid
\* out under it.
LEMMA UnusedKey ==
    ASSUME Inv, NEW k \in Keys, replay[k] = Unused
    PROVE  k \notin Committed /\ \A c \in Calls : PaidUnder(c, k) = 0
  <1>1. k \notin Committed
    BY DEF Committed, Inv, StoresHold
  <1> QED BY <1>1, AbsentAreNone DEF PaidUnder

\* Where a call that is at the gateway came from.
LEMMA CountedCalls ==
    ASSUME Inv, Grows, NEW total, CountedOnce(total), NEW q \in Calls,
           pc[q] \in {"gateway", "answered"}, Op(q) # "hold",
           UNCHANGED <<req[q], local[q]>>
    PROVE  \E S \in SUBSET (Committed \ {Key(q)}) :
              S \in SUBSET (Committed \ {Key(q)})' /\ local[q].released = total[local[q].ref][S]
  <1>1. PICK S \in SUBSET (Committed \ {Key(q)}) : local[q].released = total[local[q].ref][S]
    BY DEF CountedOnce
  <1>2. (Key(q) = Key(q)') /\ Committed \subseteq Committed'
    BY CommittedGrows DEF Key
  <1>3. S \in SUBSET (Committed \ {Key(q)})'
    BY <1>1, <1>2
  <1> QED BY <1>1, <1>3

\* The account of what was paid depends on the records and on the amounts paid.
LEMMA SameSums ==
    ASSUME NEW total, Sums(total), UNCHANGED replay, \A c \in Calls : esc'[c].paid = esc[c].paid
    PROVE  Sums(total)'
  <1>1. \A c \in Calls, k \in Keys : (PaidUnder(c, k) = PaidUnder(c, k)')
    BY DEF PaidUnder
  <1>2. \A c \in Calls : total[c][Keys] = esc'[c].paid
    BY DEF Sums
  <1>3. \A c \in Calls, S \in SUBSET Keys, k \in Keys :
           k \notin S => total[c][S \cup {k}] = total[c][S] + PaidUnder(c, k)'
    BY <1>1 DEF Sums
  <1>4. /\ total \in [Calls -> [SUBSET Keys -> Nat]]
        /\ \A c \in Calls : total[c][{}] = 0
        /\ \A c \in Calls, S, T \in SUBSET Keys : S \subseteq T => total[c][S] <= total[c][T]
    BY DEF Sums
  <1> QED BY <1>2, <1>3, <1>4 DEF Sums

LEMMA CountedPreserved == Inv /\ [Next]_vars => Counted'
  <1> SUFFICES ASSUME Inv, [Next]_vars, NEW total, Sums(total), CountedOnce(total) PROVE Counted'
    BY DEF Inv, Counted
  <1> USE DEF Inv
  <1>0. Grows /\ Committed \subseteq Committed'
    BY StepsGrow, CommittedGrows
  <1>1. ASSUME UNCHANGED <<esc, replay>> PROVE Sums(total)'
    BY <1>1, SameSums
  <1>2. ASSUME UNCHANGED storeVars, UNCHANGED <<esc, replay>>,
               \A q \in Calls : pc'[q] \in {"gateway", "answered"} =>
                  UNCHANGED <<req[q], local[q]>> /\ pc[q] \in {"gateway", "answered"}
        PROVE Counted'
    <2>1. \A i \in Calls : repo'[i] # NoEscrow =>
             \E S \in SUBSET (Committed') : repo'[i].released = total[repo'[i].ref][S]
      BY <1>0, <1>2 DEF CountedOnce, storeVars
    <2>2. \A q \in Calls : pc'[q] \in {"gateway", "answered"} /\ Op(q)' # "hold" =>
             \E S \in SUBSET (Committed \ {Key(q)})' : local'[q].released = total[local'[q].ref][S]
      <3> SUFFICES ASSUME NEW q \in Calls, pc'[q] \in {"gateway", "answered"}, Op(q)' # "hold"
                   PROVE  \E S \in SUBSET (Committed \ {Key(q)})' :
                             local'[q].released = total[local'[q].ref][S]
        OBVIOUS
      <3>1. pc[q] \in {"gateway", "answered"} /\ Op(q) # "hold" /\ UNCHANGED <<req[q], local[q]>>
        BY <1>2 DEF Op
      <3> QED BY <1>0, <3>1, CountedCalls
    <2>3. CountedOnce(total)'
      BY <2>1, <2>2 DEF CountedOnce
    <2> QED BY <1>1, <1>2, <2>3 DEF Counted
  <1>3. ASSUME NEW r \in Calls, Start(r) PROVE Counted'
    <2>1. /\ pc[r] = "arrived" /\ pc' = [pc EXCEPT ![r] = "gateway"]
          /\ idem[Key(r)] = NoOutput
          /\ local' = [local EXCEPT ![r] = IF Op(r) = "hold" THEN CreatedEscrow ELSE repo[id[r]]]
          /\ Op(r) # "hold" => repo[id[r]].ref # None
          /\ UNCHANGED <<req, repo, idem, esc, replay>>
      BY <1>3 DEF Start, Proceed, storeVars, gatewayVars
    <2>2. (Committed = Committed')
      BY <2>1 DEF Committed
    <2>3. \A i \in Calls : repo'[i] # NoEscrow =>
             \E S \in SUBSET (Committed') : repo'[i].released = total[repo'[i].ref][S]
      BY <2>1, <2>2 DEF CountedOnce
    <2>4. \A q \in Calls : pc'[q] \in {"gateway", "answered"} /\ Op(q)' # "hold" =>
             \E S \in SUBSET (Committed \ {Key(q)})' : local'[q].released = total[local'[q].ref][S]
      <3> SUFFICES ASSUME NEW q \in Calls, pc'[q] \in {"gateway", "answered"}, Op(q)' # "hold"
                   PROVE  \E S \in SUBSET (Committed \ {Key(q)})' :
                             local'[q].released = total[local'[q].ref][S]
        OBVIOUS
      <3>1. Op(q) # "hold" /\ (Key(q) = Key(q)')
        BY <2>1 DEF Op, Key
      <3>2. CASE q # r
        <4>1. pc[q] \in {"gateway", "answered"} /\ local'[q] = local[q]
          BY <2>1, <3>2 DEF TypeOK
        <4> QED BY <2>2, <3>1, <4>1 DEF CountedOnce
      <3>3. CASE q = r
        <4>1. id[r] \in Calls
          BY <2>1 DEF CallsHold, CallHolds
        <4>2. local'[r] = repo[id[r]] /\ repo[id[r]] # NoEscrow
          BY <2>1, <3>1, <3>3 DEF TypeOK, NoEscrow
        <4>3. PICK S \in SUBSET Committed : repo[id[r]].released = total[repo[id[r]].ref][S]
          BY <4>1, <4>2 DEF CountedOnce
        <4>4. Key(r) \notin Committed
          BY <2>1 DEF Committed
        <4> QED BY <2>2, <3>1, <3>3, <4>2, <4>3, <4>4
      <3> QED BY <3>2, <3>3
    <2>5. CountedOnce(total)'
      BY <2>3, <2>4 DEF CountedOnce
    <2> QED BY <1>1, <2>1, <2>5 DEF Counted
  <1>4. ASSUME NEW r \in Calls, Finish(r) PROVE Counted'
    <2>1. /\ id[r] \in Calls /\ Key(r) \in Keys
          /\ Advanced(r) \in Escrows
          /\ \E S \in SUBSET (Committed \cup {Key(r)}) :
                Advanced(r).released = total[Advanced(r).ref][S]
      BY <1>4, AdvancedCounts DEF Finish
    <2>2. /\ repo' = [repo EXCEPT ![id[r]] = Advanced(r)]
          /\ idem' = [idem EXCEPT ![Key(r)] = [id |-> id[r], escrow |-> Advanced(r)]]
          /\ pc' = [pc EXCEPT ![r] = "done"]
          /\ UNCHANGED <<req, local, esc, replay>>
      BY <1>4 DEF Finish, Return, gatewayVars
    <2>3. idem'[Key(r)] # NoOutput
      <3>1. [id |-> id[r], escrow |-> Advanced(r)] # NoOutput
        BY <2>1, Parameters DEF NoOutput
      <3> QED BY <2>1, <2>2, <3>1 DEF TypeOK
    <2>4. Committed \cup {Key(r)} \subseteq Committed'
      BY <1>0, <2>1, <2>3 DEF Committed
    <2>5. ASSUME NEW i \in Calls, repo'[i] # NoEscrow
          PROVE  \E S \in SUBSET (Committed') : repo'[i].released = total[repo'[i].ref][S]
      <3>1. CASE i = id[r]
        <4>1. repo'[i] = Advanced(r)
          BY <2>2, <3>1 DEF TypeOK
        <4> QED BY <2>1, <2>4, <4>1
      <3>2. CASE i # id[r]
        <4>1. repo'[i] = repo[i]
          BY <2>2, <3>2 DEF TypeOK
        <4> QED BY <1>0, <2>5, <4>1 DEF CountedOnce
      <3> QED BY <3>1, <3>2
    <2>6. ASSUME NEW q \in Calls, pc'[q] \in {"gateway", "answered"}, Op(q)' # "hold"
          PROVE  \E S \in SUBSET (Committed \ {Key(q)})' :
                    local'[q].released = total[local'[q].ref][S]
      <3>1. pc[q] \in {"gateway", "answered"} /\ Op(q) # "hold"
        BY <2>2, <2>6 DEF TypeOK, Op
      <3> QED BY <1>0, <2>2, <3>1, CountedCalls
    <2>7. CountedOnce(total)'
      BY <2>5, <2>6 DEF CountedOnce
    <2> QED BY <1>1, <2>2, <2>7 DEF Counted
  <1>5. ASSUME NEW r \in Calls, GatewayHolds(r) \/ GatewayReleases(r) \/ GatewayDisputes(r)
        PROVE Counted'
    <2>1. PICK word \in {"held", "released", "disputed"}, paid \in 0 .. Amount :
             /\ pc[r] = "gateway" /\ Subject(r) \in Calls
             /\ Executed(r, word, word, paid)
      BY <1>5, Executes
    <2>2. req[r] \in Offered
      BY <2>1 DEF CallsHold, CallHolds
    <2>3. PICK k \in Keys, c \in Calls : k = Key(r) /\ c = Subject(r)
      BY <2>1, <2>2, OrderTypes
    <2>n. PICK now : now = [d \in Calls |-> [S \in SUBSET Keys |->
                              total[d][S] + IF d = c /\ k \in S THEN paid ELSE 0]]
      OBVIOUS
    <2> DEFINE body == [kind |-> "body", status |-> word, paid |-> paid, ref |-> c]
    <2>4. /\ replay[k] = Unused
          /\ replay' = [replay EXCEPT ![k] = [order |-> req[r], answer |-> body]]
          /\ esc' = [esc EXCEPT ![c] = [word |-> word, paid |-> esc[c].paid + paid]]
          /\ pc' = [pc EXCEPT ![r] = "answered"]
          /\ UNCHANGED <<req, local, repo, idem>>
      BY <2>1, <2>2, <2>3, ExecutedRecords DEF storeVars
    <2>5. replay'[k].answer = body /\ body.paid = paid /\ body.ref = c
      BY <2>3, <2>4 DEF TypeOK
    <2>6. \A d \in Calls : PaidUnder(d, k)' = IF d = c THEN paid ELSE 0
      BY <2>5 DEF PaidUnder
    <2>7. \A d \in Calls, l \in Keys : l # k => PaidUnder(d, l)' = PaidUnder(d, l)
      BY <2>4 DEF PaidUnder, TypeOK
    <2>8. k \notin Committed /\ \A d \in Calls : PaidUnder(d, k) = 0
      BY <2>3, <2>4, UnusedKey
    <2>9. Sums(now)'
      <3> HIDE DEF body
      <3>0. \A d \in Calls, S \in SUBSET Keys : total[d][S] \in Nat
        BY DEF Sums
      <3>1. now \in [Calls -> [SUBSET Keys -> Nat]]
        BY <2>n, <3>0
      <3>2. \A d \in Calls : now[d][{}] = 0
        BY <2>n, <3>0 DEF Sums
      <3>3. ASSUME NEW d \in Calls, NEW S \in SUBSET Keys, NEW l \in Keys, l \notin S
            PROVE  now[d][S \cup {l}] = now[d][S] + PaidUnder(d, l)'
        <4>1. total[d][S \cup {l}] = total[d][S] + PaidUnder(d, l) /\ total[d][S] \in Nat
          BY <3>0, <3>3 DEF Sums
        <4>2. S \cup {l} \in SUBSET Keys /\ total[d][S \cup {l}] \in Nat
          BY <3>0
        <4>3. now[d][S \cup {l}] = total[d][S \cup {l}] + IF d = c /\ k \in S \cup {l} THEN paid ELSE 0
          BY <2>n, <4>2
        <4>4. now[d][S] = total[d][S] + IF d = c /\ k \in S THEN paid ELSE 0
          BY <2>n
        <4>5. CASE l = k
          BY <2>6, <2>8, <3>3, <4>1, <4>3, <4>4, <4>5
        <4>6. CASE l # k
          <5>1. PaidUnder(d, l) \in Nat
            <6>1. replay[l] \in [order : Orders \cup {NoOrder}, answer : Answers \cup {NoAnswer}]
              BY DEF TypeOK
            <6>2. replay[l].answer \in Answers \cup {NoAnswer}
              BY <6>1
            <6>3. replay[l].answer.paid \in Nat
              BY <6>2, Parameters DEF Answers, NoAnswer
            <6> QED BY <6>3 DEF PaidUnder
          <5> QED BY <2>7, <4>1, <4>3, <4>4, <4>6, <5>1
        <4> QED BY <4>5, <4>6
      <3>4. \A d \in Calls, S, T \in SUBSET Keys : S \subseteq T => now[d][S] <= now[d][T]
        BY <2>n, <3>0 DEF Sums
      <3>5. ASSUME NEW d \in Calls PROVE now[d][Keys] = esc'[d].paid
        <4>1. total[d][Keys] = esc[d].paid /\ total[d][Keys] \in Nat
          BY <3>0 DEF Sums
        <4>2. now[d][Keys] = total[d][Keys] + IF d = c THEN paid ELSE 0
          BY <2>n
        <4>3. esc'[d].paid = IF d = c THEN esc[d].paid + paid ELSE esc[d].paid
          BY <2>1, <2>4 DEF TypeOK
        <4> QED BY <4>1, <4>2, <4>3
      <3> QED BY <3>1, <3>2, <3>3, <3>4, <3>5 DEF Sums
    <2>10. \A d \in Calls, S \in SUBSET Committed : now[d][S] = total[d][S]
      <3>1. ASSUME NEW d \in Calls, NEW S \in SUBSET Committed PROVE now[d][S] = total[d][S]
        <4>1. S \in SUBSET Keys /\ k \notin S
          BY <2>8 DEF Committed
        <4>2. total[d][S] \in Nat
          BY <4>1 DEF Sums
        <4> QED BY <2>n, <4>1, <4>2
      <3> QED BY <3>1
    <2> HIDE DEF body
    <2>11. (Committed = Committed')
      BY <2>4 DEF Committed
    <2>12. ASSUME NEW i \in Calls, repo'[i] # NoEscrow
           PROVE  \E S \in SUBSET (Committed') : repo'[i].released = now[repo'[i].ref][S]
      <3>1. repo[i].ref \in Calls
        BY <2>4, <2>12 DEF StoresHold, Kept
      <3> QED BY <2>4, <2>10, <2>11, <2>12, <3>1 DEF CountedOnce
    <2>13. ASSUME NEW q \in Calls, pc'[q] \in {"gateway", "answered"}, Op(q)' # "hold"
           PROVE  \E S \in SUBSET (Committed \ {Key(q)})' :
                     local'[q].released = now[local'[q].ref][S]
      <3>1. pc[q] \in {"gateway", "answered"} /\ Op(q) # "hold" /\ (Key(q) = Key(q)')
        BY <2>1, <2>4, <2>13 DEF TypeOK, Op, Key
      <3>2. local[q].ref \in Calls
        BY <3>1 DEF CallsHold, CallHolds, Kept
      <3>3. PICK S \in SUBSET (Committed \ {Key(q)}) : local[q].released = total[local[q].ref][S]
        BY <3>1 DEF CountedOnce
      <3>4. now[local[q].ref][S] = total[local[q].ref][S]
        BY <2>10, <3>2
      <3> QED BY <2>4, <2>11, <3>1, <3>3, <3>4
    <2>14. CountedOnce(now)'
      BY <2>12, <2>13 DEF CountedOnce
    <2> QED BY <2>9, <2>14 DEF Counted
  <1>6. ASSUME NEW c \in Calls, DisputeResolved(c) PROVE Counted'
    <2>1. PICK word : esc' = [esc EXCEPT ![c].word = word]
      BY <1>6 DEF DisputeResolved
    <2>2. \A d \in Calls : esc'[d].paid = esc[d].paid
      BY <2>1 DEF TypeOK
    <2>3. UNCHANGED <<pc, req, local, repo, idem, replay>>
      BY <1>6 DEF DisputeResolved, processVars, storeVars
    <2>4. Sums(total)'
      BY <2>2, <2>3, SameSums
    <2>5. CountedOnce(total)'
      BY <2>3 DEF CountedOnce, Committed, Op, Key
    <2> QED BY <2>4, <2>5 DEF Counted
  <1>7. ASSUME NEW r \in Calls, Receive(r) PROVE Counted'
    <2>1. /\ pc[r] = "idle" /\ pc' = [pc EXCEPT ![r] = "arrived"]
          /\ UNCHANGED <<local, storeVars, esc, replay>>
          /\ \E order \in Offered : req' = [req EXCEPT ![r] = order]
      BY <1>7 DEF Receive, gatewayVars
    <2>2. \A q \in Calls : pc'[q] \in {"gateway", "answered"} =>
             UNCHANGED <<req[q], local[q]>> /\ pc[q] \in {"gateway", "answered"}
      BY <2>1 DEF TypeOK
    <2> QED BY <1>2, <2>1, <2>2
  <1>8. ASSUME NEW r \in Calls,
               ReturnCached(r) \/ Reject(r) \/ ReturnGatewayError(r) \/ RejectTransition(r)
        PROVE Counted'
    <2>1. /\ pc' = [pc EXCEPT ![r] = "done"]
          /\ UNCHANGED <<req, local, storeVars, esc, replay>>
      BY <1>8 DEF ReturnCached, Reject, ReturnGatewayError, RejectTransition, Return, gatewayVars
    <2>2. \A q \in Calls : pc'[q] \in {"gateway", "answered"} =>
             UNCHANGED <<req[q], local[q]>> /\ pc[q] \in {"gateway", "answered"}
      BY <2>1 DEF TypeOK
    <2> QED BY <1>2, <2>1, <2>2
  <1>9. ASSUME NEW r \in Calls, GatewayRefuses(r) \/ GatewayReplays(r) PROVE Counted'
    <2>1. /\ pc[r] = "gateway" /\ pc' = [pc EXCEPT ![r] = "answered"]
          /\ UNCHANGED <<req, local, storeVars, esc, replay>>
      BY <1>9 DEF GatewayRefuses, GatewayReplays, Answered, gatewayVars
    <2>2. \A q \in Calls : pc'[q] \in {"gateway", "answered"} =>
             UNCHANGED <<req[q], local[q]>> /\ pc[q] \in {"gateway", "answered"}
      BY <2>1 DEF TypeOK
    <2> QED BY <1>2, <2>1, <2>2
  <1>10. ASSUME NEW r \in Calls, ProcessExits(r) PROVE Counted'
    BY <1>2, <1>10 DEF ProcessExits, gatewayVars
  <1>11. ASSUME UNCHANGED vars PROVE Counted'
    BY <1>2, <1>11 DEF vars, processVars, storeVars, gatewayVars
  <1> QED BY <1>3, <1>4, <1>5, <1>6, <1>7, <1>8, <1>9, <1>10, <1>11
          DEF Next, Handler, GatewayActs, AllDone

-------------------------------------------------------------------------------
(* The theorems.                                                             *)

LEMMA InvPreserved == Inv /\ [Next]_vars => Inv'
  BY TypesPreserved, CallsPreserved, RecordsPreserved, StoresPreserved, CountedPreserved DEF Inv

LEMMA InvAlways == Spec => []Inv
  BY InitInv, InvPreserved, PTL DEF Spec

\* Every variable ranges over the values that the code can put there; the total
\* of an entity never passes its amount, which its constructor relies on.
THEOREM TypeCorrect == Spec => []TypeOK
  <1>1. Inv => TypeOK
    BY DEF Inv
  <1> QED BY <1>1, InvAlways, PTL

\* What the gateway paid out of an escrow is never overstated by its entity, in
\* whatever order calls overlap, repeat a key and lose their answers.
THEOREM TranchesCountOnce == Spec => []NeverOverstated
  <1>1. Inv => NeverOverstated
    <2> SUFFICES ASSUME Inv, NEW i \in Calls, repo[i] # NoEscrow
                 PROVE  repo[i].released <= esc[repo[i].ref].paid
      BY DEF NeverOverstated
    <2>1. PICK total : Sums(total) /\ CountedOnce(total)
      BY DEF Inv, Counted
    <2>2. PICK S \in SUBSET Committed : repo[i].released = total[repo[i].ref][S]
      BY <2>1 DEF CountedOnce
    <2>3. repo[i].ref \in Calls /\ S \in SUBSET Keys
      BY DEF Inv, StoresHold, Kept, Committed
    <2> QED BY <2>1, <2>2, <2>3 DEF Sums
  <1> QED BY <1>1, InvAlways, PTL

\* Where an escrow is stored, cached or answered as released, the gateway settled
\* it and nothing is left in custody.
THEOREM SettledOnce == Spec => []ReleasedIsSettled
  <1>1. Inv => ReleasedIsSettled
    <2> SUFFICES ASSUME Inv PROVE ReleasedIsSettled
      OBVIOUS
    <2>1. \A escrow : Kept(escrow) => Settled(escrow)
      BY DEF Kept, Settled, NoEscrow
    <2>2. ASSUME NEW r \in Calls, Told(r) = "RELEASED"
          PROVE  esc[reply[r].out.escrow.ref].word = "released"
      <3>1. Settled(reply[r].out.escrow)
        BY <2>1 DEF Inv, CallsHold, CallHolds
      <3>2. reply[r].out.escrow \in Escrows \cup {NoEscrow}
        BY DEF Inv, TypeOK, Outputs, NoOutput
      <3>3. reply[r].out.escrow.status \in EscrowStatus \cup {"absent"}
        BY <3>2 DEF Escrows, NoEscrow
      <3>4. reply[r].out.escrow.status = "released"
        BY <2>2, <3>3 DEF Told, EscrowOnWire, Unspecified, EscrowStatus
      <3> QED BY <3>1, <3>4 DEF Settled
    <2> QED BY <2>1, <2>2 DEF Inv, StoresHold, ReleasedIsSettled
  <1> QED BY <1>1, InvAlways, PTL

-------------------------------------------------------------------------------
(* Callers that wait for their answers: one call at a time is about an        *)
(* escrow and under a key, and it is the retry if an answer is owed; so the   *)
(* stored escrow is the gateway's, but for at most one request of which the   *)
(* answer is on its way or owed.                                             *)

AtGateway == {"gateway", "answered"}

Alone ==
    /\ \A q, r \in Calls :
          pc[q] \in Executing /\ pc[r] \in Executing /\ (id[q] = id[r] \/ Key(q) = Key(r)) => q = r
    /\ \A r \in Calls : pc[r] \in Executing => Owed(id[r]) \subseteq {Key(r)}
    /\ \A r \in Calls : pc[r] \in AtGateway => idem[Key(r)] = NoOutput
    /\ \A r \in Calls : pc[r] \in AtGateway /\ Op(r) # "hold" => local[r] = repo[id[r]]
    /\ \A r \in Calls : pc[r] = "done" /\ answer[r] \in Answers => idem[Key(r)] # NoOutput

\* Keys of requests about c that the gateway executed and no outcome tells of.
Pending(c) == {k \in Keys : /\ replay[k] # Unused /\ idem[k] = NoOutput
                            /\ replay[k].order.op # "hold" /\ replay[k].answer.ref = c}

\* The answer under k is about to be stored.
Delivered(q, i, k) == pc[q] = "answered" /\ answer[q] \in Answers /\ id[q] = i /\ Key(q) = k

InStep(stored, e) == stored.released = e.paid /\ stored.status = StatusOfWord(e.word)
OneBehind(stored, e, ans) ==
    /\ stored.released + ans.paid = e.paid
    /\ stored.status \in (IF ans.status = "released" THEN {"held", "disputed"} ELSE {"held"})
    /\ ans.status = StatusOfWord(e.word)

Opened(c) == /\ pc[c] # "idle"
             /\ idem[Key(c)] # NoOutput
             /\ replay[Key(c)].order.op = "hold"
             /\ replay[Key(c)].answer.ref = c

Follows(i) == repo[i] # NoEscrow =>
    LET c == repo[i].ref IN
    /\ pc[i] = "done"
    /\ Opened(c)
    /\ \A j \in Calls : repo[j] # NoEscrow /\ repo[j].ref = c => i = j
    /\ \A k \in Pending(c) : k \in Owed(i) \/ \E q \in Calls : Delivered(q, i, k)
    /\ \A k, l \in Pending(c) : k = l
    /\ Pending(c) = {} => InStep(repo[i], esc[c])
    /\ \A k \in Pending(c) : OneBehind(repo[i], esc[c], replay[k].answer)

\* Before it is stored nobody can ask anything of an escrow.
Untouched(c) == (\A i \in Calls : repo[i] = NoEscrow \/ repo[i].ref # c) =>
    /\ esc[c].word \in {"none", "held"} /\ esc[c].paid = 0
    /\ Pending(c) = {}

PatientInv == patient =>
    /\ up
    /\ Alone
    /\ \A i \in Calls : Follows(i)
    /\ \A c \in Calls : Untouched(c)

LEMMA InitPatient == Init => PatientInv
  <1> SUFFICES ASSUME Init PROVE PatientInv
    OBVIOUS
  <1>1. Alone
    BY DEF Init, Alone, Executing, AtGateway
  <1>2. \A i \in Calls : Follows(i)
    BY DEF Init, Follows
  <1>3. \A c \in Calls : Untouched(c)
    BY DEF Init, Untouched, Pending
  <1> QED BY <1>1, <1>2, <1>3 DEF Init, PatientInv

\* What an answer that arrived tells about the stored escrow: it is one request
\* behind, and the transition that follows is legal.
LEMMA PatientMoves ==
    ASSUME Inv, PatientInv, patient, NEW r \in Calls, Read(r)
    PROVE  /\ LegalMove(r)
           /\ Op(r) # "hold" =>
                 /\ local[r] = repo[id[r]] /\ repo[id[r]] # NoEscrow
                 /\ answer[r].ref = repo[id[r]].ref
                 /\ Key(r) \in Pending(repo[id[r]].ref)
                 /\ OneBehind(repo[id[r]], esc[repo[id[r]].ref], answer[r])
  <1>1. pc[r] = "answered" /\ answer[r] \in Answers
    BY DEF Read
  <1>2. CallHolds(r)
    BY DEF Inv, CallsHold
  <1>3. /\ req[r] \in Offered /\ id[r] \in Calls
        /\ replay[Key(r)] = [order |-> req[r], answer |-> answer[r]]
    BY <1>1, <1>2 DEF CallHolds
  <1>4. Key(r) \in Keys /\ Op(r) \in Operations
    BY <1>3, OrderTypes
  <1>5. CASE Op(r) = "hold"
    <2>1. Target(r) = local[r].status
      BY <1>5 DEF Target
    <2> QED BY <1>5, <2>1 DEF LegalMove
  <1>6. CASE Op(r) # "hold"
    <2> DEFINE i == id[r]  c == repo[i].ref
    <2>1. /\ local[r] = repo[i] /\ repo[i] # NoEscrow /\ answer[r].ref = c
          /\ idem[Key(r)] = NoOutput
      BY <1>1, <1>2, <1>6 DEF CallHolds, PatientInv, Alone, AtGateway
    <2>2. replay[Key(r)] # Unused /\ replay[Key(r)].order.op # "hold"
          /\ replay[Key(r)].answer = answer[r]
      BY <1>1, <1>3, <1>6, AbsentAreNone DEF Unused, Op
    <2>3. Key(r) \in Pending(c)
      BY <1>4, <2>1, <2>2 DEF Pending
    <2>4. OneBehind(repo[i], esc[c], answer[r])
      BY <1>3, <2>1, <2>2, <2>3 DEF PatientInv, Follows
    <2>5. RecordHolds(Key(r))
      BY <1>4 DEF Inv, RecordsHold
    <2>6. CASE Op(r) = "release"
      <3>1. answer[r].status \in {"held", "released"} /\ Target(r) = answer[r].status
        BY <1>3, <2>2, <2>5, <2>6 DEF RecordHolds, Target, Op
      <3>2. \/ local[r].status = "held"
            \/ local[r].status = "disputed" /\ Target(r) = "released"
        BY <2>1, <2>4, <3>1 DEF OneBehind
      <3> QED BY <2>1, <2>3, <2>4, <2>6, <3>1, <3>2 DEF LegalMove, CanTransition, EscrowTransitions
    <2>7. CASE Op(r) = "dispute"
      <3>1. answer[r].status = "disputed" /\ Target(r) = "disputed"
        BY <1>3, <2>2, <2>5, <2>7 DEF RecordHolds, Target, Op
      <3>2. local[r].status = "held"
        BY <2>1, <2>4, <3>1 DEF OneBehind
      <3> QED BY <2>1, <2>3, <2>4, <3>1, <3>2 DEF LegalMove, CanTransition, EscrowTransitions
    <2> QED BY <1>4, <1>6, <2>6, <2>7 DEF Operations
  <1> QED BY <1>5, <1>6

\* Steps that neither the gateway nor the stores see.
QuietFor(q) ==
    /\ pc[q] # "idle" => pc'[q] # "idle" /\ UNCHANGED <<req[q], id[q]>>
    /\ pc[q] = "done" => pc'[q] = "done"
    /\ pc[q] = "answered" /\ answer[q] \in Answers => pc'[q] = "answered"

LEMMA QuietSteps ==
    ASSUME Inv, PatientInv, patient,
           UNCHANGED <<answer, repo, idem, esc, replay>>,
           \A q \in Calls : QuietFor(q)
    PROVE  /\ \A i \in Calls : (Owed(i) = Owed(i)')
           /\ \A i \in Calls : Follows(i)'
           /\ \A c \in Calls : Untouched(c)'
  <1>0. \A q \in Calls : answer[q] # NoAnswer => pc[q] # "idle"
    BY DEF Inv, CallsHold, CallHolds
  <1>1. \A q \in Calls : pc[q] # "idle" => id'[q] = id[q] /\ (Key(q) = Key(q)')
    BY DEF QuietFor, Key
  <1>2. \A i \in Calls : (Owed(i) = Owed(i)')
    <2>1. \A q \in Calls : answer[q] = Lost \/ answer[q] \in Answers =>
             id'[q] = id[q] /\ (Key(q) = Key(q)')
      BY <1>0, <1>1, AbsentAreNone DEF Lost, NoAnswer
    <2> QED BY <2>1 DEF Owed
  <1>3. \A c \in Calls : (Pending(c) = Pending(c)')
    BY DEF Pending
  <1>4. \A q, i \in Calls, k \in Keys : Delivered(q, i, k) => Delivered(q, i, k)'
    BY <1>1 DEF Delivered, QuietFor
  <1>5. \A c \in Calls : Untouched(c)'
    BY <1>3 DEF PatientInv, Untouched
  <1>6. ASSUME NEW i \in Calls, repo[i] # NoEscrow PROVE Follows(i)'
    <2>1. PICK c \in Calls : c = repo[i].ref
      BY <1>6 DEF Inv, StoresHold, Kept
    <2>2. Follows(i)
      BY DEF PatientInv
    <2>3. Opened(c)'
      BY <1>1, <1>6, <2>1, <2>2 DEF Follows, Opened, QuietFor
    <2>4. pc'[i] = "done"
      BY <1>6, <2>2 DEF Follows, QuietFor
    <2>5. \A k \in Pending(c)' : k \in Owed(i)' \/ \E q \in Calls : Delivered(q, i, k)'
      <3>1. \A k \in Pending(c) : k \in Keys
        BY DEF Pending
      <3>2. \A k \in Pending(c) : k \in Owed(i) \/ \E q \in Calls : Delivered(q, i, k)
        BY <1>6, <2>1, <2>2 DEF Follows
      <3> QED BY <1>2, <1>3, <1>4, <3>1, <3>2
    <2>6. /\ \A j \in Calls : repo'[j] # NoEscrow /\ repo'[j].ref = c => i = j
          /\ \A k, l \in Pending(c)' : k = l
          /\ Pending(c)' = {} => InStep(repo'[i], esc'[c])
          /\ \A k \in Pending(c)' : OneBehind(repo'[i], esc'[c], replay'[k].answer)
      BY <1>3, <1>6, <2>1, <2>2 DEF Follows
    <2> QED BY <2>1, <2>3, <2>4, <2>5, <2>6 DEF Follows
  <1> QED BY <1>2, <1>5, <1>6 DEF Follows

\* What the answer of the gateway does to the debts: it may add its own key to
\* those of its escrow, and settle its own key, and nothing else.
AnswerArrives(r, ans) ==
    /\ pc[r] = "gateway" /\ pc' = [pc EXCEPT ![r] = "answered"]
    /\ ans \in Answers \cup {Refused, Lost} /\ answer' = [answer EXCEPT ![r] = ans]
    /\ UNCHANGED <<patient, up, req, id, local, reply, storeVars>>

LEMMA DebtsMove ==
    ASSUME Inv, NEW r \in Calls, NEW ans, AnswerArrives(r, ans), NEW i \in Calls
    PROVE  /\ Owed(i) \ {Key(r)} \subseteq Owed(i)'
           /\ ans \notin Answers => Owed(i) \subseteq Owed(i)'
           /\ Owed(i)' \subseteq (IF i = id[r] THEN Owed(i) \cup {Key(r)} ELSE Owed(i))
  <1>1. \A q \in Calls : answer'[q] = IF q = r THEN ans ELSE answer[q]
    BY DEF AnswerArrives, Inv, TypeOK
  <1>2. \A q \in Calls : id'[q] = id[q] /\ (Key(q) = Key(q)')
    BY DEF AnswerArrives, Key
  <1>3. answer[r] = NoAnswer
    BY DEF Inv, CallsHold, CallHolds, AnswerArrives
  <1>4. answer[r] # Lost /\ answer[r] \notin Answers
    BY <1>3, AbsentAreNone DEF NoAnswer, Lost
  <1>5. Owed(i) = {Key(q) : q \in {q \in Calls : id[q] = i /\ answer[q] = Lost}}
                  \ {Key(q) : q \in {q \in Calls : answer[q] \in Answers}}
    BY DEF Owed
  <1>6. Owed(i)' = {Key(q) : q \in {q \in Calls : id[q] = i /\ answer'[q] = Lost}}
                   \ {Key(q) : q \in {q \in Calls : answer'[q] \in Answers}}
    BY <1>2 DEF Owed
  <1> QED BY <1>1, <1>4, <1>5, <1>6

LEMMA AnswerAlone ==
    ASSUME Inv, PatientInv, patient, NEW r \in Calls, NEW ans, AnswerArrives(r, ans)
    PROVE  Alone'
  <1>1. \A q \in Calls : id'[q] = id[q] /\ (Key(q) = Key(q)') /\ (Op(q) = Op(q)')
    BY DEF AnswerArrives, Key, Op
  <1>2. \A q \in Calls : pc'[q] = IF q = r THEN "answered" ELSE pc[q]
    BY DEF AnswerArrives, Inv, TypeOK
  <1>3. \A q \in Calls : /\ pc'[q] \in Executing <=> pc[q] \in Executing
                         /\ pc'[q] \in AtGateway <=> pc[q] \in AtGateway
                         /\ pc'[q] = "done" <=> pc[q] = "done"
    BY <1>2 DEF AnswerArrives, Executing, AtGateway
  <1>4. UNCHANGED <<local, repo, idem>>
    BY DEF AnswerArrives, storeVars
  <1>5. Alone
    BY DEF PatientInv
  <1>6. \A q, p \in Calls : pc'[q] \in Executing /\ pc'[p] \in Executing
                            /\ (id'[q] = id'[p] \/ (Key(q) = Key(p))') => q = p
    BY <1>1, <1>3, <1>5 DEF Alone
  <1>7. ASSUME NEW q \in Calls, NEW i \in Calls, i = id[q], pc'[q] \in Executing
        PROVE  Owed(i)' \subseteq {Key(q)}
    <2>1. pc[q] \in Executing /\ pc[r] \in Executing
      BY <1>3, <1>7 DEF AnswerArrives, Executing
    <2>2. Owed(i) \subseteq {Key(q)}
      BY <1>5, <1>7, <2>1 DEF Alone
    <2>3. q # r => i # id[r]
      BY <1>5, <1>7, <2>1 DEF Alone
    <2> QED BY <1>7, <2>2, <2>3, DebtsMove
  <1>8. ASSUME NEW q \in Calls, pc'[q] \in Executing PROVE (Owed(id[q]) \subseteq {Key(q)})'
    <2>1. PICK i \in Calls : i = id[q]
      BY <1>3, <1>8 DEF Inv, CallsHold, CallHolds, Executing
    <2>2. i = id'[q] /\ Owed(i)' \subseteq {Key(q)}
      BY <1>1, <1>7, <1>8, <2>1
    <2> QED BY <1>1, <2>2 DEF Owed
  <1>9. \A q \in Calls : pc'[q] \in AtGateway =>
           /\ idem'[Key(q)'] = NoOutput
           /\ Op(q)' # "hold" => local'[q] = repo'[id'[q]]
    BY <1>1, <1>3, <1>4, <1>5 DEF Alone
  <1>10. \A q \in Calls : pc'[q] = "done" /\ answer'[q] \in Answers => idem'[Key(q)'] # NoOutput
    <2>1. \A q \in Calls : pc'[q] = "done" => q # r /\ answer'[q] = answer[q]
      BY <1>2 DEF AnswerArrives, Inv, TypeOK
    <2> QED BY <1>1, <1>3, <1>4, <1>5, <2>1 DEF Alone
  <1> QED BY <1>6, <1>8, <1>9, <1>10 DEF Alone

LEMMA DeliveredStays ==
    ASSUME Inv, NEW r \in Calls, NEW ans, AnswerArrives(r, ans),
           NEW q \in Calls, NEW i, NEW k, Delivered(q, i, k)
    PROVE  Delivered(q, i, k)'
  <1>1. q # r
    BY DEF Delivered, AnswerArrives
  <1> QED BY <1>1 DEF Delivered, AnswerArrives, Inv, TypeOK, Key

\* An answer that repeats a record, or is a refusal, leaves the rest as it was.
LEMMA AnswerFollows ==
    ASSUME Inv, Inv', PatientInv, patient, NEW r \in Calls, NEW ans, AnswerArrives(r, ans),
           UNCHANGED <<esc, replay>>
    PROVE  /\ \A i \in Calls : Follows(i)'
           /\ \A c \in Calls : Untouched(c)'
  <1>1. UNCHANGED <<repo, idem, req, id, local>>
    BY DEF AnswerArrives, storeVars
  <1>2. \A c : (Pending(c) = Pending(c)')
    BY <1>1 DEF Pending
  <1>3. \A c \in Calls : Untouched(c)'
    BY <1>1, <1>2 DEF PatientInv, Untouched
  <1>4. ASSUME NEW i \in Calls, repo[i] # NoEscrow PROVE Follows(i)'
    <2>1. PICK c \in Calls : c = repo[i].ref
      BY <1>4 DEF Inv, StoresHold, Kept
    <2>2. Follows(i)
      BY DEF PatientInv
    <2>3. Opened(c)'
      BY <1>1, <1>4, <2>1, <2>2 DEF Follows, Opened, AnswerArrives, Inv, TypeOK, Key
    <2>4. pc'[i] = "done"
      BY <1>4, <2>2 DEF Follows, AnswerArrives, Inv, TypeOK
    <2>5. ASSUME NEW k \in Keys, k \in Pending(c)
          PROVE  k \in Owed(i)' \/ \E q \in Calls : Delivered(q, i, k)'
      <3>1. k \in Owed(i) \/ \E q \in Calls : Delivered(q, i, k)
        BY <1>4, <2>1, <2>2, <2>5 DEF Follows
      <3>2. ASSUME NEW q \in Calls, Delivered(q, i, k) PROVE Delivered(q, i, k)'
        BY <3>2, DeliveredStays
      <3>3. CASE k \in Owed(i) /\ (k # Key(r) \/ ans \notin Answers)
        BY <3>3, DebtsMove
      <3>4. CASE k = Key(r) /\ ans \in Answers
        <4>1. answer'[r] = ans /\ pc'[r] = "answered" /\ (Key(r) = Key(r)') /\ (Op(r) = Op(r)')
          BY <1>1 DEF AnswerArrives, Inv, TypeOK, Key, Op
        <4>2. replay[k] = [order |-> req[r], answer |-> ans] /\ (Op(r) # "hold" => ans.ref = local[r].ref)
          BY <1>1, <3>4, <4>1 DEF Inv, CallsHold, CallHolds
        <4>3. Op(r) # "hold" /\ ans.ref = c
          BY <2>5, <4>2 DEF Pending, Op
        <4>4. local[r] = repo[id[r]] /\ id[r] \in Calls /\ local[r].ref = c /\ local[r] # NoEscrow
          BY <4>2, <4>3 DEF PatientInv, Alone, AtGateway, AnswerArrives, Inv, CallsHold, CallHolds
        <4>5. id[r] = i
          BY <1>4, <2>1, <2>2, <4>4 DEF Follows
        <4>6. Delivered(r, i, k)'
          BY <1>1, <3>4, <4>1, <4>5 DEF Delivered
        <4> QED BY <4>6
      <3> QED BY <3>1, <3>2, <3>3, <3>4
    <2>6. \A k \in Pending(c)' : k \in Owed(i)' \/ \E q \in Calls : Delivered(q, i, k)'
      <3>1. \A k \in Pending(c) : k \in Keys
        BY DEF Pending
      <3> QED BY <1>2, <2>5, <3>1
    <2>7. /\ \A j \in Calls : repo'[j] # NoEscrow /\ repo'[j].ref = c => i = j
          /\ \A k, l \in Pending(c)' : k = l
          /\ Pending(c)' = {} => InStep(repo'[i], esc'[c])
          /\ \A k \in Pending(c)' : OneBehind(repo'[i], esc'[c], replay'[k].answer)
      BY <1>1, <1>2, <1>4, <2>1, <2>2 DEF Follows
    <2>8. repo'[i].ref = c
      BY <1>1, <2>1
    <2> QED BY <2>3, <2>4, <2>6, <2>7, <2>8 DEF Follows
  <1> QED BY <1>1, <1>3, <1>4 DEF Follows

\* A request is executed only while none is pending: the stored escrow falls one
\* request behind.
LEMMA ExecutedFollows ==
    ASSUME Inv, Inv', PatientInv, patient, NEW r \in Calls,
           GatewayHolds(r) \/ GatewayReleases(r) \/ GatewayDisputes(r)
    PROVE  /\ Alone'
           /\ \A i \in Calls : Follows(i)'
           /\ \A c \in Calls : Untouched(c)'
  <1> USE DEF Inv
  <1>1. PICK word \in {"held", "released", "disputed"}, paid \in 0 .. Amount :
           /\ pc[r] = "gateway" /\ Subject(r) \in Calls
           /\ Executed(r, word, word, paid)
           /\ Op(r) = "hold" => word = "held" /\ paid = 0 /\ Subject(r) = r
           /\ Op(r) # "hold" => Subject(r) = local[r].ref
      BY Executes
  <1>2. /\ req[r] \in Offered /\ id[r] \in Calls /\ answer[r] = NoAnswer
        /\ esc[r] = [word |-> "none", paid |-> 0]
    BY <1>1 DEF CallsHold, CallHolds
  <1>3. PICK k \in Keys, s \in Calls : k = Key(r) /\ s = Subject(r)
    BY <1>1, <1>2, OrderTypes
  <1> DEFINE body == [kind |-> "body", status |-> word, paid |-> paid, ref |-> s]
  <1>4. /\ replay[k] = Unused
        /\ replay' = [replay EXCEPT ![k] = [order |-> req[r], answer |-> body]]
        /\ esc' = [esc EXCEPT ![s] = [word |-> word, paid |-> esc[s].paid + paid]]
        /\ answer' \in {[answer EXCEPT ![r] = body], [answer EXCEPT ![r] = Lost]}
        /\ pc' = [pc EXCEPT ![r] = "answered"]
        /\ UNCHANGED <<patient, up, req, id, local, reply, storeVars>>
    <2>1. /\ req[r] \in Offered /\ Subject(r) \in Calls /\ Executed(r, word, word, paid)
      BY <1>1, <1>2
    <2> HIDE DEF Inv
    <2>2. LET ans == [kind |-> "body", status |-> word, paid |-> paid, ref |-> Subject(r)] IN
          /\ replay[Key(r)] = Unused
          /\ replay' = [replay EXCEPT ![Key(r)] = [order |-> req[r], answer |-> ans]]
          /\ esc' = [esc EXCEPT ![Subject(r)] = [word |-> word, paid |-> esc[Subject(r)].paid + paid]]
          /\ answer' \in {[answer EXCEPT ![r] = ans], [answer EXCEPT ![r] = Lost]}
          /\ pc' = [pc EXCEPT ![r] = "answered"]
          /\ UNCHANGED <<patient, up, req, id, local, reply, storeVars>>
      BY <2>1, ExecutedRecords
    <2> QED BY <1>3, <2>2
  <1>5. body \in Answers /\ body.status = word /\ body.paid = paid /\ body.ref = s
    BY DEF Answers, EscrowStatus
  <1> HIDE DEF body
  <1>6. PICK ans \in {body, Lost} : AnswerArrives(r, ans)
    BY <1>1, <1>4, <1>5 DEF AnswerArrives
  <1>7. Alone'
    BY <1>6, AnswerAlone
  <1>8. UNCHANGED <<repo, idem, req, id, local>>
    BY <1>4 DEF storeVars
  <1>9. /\ replay'[k] # Unused /\ replay'[k].order = req[r] /\ replay'[k].answer = body
        /\ \A l \in Keys : l # k => replay'[l] = replay[l]
    BY <1>4, <1>5, AbsentAreNone DEF TypeOK, Unused
  <1>10. esc'[s].word = word /\ esc'[s].paid = esc[s].paid + paid
         /\ \A c \in Calls : c # s => esc'[c] = esc[c]
    BY <1>4 DEF TypeOK
  <1>11. k \in Pending(s)' => Op(r) # "hold"
    BY <1>9 DEF Pending, Op
  <1>12. \A c \in Calls : c # s => Pending(c)' = Pending(c)
    BY <1>4, <1>5, <1>8, <1>9 DEF Pending
  <1>13. Pending(s)' = IF Op(r) = "hold" THEN Pending(s) ELSE Pending(s) \cup {k}
    <2>1. idem[k] = NoOutput
      BY <1>1, <1>3 DEF PatientInv, Alone, AtGateway
    <2>2. k \notin Pending(s)
      BY <1>4 DEF Pending
    <2> QED BY <1>4, <1>5, <1>8, <1>9, <2>1, <2>2 DEF Pending, Op
  <1>14. ASSUME Op(r) # "hold"
         PROVE  /\ repo[id[r]] = local[r] /\ repo[id[r]] # NoEscrow /\ repo[id[r]].ref = s
                /\ Pending(s) = {}
    <2>1. repo[id[r]] = local[r] /\ local[r].ref = s /\ local[r] # NoEscrow
      BY <1>1, <1>3, <1>14 DEF PatientInv, Alone, AtGateway, CallsHold, CallHolds
    <2>2. Follows(id[r])
      BY <1>2 DEF PatientInv
    <2>3. ASSUME NEW l \in Pending(s) PROVE FALSE
      <3>1. l # k
        BY <1>4, <2>3 DEF Pending
      <3>2. l \in Owed(id[r]) \/ \E q \in Calls : Delivered(q, id[r], l)
        BY <2>1, <2>2, <2>3 DEF Follows
      <3>3. l \notin Owed(id[r])
        BY <1>1, <1>3, <3>1 DEF PatientInv, Alone, Executing
      <3>4. \A q \in Calls : ~Delivered(q, id[r], l)
        BY <1>1 DEF PatientInv, Alone, Delivered, Executing
      <3> QED BY <3>2, <3>3, <3>4
    <2> QED BY <2>1, <2>3
  <1>15. ASSUME NEW c \in Calls PROVE Untouched(c)'
    <2>1. Untouched(c)
      BY DEF PatientInv
    <2>2. CASE c # s
      BY <1>8, <1>10, <1>12, <2>1, <2>2 DEF Untouched
    <2>3. CASE c = s /\ Op(r) # "hold"
      BY <1>2, <1>8, <1>14, <2>3 DEF Untouched
    <2>4. CASE c = s /\ Op(r) = "hold"
      <3>1. esc[s].paid = 0 /\ word = "held" /\ paid = 0
        BY <1>1, <1>2, <1>3, <2>4
      <3> QED BY <1>8, <1>10, <1>13, <2>1, <2>4, <3>1 DEF Untouched
    <2> QED BY <2>2, <2>3, <2>4
  <1>16. ASSUME NEW i \in Calls, repo[i] # NoEscrow PROVE Follows(i)'
    <2>1. PICK c \in Calls : c = repo[i].ref
      BY <1>16 DEF StoresHold, Kept
    <2>2. Follows(i)
      BY DEF PatientInv
    <2>3. Opened(c) /\ Key(c) \in Keys
      BY <1>16, <2>1, <2>2, OrderTypes DEF Follows, Opened, CallsHold, CallHolds
    <2>4. Opened(c)'
      <3>1. Key(c) # k
        BY <1>4, <2>1, <2>3, AbsentAreNone DEF Opened
      <3> QED BY <1>4, <1>8, <1>9, <2>3, <3>1 DEF Opened, Key, TypeOK
    <2>5. pc'[i] = "done"
      BY <1>1, <1>4, <1>16, <2>2 DEF Follows, TypeOK
    <2>6. repo'[i] = repo[i] /\ \A j \in Calls : repo'[j] # NoEscrow /\ repo'[j].ref = c => i = j
      BY <1>8, <1>16, <2>1, <2>2 DEF Follows
    <2>7. ASSUME NEW l \in Keys, l \in Pending(c)
          PROVE  l \in Owed(i)' \/ \E q \in Calls : Delivered(q, i, l)'
      <3>1. l # k
        BY <1>4, <2>7 DEF Pending
      <3>2. l \in Owed(i) \/ \E q \in Calls : Delivered(q, i, l)
        BY <1>16, <2>1, <2>2, <2>7 DEF Follows
      <3>3. ASSUME NEW q \in Calls, Delivered(q, i, l) PROVE Delivered(q, i, l)'
        BY <1>6, <3>3, DeliveredStays
      <3>4. l \in Owed(i) => l \in Owed(i)'
        BY <1>3, <1>6, <3>1, DebtsMove
      <3> QED BY <3>2, <3>3, <3>4
    <2>8. \A l \in Pending(c) : l \in Keys
      BY DEF Pending
    <2>9. CASE Pending(c)' = Pending(c) /\ (c # s \/ Op(r) = "hold")
      <3>1. c # s
        <4>1. RecordHolds(Key(c)) /\ replay[Key(c)] # Unused
          BY <2>3, AbsentAreNone DEF RecordsHold, Opened
        <4>2. esc[c].word # "none"
          BY <2>3, <4>1 DEF Opened, RecordHolds
        <4>3. esc[r].word = "none"
          BY <1>2
        <4> QED BY <1>1, <1>3, <2>9, <4>2, <4>3
      <3>2. \A l \in Pending(c) : l # k
        BY <1>4 DEF Pending
      <3>3. /\ \A l, m \in Pending(c)' : l = m
            /\ Pending(c)' = {} => InStep(repo'[i], esc'[c])
            /\ \A l \in Pending(c)' : OneBehind(repo'[i], esc'[c], replay'[l].answer)
        BY <1>9, <1>10, <1>16, <2>1, <2>2, <2>6, <2>8, <2>9, <3>1, <3>2 DEF Follows
      <3> QED BY <2>1, <2>4, <2>5, <2>6, <2>7, <2>8, <2>9, <3>3 DEF Follows
    <2>10. CASE c = s /\ Op(r) # "hold"
      <3>1. i = id[r] /\ Pending(c) = {} /\ Pending(c)' = {k} /\ repo[i] = local[r]
        BY <1>13, <1>14, <1>16, <1>2, <2>1, <2>2, <2>10 DEF Follows
      <3>2. InStep(repo[i], esc[c])
        BY <1>16, <2>1, <2>2, <3>1 DEF Follows
      <3>3. OneBehind(repo[i], esc'[c], body)
        <4>1. repo[i].released \in Nat /\ esc[c].paid \in Nat
          BY <1>16, Parameters DEF TypeOK, Escrows
        <4>2. repo[i].released + paid = esc[c].paid + paid
          BY <3>2, <4>1 DEF InStep
        <4>3. word = StatusOfWord(word)
          BY DEF StatusOfWord
        <4>4. repo[i].status \in (IF word = "released" THEN {"held", "disputed"} ELSE {"held"})
          <5>1. CASE GatewayHolds(r)
            BY <2>10, <5>1 DEF GatewayHolds
          <5>2. CASE GatewayReleases(r)
            <6>1. esc[c].word \in {"held", "awarded"} /\ (esc[c].word = "held" \/ esc'[c].word = "released")
              BY <1>3, <1>10, <2>10, <5>2 DEF GatewayReleases, Executed, TypeOK
            <6> QED BY <1>10, <2>10, <3>2, <6>1 DEF InStep, StatusOfWord
          <5>3. CASE GatewayDisputes(r)
            <6>1. esc[c].word = "held" /\ esc'[c].word = "disputed"
              BY <1>3, <1>10, <2>10, <5>3 DEF GatewayDisputes, Executed, TypeOK
            <6> QED BY <1>10, <2>10, <3>2, <6>1 DEF InStep, StatusOfWord
          <5> QED BY <5>1, <5>2, <5>3
        <4> QED BY <1>5, <1>10, <2>10, <4>2, <4>3, <4>4 DEF OneBehind
      <3>4. k \in Owed(i)' \/ \E q \in Calls : Delivered(q, i, k)'
        <4>1. answer'[r] = ans /\ pc'[r] = "answered" /\ id'[r] = i /\ (Key(r) = Key(r)')
          BY <1>6, <1>8, <3>1 DEF AnswerArrives, TypeOK, Key
        <4>2. CASE ans = body
          BY <1>3, <1>5, <4>1, <4>2 DEF Delivered
        <4>3. CASE ans = Lost
          <5>1. ASSUME NEW q \in Calls, answer'[q] \in Answers PROVE Key(q)' # k
            <6>1. q # r /\ answer[q] \in Answers
              BY <1>6, <4>1, <4>3, <5>1, AbsentAreNone DEF AnswerArrives, TypeOK
            <6>2. replay[Key(q)] = [order |-> req[q], answer |-> answer[q]]
              BY <6>1 DEF CallsHold, CallHolds
            <6>3. replay[Key(q)] # Unused
              BY <6>1, <6>2, AbsentAreNone DEF Unused
            <6> QED BY <1>4, <1>8, <6>3 DEF Key
          <5>2. k \in {Key(q)' : q \in {q \in Calls : id'[q] = i /\ answer'[q] = Lost}}
            BY <1>3, <4>1, <4>3
          <5> QED BY <5>1, <5>2 DEF Owed
        <4> QED BY <1>6, <4>2, <4>3
      <3>5. repo'[i].ref = c /\ replay'[k].answer = body
        BY <1>8, <1>9, <2>1
      <3>6. \A l \in Pending(c)' : l = k
        BY <3>1
      <3> QED BY <2>4, <2>5, <2>6, <3>1, <3>3, <3>4, <3>5, <3>6 DEF Follows
    <2> QED BY <1>12, <1>13, <2>9, <2>10
  <1> QED BY <1>7, <1>8, <1>15, <1>16 DEF Follows

\* The resolution of a dispute changes nothing that is stored or told.
LEMMA ResolvedFollows ==
    ASSUME Inv, PatientInv, patient, NEW d \in Calls, DisputeResolved(d)
    PROVE  /\ Alone'
           /\ \A i \in Calls : Follows(i)'
           /\ \A c \in Calls : Untouched(c)'
  <1>1. PICK word \in {"awarded", "refunded"} :
           esc[d].word = "disputed" /\ esc' = [esc EXCEPT ![d].word = word]
    BY DEF DisputeResolved
  <1>2. UNCHANGED <<pc, req, id, local, answer, repo, idem, replay>>
    BY DEF DisputeResolved, processVars, storeVars
  <1>3. \A c \in Calls : /\ StatusOfWord(esc'[c].word) = StatusOfWord(esc[c].word)
                         /\ esc'[c].paid = esc[c].paid
                         /\ esc[c].word \in {"none", "held"} => esc'[c].word = esc[c].word
    BY <1>1 DEF Inv, TypeOK, StatusOfWord
  <1>4. \A q : (Key(q) = Key(q)') /\ (Op(q) = Op(q)')
    BY <1>2 DEF Key, Op
  <1>5. \A i : (Owed(i) = Owed(i)')
    BY <1>2, <1>4 DEF Owed
  <1>6. \A c : (Pending(c) = Pending(c)')
    BY <1>2 DEF Pending
  <1>7. \A q, i, k : (Delivered(q, i, k) <=> Delivered(q, i, k)')
    BY <1>2, <1>4 DEF Delivered
  <1>8. Alone'
    <2>1. \A q \in Calls : Owed(id[q])' = Owed(id[q])
      BY <1>2, <1>4 DEF Owed
    <2> QED BY <1>2, <1>4, <2>1 DEF PatientInv, Alone
  <1>9. \A c \in Calls : Untouched(c)'
    BY <1>2, <1>3, <1>6 DEF PatientInv, Untouched
  <1>10. ASSUME NEW i \in Calls, repo[i] # NoEscrow PROVE Follows(i)'
    <2>1. PICK c \in Calls : c = repo[i].ref
      BY <1>10 DEF Inv, StoresHold, Kept
    <2>2. Follows(i)
      BY DEF PatientInv
    <2>3. Opened(c)'
      BY <1>2, <1>4, <1>10, <2>1, <2>2 DEF Follows, Opened
    <2>4. /\ pc'[i] = "done" /\ repo'[i] = repo[i]
          /\ \A j \in Calls : repo'[j] # NoEscrow /\ repo'[j].ref = c => i = j
      BY <1>2, <1>10, <2>1, <2>2 DEF Follows
    <2>5. \A k \in Pending(c)' : k \in Owed(i)' \/ \E q \in Calls : Delivered(q, i, k)'
      BY <1>5, <1>6, <1>7, <1>10, <2>1, <2>2 DEF Follows
    <2>6. /\ \A k, l \in Pending(c)' : k = l
          /\ Pending(c)' = {} => InStep(repo'[i], esc'[c])
          /\ \A k \in Pending(c)' : OneBehind(repo'[i], esc'[c], replay'[k].answer)
      BY <1>2, <1>3, <1>6, <1>10, <2>1, <2>2 DEF Follows, InStep, OneBehind
    <2> QED BY <2>1, <2>3, <2>4, <2>5, <2>6 DEF Follows
  <1> QED BY <1>2, <1>8, <1>9, <1>10 DEF Follows

\* The call that an answer was for stores it: the escrow is in step again.
LEMMA FinishFollows ==
    ASSUME Inv, PatientInv, patient, NEW r \in Calls, Finish(r)
    PROVE  /\ Alone'
           /\ \A i \in Calls : Follows(i)'
           /\ \A c \in Calls : Untouched(c)'
  <1>1. PICK i \in Calls, k \in Keys, e \in Escrows, s \in Calls :
           /\ i = id[r] /\ k = Key(r) /\ e = Advanced(r) /\ s = e.ref
           /\ replay[k] # Unused
    BY AdvancedCounts DEF Finish, Inv, Counted
  <1>2. /\ pc[r] = "answered" /\ answer[r] \in Answers
        /\ repo' = [repo EXCEPT ![i] = e]
        /\ idem' = [idem EXCEPT ![k] = [id |-> i, escrow |-> e]]
        /\ pc' = [pc EXCEPT ![r] = "done"]
        /\ UNCHANGED <<patient, up, req, id, local, answer, esc, replay>>
    BY <1>1 DEF Finish, Read, Return, gatewayVars
  <1>3. /\ pc'[r] = "done" /\ \A q \in Calls : q # r => pc'[q] = pc[q]
        /\ repo'[i] = e /\ \A j \in Calls : j # i => repo'[j] = repo[j]
        /\ idem'[k] # NoOutput /\ \A l \in Keys : l # k => idem'[l] = idem[l]
    BY <1>1, <1>2, Parameters DEF Inv, TypeOK, NoOutput
  <1>4. /\ req[r] \in Offered
        /\ replay[k] = [order |-> req[r], answer |-> answer[r]]
        /\ Op(r) = "hold" => id[r] = r /\ local[r] = CreatedEscrow
        /\ Op(r) # "hold" => answer[r].ref = local[r].ref
    BY <1>1, <1>2 DEF Inv, CallsHold, CallHolds
  <1>5. e # NoEscrow /\ idem[k] = NoOutput /\ pc[r] \in Executing
    BY <1>1, <1>2, AbsentAreNone DEF PatientInv, Alone, AtGateway, Executing
  <1>6. \A q : (Key(q) = Key(q)') /\ (Op(q) = Op(q)')
    BY <1>2 DEF Key, Op
  <1>7. \A j : (Owed(j) = Owed(j)')
    BY <1>2, <1>6 DEF Owed
  <1>8. \A q \in Calls : pc[q] \in Executing /\ q # r => id[q] # i /\ Key(q) # k
    BY <1>1, <1>5 DEF PatientInv, Alone
  <1>9. Alone'
    <2>1. \A q \in Calls : /\ pc'[q] \in Executing => pc[q] \in Executing /\ q # r
                           /\ pc'[q] \in AtGateway => pc[q] \in AtGateway /\ pc[q] \in Executing /\ q # r
                           /\ pc'[q] = "done" => pc[q] = "done" \/ q = r
      BY <1>3 DEF Executing, AtGateway
    <2>2. \A q \in Calls : pc[q] # "idle" => Key(q) \in Keys
      BY OrderTypes DEF Inv, CallsHold, CallHolds
    <2>3. \A q, p \in Calls : pc'[q] \in Executing /\ pc'[p] \in Executing
                              /\ (id'[q] = id'[p] \/ (Key(q) = Key(p))') => q = p
      BY <1>2, <1>6, <2>1 DEF PatientInv, Alone
    <2>4. \A q \in Calls : pc'[q] \in Executing => (Owed(id[q]) \subseteq {Key(q)})'
      <3>1. \A q \in Calls : Owed(id[q])' = Owed(id[q])
        BY <1>2, <1>6 DEF Owed
      <3> QED BY <1>6, <2>1, <3>1 DEF PatientInv, Alone
    <2>5. \A q \in Calls : pc'[q] \in AtGateway => idem'[Key(q)] = NoOutput
      <3>1. \A q \in Calls : pc[q] \in AtGateway => Key(q) \in Keys
        BY <2>2 DEF AtGateway
      <3> QED BY <1>3, <1>8, <2>1, <3>1 DEF PatientInv, Alone
    <2>6. \A q \in Calls : pc'[q] \in AtGateway /\ Op(q) # "hold" => local'[q] = repo'[id'[q]]
      <3>1. \A q \in Calls : pc[q] \in AtGateway => id[q] \in Calls
        BY DEF Inv, CallsHold, CallHolds, AtGateway
      <3> QED BY <1>2, <1>3, <1>8, <2>1, <3>1 DEF PatientInv, Alone
    <2>7. \A q \in Calls : pc'[q] = "done" /\ answer'[q] \in Answers => idem'[Key(q)] # NoOutput
      <3>1. \A q \in Calls : pc[q] = "done" => Key(q) \in Keys
        BY <2>2
      <3> QED BY <1>1, <1>2, <1>3, <2>1, <3>1 DEF PatientInv, Alone
    <2> QED BY <1>6, <2>3, <2>4, <2>5, <2>6, <2>7 DEF Alone
  <1>10. \A c \in Calls : Pending(c)' = Pending(c) \ {k}
    BY <1>2, <1>3 DEF Pending
  \* The key that is committed is no other escrow's.
  <1>11. ASSUME NEW c \in Calls, k \in Pending(c) PROVE c = s /\ Op(r) # "hold"
    <2>1. Op(r) # "hold" /\ answer[r].ref = c
      BY <1>4, <1>11 DEF Pending, Op
    <2> QED BY <1>1, <1>4, <2>1 DEF Advanced
  <1>12. RecordHolds(k)
    BY DEF Inv, RecordsHold
  \* A hold stores an escrow that was not stored before.
  <1>13. ASSUME Op(r) = "hold"
         PROVE  /\ i = r /\ repo[i] = NoEscrow
                /\ \A j \in Calls : repo[j] # NoEscrow => repo[j].ref # s
                /\ req[s] = req[r] /\ esc[s].word # "none"
                /\ e.status = "held" /\ e.released = 0 /\ s = answer[r].ref
    <2>1. i = r /\ Follows(i)
      BY <1>1, <1>4, <1>13 DEF PatientInv
    <2>2. repo[i] = NoEscrow
      BY <1>2, <2>1 DEF Follows
    <2>3. s = answer[r].ref /\ e.status = "held" /\ e.released = 0
      BY <1>1, <1>4, <1>13 DEF Advanced, Target, CreatedEscrow
    <2>4. req[s] = req[r] /\ esc[s].word # "none"
      BY <1>1, <1>4, <1>12, <1>13, <2>3 DEF RecordHolds, Op
    <2>5. ASSUME NEW j \in Calls, repo[j] # NoEscrow, repo[j].ref = s PROVE FALSE
      <3>1. Opened(s)
        BY <2>5 DEF PatientInv, Follows
      <3> QED BY <1>1, <1>5, <2>4, <3>1 DEF Opened, Key
    <2> QED BY <2>1, <2>2, <2>3, <2>4, <2>5
  \* A release or dispute brings the escrow it loaded in step.
  <1>14. ASSUME Op(r) # "hold"
         PROVE  /\ repo[i] # NoEscrow /\ repo[i].ref = s
                /\ k \in Pending(s) /\ InStep(e, esc[s])
    <2>1. /\ local[r] = repo[i] /\ repo[i] # NoEscrow /\ answer[r].ref = repo[i].ref
          /\ k \in Pending(repo[i].ref)
          /\ OneBehind(repo[i], esc[repo[i].ref], answer[r])
      BY <1>1, <1>14, PatientMoves DEF Finish
    <2>2. s = repo[i].ref
      BY <1>1, <1>14, <2>1 DEF Advanced
    <2>3. e.released = repo[i].released + (IF Op(r) = "release" THEN answer[r].paid ELSE 0)
          /\ e.status = Target(r)
      BY <1>1, <2>1 DEF Advanced
    <2>4. Op(r) \in Operations
      BY <1>4, OrderTypes
    <2>5. Op(r) = "dispute" => answer[r].paid = 0 /\ answer[r].status = "disputed"
      BY <1>1, <1>4, <1>12 DEF RecordHolds, Op
    <2>6. InStep(e, esc[s])
      BY <1>14, <2>1, <2>2, <2>3, <2>4, <2>5 DEF OneBehind, InStep, Target, Operations
    <2> QED BY <2>1, <2>2, <2>6
  <1>15. ASSUME NEW c \in Calls PROVE Untouched(c)'
    <2>1. Untouched(c) /\ (k \notin Pending(c) \/ c = s)
      BY <1>11 DEF PatientInv
    <2>2. CASE c = s
      BY <1>1, <1>3, <1>5, <2>2 DEF Untouched
    <2>3. CASE c # s
      <3>1. (\A j \in Calls : repo'[j] = NoEscrow \/ repo'[j].ref # c)
            => \A j \in Calls : repo[j] = NoEscrow \/ repo[j].ref # c
        BY <1>3, <1>13, <1>14, <2>3
      <3> QED BY <1>2, <1>10, <2>1, <2>3, <3>1 DEF Untouched
    <2> QED BY <2>2, <2>3
  <1>16. ASSUME NEW j \in Calls, j # i, repo[j] # NoEscrow PROVE Follows(j)'
    <2>1. PICK c \in Calls : c = repo[j].ref
      BY <1>16 DEF Inv, StoresHold, Kept
    <2>2. Follows(j) /\ c # s
      BY <1>13, <1>14, <1>16, <2>1 DEF PatientInv, Follows
    <2>3. Pending(c)' = Pending(c)
      BY <1>10, <1>11, <2>2
    <2>4. Opened(c)'
      <3>1. Opened(c) /\ Key(c) \in Keys
        BY <1>16, <2>1, <2>2, OrderTypes DEF Follows, Opened, Inv, CallsHold, CallHolds
      <3> QED BY <1>2, <1>3, <1>6, <3>1 DEF Opened
    <2>5. /\ pc'[j] = "done" /\ repo'[j] = repo[j]
          /\ \A l \in Calls : repo'[l] # NoEscrow /\ repo'[l].ref = c => j = l
      BY <1>1, <1>3, <1>16, <2>1, <2>2 DEF Follows
    <2>6. ASSUME NEW l \in Keys, l \in Pending(c)
          PROVE  l \in Owed(j)' \/ \E q \in Calls : Delivered(q, j, l)'
      <3>1. l \in Owed(j) \/ \E q \in Calls : Delivered(q, j, l)
        BY <1>16, <2>1, <2>2, <2>6 DEF Follows
      <3>2. ASSUME NEW q \in Calls, Delivered(q, j, l) PROVE Delivered(q, j, l)'
        <4>1. q # r
          BY <1>1, <1>16, <3>2 DEF Delivered
        <4> QED BY <1>2, <1>3, <1>6, <3>2, <4>1 DEF Delivered
      <3> QED BY <1>7, <3>1, <3>2
    <2>7. \A l \in Pending(c)' : l \in Owed(j)' \/ \E q \in Calls : Delivered(q, j, l)'
      BY <2>3, <2>6 DEF Pending
    <2>8. /\ \A l, m \in Pending(c)' : l = m
          /\ Pending(c)' = {} => InStep(repo'[j], esc'[c])
          /\ \A l \in Pending(c)' : OneBehind(repo'[j], esc'[c], replay'[l].answer)
      BY <1>2, <1>16, <2>1, <2>2, <2>3, <2>5 DEF Follows
    <2> QED BY <2>1, <2>4, <2>5, <2>7, <2>8 DEF Follows
  <1>17. Follows(i)'
    <2>1. Pending(s)' = {} /\ InStep(e, esc[s])
      <3>1. CASE Op(r) = "hold"
        <4>1. Untouched(s) /\ \A j \in Calls : repo[j] = NoEscrow \/ repo[j].ref # s
          BY <1>13, <3>1 DEF PatientInv
        <4>2. Pending(s) = {} /\ esc[s].word = "held" /\ esc[s].paid = 0
          BY <1>13, <3>1, <4>1 DEF Untouched
        <4> QED BY <1>10, <1>13, <3>1, <4>2 DEF InStep, StatusOfWord
      <3>2. CASE Op(r) # "hold"
        <4>1. Follows(i) /\ repo[i] # NoEscrow /\ repo[i].ref = s /\ k \in Pending(s)
          BY <1>14, <3>2 DEF PatientInv
        <4>2. Pending(s) = {k}
          BY <4>1 DEF Follows
        <4> QED BY <1>10, <1>14, <3>2, <4>2
      <3> QED BY <3>1, <3>2
    <2>2. pc'[i] = "done" /\ Opened(s)' /\ \A j \in Calls : repo'[j] # NoEscrow /\ repo'[j].ref = s => i = j
      <3>1. CASE Op(r) = "hold"
        <4>1. pc[s] # "idle"
          <5>1. CASE esc[s] = [word |-> "none", paid |-> 0]
            <6>1. esc[s].word = "none"
              BY <5>1
            <6> QED BY <1>13, <3>1, <6>1
          <5> QED BY <5>1 DEF Inv, CallsHold, CallHolds
        <4>2. Key(s) = k /\ pc'[s] # "idle"
          BY <1>1, <1>3, <1>13, <3>1, <4>1 DEF Key
        <4>3. replay[k].order.op = "hold" /\ replay[k].answer.ref = s
          BY <1>4, <1>13, <3>1 DEF Op
        <4>4. Opened(s)'
          BY <1>2, <1>3, <1>6, <4>2, <4>3 DEF Opened
        <4> QED BY <1>3, <1>13, <3>1, <4>4
      <3>2. CASE Op(r) # "hold"
        <4>1. Follows(i) /\ repo[i] # NoEscrow /\ repo[i].ref = s
          BY <1>14, <3>2 DEF PatientInv
        <4>2. Opened(s) /\ Key(s) \in Keys
          BY <4>1, OrderTypes DEF Follows, Opened, Inv, CallsHold, CallHolds
        <4>3. Opened(s)'
          BY <1>2, <1>3, <1>6, <4>2 DEF Opened
        <4> QED BY <1>3, <4>1, <4>3 DEF Follows
      <3> QED BY <3>1, <3>2
    <2>3. repo'[i] = e /\ e.ref = s /\ esc'[s] = esc[s]
      BY <1>1, <1>2, <1>3
    <2> QED BY <2>1, <2>2, <2>3 DEF Follows
  <1> QED BY <1>3, <1>9, <1>15, <1>16, <1>17 DEF Follows

\* A call that arrives, or is answered without the gateway's word, or takes its
\* copy of the escrow, keeps to its turn.
LEMMA HandlerAlone ==
    ASSUME Inv, PatientInv, patient, NEW r \in Calls,
           Receive(r) \/ ReturnCached(r) \/ Reject(r) \/ Start(r) \/ ReturnGatewayError(r)
    PROVE  /\ Alone'
           /\ UNCHANGED <<patient, up, answer, repo, idem, esc, replay>>
           /\ \A q \in Calls : QuietFor(q)
  <1>0. Alone
    BY DEF PatientInv
  <1>1. CASE Receive(r)
    <2>1. PICK order \in Offered, i \in ({r} \cup {id[q] : q \in Calls}) \ {None} :
             /\ Admissible(order, i)
             /\ req' = [req EXCEPT ![r] = order] /\ id' = [id EXCEPT ![r] = i]
      BY <1>1 DEF Receive
    <2>2. /\ pc[r] = "idle" /\ pc' = [pc EXCEPT ![r] = "arrived"]
          /\ UNCHANGED <<patient, up, local, answer, repo, idem, esc, replay>>
      BY <1>1 DEF Receive, storeVars, gatewayVars
    <2>3. /\ pc'[r] = "arrived" /\ req'[r] = order /\ id'[r] = i
          /\ \A q \in Calls : q # r => pc'[q] = pc[q] /\ req'[q] = req[q] /\ id'[q] = id[q]
      BY <2>1, <2>2 DEF Inv, TypeOK
    <2>4. \A q \in Calls : QuietFor(q)
      BY <2>2, <2>3 DEF QuietFor
    <2>5. \A j \in Calls : (Owed(j) = Owed(j)')
      BY <2>2, <2>4, QuietSteps
    <2>6. /\ \A q \in Calls : q # r => (Key(q) = Key(q)') /\ (Op(q) = Op(q)')
          /\ (Key(r) = order.key)'
      BY <2>3 DEF Key, Op
    <2>7. \A q \in Calls : pc[q] \in Executing => id[q] # i /\ Key(q) # order.key
      BY <2>1 DEF Admissible
    <2>8. i \in Calls /\ Owed(i) \subseteq {order.key}
      BY <2>1 DEF Admissible, Inv, TypeOK
    <2>9. \A q, p \in Calls : pc'[q] \in Executing /\ pc'[p] \in Executing
                              /\ (id'[q] = id'[p] \/ (Key(q) = Key(p))') => q = p
      BY <1>0, <2>3, <2>6, <2>7 DEF Alone
    <2>10. ASSUME NEW q \in Calls, pc'[q] \in Executing PROVE (Owed(id[q]) \subseteq {Key(q)})'
      <3>1. PICK j \in Calls : j = id'[q]
        BY <2>3, <2>8, <2>10 DEF Inv, CallsHold, CallHolds, Executing
      <3>2. Owed(j) \subseteq {Key(q)'}
        BY <1>0, <2>3, <2>6, <2>8, <2>10, <3>1 DEF Alone
      <3>3. Owed(j)' = Owed(id[q])'
        BY <3>1 DEF Owed
      <3> QED BY <2>5, <3>2, <3>3
    <2>11. \A q \in Calls : pc'[q] \in AtGateway => pc[q] \in AtGateway /\ q # r
      BY <2>3 DEF AtGateway
    <2>12. \A q \in Calls : pc'[q] = "done" => pc[q] = "done" /\ q # r
      BY <2>3
    <2>13. Alone'
      BY <1>0, <2>2, <2>3, <2>6, <2>9, <2>10, <2>11, <2>12 DEF Alone
    <2> QED BY <2>2, <2>4, <2>13
  <1>2. CASE ReturnCached(r) \/ Reject(r) \/ ReturnGatewayError(r)
    <2>1. /\ pc[r] \in {"arrived", "answered"} /\ pc' = [pc EXCEPT ![r] = "done"]
          /\ pc[r] = "answered" => answer[r] \in {Refused, Lost}
          /\ UNCHANGED <<patient, up, req, id, local, answer, repo, idem, esc, replay>>
      BY <1>2 DEF ReturnCached, Reject, ReturnGatewayError, Return, storeVars, gatewayVars
    <2>2. answer[r] \notin Answers
      BY <2>1, AbsentAreNone DEF Inv, CallsHold, CallHolds
    <2>3. \A q \in Calls : QuietFor(q)
      BY <2>1, <2>2 DEF QuietFor, Inv, TypeOK
    <2>4. \A q \in Calls : /\ pc'[q] \in Executing => pc[q] \in Executing
                           /\ pc'[q] \in AtGateway => pc[q] \in AtGateway
                           /\ pc'[q] = "done" => pc[q] = "done" \/ q = r
      BY <2>1 DEF Executing, AtGateway, Inv, TypeOK
    <2>5. \A q : (Key(q) = Key(q)') /\ (Op(q) = Op(q)')
      BY <2>1 DEF Key, Op
    <2>6. \A q : (Owed(id[q]) = Owed(id[q])')
      BY <2>1, <2>5 DEF Owed
    <2>7. Alone'
      BY <1>0, <2>1, <2>2, <2>4, <2>5, <2>6 DEF Alone
    <2> QED BY <2>1, <2>3, <2>7
  <1>3. CASE Start(r)
    <2>1. /\ pc[r] = "arrived" /\ pc' = [pc EXCEPT ![r] = "gateway"]
          /\ idem[Key(r)] = NoOutput
          /\ local' = [local EXCEPT ![r] = IF Op(r) = "hold" THEN CreatedEscrow ELSE repo[id[r]]]
          /\ UNCHANGED <<patient, up, req, id, answer, repo, idem, esc, replay>>
      BY <1>3 DEF Start, Proceed, storeVars, gatewayVars
    <2>2. \A q \in Calls : QuietFor(q)
      BY <2>1 DEF QuietFor, Inv, TypeOK
    <2>3. \A q \in Calls : /\ pc'[q] \in Executing => pc[q] \in Executing
                           /\ pc'[q] \in AtGateway => pc[q] \in AtGateway \/ q = r
                           /\ pc'[q] = "done" => pc[q] = "done"
                           /\ q # r => local'[q] = local[q]
                           /\ Op(r) # "hold" => local'[r] = repo[id[r]]
      BY <2>1 DEF Executing, AtGateway, Inv, TypeOK
    <2>4. \A q : (Key(q) = Key(q)') /\ (Op(q) = Op(q)')
      BY <2>1 DEF Key, Op
    <2>5. \A q : (Owed(id[q]) = Owed(id[q])')
      BY <2>1, <2>4 DEF Owed
    <2>6. Alone'
      BY <1>0, <2>1, <2>3, <2>4, <2>5 DEF Alone
    <2> QED BY <2>1, <2>2, <2>6
  <1> QED BY <1>1, <1>2, <1>3

LEMMA PatientPreserved == Inv /\ PatientInv /\ [Next]_vars => PatientInv'
  <1> SUFFICES ASSUME Inv, PatientInv, [Next]_vars, patient' PROVE PatientInv'
    BY DEF PatientInv
  <1>0. Inv'
    BY InvPreserved
  <1>1. patient' = patient
    <2>1. ASSUME NEW r \in Calls, Receive(r) \/ ReturnCached(r) \/ Reject(r) \/ Start(r)
          PROVE patient' = patient
      BY <2>1 DEF Receive, ReturnCached, Reject, Start, Proceed
    <2>2. ASSUME NEW r \in Calls,
                 ReturnGatewayError(r) \/ RejectTransition(r) \/ ProcessExits(r) \/ Finish(r)
          PROVE patient' = patient
      BY <2>2 DEF ReturnGatewayError, RejectTransition, ProcessExits, Finish
    <2>3. ASSUME NEW r \in Calls,
                 \/ GatewayRefuses(r) \/ GatewayReplays(r) \/ GatewayHolds(r)
                 \/ GatewayReleases(r) \/ GatewayDisputes(r) \/ DisputeResolved(r)
          PROVE patient' = patient
      BY <2>3 DEF GatewayRefuses, GatewayReplays, GatewayHolds, GatewayReleases, GatewayDisputes,
                  Executed, Answered, DisputeResolved
    <2>4. ASSUME UNCHANGED vars PROVE patient' = patient
      BY <2>4 DEF vars
    <2> QED BY <2>1, <2>2, <2>3, <2>4 DEF Next, Handler, GatewayActs, AllDone
  <1>2. patient /\ up
    BY <1>1 DEF PatientInv
  <1>3. ASSUME NEW r \in Calls,
               Receive(r) \/ ReturnCached(r) \/ Reject(r) \/ Start(r) \/ ReturnGatewayError(r)
        PROVE PatientInv'
    BY <1>2, <1>3, HandlerAlone, QuietSteps DEF PatientInv
  <1>4. ASSUME NEW r \in Calls, RejectTransition(r) \/ ProcessExits(r) PROVE PatientInv'
    BY <1>2, <1>4, PatientMoves DEF RejectTransition, ProcessExits
  <1>5. ASSUME NEW r \in Calls, Finish(r) PROVE PatientInv'
    <2>1. up' = up
      BY <1>5 DEF Finish
    <2> QED BY <1>2, <1>5, <2>1, FinishFollows DEF PatientInv
  <1>6. ASSUME NEW r \in Calls, GatewayRefuses(r) \/ GatewayReplays(r) PROVE PatientInv'
    <2>1. UNCHANGED <<esc, replay>> /\ up' = up
      BY <1>6 DEF GatewayRefuses, GatewayReplays, Answered, gatewayVars
    <2>2. PICK ans \in Answers \cup {Refused, Lost} : AnswerArrives(r, ans)
      <3>1. CASE GatewayRefuses(r)
        BY <3>1 DEF GatewayRefuses, AnswerArrives
      <3>2. CASE GatewayReplays(r)
        <4>1. PICK ans \in {replay[PortKey(r)].answer, Lost} : answer' = [answer EXCEPT ![r] = ans]
          BY <3>2 DEF GatewayReplays, Answered
        <4>2. RecordHolds(PortKey(r)) /\ replay[PortKey(r)] # Unused
          BY <3>2 DEF GatewayReplays, SeenBefore, Inv, RecordsHold
        <4>3. replay[PortKey(r)].answer \in Answers
          BY <4>2 DEF RecordHolds
        <4> QED BY <3>2, <4>1, <4>3 DEF GatewayReplays, Answered, AnswerArrives
      <3> QED BY <1>6, <3>1, <3>2
    <2> QED BY <1>0, <1>2, <2>1, <2>2, AnswerAlone, AnswerFollows DEF PatientInv
  <1>7. ASSUME NEW r \in Calls, GatewayHolds(r) \/ GatewayReleases(r) \/ GatewayDisputes(r)
        PROVE PatientInv'
    <2>1. up' = up
      BY <1>7 DEF GatewayHolds, GatewayReleases, GatewayDisputes, Executed, Answered
    <2> QED BY <1>0, <1>2, <1>7, <2>1, ExecutedFollows DEF PatientInv
  <1>8. ASSUME NEW c \in Calls, DisputeResolved(c) PROVE PatientInv'
    <2>1. up' = up
      BY <1>8 DEF DisputeResolved, processVars
    <2> QED BY <1>2, <1>8, <2>1, ResolvedFollows DEF PatientInv
  <1>9. ASSUME UNCHANGED vars PROVE PatientInv'
    <2>1. UNCHANGED <<patient, up, pc, req, id, local, answer, reply, repo, idem, esc, replay>>
      BY <1>9 DEF vars, processVars, storeVars, gatewayVars
    <2>2. \A q \in Calls : QuietFor(q)
      BY <2>1 DEF QuietFor
    <2>3. \A q : (Key(q) = Key(q)') /\ (Op(q) = Op(q)')
      BY <2>1 DEF Key, Op
    <2>4. \A q : (Owed(id[q]) = Owed(id[q])')
      BY <2>1, <2>3 DEF Owed
    <2>5. Alone'
      BY <1>2, <2>1, <2>3, <2>4 DEF PatientInv, Alone
    <2> QED BY <1>2, <2>1, <2>2, <2>5, QuietSteps DEF PatientInv
  <1> QED BY <1>3, <1>4, <1>5, <1>6, <1>7, <1>8, <1>9 DEF Next, Handler, GatewayActs, AllDone

LEMMA PatientAlways == Spec => []PatientInv
  BY InitInv, InvPreserved, InitPatient, PatientPreserved, PTL DEF Spec

\* Callers that wait for their answers, and ask again first for one that got
\* lost, find the gateway's status and total stored whenever they are not in the
\* middle of a request: no tranche and no dispute is lost.
THEOREM PatientCallersTrack == Spec => []TracksGateway
  <1>1. Inv /\ PatientInv => TracksGateway
    <2> SUFFICES ASSUME Inv, PatientInv, NEW i \in Calls,
                        patient, up, repo[i] # NoEscrow, ~Unfinished(i)
                 PROVE  InStep(repo[i], esc[repo[i].ref])
      BY DEF TracksGateway, InStep
    <2>1. Follows(i)
      BY DEF PatientInv
    <2>2. ASSUME NEW k \in Pending(repo[i].ref) PROVE FALSE
      <3>1. k \in Owed(i) \/ \E q \in Calls : Delivered(q, i, k)
        BY <2>1, <2>2 DEF Follows
      <3> QED BY <3>1 DEF Unfinished, Delivered, Executing
    <2> QED BY <2>1, <2>2 DEF Follows
  <1> QED BY <1>1, InvAlways, PatientAlways, PTL

\* Nor do they ever end the process with the transition that a late answer would
\* make illegal.
THEOREM PatientCallersEndNone == Spec => []PatientCallersEndNothing
  <1>1. PatientInv => PatientCallersEndNothing
    BY DEF PatientInv, PatientCallersEndNothing
  <1> QED BY <1>1, PatientAlways, PTL

===============================================================================
