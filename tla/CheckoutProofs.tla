---------------------------- MODULE CheckoutProofs ----------------------------
(***************************************************************************)
(* Proofs about Checkout, for every set of calls, keys and every discipline *)
(* of the callers.                                                         *)
(***************************************************************************)
EXTENDS Checkout, TLAPS

\* What a call suspended at each point of its handler holds.
CallHolds(r) ==
    /\ pc[r] = "idle"  => req[r] = NoRequest
    /\ pc[r] # "idle"  => req[r] \in Requests
    /\ pc[r] \in {"gateway", "orphan", "resume", "commit"} =>
          /\ local[r] \in PaymentIntents
          /\ Op(r) # "initiate" => local[r].ref \in Calls
    /\ pc[r] = "resume" => answer[r] \in Answers \cup {Failure}

CallsHold == \A r \in Calls : CallHolds(r)

TypeInv == TypeOK /\ CallsHold

\* The status a call moves to is one of the table's, or none.
LEMMA TargetType ==
    ASSUME NEW r \in Calls, Op(r) \in Operations
    PROVE  Target(r) \in {"none", "pending", "succeeded", "failed", "refunded"}
  BY DEF Target, Operations

\* An intent stays an intent, and keeps or gains its reference.
LEMMA AdvancedType ==
    ASSUME NEW r \in Calls, TypeOK, CallHolds(r), pc[r] = "resume", answer[r] # Failure
    PROVE  /\ Advanced(r) \in PaymentIntents
           /\ Op(r) # "initiate" => Advanced(r).ref = local[r].ref
           /\ Op(r) = "initiate" => Advanced(r).ref = answer[r].ref
  <1>1. req[r] \in Requests /\ local[r] \in PaymentIntents /\ answer[r] \in Answers
    BY DEF CallHolds
  <1>2. Op(r) \in Operations /\ answer[r].ref \in Calls
    BY <1>1 DEF Op, Requests, Answers
  <1>3. Target(r) \in {"none", "pending", "succeeded", "failed", "refunded"}
    BY <1>2, TargetType
  <1>4. Op(r) = "initiate" => Target(r) = "pending"
    BY DEF Target
  <1>5. NewRef(r) \in Calls \cup {None} /\ (Op(r) # "initiate" => NewRef(r) = None)
    BY <1>2 DEF NewRef
  <1>6. CASE Target(r) = "none"
    BY <1>1, <1>4, <1>6 DEF Advanced
  <1>7. CASE Target(r) # "none"
    <2>1. Advanced(r) = Transitioned(local[r], Target(r), NewRef(r))
      BY <1>7 DEF Advanced
    <2>2. Target(r) \in PaymentIntentStatus
      BY <1>3, <1>7 DEF PaymentIntentStatus
    <2>3. Op(r) = "initiate" => NewRef(r) = answer[r].ref /\ NewRef(r) # None
      BY <1>2, NoneIsNoCall DEF NewRef
    <2> QED
      BY <1>1, <1>5, <2>1, <2>2, <2>3 DEF Transitioned, PaymentIntents
  <1> QED BY <1>6, <1>7

\* What the adapters answer in the domain's words, and what it implies of the
\* charge when the gateway speaks of it: OnvoPay's "failed" implies nothing.
LEMMA WordsTranslate ==
    ASSUME NEW s \in {"open", "captured", "declined"}, NEW word \in Words[Gateway][s]
    PROVE  /\ ConfirmStatus[Gateway][word] \in {"succeeded", "failed", "requires_action"}
           /\ ConfirmStatus[Gateway][word] = "succeeded" => s = "captured"
           /\ Gateway = "stripe" /\ ConfirmStatus[Gateway][word] = "failed" => s = "declined"
  <1>1. CASE Gateway = "stripe"
    BY <1>1 DEF Words, ConfirmStatus, StripeConfirmStatus, OnvoConfirmStatus
  <1>2. CASE Gateway = "onvopay"
    BY <1>2 DEF Words, ConfirmStatus, StripeConfirmStatus, OnvoConfirmStatus
  <1> QED BY <1>1, <1>2, Parameters DEF Gateways

LEMMA RefundWordsTranslate ==
    ASSUME NEW word \in DOMAIN RefundStatus[Gateway]
    PROVE  /\ word \in {"succeeded", "pending", "requires_action", "failed"}
           /\ RefundStatus[Gateway][word] \in {"succeeded", "failed"}
           /\ word = "failed" => RefundStatus[Gateway][word] = "failed"
           /\ RefundStatus[Gateway][word] = "succeeded" => word \in Counted[Gateway]
  <1>1. CASE Gateway = "stripe"
    BY <1>1 DEF RefundStatus, StripeRefundStatus, OnvoRefundStatus, Counted
  <1>2. CASE Gateway = "onvopay"
    BY <1>2 DEF RefundStatus, StripeRefundStatus, OnvoRefundStatus, Counted
  <1> QED BY <1>1, <1>2, Parameters DEF Gateways

\* What the gateway's two settling steps come to.
LEMMA ConfirmExecutes ==
    ASSUME NEW r \in Calls, GatewayConfirms(r)
    PROVE  \E s \in {"open", "captured", "declined"}, kind \in AnswerKinds :
              /\ charge[Subject(r)] \in {"open", s}
              /\ Executed(r, kind)
              /\ charge' = [charge EXCEPT ![Subject(r)] = s]
              /\ kind = "succeeded" => s = "captured"
              /\ Gateway = "stripe" /\ kind = "failed" => s = "declined"
  <1>1. PICK s \in {"open", "captured", "declined"} :
           /\ charge[Subject(r)] \in {"open", s}
           /\ \E word \in Words[Gateway][s] : Executed(r, ConfirmStatus[Gateway][word])
           /\ charge' = [charge EXCEPT ![Subject(r)] = s]
    BY DEF GatewayConfirms
  <1>2. PICK word \in Words[Gateway][s] : Executed(r, ConfirmStatus[Gateway][word])
    BY <1>1
  <1>3. PICK kind : kind = ConfirmStatus[Gateway][word]
    OBVIOUS
  <1>4. /\ kind \in AnswerKinds
        /\ kind = "succeeded" => s = "captured"
        /\ Gateway = "stripe" /\ kind = "failed" => s = "declined"
    BY <1>3, WordsTranslate DEF AnswerKinds
  <1> QED BY <1>1, <1>2, <1>3, <1>4

LEMMA RefundExecutes ==
    ASSUME NEW r \in Calls, GatewayRefunds(r)
    PROVE  \E kind \in {"succeeded", "failed"},
              word \in {"succeeded", "pending", "requires_action", "failed"} :
              /\ Executed(r, kind)
              /\ \/ kind = "failed" /\ UNCHANGED <<refunds, outcome>>
                 \/ /\ refunds' = refunds \cup {<<Subject(r), r>>}
                    /\ outcome' = [outcome EXCEPT ![r] = word]
              /\ kind = "succeeded" => word \in Counted[Gateway]
  <1>1. PICK word \in DOMAIN RefundStatus[Gateway] :
           /\ Executed(r, RefundStatus[Gateway][word])
           /\ IF word = "failed" THEN UNCHANGED <<refunds, outcome>>
              ELSE /\ refunds' = refunds \cup {<<Subject(r), r>>}
                   /\ outcome' = [outcome EXCEPT ![r] = word]
    BY DEF GatewayRefunds
  <1>2. PICK kind : kind = RefundStatus[Gateway][word]
    OBVIOUS
  <1>3. /\ word \in {"succeeded", "pending", "requires_action", "failed"}
        /\ kind \in {"succeeded", "failed"}
        /\ word = "failed" => kind = "failed"
        /\ kind = "succeeded" => word \in Counted[Gateway]
    BY <1>2, RefundWordsTranslate
  <1> QED BY <1>1, <1>2, <1>3

\* A process exit only moves calls that were executing, and empties the stores.
LEMMA ExitKeepsTypes ==
    ASSUME TypeInv, ProcessExits, crashes' \in 0 .. MaxCrashes
    PROVE  TypeInv'
  <1>1. TypeOK'
    BY DEF TypeInv, TypeOK, ProcessExits, gatewayVars, Executing, Settled
  <1>2. ASSUME NEW r \in Calls PROVE CallHolds(r)'
    <2>1. CallHolds(r)
      BY DEF TypeInv, CallsHold
    <2>2. pc'[r] = IF pc[r] = "gateway" THEN "orphan"
                   ELSE IF pc[r] \in Executing THEN "lost" ELSE pc[r]
      BY DEF ProcessExits
    <2> QED
      BY <2>1, <2>2 DEF ProcessExits, CallHolds, Executing, Op
  <1> QED BY <1>1, <1>2 DEF TypeInv, CallsHold

\* A call that returns leaves its local state alone.
LEMMA ReturnKeepsTypes ==
    ASSUME NEW r \in Calls, TypeInv, pc[r] # "idle",
           NEW rep \in [kind : {"none", "error", "ok"}, out : Outputs \cup {NoOutput}],
           Return(r, rep), idem' \in [Keys -> Outputs \cup {NoOutput}],
           UNCHANGED <<req, local, answer, repo, gatewayVars, crashes>>
    PROVE  TypeInv'
  <1>1. TypeOK'
    BY DEF TypeInv, TypeOK, Return, gatewayVars, Settled
  <1>2. ASSUME NEW q \in Calls PROVE CallHolds(q)'
    <2>1. CallHolds(q)
      BY DEF TypeInv, CallsHold
    <2>2. pc'[q] = IF q = r THEN "done" ELSE pc[q]
      BY DEF TypeInv, TypeOK, Return
    <2> QED
      BY <2>1, <2>2 DEF CallHolds, Op
  <1> QED BY <1>1, <1>2 DEF TypeInv, CallsHold

\* The call a gateway step is about, its charge and its header are known ones.
LEMMA OutstandingTypes ==
    ASSUME NEW r \in Calls, TypeInv, Outstanding(r)
    PROVE  /\ req[r] \in Requests /\ Op(r) \in Operations /\ Key(r) \in Keys
           /\ Subject(r) \in Calls /\ GatewayKey(r) = Key(r)
           /\ GatewayKey(r) \in HeaderKeys /\ local[r] \in PaymentIntents
  <1>1. CallHolds(r)
    BY DEF TypeInv, CallsHold
  <1>2. req[r] \in Requests
    BY <1>1 DEF CallHolds, Outstanding
  <1> QED
    BY <1>1, <1>2
    DEF CallHolds, Outstanding, Requests, Op, Key, Subject, GatewayKey, HeaderKeys

\* A gateway step moves one call, and hands it its answer or a failure.
LEMMA AnsweredKeepsTypes ==
    ASSUME NEW r \in Calls, TypeInv, Outstanding(r), NEW ans \in Answers \cup {Failure},
           Answered(r, ans),
           UNCHANGED <<req, local, reply, storeVars, crashes>>,
           charge' \in [Calls -> {"none", "open", "captured", "declined"}],
           refunds' \subseteq Calls \X Calls,
           outcome' \in [Calls -> {"none", "pending", "requires_action", "succeeded", "failed"}],
           replay' \in [HeaderKeys -> Recorded \cup {Unused}]
    PROVE  TypeInv'
  <1>1. /\ pc' = [pc EXCEPT ![r] = IF pc[r] = "orphan" THEN "lost" ELSE "resume"]
        /\ \/ UNCHANGED answer /\ pc[r] = "orphan"
           \/ answer' = [answer EXCEPT ![r] = ans]
           \/ answer' = [answer EXCEPT ![r] = Failure]
    BY DEF Answered
  <1>2. TypeOK'
    BY <1>1 DEF TypeInv, TypeOK, storeVars, Settled, Executing
  <1>3. ASSUME NEW q \in Calls PROVE CallHolds(q)'
    <2>1. CallHolds(q)
      BY DEF TypeInv, CallsHold
    <2>2. CASE q # r
      BY <1>1, <2>1, <2>2 DEF CallHolds, Op, TypeInv, TypeOK
    <2>3. CASE q = r
      <3>1. pc'[r] \in {"lost", "resume"}
        BY <1>1 DEF TypeInv, TypeOK
      <3>2. pc'[r] = "resume" => answer'[r] \in Answers \cup {Failure}
        BY <1>1 DEF TypeInv, TypeOK
      <3> QED
        BY <2>1, <2>3, <3>1, <3>2 DEF CallHolds, Op, Outstanding
    <2> QED BY <2>2, <2>3
  <1> QED BY <1>2, <1>3 DEF TypeInv, CallsHold

\* A first execution records an answer about a known charge.
LEMMA ExecutedTypes ==
    ASSUME NEW r \in Calls, TypeInv, Outstanding(r), NEW kind \in AnswerKinds,
           Executed(r, kind)
    PROVE  /\ replay' \in [HeaderKeys -> Recorded \cup {Unused}]
           /\ [kind |-> kind, ref |-> Subject(r)] \in Answers
           /\ Answered(r, [kind |-> kind, ref |-> Subject(r)])
           /\ UNCHANGED <<req, local, reply, storeVars, crashes>>
  <1>1. Op(r) \in Operations /\ Subject(r) \in Calls
    BY OutstandingTypes
  <1>2. [kind |-> kind, ref |-> Subject(r)] \in Answers
    BY <1>1 DEF Answers
  <1>3. replay' = [replay EXCEPT ![GatewayKey(r)] =
                      [op |-> Op(r), answer |-> [kind |-> kind, ref |-> Subject(r)]]]
    BY DEF Executed
  <1>4. replay' \in [HeaderKeys -> Recorded \cup {Unused}]
    BY <1>1, <1>2, <1>3 DEF TypeInv, TypeOK, Recorded
  <1> QED BY <1>2, <1>4 DEF Executed

\* The inductive step of type correctness, action by action.
LEMMA TypeInvStep ==
    ASSUME TypeInv, [Next]_vars
    PROVE  TypeInv'
  <1> USE DEF storeVars, gatewayVars, processVars
  <1>1. ASSUME NEW r \in Calls, Receive(r) PROVE TypeInv'
    <2>1. PICK rq \in Requests : req' = [req EXCEPT ![r] = rq]
      BY <1>1 DEF Receive
    <2>2. TypeOK'
      BY <1>1, <2>1 DEF Receive, TypeInv, TypeOK, Executing
    <2>3. ASSUME NEW q \in Calls PROVE CallHolds(q)'
      <3>1. CallHolds(q)
        BY DEF TypeInv, CallsHold
      <3>2. pc'[q] = (IF q = r THEN "check" ELSE pc[q])
              /\ req'[q] = (IF q = r THEN rq ELSE req[q])
        BY <1>1, <2>1 DEF Receive, TypeInv, TypeOK
      <3> QED BY <1>1, <2>1, <3>1, <3>2 DEF Receive, CallHolds, Op
    <2> QED BY <2>2, <2>3 DEF TypeInv, CallsHold
  <1>2. ASSUME NEW r \in Calls, ReturnCached(r) PROVE TypeInv'
    <2>1. CallHolds(r)
      BY DEF TypeInv, CallsHold
    <2>2. Key(r) \in Keys
      BY <1>2, <2>1 DEF ReturnCached, CallHolds, Key, Requests
    <2>3. OkReply(idem[Key(r)]) \in [kind : {"none", "error", "ok"}, out : Outputs \cup {NoOutput}]
      BY <2>2 DEF OkReply, TypeInv, TypeOK
    <2>4. idem' \in [Keys -> Outputs \cup {NoOutput}]
      BY <1>2 DEF ReturnCached, TypeInv, TypeOK
    <2> QED
      BY <1>2, <2>3, <2>4, ReturnKeepsTypes DEF ReturnCached
  <1>3. ASSUME NEW r \in Calls, CachedMisread(r) PROVE TypeInv'
    BY <1>3, ExitKeepsTypes DEF CachedMisread, TypeInv, TypeOK
  <1>4. ASSUME NEW r \in Calls, StartInitiate(r) PROVE TypeInv'
    <2>1. CreatedIntent \in PaymentIntents
      BY DEF CreatedIntent, PaymentIntents, PaymentIntentStatus
    <2>2. TypeOK'
      BY <1>4, <2>1 DEF StartInitiate, TypeInv, TypeOK, Executing
    <2>3. ASSUME NEW q \in Calls PROVE CallHolds(q)'
      BY <1>4, <2>1 DEF StartInitiate, CallHolds, TypeInv, CallsHold, TypeOK, Op
    <2> QED BY <2>2, <2>3 DEF TypeInv, CallsHold
  <1>5. ASSUME NEW r \in Calls, StartOnExisting(r) PROVE TypeInv'
    <2>1. TypeOK'
      BY <1>5 DEF StartOnExisting, TypeInv, TypeOK, Executing
    <2>2. ASSUME NEW q \in Calls PROVE CallHolds(q)'
      BY <1>5 DEF StartOnExisting, CallHolds, TypeInv, CallsHold, TypeOK, Op
    <2> QED BY <2>1, <2>2 DEF TypeInv, CallsHold
  <1>6. ASSUME NEW r \in Calls, Load(r) PROVE TypeInv'
    <2>1. CallHolds(r) /\ pc[r] = "load"
      BY <1>6 DEF TypeInv, CallsHold, Load
    <2>2. Id(r) \in Calls
      BY <2>1 DEF CallHolds, Id, Requests
    <2>3. repo[Id(r)] \in PaymentIntents /\ repo[Id(r)].ref \in Calls
      BY <1>6, <2>2 DEF Load, Usable, TypeInv, TypeOK, StoredIntents, PaymentIntents
    <2>4. TypeOK'
      BY <1>6, <2>3 DEF Load, TypeInv, TypeOK, Executing
    <2>5. ASSUME NEW q \in Calls PROVE CallHolds(q)'
      BY <1>6, <2>3 DEF Load, CallHolds, TypeInv, CallsHold, TypeOK, Op
    <2> QED BY <2>4, <2>5 DEF TypeInv, CallsHold
  <1>7. ASSUME NEW r \in Calls, Reject(r) PROVE TypeInv'
    BY <1>7, ReturnKeepsTypes DEF Reject, ErrorReply, TypeInv, TypeOK
  <1>8. ASSUME NEW r \in Calls, ReturnGatewayError(r) PROVE TypeInv'
    BY <1>8, ReturnKeepsTypes DEF ReturnGatewayError, ErrorReply, TypeInv, TypeOK
  <1>9. ASSUME NEW r \in Calls, Save(r) PROVE TypeInv'
    <2>1. CallHolds(r) /\ pc[r] = "resume" /\ answer[r] # Failure
      BY <1>9 DEF TypeInv, CallsHold, Save
    <2>2. Id(r) \in Calls
      BY <2>1 DEF CallHolds, Id, Requests
    <2>3. /\ Advanced(r) \in PaymentIntents
          /\ Op(r) # "initiate" => Advanced(r).ref = local[r].ref
      BY <2>1, AdvancedType DEF TypeInv
    <2>4. TypeOK'
      BY <1>9, <2>2, <2>3 DEF Save, TypeInv, TypeOK, Executing, StoredIntents
    <2>5. ASSUME NEW q \in Calls PROVE CallHolds(q)'
      BY <1>9, <2>1, <2>3 DEF Save, CallHolds, TypeInv, CallsHold, TypeOK, Op
    <2> QED BY <2>4, <2>5 DEF TypeInv, CallsHold
  <1>10. ASSUME NEW r \in Calls, IllegalTransition(r) PROVE TypeInv'
    BY <1>10, ExitKeepsTypes DEF IllegalTransition, TypeInv, TypeOK
  <1>11. ASSUME NEW r \in Calls, Commit(r) PROVE TypeInv'
    <2>1. CallHolds(r) /\ pc[r] = "commit"
      BY <1>11 DEF TypeInv, CallsHold, Commit
    <2>2. Output(r) \in Outputs
      BY <2>1 DEF CallHolds, Output, Outputs, Op, Id, Requests
    <2>3. OkReply(Output(r)) \in [kind : {"none", "error", "ok"}, out : Outputs \cup {NoOutput}]
      BY <2>2 DEF OkReply
    <2>4. idem' \in [Keys -> Outputs \cup {NoOutput}]
      BY <1>11, <2>2 DEF Commit, TypeInv, TypeOK
    <2> QED
      BY <1>11, <2>3, <2>4, ReturnKeepsTypes DEF Commit
  <1>12. ASSUME NEW r \in Calls, GatewayRefuses(r) PROVE TypeInv'
    <2>1. Outstanding(r) /\ Answered(r, Failure)
      BY <1>12 DEF GatewayRefuses, Outstanding, Answered
    <2> QED
      BY <1>12, <2>1, AnsweredKeepsTypes DEF GatewayRefuses, TypeInv, TypeOK
  <1>13. ASSUME NEW r \in Calls, GatewayReplays(r) PROVE TypeInv'
    <2>1. Outstanding(r) /\ GatewayKey(r) \in HeaderKeys /\ Op(r) \in Operations
      BY <1>13, OutstandingTypes DEF GatewayReplays
    <2>2. replay[GatewayKey(r)].answer \in Answers
      BY <1>13, <2>1 DEF GatewayReplays, TypeInv, TypeOK, Recorded, Unused, Operations
    <2> QED
      BY <1>13, <2>1, <2>2, AnsweredKeepsTypes DEF GatewayReplays, TypeInv, TypeOK
  <1>14. ASSUME NEW r \in Calls, GatewayCreates(r) PROVE TypeInv'
    <2>1. charge' \in [Calls -> {"none", "open", "captured", "declined"}]
          /\ UNCHANGED <<refunds, outcome>>
      BY <1>14 DEF GatewayCreates, TypeInv, TypeOK
    <2> QED
      BY <1>14, <2>1, ExecutedTypes, AnsweredKeepsTypes
      DEF GatewayCreates, TypeInv, TypeOK, AnswerKinds
  <1>15. ASSUME NEW r \in Calls, GatewayConfirms(r) PROVE TypeInv'
    <2>1. PICK s \in {"open", "captured", "declined"}, kind \in AnswerKinds :
             Executed(r, kind) /\ charge' = [charge EXCEPT ![Subject(r)] = s]
      BY <1>15, ConfirmExecutes
    <2>2. charge' \in [Calls -> {"none", "open", "captured", "declined"}]
          /\ UNCHANGED <<refunds, outcome>>
      BY <1>15, <2>1 DEF GatewayConfirms, TypeInv, TypeOK
    <2> QED
      BY <1>15, <2>1, <2>2, ExecutedTypes, AnsweredKeepsTypes
      DEF GatewayConfirms, TypeInv, TypeOK
  <1>16. ASSUME NEW r \in Calls, GatewayRefunds(r) PROVE TypeInv'
    <2>1. Subject(r) \in Calls
      BY <1>16, OutstandingTypes DEF GatewayRefunds
    <2>2. /\ refunds' \subseteq Calls \X Calls
          /\ outcome' \in [Calls -> {"none", "pending", "requires_action", "succeeded", "failed"}]
          /\ charge' = charge
          /\ \E kind \in {"succeeded", "failed"} : Executed(r, kind)
      BY <1>16, <2>1, RefundExecutes DEF GatewayRefunds, TypeInv, TypeOK
    <2> QED
      BY <1>16, <2>2, ExecutedTypes, AnsweredKeepsTypes
      DEF GatewayRefunds, TypeInv, TypeOK, AnswerKinds
  <1>17. ASSUME NEW c \in Calls, ChargeSettles(c) \/ RefundSettles(c) PROVE TypeInv'
    <2>1. TypeOK'
      BY <1>17 DEF ChargeSettles, RefundSettles, TypeInv, TypeOK
    <2>2. ASSUME NEW q \in Calls PROVE CallHolds(q)'
      BY <1>17 DEF ChargeSettles, RefundSettles, CallHolds, TypeInv, CallsHold, Op
    <2> QED BY <2>1, <2>2 DEF TypeInv, CallsHold
  <1>18. CASE Crash
    BY <1>18, ExitKeepsTypes, Parameters DEF Crash, TypeInv, TypeOK
  <1>19. CASE UNCHANGED vars
    BY <1>19 DEF vars, TypeInv, TypeOK, CallsHold, CallHolds, Op
  <1> QED
    BY <1>1, <1>2, <1>3, <1>4, <1>5, <1>6, <1>7, <1>8, <1>9, <1>10, <1>11, <1>12,
       <1>13, <1>14, <1>15, <1>16, <1>17, <1>18, <1>19
    DEF Next, Handler, GatewayActs, AllSettled

\* Every variable always ranges over the values the code can put there.
THEOREM TypeCorrect == Spec => []TypeOK
  <1>1. Init => TypeInv
    BY Parameters
    DEF Init, TypeInv, TypeOK, CallsHold, CallHolds, NoReply, NoRequest
  <1>2. TypeInv /\ [Next]_vars => TypeInv'
    BY TypeInvStep
  <1>3. TypeInv => TypeOK
    BY DEF TypeInv
  <1> QED BY <1>1, <1>2, <1>3, PTL DEF Spec

-------------------------------------------------------------------------------
(* The gateway's ledger: charges, refunds and recorded answers.             *)

\* Each charge was opened by the call it is named after, under a key whose
\* recorded answer is that charge; likewise each refund.
LedgerInv ==
    /\ \A r \in Calls : charge[r] # "none" =>
          /\ req[r] \in Requests
          /\ Op(r) = "initiate"
          /\ replay[Key(r)].op = "initiate"
          /\ replay[Key(r)].answer.ref = r
    /\ \A c, r \in Calls : <<c, r>> \in refunds =>
          /\ req[r] \in Requests
          /\ replay[Key(r)].op = "refund"
          /\ replay[Key(r)].answer.ref = c
    /\ \A c, d, q, r \in Calls :
          <<c, q>> \in refunds /\ <<d, r>> \in refunds /\ Key(q) = Key(r) => q = r

\* What an answer says about its charge is so.
AnswerTrue(op, ans) ==
    /\ op = "confirm" /\ ans.kind = "succeeded" => charge[ans.ref] = "captured"
    /\ Gateway = "stripe" /\ op = "confirm" /\ ans.kind = "failed" =>
          charge[ans.ref] = "declined"
    /\ op = "refund" => charge[ans.ref] = "captured"
    /\ op = "refund" /\ ans.kind = "succeeded"  => Refunded(ans.ref)

\* What an intent claims is so, and it names the charge it claims it of.
TrulyBacked(intent) ==
    /\ Backed(intent)
    /\ Gateway = "stripe" => Final(intent)
    /\ intent.status \in {"succeeded", "failed", "refunded", "disputed"} => intent.ref \in Calls

ReplaysTrue == \A h \in HeaderKeys :
    replay[h] # Unused => AnswerTrue(replay[h].op, replay[h].answer)
AnswersTrue == \A r \in Calls : pc[r] = "resume" /\ answer[r] # Failure =>
    /\ AnswerTrue(Op(r), answer[r])
    /\ Op(r) # "initiate" => answer[r].ref = local[r].ref
LocalsTrue  == \A r \in Calls : TrulyBacked(local[r])
StoredTrue  == \A i \in Calls : TrulyBacked(repo[i])
CachedTrue  == \A k \in Keys  : TrulyBacked(idem[k].intent)
RepliesTrue == \A r \in Calls : TrulyBacked(reply[r].out.intent)

TruthInv ==
    /\ ReplaysTrue /\ AnswersTrue /\ LocalsTrue /\ StoredTrue /\ CachedTrue /\ RepliesTrue
    /\ RefundsOnlyCaptured

\* A first execution only adds an answer, under the call's own key.
LEMMA ExecutedRecords ==
    ASSUME NEW r \in Calls, TypeInv, Outstanding(r), NEW kind \in AnswerKinds,
           Executed(r, kind)
    PROVE  /\ replay[Key(r)] = Unused
           /\ replay' = [replay EXCEPT ![Key(r)] =
                            [op |-> Op(r), answer |-> [kind |-> kind, ref |-> Subject(r)]]]
           /\ UNCHANGED req
  BY OutstandingTypes DEF Executed

\* The inductive step of the ledger.
LEMMA LedgerStep ==
    ASSUME TypeInv, LedgerInv, [Next]_vars
    PROVE  LedgerInv'
  <1> USE DEF storeVars, gatewayVars, processVars
  <1>a. ASSUME UNCHANGED <<req, charge, refunds, replay>> PROVE LedgerInv'
    BY <1>a DEF LedgerInv, Op, Key
  <1>1. ASSUME NEW r \in Calls, Receive(r) PROVE LedgerInv'
    <2>1. req[r] = NoRequest /\ req[r] \notin Requests
      BY <1>1 DEF Receive, TypeInv, CallsHold, CallHolds, NoRequest, Requests, Operations
    <2>2. \A q \in Calls : q # r => req'[q] = req[q]
      BY <1>1 DEF Receive, TypeInv, TypeOK
    <2>3. UNCHANGED <<charge, refunds, replay>>
      BY <1>1 DEF Receive
    <2>4. charge[r] = "none" /\ \A c \in Calls : <<c, r>> \notin refunds
      BY <2>1 DEF LedgerInv
    <2> QED
      BY <2>2, <2>3, <2>4 DEF LedgerInv, Op, Key
  <1>2. ASSUME NEW r \in Calls, GatewayCreates(r) PROVE LedgerInv'
    <2>1. req[r] \in Requests /\ Op(r) = "initiate" /\ Key(r) \in HeaderKeys
      BY <1>2, OutstandingTypes DEF GatewayCreates
    <2>2. /\ replay[Key(r)] = Unused
          /\ replay' = [replay EXCEPT ![Key(r)] =
                           [op |-> Op(r), answer |-> [kind |-> "created", ref |-> Subject(r)]]]
          /\ UNCHANGED req
      BY <1>2, ExecutedRecords DEF GatewayCreates, AnswerKinds
    <2>3. Subject(r) = r
      BY <2>1 DEF Subject
    <2>4. charge' = [charge EXCEPT ![r] = "open"] /\ UNCHANGED refunds
      BY <1>2 DEF GatewayCreates
    <2>5. replay[Key(r)].op = "none"
      BY <2>2 DEF Unused
    <2>6. ASSUME NEW q \in Calls, charge'[q] # "none"
          PROVE  /\ req'[q] \in Requests /\ Op(q)' = "initiate"
                 /\ replay'[Key(q)'].op = "initiate" /\ replay'[Key(q)'].answer.ref = q
      <3>1. CASE q = r
        BY <2>1, <2>2, <2>3, <3>1 DEF Op, Key, TypeInv, TypeOK
      <3>2. CASE q # r
        <4>1. charge[q] # "none"
          BY <2>4, <2>6, <3>2 DEF TypeInv, TypeOK
        <4>2. Key(q) # Key(r)
          BY <2>5, <4>1 DEF LedgerInv
        <4> QED
          BY <2>2, <4>1, <4>2 DEF LedgerInv, Op, Key, TypeInv, TypeOK
      <3> QED BY <3>1, <3>2
    <2>7. ASSUME NEW c \in Calls, NEW q \in Calls, <<c, q>> \in refunds'
          PROVE  /\ req'[q] \in Requests
                 /\ replay'[Key(q)'].op = "refund" /\ replay'[Key(q)'].answer.ref = c
      <3>1. <<c, q>> \in refunds /\ Key(q) # Key(r)
        BY <2>4, <2>5, <2>7 DEF LedgerInv
      <3> QED
        BY <2>2, <3>1 DEF LedgerInv, Key, TypeInv, TypeOK
    <2> QED
      BY <2>2, <2>4, <2>6, <2>7 DEF LedgerInv, Op, Key
  <1>3. ASSUME NEW r \in Calls, GatewayConfirms(r) PROVE LedgerInv'
    <2>1. PICK s \in {"open", "captured", "declined"}, kind \in AnswerKinds :
             /\ charge[Subject(r)] \in {"open", s}
             /\ Executed(r, kind)
             /\ charge' = [charge EXCEPT ![Subject(r)] = s]
      BY <1>3, ConfirmExecutes
    <2>2. Subject(r) \in Calls /\ Key(r) \in HeaderKeys
      BY <1>3, OutstandingTypes DEF GatewayConfirms
    <2>4. /\ replay[Key(r)] = Unused
          /\ replay' = [replay EXCEPT ![Key(r)] =
                           [op |-> Op(r), answer |-> [kind |-> kind, ref |-> Subject(r)]]]
          /\ UNCHANGED <<req, refunds>>
      BY <1>3, <2>1, ExecutedRecords DEF GatewayConfirms
    <2>5. replay[Key(r)].op = "none"
      BY <2>4 DEF Unused
    <2>6. \A q \in Calls : charge'[q] # "none" => charge[q] # "none"
      BY <2>1, <2>2 DEF TypeInv, TypeOK
    <2>7. \A q \in Calls : charge[q] # "none" => replay'[Key(q)] = replay[Key(q)]
      BY <2>4, <2>5 DEF LedgerInv, TypeInv, TypeOK
    <2>8. \A c, q \in Calls : <<c, q>> \in refunds => replay'[Key(q)] = replay[Key(q)]
      BY <2>4, <2>5 DEF LedgerInv, TypeInv, TypeOK
    <2> QED
      BY <2>4, <2>6, <2>7, <2>8 DEF LedgerInv, Op, Key
  <1>4. ASSUME NEW r \in Calls, GatewayRefunds(r) PROVE LedgerInv'
    <2>1. req[r] \in Requests /\ Subject(r) \in Calls /\ Key(r) \in HeaderKeys
          /\ Op(r) = "refund"
      BY <1>4, OutstandingTypes DEF GatewayRefunds
    <2>2. PICK kind \in {"succeeded", "failed"} :
             /\ Executed(r, kind)
             /\ refunds' \in {refunds, refunds \cup {<<Subject(r), r>>}}
      BY <1>4, RefundExecutes
    <2>3. /\ replay[Key(r)] = Unused
          /\ replay' = [replay EXCEPT ![Key(r)] =
                           [op |-> Op(r), answer |-> [kind |-> kind, ref |-> Subject(r)]]]
          /\ UNCHANGED <<req, charge>>
      BY <1>4, <2>2, ExecutedRecords DEF GatewayRefunds, AnswerKinds
    <2>4. replay[Key(r)].op = "none"
      BY <2>3 DEF Unused
    <2>5. \A q \in Calls : charge[q] # "none" => replay'[Key(q)] = replay[Key(q)]
      BY <2>3, <2>4 DEF LedgerInv, TypeInv, TypeOK
    <2>6. \A c, q \in Calls : <<c, q>> \in refunds =>
             Key(q) # Key(r) /\ replay'[Key(q)] = replay[Key(q)]
      BY <2>3, <2>4 DEF LedgerInv, TypeInv, TypeOK
    <2>7. replay'[Key(r)].op = "refund" /\ replay'[Key(r)].answer.ref = Subject(r)
      BY <2>1, <2>3 DEF TypeInv, TypeOK
    <2>8. \A c, q \in Calls : <<c, q>> \in refunds' =>
             <<c, q>> \in refunds \/ (c = Subject(r) /\ q = r)
      BY <2>2
    <2>9. \A c, q \in Calls : <<c, q>> \in refunds' =>
             /\ req'[q] \in Requests
             /\ replay'[Key(q)'].op = "refund" /\ replay'[Key(q)'].answer.ref = c
      BY <2>1, <2>3, <2>6, <2>7, <2>8 DEF LedgerInv, Key
    <2>10. \A c, d, p, q \in Calls :
              <<c, p>> \in refunds' /\ <<d, q>> \in refunds' /\ Key(p)' = Key(q)' => p = q
      BY <2>3, <2>6, <2>8 DEF LedgerInv, Key
    <2>11. \A q \in Calls : charge'[q] # "none" =>
              /\ req'[q] \in Requests /\ Op(q)' = "initiate"
              /\ replay'[Key(q)'].op = "initiate" /\ replay'[Key(q)'].answer.ref = q
      BY <2>3, <2>5 DEF LedgerInv, Op, Key
    <2> QED
      BY <2>9, <2>10, <2>11 DEF LedgerInv
  <1>5. ASSUME NEW c \in Calls, ChargeSettles(c) \/ RefundSettles(c) PROVE LedgerInv'
    BY <1>5 DEF ChargeSettles, RefundSettles, LedgerInv, Op, Key, TypeInv, TypeOK
  <1>6. ASSUME NEW r \in Calls, Handler(r) PROVE UNCHANGED <<req, charge, refunds, replay>>
    BY <1>6
    DEF Handler, ReturnCached, CachedMisread, StartInitiate, StartOnExisting, Load, Reject,
        ReturnGatewayError, Save, IllegalTransition, Commit, ProcessExits
  <1>7. ASSUME NEW r \in Calls, GatewayRefuses(r) \/ GatewayReplays(r)
        PROVE  UNCHANGED <<req, charge, refunds, replay>>
    BY <1>7 DEF GatewayRefuses, GatewayReplays
  <1>8. CASE Crash
    BY <1>8, <1>a DEF Crash, ProcessExits
  <1>9. CASE UNCHANGED vars
    BY <1>9, <1>a DEF vars
  <1> QED
    BY <1>a, <1>1, <1>2, <1>3, <1>4, <1>5, <1>6, <1>7, <1>8, <1>9
    DEF Next, GatewayActs, AllSettled

-------------------------------------------------------------------------------
(* What the code stores and reports is true at the gateway.                 *)

\* A settled charge stays as it is, and a refund that counts goes on counting.
LedgerGrows ==
    /\ \A c \in Calls : charge[c] \in {"captured", "declined"} => charge'[c] = charge[c]
    /\ \A c \in Calls : Refunded(c) => Refunded(c)'

LEMMA LedgerOnlyGrows ==
    ASSUME TypeInv, LedgerInv, [Next]_vars
    PROVE  LedgerGrows
  <1> USE DEF storeVars, gatewayVars, processVars
  <1>a. ASSUME UNCHANGED <<charge, refunds, outcome>> PROVE LedgerGrows
    BY <1>a DEF LedgerGrows, Refunded
  <1>1. ASSUME NEW r \in Calls, Receive(r) \/ Handler(r) PROVE LedgerGrows
    <2>1. UNCHANGED <<charge, refunds, outcome>>
      BY <1>1
      DEF Receive, Handler, ReturnCached, CachedMisread, StartInitiate, StartOnExisting, Load,
          Reject, ReturnGatewayError, Save, IllegalTransition, Commit, ProcessExits
    <2> QED BY <1>a, <2>1
  <1>2. ASSUME NEW r \in Calls, GatewayRefuses(r) \/ GatewayReplays(r) PROVE LedgerGrows
    BY <1>a, <1>2 DEF GatewayRefuses, GatewayReplays
  <1>3. ASSUME NEW r \in Calls, GatewayCreates(r) PROVE LedgerGrows
    <2>1. replay[Key(r)] = Unused
      BY <1>3, ExecutedRecords DEF GatewayCreates, AnswerKinds
    <2>2. charge[r] = "none"
      BY <2>1 DEF LedgerInv, Unused, TypeInv, TypeOK
    <2> QED
      BY <1>3, <2>2 DEF GatewayCreates, LedgerGrows, Refunded, TypeInv, TypeOK
  <1>4. ASSUME NEW r \in Calls, GatewayConfirms(r) PROVE LedgerGrows
    BY <1>4, OutstandingTypes DEF GatewayConfirms, LedgerGrows, Refunded, TypeInv, TypeOK
  <1>5. ASSUME NEW r \in Calls, GatewayRefunds(r) PROVE LedgerGrows
    <2>1. PICK kind \in {"succeeded", "failed"},
               word \in {"succeeded", "pending", "requires_action", "failed"} :
             /\ Executed(r, kind)
             /\ \/ UNCHANGED <<refunds, outcome>>
                \/ /\ refunds' = refunds \cup {<<Subject(r), r>>}
                   /\ outcome' = [outcome EXCEPT ![r] = word]
      BY <1>5, RefundExecutes
    <2>2. replay[Key(r)] = Unused
      BY <1>5, <2>1, ExecutedRecords DEF GatewayRefunds, AnswerKinds
    <2>3. \A c, q \in Calls : <<c, q>> \in refunds => q # r
      BY <2>2 DEF LedgerInv, Unused
    <2>4. \A c, q \in Calls : <<c, q>> \in refunds =>
             <<c, q>> \in refunds' /\ outcome'[q] = outcome[q]
      BY <2>1, <2>3 DEF TypeInv, TypeOK
    <2>5. \A c \in Calls : Refunded(c) => Refunded(c)'
      BY <2>4 DEF Refunded
    <2> QED BY <1>5, <2>5 DEF GatewayRefunds, LedgerGrows
  <1>6. ASSUME NEW c \in Calls, ChargeSettles(c) PROVE LedgerGrows
    BY <1>6 DEF ChargeSettles, LedgerGrows, Refunded, TypeInv, TypeOK
  <1>7. ASSUME NEW r \in Calls, RefundSettles(r) PROVE LedgerGrows
    <2>1. PICK s \in {"succeeded", "failed"} :
             /\ outcome[r] \in {"pending", "requires_action"}
             /\ outcome' = [outcome EXCEPT ![r] = s]
             /\ UNCHANGED <<charge, refunds>>
      BY <1>7 DEF RefundSettles
    <2>2. ASSUME NEW q \in Calls, outcome[q] \in Counted[Gateway]
          PROVE  outcome'[q] \in Counted[Gateway]
      <3>1. CASE q # r
        BY <2>1, <2>2, <3>1 DEF TypeInv, TypeOK
      <3>2. CASE q = r
        <4>1. Gateway = "stripe"
          BY <2>1, <2>2, <3>2, Parameters DEF Counted, Gateways
        <4> QED BY <2>1, <3>2, <4>1 DEF Counted, TypeInv, TypeOK
      <3> QED BY <3>1, <3>2
    <2> QED BY <2>1, <2>2 DEF LedgerGrows, Refunded
  <1>8. CASE Crash
    BY <1>a, <1>8 DEF Crash, ProcessExits
  <1>9. CASE UNCHANGED vars
    BY <1>a, <1>9 DEF vars
  <1> QED
    BY <1>1, <1>2, <1>3, <1>4, <1>5, <1>6, <1>7, <1>8, <1>9
    DEF Next, GatewayActs, AllSettled

\* What was true stays true where nothing was written.
LEMMA ReplaysStayTrue ==
    ASSUME TypeInv, TruthInv, LedgerGrows, NEW h \in HeaderKeys,
           replay'[h] = replay[h], replay[h] # Unused
    PROVE  AnswerTrue(replay[h].op, replay[h].answer)'
  <1>1. replay[h].answer.ref \in Calls
    BY DEF TypeInv, TypeOK, Recorded, Answers
  <1>2. AnswerTrue(replay[h].op, replay[h].answer)
    BY DEF TruthInv, ReplaysTrue
  <1> QED BY <1>1, <1>2 DEF AnswerTrue, LedgerGrows

LEMMA AnswersStayTrue ==
    ASSUME TypeInv, TruthInv, LedgerGrows, NEW r \in Calls,
           pc[r] = "resume", answer[r] # Failure,
           answer'[r] = answer[r], req'[r] = req[r], local'[r] = local[r]
    PROVE  /\ AnswerTrue(Op(r), answer[r])'
           /\ (Op(r) # "initiate" => answer[r].ref = local[r].ref)'
  <1>1. answer[r].ref \in Calls
    BY DEF TypeInv, CallsHold, CallHolds, Answers
  <1>2. AnswerTrue(Op(r), answer[r]) /\ (Op(r) # "initiate" => answer[r].ref = local[r].ref)
    BY DEF TruthInv, AnswersTrue
  <1> QED BY <1>1, <1>2 DEF AnswerTrue, LedgerGrows, Op

LEMMA IntentsStayBacked ==
    ASSUME TruthInv, LedgerGrows
    PROVE  /\ \A r \in Calls : local'[r] = local[r] => TrulyBacked(local[r])'
           /\ \A i \in Calls : repo'[i] = repo[i] => TrulyBacked(repo[i])'
           /\ \A k \in Keys : idem'[k] = idem[k] => TrulyBacked(idem[k].intent)'
           /\ \A r \in Calls : reply'[r] = reply[r] => TrulyBacked(reply[r].out.intent)'
  <1> USE DEF TrulyBacked, Backed, Final, LedgerGrows
  <1>1. ASSUME NEW r \in Calls, local'[r] = local[r] PROVE TrulyBacked(local[r])'
    BY <1>1 DEF TruthInv, LocalsTrue
  <1>2. ASSUME NEW i \in Calls, repo'[i] = repo[i] PROVE TrulyBacked(repo[i])'
    BY <1>2 DEF TruthInv, StoredTrue
  <1>3. ASSUME NEW k \in Keys, idem'[k] = idem[k] PROVE TrulyBacked(idem[k].intent)'
    BY <1>3 DEF TruthInv, CachedTrue
  <1>4. ASSUME NEW r \in Calls, reply'[r] = reply[r]
        PROVE  TrulyBacked(reply[r].out.intent)'
    BY <1>4 DEF TruthInv, RepliesTrue
  <1> HIDE DEF TrulyBacked
  <1> QED BY <1>1, <1>2, <1>3, <1>4

\* What a call computes from a true answer and a backed intent is backed.
LEMMA AdvancedBacked ==
    ASSUME NEW r \in Calls, TypeInv, TruthInv, pc[r] = "resume", answer[r] # Failure,
           LegalMove(r)
    PROVE  TrulyBacked(Advanced(r))
  <1>1. CallHolds(r) /\ req[r] \in Requests /\ answer[r] \in Answers /\ local[r] \in PaymentIntents
    BY DEF TypeInv, CallsHold, CallHolds
  <1>2. Op(r) \in Operations
    BY <1>1 DEF Op, Requests
  <1>3. /\ AnswerTrue(Op(r), answer[r])
        /\ Op(r) # "initiate" => answer[r].ref = local[r].ref /\ local[r].ref \in Calls
        /\ TrulyBacked(local[r])
    BY <1>1 DEF TruthInv, AnswersTrue, LocalsTrue, CallHolds
  <1>4. CASE Target(r) = "none"
    BY <1>3, <1>4 DEF Advanced
  <1>5. CASE Op(r) = "initiate"
    <2>1. Target(r) = "pending"
      BY <1>5 DEF Target
    <2>2. Advanced(r).status = "pending"
      BY <2>1 DEF Advanced, Transitioned
    <2> QED BY <2>2 DEF TrulyBacked, Backed, Final, Refunded
  <1>6. CASE Op(r) # "initiate" /\ Target(r) # "none"
    <2>1. NewRef(r) = None
      BY <1>6 DEF NewRef
    <2>2. Advanced(r) = [status |-> Target(r), ref |-> local[r].ref]
      BY <1>6, <2>1 DEF Advanced, Transitioned
    <2>3. CASE Op(r) = "confirm"
      <3>1. Target(r) \in {"succeeded", "failed"} /\ answer[r].kind = Target(r)
        BY <1>6, <2>3 DEF Target
      <3> QED
        BY <1>3, <2>2, <2>3, <3>1 DEF TrulyBacked, Backed, Final, Refunded, AnswerTrue
    <2>4. CASE Op(r) = "refund"
      <3>1. Target(r) = "refunded" /\ answer[r].kind = "succeeded"
        BY <1>6, <2>4 DEF Target
      <3> QED
        BY <1>3, <2>2, <2>4, <3>1 DEF TrulyBacked, Backed, Final, Refunded, AnswerTrue
    <2> QED BY <1>2, <1>6, <2>3, <2>4 DEF Operations
  <1> QED BY <1>4, <1>5, <1>6

\* A process exit keeps the truths: what it does not keep it empties.
LEMMA ExitStaysTrue ==
    ASSUME TypeInv, TruthInv, LedgerGrows, ProcessExits
    PROVE  TruthInv'
  <1> USE DEF storeVars, gatewayVars, processVars
  <1>1. UNCHANGED <<req, local, answer, reply, charge, refunds, outcome, replay>>
    BY DEF ProcessExits
  <1>2. ReplaysTrue'
    BY <1>1, ReplaysStayTrue DEF ReplaysTrue
  <1>3. AnswersTrue'
    <2>1. \A r \in Calls : pc'[r] # "resume"
      BY DEF ProcessExits, Executing, TypeInv, TypeOK
    <2> QED BY <2>1 DEF AnswersTrue
  <1>4. LocalsTrue' /\ RepliesTrue'
    BY <1>1, IntentsStayBacked DEF LocalsTrue, RepliesTrue
  <1>5. StoredTrue'
    <2>1. \A i \in Calls : repo'[i] = repo[i] \/ repo'[i] = NoIntent
      BY DEF ProcessExits
    <2> QED
      BY <2>1, IntentsStayBacked DEF StoredTrue, TrulyBacked, Backed, Final, Refunded, NoIntent
  <1>6. CachedTrue'
    <2>1. \A k \in Keys : idem'[k] = idem[k] \/ idem'[k] = NoOutput
      BY DEF ProcessExits
    <2> QED
      BY <2>1, IntentsStayBacked DEF CachedTrue, TrulyBacked, Backed, Final, Refunded, NoIntent, NoOutput
  <1>7. RefundsOnlyCaptured'
    <2>1. \A r \in Calls : pc'[r] \in {"gateway", "orphan"} => pc[r] \in {"gateway", "orphan"}
      BY DEF ProcessExits, TypeInv, TypeOK
    <2> QED
      BY <1>1, <2>1 DEF TruthInv, RefundsOnlyCaptured, Outstanding, Op, Subject
  <1> QED BY <1>2, <1>3, <1>4, <1>5, <1>6, <1>7 DEF TruthInv

\* A step keeps the truths if whatever it writes is true.
LEMMA TruthFrame ==
    ASSUME TypeInv, TruthInv, LedgerGrows,
           \A h \in HeaderKeys :
              replay'[h] = replay[h] \/ AnswerTrue(replay[h].op, replay[h].answer)',
           \A r \in Calls : pc'[r] = "resume" /\ answer'[r] # Failure =>
              \/ /\ pc[r] = "resume" /\ answer'[r] = answer[r]
                 /\ req'[r] = req[r] /\ local'[r] = local[r]
              \/ /\ AnswerTrue(Op(r), answer[r])'
                 /\ (Op(r) # "initiate" => answer[r].ref = local[r].ref)',
           \A r \in Calls : local'[r] = local[r] \/ TrulyBacked(local[r])',
           \A i \in Calls : repo'[i] = repo[i] \/ TrulyBacked(repo[i])',
           \A k \in Keys  : idem'[k] = idem[k] \/ TrulyBacked(idem[k].intent)',
           \A r \in Calls : reply'[r] = reply[r] \/ TrulyBacked(reply[r].out.intent)',
           \A r \in Calls : pc'[r] \in {"gateway", "orphan"} /\ Op(r)' = "refund" =>
              \/ /\ pc[r] \in {"gateway", "orphan"}
                 /\ req'[r] = req[r] /\ local'[r] = local[r]
              \/ (charge[Subject(r)] = "captured")'
    PROVE  TruthInv'
  <1>1. ReplaysTrue'
    BY ReplaysStayTrue DEF ReplaysTrue
  <1>2. AnswersTrue'
    BY AnswersStayTrue DEF AnswersTrue
  <1>3. LocalsTrue' /\ StoredTrue' /\ CachedTrue' /\ RepliesTrue'
    BY IntentsStayBacked DEF LocalsTrue, StoredTrue, CachedTrue, RepliesTrue
  <1>4. RefundsOnlyCaptured'
    <2> SUFFICES ASSUME NEW r \in Calls, Outstanding(r)', Op(r)' = "refund"
                 PROVE  (charge[Subject(r)] = "captured")'
      BY DEF RefundsOnlyCaptured
    <2>1. pc'[r] \in {"gateway", "orphan"}
      BY DEF Outstanding
    <2>2. CASE pc[r] \in {"gateway", "orphan"} /\ req'[r] = req[r] /\ local'[r] = local[r]
      <3>1. charge[Subject(r)] = "captured" /\ Subject(r) \in Calls /\ Subject(r)' = Subject(r)
        BY <2>2, OutstandingTypes DEF TruthInv, RefundsOnlyCaptured, Outstanding, Op, Subject
      <3> QED BY <3>1 DEF LedgerGrows
    <2> QED BY <2>1, <2>2
  <1> QED BY <1>1, <1>2, <1>3, <1>4 DEF TruthInv

\* A delivered answer is true when the one the gateway gave is.
LEMMA AnsweredStaysTrue ==
    ASSUME NEW r \in Calls, TypeInv, TruthInv, LedgerGrows, Outstanding(r),
           NEW ans \in Answers \cup {Failure}, Answered(r, ans),
           UNCHANGED <<req, local, reply, storeVars>>,
           \A h \in HeaderKeys :
              replay'[h] = replay[h] \/ AnswerTrue(replay[h].op, replay[h].answer)',
           ans # Failure => /\ AnswerTrue(Op(r), ans)'
                            /\ Op(r) # "initiate" => ans.ref = local[r].ref
    PROVE  TruthInv'
  <1>1. /\ \A q \in Calls : q # r => pc'[q] = pc[q] /\ answer'[q] = answer[q]
        /\ pc'[r] \in {"lost", "resume"}
        /\ pc'[r] = "resume" => answer'[r] \in {ans, Failure}
    BY DEF Answered, TypeInv, TypeOK
  <1>2. \A q \in Calls : pc'[q] = "resume" /\ answer'[q] # Failure =>
           \/ /\ pc[q] = "resume" /\ answer'[q] = answer[q]
              /\ req'[q] = req[q] /\ local'[q] = local[q]
           \/ /\ AnswerTrue(Op(q), answer[q])'
              /\ (Op(q) # "initiate" => answer[q].ref = local[q].ref)'
    <2> SUFFICES ASSUME pc'[r] = "resume", answer'[r] # Failure
                 PROVE  /\ AnswerTrue(Op(r), answer[r])'
                        /\ (Op(r) # "initiate" => answer[r].ref = local[r].ref)'
      BY <1>1
    <2>1. answer'[r] = ans /\ Op(r)' = Op(r) /\ ans # Failure
      BY <1>1 DEF Op
    <2> QED
      BY <2>1 DEF AnswerTrue
  <1>3. \A q \in Calls : pc'[q] \in {"gateway", "orphan"} => pc'[q] = pc[q]
    BY <1>1
  <1> QED
    BY <1>2, <1>3, TruthFrame DEF storeVars

\* The inductive step of the truths.
LEMMA TruthStep ==
    ASSUME TypeInv, LedgerInv, TruthInv, [Next]_vars
    PROVE  TruthInv'
  <1> USE DEF storeVars, gatewayVars, processVars
  <1>a. LedgerGrows
    BY LedgerOnlyGrows
  <1>1. ASSUME NEW r \in Calls, Receive(r) PROVE TruthInv'
    <2>1. \A q \in Calls : pc'[q] = IF q = r THEN "check" ELSE pc[q]
      BY <1>1 DEF Receive, TypeInv, TypeOK
    <2>2. \A q \in Calls : q # r => req'[q] = req[q]
      BY <1>1 DEF Receive, TypeInv, TypeOK
    <2> QED
      BY <1>a, <1>1, <2>1, <2>2, TruthFrame DEF Receive
  <1>2. ASSUME NEW r \in Calls, ReturnCached(r) PROVE TruthInv'
    <2>1. Key(r) \in Keys
      BY <1>2 DEF ReturnCached, TypeInv, CallsHold, CallHolds, Key, Requests
    <2>2. \A q \in Calls : pc'[q] = (IF q = r THEN "done" ELSE pc[q])
            /\ reply'[q] = (IF q = r THEN OkReply(idem[Key(r)]) ELSE reply[q])
      BY <1>2 DEF ReturnCached, Return, TypeInv, TypeOK
    <2>3. TrulyBacked(reply[r].out.intent)'
      <3>1. reply'[r].out = idem[Key(r)] /\ idem' = idem
        BY <1>2, <2>2 DEF OkReply, ReturnCached
      <3>2. TrulyBacked(idem[Key(r)].intent) /\ idem[Key(r)].intent \in PaymentIntents \cup {NoIntent}
        BY <2>1 DEF TruthInv, CachedTrue, TypeInv, TypeOK, Outputs, NoOutput
      <3> QED
        BY <1>a, <3>1, <3>2 DEF TrulyBacked, Backed, Final, LedgerGrows
    <2> QED
      BY <1>a, <1>2, <2>2, <2>3, TruthFrame DEF ReturnCached
  <1>3. ASSUME NEW r \in Calls, CachedMisread(r) \/ IllegalTransition(r) PROVE TruthInv'
    BY <1>a, <1>3, ExitStaysTrue DEF CachedMisread, IllegalTransition
  <1>4. ASSUME NEW r \in Calls, StartInitiate(r) PROVE TruthInv'
    <2>1. \A q \in Calls : pc'[q] = IF q = r THEN "gateway" ELSE pc[q]
      BY <1>4 DEF StartInitiate, TypeInv, TypeOK
    <2>2. Op(r)' = "initiate" /\ \A q \in Calls : q # r => local'[q] = local[q]
      BY <1>4 DEF StartInitiate, Op, TypeInv, TypeOK
    <2>3. TrulyBacked(local[r])'
      BY <1>4 DEF StartInitiate, CreatedIntent, TrulyBacked, Backed, Final, Refunded, TypeInv, TypeOK
    <2> QED
      BY <1>a, <1>4, <2>1, <2>2, <2>3, TruthFrame DEF StartInitiate
  <1>5. ASSUME NEW r \in Calls, StartOnExisting(r) PROVE TruthInv'
    <2>1. \A q \in Calls : pc'[q] = IF q = r THEN "load" ELSE pc[q]
      BY <1>5 DEF StartOnExisting, TypeInv, TypeOK
    <2> QED
      BY <1>a, <1>5, <2>1, TruthFrame DEF StartOnExisting
  <1>6. ASSUME NEW r \in Calls, Load(r) PROVE TruthInv'
    <2>1. Id(r) \in Calls /\ Op(r) \in {"initiate", "confirm", "refund"}
      BY <1>6 DEF Load, TypeInv, CallsHold, CallHolds, Id, Op, Requests, Operations
    <2>2. \A q \in Calls : pc'[q] = (IF q = r THEN "gateway" ELSE pc[q])
            /\ local'[q] = (IF q = r THEN repo[Id(r)] ELSE local[q])
      BY <1>6 DEF Load, TypeInv, TypeOK
    <2>3. UNCHANGED <<req, charge, refunds, outcome>>
      BY <1>6 DEF Load
    <2>4. TrulyBacked(repo[Id(r)])
      BY <2>1 DEF TruthInv, StoredTrue
    <2>5. TrulyBacked(local[r])'
      BY <2>2, <2>3, <2>4 DEF TrulyBacked, Backed, Final, Refunded
    <2>6. Op(r)' = "refund" => (charge[Subject(r)] = "captured")'
      <3> SUFFICES ASSUME Op(r) = "refund" PROVE charge[repo[Id(r)].ref] = "captured"
        BY <2>2, <2>3 DEF Subject, Op
      <3>1. CanTransition(repo[Id(r)].status, "refunded")
        BY <1>6 DEF Load, Usable
      <3>2. repo[Id(r)].status = "succeeded"
        BY <3>1 DEF CanTransition, PaymentIntentTransitions
      <3> QED BY <2>4, <3>2 DEF TrulyBacked, Backed, Final, Refunded
    <2> QED
      BY <1>a, <1>6, <2>2, <2>5, <2>6, TruthFrame DEF Load
  <1>7. ASSUME NEW r \in Calls, Reject(r) \/ ReturnGatewayError(r) PROVE TruthInv'
    <2>1. \A q \in Calls : pc'[q] = (IF q = r THEN "done" ELSE pc[q])
            /\ reply'[q] = (IF q = r THEN ErrorReply ELSE reply[q])
      BY <1>7 DEF Reject, ReturnGatewayError, Return, TypeInv, TypeOK
    <2>2. TrulyBacked(reply[r].out.intent)'
      BY <2>1 DEF ErrorReply, NoOutput, NoIntent, TrulyBacked, Backed, Final, Refunded
    <2> QED
      BY <1>a, <1>7, <2>1, <2>2, TruthFrame DEF Reject, ReturnGatewayError
  <1>8. ASSUME NEW r \in Calls, Save(r) PROVE TruthInv'
    <2>1. Id(r) \in Calls
      BY <1>8 DEF Save, TypeInv, CallsHold, CallHolds, Id, Requests
    <2>2. \A q \in Calls : /\ pc'[q] = (IF q = r THEN "commit" ELSE pc[q])
                           /\ local'[q] = (IF q = r THEN Advanced(r) ELSE local[q])
                           /\ repo'[q] = (IF q = Id(r) THEN Advanced(r) ELSE repo[q])
      BY <1>8 DEF Save, TypeInv, TypeOK
    <2>3. UNCHANGED <<req, charge, refunds, outcome>>
      BY <1>8 DEF Save
    <2>4. TrulyBacked(Advanced(r))
      BY <1>8, AdvancedBacked DEF Save
    <2>5. TrulyBacked(local[r])' /\ TrulyBacked(repo[Id(r)])'
      <3>1. local'[r] = Advanced(r) /\ repo'[Id(r)] = Advanced(r) /\ Id(r)' = Id(r)
        BY <2>1, <2>2, <2>3 DEF Id
      <3> QED
        BY <2>3, <2>4, <3>1 DEF TrulyBacked, Backed, Final, Refunded
    <2>6. Id(r)' = Id(r)
      BY <2>3 DEF Id
    <2>7. \A i \in Calls : repo'[i] = repo[i] \/ TrulyBacked(repo[i])'
      BY <2>1, <2>2, <2>5, <2>6 DEF TrulyBacked, Backed, Final, Refunded
    <2> QED
      BY <1>a, <1>8, <2>2, <2>5, <2>7, TruthFrame DEF Save
  <1>9. ASSUME NEW r \in Calls, Commit(r) PROVE TruthInv'
    <2>1. Key(r) \in Keys
      BY <1>9 DEF Commit, TypeInv, CallsHold, CallHolds, Key, Requests
    <2>2. /\ \A q \in Calls : pc'[q] = (IF q = r THEN "done" ELSE pc[q])
               /\ reply'[q] = (IF q = r THEN OkReply(Output(r)) ELSE reply[q])
          /\ \A k \in Keys : idem'[k] = IF k = Key(r) THEN Output(r) ELSE idem[k]
      BY <1>9 DEF Commit, Return, TypeInv, TypeOK
    <2>3. UNCHANGED <<req, local, charge, refunds, outcome>>
      BY <1>9 DEF Commit
    <2>4. Output(r).intent = local[r] /\ TrulyBacked(local[r])
      BY DEF Output, TruthInv, LocalsTrue
    <2>5. TrulyBacked(reply[r].out.intent)'
      <3>1. reply'[r].out.intent = local[r]
        BY <2>2, <2>4 DEF OkReply
      <3> QED
        BY <2>3, <2>4, <3>1 DEF TrulyBacked, Backed, Final, Refunded
    <2>6. \A k \in Keys : idem'[k] = idem[k] \/ TrulyBacked(idem[k].intent)'
      BY <2>2, <2>3, <2>4 DEF TrulyBacked, Backed, Final, Refunded
    <2> QED
      BY <1>a, <1>9, <2>2, <2>5, <2>6, TruthFrame DEF Commit
  <1>10. ASSUME NEW r \in Calls, GatewayRefuses(r) PROVE TruthInv'
    <2>1. Outstanding(r) /\ Answered(r, Failure)
      BY <1>10 DEF GatewayRefuses, Outstanding, Answered
    <2> QED
      BY <1>a, <1>10, <2>1, AnsweredStaysTrue DEF GatewayRefuses
  <1>11. ASSUME NEW r \in Calls, GatewayReplays(r) PROVE TruthInv'
    <2>1. Outstanding(r) /\ Op(r) \in Operations /\ GatewayKey(r) \in HeaderKeys
          /\ replay[GatewayKey(r)].op = Op(r)
      BY <1>11, OutstandingTypes DEF GatewayReplays
    <2>2. replay[GatewayKey(r)] # Unused /\ replay[GatewayKey(r)].answer \in Answers
      BY <2>1 DEF TypeInv, TypeOK, Recorded, Unused, Operations
    <2>3. PICK ans \in Answers : ans = replay[GatewayKey(r)].answer
      BY <2>2
    <2>4. AnswerTrue(Op(r), ans) /\ (Op(r) # "initiate" => ans.ref = local[r].ref)
      BY <1>11, <2>1, <2>2, <2>3 DEF TruthInv, ReplaysTrue, GatewayReplays, Subject
    <2>5. UNCHANGED <<req, charge, refunds, outcome>> /\ Answered(r, ans)
      BY <1>11, <2>3 DEF GatewayReplays
    <2>6. AnswerTrue(Op(r), ans)'
      BY <2>4, <2>5 DEF AnswerTrue, Refunded, Op
    <2> QED
      BY <1>a, <1>11, <2>1, <2>4, <2>5, <2>6, AnsweredStaysTrue DEF GatewayReplays
  <1>12. ASSUME NEW r \in Calls, NEW kind \in AnswerKinds, Outstanding(r), Executed(r, kind),
                AnswerTrue(Op(r), [kind |-> kind, ref |-> Subject(r)])'
         PROVE  TruthInv'
    <2>1. Op(r) \in Operations /\ Key(r) \in HeaderKeys /\ Subject(r) \in Calls
      BY <1>12, OutstandingTypes
    <2>2. [kind |-> kind, ref |-> Subject(r)] \in Answers
      BY <2>1 DEF Answers
    <2>3. PICK ans \in Answers : ans = [kind |-> kind, ref |-> Subject(r)]
      BY <2>2
    <2>4. Answered(r, ans) /\ UNCHANGED <<req, local, reply, storeVars, crashes>>
      BY <1>12, <2>3, ExecutedTypes
    <2>5. Subject(r)' = Subject(r) /\ Op(r)' = Op(r) /\ Key(r)' = Key(r)
      BY <2>4 DEF Subject, Op, Key
    <2>6. AnswerTrue(Op(r), ans)'
      BY <1>12, <2>3, <2>5 DEF AnswerTrue
    <2>7. \A h \in HeaderKeys :
             replay'[h] = IF h = Key(r) THEN [op |-> Op(r), answer |-> ans] ELSE replay[h]
      BY <1>12, <2>3, ExecutedRecords DEF TypeInv, TypeOK
    <2>8. \A h \in HeaderKeys :
             replay'[h] = replay[h] \/ AnswerTrue(replay[h].op, replay[h].answer)'
      BY <2>5, <2>6, <2>7 DEF AnswerTrue
    <2>9. Op(r) # "initiate" => ans.ref = local[r].ref
      BY <2>3 DEF Subject
    <2> QED
      BY <1>a, <1>12, <2>4, <2>6, <2>8, <2>9, AnsweredStaysTrue
  <1>13. ASSUME NEW r \in Calls, GatewayCreates(r) PROVE TruthInv'
    <2>1. Outstanding(r) /\ Op(r) = "initiate" /\ Executed(r, "created") /\ Op(r)' = Op(r)
      BY <1>13 DEF GatewayCreates, Executed, Op
    <2>2. AnswerTrue(Op(r), [kind |-> "created", ref |-> Subject(r)])'
      BY <2>1 DEF AnswerTrue
    <2> QED BY <1>12, <2>1, <2>2 DEF AnswerKinds
  <1>14. ASSUME NEW r \in Calls, GatewayConfirms(r) PROVE TruthInv'
    <2>1. PICK s \in {"open", "captured", "declined"}, kind \in AnswerKinds :
             /\ Executed(r, kind)
             /\ charge' = [charge EXCEPT ![Subject(r)] = s]
             /\ kind = "succeeded" => s = "captured"
             /\ Gateway = "stripe" /\ kind = "failed" => s = "declined"
      BY <1>14, ConfirmExecutes
    <2>2. Outstanding(r) /\ Op(r) = "confirm" /\ Subject(r) \in Calls
      BY <1>14, OutstandingTypes DEF GatewayConfirms
    <2>3. Op(r)' = Op(r) /\ Subject(r)' = Subject(r)
      BY <2>1 DEF Executed, Op, Subject
    <2>4. charge'[Subject(r)] = s
      BY <2>1, <2>2 DEF TypeInv, TypeOK
    <2>5. AnswerTrue(Op(r), [kind |-> kind, ref |-> Subject(r)])'
      BY <2>1, <2>2, <2>3, <2>4 DEF AnswerTrue
    <2> QED BY <1>12, <2>1, <2>2, <2>5
  <1>15. ASSUME NEW r \in Calls, GatewayRefunds(r) PROVE TruthInv'
    <2>1. Outstanding(r) /\ Op(r) = "refund" /\ charge[Subject(r)] = "captured" /\ charge' = charge
      BY <1>15 DEF GatewayRefunds
    <2>2. PICK kind \in {"succeeded", "failed"},
               word \in {"succeeded", "pending", "requires_action", "failed"} :
             /\ Executed(r, kind)
             /\ kind = "succeeded" =>
                   /\ refunds' = refunds \cup {<<Subject(r), r>>}
                   /\ outcome' = [outcome EXCEPT ![r] = word]
                   /\ word \in Counted[Gateway]
      BY <1>15, RefundExecutes
    <2>3. Op(r)' = Op(r) /\ Subject(r)' = Subject(r)
      BY <2>2 DEF Executed, Op, Subject
    <2>4. kind = "succeeded" => Refunded(Subject(r))'
      <3> SUFFICES ASSUME kind = "succeeded" PROVE Refunded(Subject(r))'
        OBVIOUS
      <3>1. <<Subject(r), r>> \in refunds' /\ outcome'[r] \in Counted[Gateway]
        BY <2>2 DEF TypeInv, TypeOK
      <3> QED BY <2>3, <3>1 DEF Refunded
    <2>5. AnswerTrue(Op(r), [kind |-> kind, ref |-> Subject(r)])'
      BY <2>1, <2>3, <2>4 DEF AnswerTrue
    <2> QED BY <1>12, <2>1, <2>2, <2>5 DEF AnswerKinds
  <1>16. ASSUME NEW c \in Calls, ChargeSettles(c) \/ RefundSettles(c) PROVE TruthInv'
    BY <1>a, <1>16, TruthFrame DEF ChargeSettles, RefundSettles
  <1>17. CASE Crash
    BY <1>a, <1>17, ExitStaysTrue DEF Crash
  <1>18. CASE UNCHANGED vars
    BY <1>a, <1>18, TruthFrame DEF vars
  <1> QED
    BY <1>1, <1>2, <1>3, <1>4, <1>5, <1>6, <1>7, <1>8, <1>9, <1>10, <1>11,
       <1>13, <1>14, <1>15, <1>16, <1>17, <1>18
    DEF Next, Handler, GatewayActs, AllSettled

\* The initial states: nothing was charged, stored, cached or answered.
LEMMA InitiallyTrue ==
    ASSUME Init
    PROVE  TypeInv /\ LedgerInv /\ TruthInv
  <1>1. TypeInv
    BY Parameters
    DEF Init, TypeInv, TypeOK, CallsHold, CallHolds, NoReply, NoRequest
  <1>2. LedgerInv
    BY DEF Init, LedgerInv
  <1>3. TrulyBacked(NoIntent)
    BY DEF TrulyBacked, Backed, Final, Refunded, NoIntent
  <1>4. /\ LocalsTrue /\ StoredTrue
        /\ \A k \in Keys : idem[k].intent = NoIntent
        /\ \A r \in Calls : reply[r].out.intent = NoIntent
    BY <1>3 DEF Init, LocalsTrue, StoredTrue, NoReply, NoOutput
  <1>5. CachedTrue /\ RepliesTrue
    BY <1>3, <1>4 DEF CachedTrue, RepliesTrue
  <1>6. ReplaysTrue /\ AnswersTrue /\ RefundsOnlyCaptured
    BY DEF Init, ReplaysTrue, AnswersTrue, RefundsOnlyCaptured, Outstanding
  <1> QED BY <1>1, <1>2, <1>4, <1>5, <1>6 DEF TruthInv

\* What a response says about money the entity of its output says as well.
ToldOfEntity(r) == LET status == reply[r].out.intent.status IN
    /\ Told(r) = "SUCCEEDED" => status \in {"succeeded", "disputed"}
    /\ Told(r) = "REFUNDED" => status = "refunded"
    /\ Told(r) = "FAILED" => status = "failed"

\* Responses translate the status of an output and claim nothing it does not
\* (mappers/entities.ts:117-136).
LEMMA ToldAsStored ==
    ASSUME TypeInv, NEW r \in Calls PROVE ToldOfEntity(r)
  <1> DEFINE status == reply[r].out.intent.status
  <1>1. status \in PaymentIntentStatus \cup {"absent"}
    BY DEF TypeInv, TypeOK, Outputs, NoOutput, NoIntent, PaymentIntents
  <1>2. status \in {"absent", "intent", "pending", "succeeded", "failed", "refunded", "disputed"}
    BY <1>1 DEF PaymentIntentStatus
  <1>3. Told(r) \in {"UNSPECIFIED", PaymentOnWire[status]}
    BY DEF Told, Unspecified
  <1>4. CASE status \in {"absent", "intent", "pending"}
    <2>1. PaymentOnWire[status] \in {"UNSPECIFIED", "PROCESSING"}
      BY <1>4 DEF PaymentOnWire, Unspecified
    <2> QED BY <1>3, <2>1 DEF ToldOfEntity
  <1>5. CASE status \in {"succeeded", "disputed"}
    <2>1. PaymentOnWire[status] = "SUCCEEDED"
      BY <1>5 DEF PaymentOnWire
    <2> QED BY <1>3, <1>5, <2>1 DEF ToldOfEntity
  <1>6. CASE status \in {"failed", "refunded"}
    <2>1. PaymentOnWire[status] = IF status = "failed" THEN "FAILED" ELSE "REFUNDED"
      BY <1>6 DEF PaymentOnWire
    <2> QED BY <1>3, <1>6, <2>1 DEF ToldOfEntity
  <1> QED BY <1>2, <1>4, <1>5, <1>6

\* The truths say of the stores and the responses what the properties ask.
LEMMA TruthsTold ==
    ASSUME TypeInv, TruthInv
    PROVE  /\ StatusBackedByGateway
           /\ Gateway = "stripe" => FailedIsFinal
  <1>1. ASSUME NEW r \in Calls PROVE ToldOfEntity(r)
    BY <1>1, ToldAsStored
  <1>2. \A r \in Calls : TrulyBacked(reply[r].out.intent)
    BY DEF TruthInv, RepliesTrue
  <1>3. \A r \in Calls : ReplyBacked(r)
    BY <1>1, <1>2 DEF ToldOfEntity, ReplyBacked, TrulyBacked, Backed
  <1>4. Gateway = "stripe" =>
            \A r \in Calls : Told(r) = "FAILED" => charge[reply[r].out.intent.ref] = "declined"
    BY <1>1, <1>2 DEF ToldOfEntity, TrulyBacked, Final
  <1> QED BY <1>3, <1>4 DEF TruthInv, StoredTrue, CachedTrue, TrulyBacked,
                            StatusBackedByGateway, FailedIsFinal

-------------------------------------------------------------------------------
(* The stores, the gateway and the answers agree on the charge of a key.    *)

\* Only an InitiateCheckout of that id brings an intent into the repository.
StoredByInitiate == \A i \in Calls : repo[i] # NoIntent =>
    /\ req[i] \in Requests /\ Op(i) = "initiate"
    /\ pc[i] \in {"commit", "done", "lost"}
    /\ repo[i].ref \in Calls

\* However often an intent is overwritten, its reference stays what it was.
LoadedAgree == \A r \in Calls :
    pc[r] \in {"gateway", "resume", "commit"} /\ Op(r) # "initiate" =>
        repo[Id(r)].ref = local[r].ref

AnsweredAgree == \A r \in Calls : pc[r] = "resume" /\ answer[r] # Failure =>
    replay[Key(r)] = [op |-> Op(r), answer |-> answer[r]]

SavedAgree == \A r \in Calls : pc[r] = "commit" =>
    /\ replay[Key(r)].op = Op(r)
    /\ replay[Key(r)].answer.ref = local[r].ref
    /\ repo[Id(r)].ref = local[r].ref
    /\ local[r].ref \in Calls

CachedAgree == \A k \in Keys : idem[k] # NoOutput =>
    /\ repo[idem[k].id].ref = idem[k].intent.ref
    /\ replay[k].op = idem[k].op
    /\ replay[k].answer.ref = idem[k].intent.ref
    /\ idem[k].intent.ref \in Calls

RepliesAgree == \A r \in Calls : reply[r].kind = "ok" =>
    /\ req[r] \in Requests
    /\ replay[Key(r)].op \in Operations
    /\ replay[Key(r)].answer.ref = reply[r].out.intent.ref

InitiateDrawsId == \A r \in Calls : req[r] \in Requests /\ Op(r) = "initiate" => Id(r) = r

AgreeInv ==
    /\ StoredByInitiate /\ LoadedAgree /\ AnsweredAgree /\ SavedAgree
    /\ CachedAgree /\ RepliesAgree /\ InitiateDrawsId

\* A process exit keeps the agreement: both stores are lost together.
LEMMA ExitKeepsAgreement ==
    ASSUME TypeInv, AgreeInv, ProcessExits
    PROVE  AgreeInv'
  <1> USE DEF storeVars, gatewayVars, processVars
  <1>1. UNCHANGED <<req, local, answer, reply, replay>>
    BY DEF ProcessExits
  <1>2. \A r \in Calls : /\ pc'[r] \notin {"gateway", "resume", "commit"}
                         /\ pc[r] \in {"commit", "done", "lost"} => pc'[r] \in {"done", "lost"}
    BY DEF ProcessExits, Executing, TypeInv, TypeOK
  <1>3. LoadedAgree' /\ AnsweredAgree' /\ SavedAgree'
    BY <1>2 DEF LoadedAgree, AnsweredAgree, SavedAgree
  <1>4. RepliesAgree' /\ InitiateDrawsId'
    BY <1>1 DEF AgreeInv, RepliesAgree, InitiateDrawsId, Op, Id, Key
  <1>5. CASE Durable
    <2>1. repo' = repo /\ idem' = idem
      BY <1>5 DEF ProcessExits
    <2> QED
      BY <1>1, <1>2, <1>3, <1>4, <2>1 DEF AgreeInv, StoredByInitiate, CachedAgree, Op
  <1>6. CASE ~Durable
    <2>1. (\A i \in Calls : repo'[i] = NoIntent) /\ (\A k \in Keys : idem'[k] = NoOutput)
      BY <1>6 DEF ProcessExits
    <2> QED
      BY <1>3, <1>4, <2>1 DEF AgreeInv, StoredByInitiate, CachedAgree
  <1> QED BY <1>5, <1>6

\* A call that leaves the stores and the gateway's records alone keeps the
\* agreement when what it takes into its closure or its answer agrees.
LEMMA AgreeFrame ==
    ASSUME NEW r \in Calls, TypeInv, AgreeInv, UNCHANGED <<repo, idem, replay>>,
           req'[r] = req[r] \/ reply'[r].kind # "ok",
           repo[r] # NoIntent => req'[r] = req[r] /\ pc'[r] \in {"commit", "done", "lost"},
           \A q \in Calls : q # r =>
              /\ pc'[q] = pc[q] /\ req'[q] = req[q] /\ local'[q] = local[q]
              /\ answer'[q] = answer[q] /\ reply'[q] = reply[q],
           pc'[r] \in {"gateway", "resume", "commit"} /\ Op(r)' # "initiate" =>
              (repo[Id(r)].ref = local[r].ref)',
           pc'[r] = "resume" /\ answer'[r] # Failure =>
              (replay[Key(r)] = [op |-> Op(r), answer |-> answer[r]])',
           pc'[r] # "commit",
           reply'[r].kind = "ok" =>
              \/ reply'[r] = reply[r]
              \/ (/\ req[r] \in Requests
                  /\ replay[Key(r)].op \in Operations
                  /\ replay[Key(r)].answer.ref = reply[r].out.intent.ref)',
           req'[r] \in Requests /\ Op(r)' = "initiate" => Id(r)' = r
    PROVE  AgreeInv'
  <1>1. StoredByInitiate'
    BY DEF AgreeInv, StoredByInitiate, Op
  <1>2. LoadedAgree'
    BY DEF AgreeInv, LoadedAgree, Op, Id
  <1>3. AnsweredAgree'
    BY DEF AgreeInv, AnsweredAgree, Op, Key
  <1>4. SavedAgree'
    BY DEF AgreeInv, SavedAgree, Op, Id, Key
  <1>5. CachedAgree'
    BY DEF AgreeInv, CachedAgree
  <1>6. RepliesAgree'
    BY DEF AgreeInv, RepliesAgree, Key
  <1>7. InitiateDrawsId'
    BY DEF AgreeInv, InitiateDrawsId, Op, Id
  <1> QED BY <1>1, <1>2, <1>3, <1>4, <1>5, <1>6, <1>7 DEF AgreeInv

\* Recording a first answer under a key nobody was answered under before.
LEMMA RecordingKeepsAgreement ==
    ASSUME NEW r \in Calls, TypeInv, AgreeInv, Outstanding(r), NEW kind \in AnswerKinds,
           Executed(r, kind)
    PROVE  AgreeInv'
  <1> USE DEF storeVars
  <1>1. Op(r) \in Operations /\ Key(r) \in Keys /\ Subject(r) \in Calls
    <2>1. req[r] \in Requests
      BY DEF TypeInv, CallsHold, CallHolds, Outstanding
    <2> QED BY <2>1, OutstandingTypes DEF Requests, Key
  <1>2. PICK ans : ans = [kind |-> kind, ref |-> Subject(r)]
    OBVIOUS
  <1>3. /\ replay[Key(r)] = Unused
        /\ \A h \in HeaderKeys :
              replay'[h] = IF h = Key(r) THEN [op |-> Op(r), answer |-> ans] ELSE replay[h]
    BY <1>2, ExecutedRecords DEF TypeInv, TypeOK
  <1>4. Answered(r, ans) /\ UNCHANGED <<req, local, reply, repo, idem>>
    BY <1>2, ExecutedTypes
  <1>5. /\ \A q \in Calls : q # r => pc'[q] = pc[q] /\ answer'[q] = answer[q]
        /\ pc[r] \in {"gateway", "orphan"}
        /\ pc'[r] \in {"lost", "resume"}
        /\ pc'[r] = "resume" => pc[r] = "gateway" /\ answer'[r] \in {ans, Failure}
    BY <1>4 DEF Answered, Outstanding, TypeInv, TypeOK
  <1>6. \A k \in Keys : replay[k].op \in Operations => replay'[k] = replay[k]
    BY <1>1, <1>3 DEF Unused, Operations, HeaderKeys
  <1>7. \A q \in Calls : pc[q] # "idle" => Op(q) \in Operations /\ Key(q) \in Keys
    BY DEF TypeInv, CallsHold, CallHolds, Op, Key, Requests
  <1>8. StoredByInitiate'
    BY <1>4, <1>5 DEF AgreeInv, StoredByInitiate, Op
  <1>9. LoadedAgree'
    BY <1>4, <1>5 DEF AgreeInv, LoadedAgree, Op, Id
  <1>10. AnsweredAgree'
    <2> SUFFICES ASSUME NEW q \in Calls, pc'[q] = "resume", answer'[q] # Failure
                 PROVE  replay'[Key(q)] = [op |-> Op(q), answer |-> answer'[q]]
      BY <1>4 DEF AnsweredAgree, Op, Key
    <2>1. CASE q = r
      BY <1>1, <1>3, <1>5, <2>1 DEF HeaderKeys
    <2>2. CASE q # r
      <3>1. replay[Key(q)] = [op |-> Op(q), answer |-> answer[q]] /\ pc[q] = "resume"
        BY <1>5, <2>2 DEF AgreeInv, AnsweredAgree
      <3> QED BY <1>5, <1>6, <1>7, <2>2, <3>1
    <2> QED BY <2>1, <2>2
  <1>11. SavedAgree'
    BY <1>4, <1>5, <1>6, <1>7 DEF AgreeInv, SavedAgree, Op, Id, Key
  <1>12. CachedAgree'
    BY <1>4, <1>6 DEF AgreeInv, CachedAgree, TypeInv, TypeOK, Outputs
  <1>13. RepliesAgree'
    BY <1>4, <1>6 DEF AgreeInv, RepliesAgree, Key, Requests
  <1>14. InitiateDrawsId'
    BY <1>4 DEF AgreeInv, InitiateDrawsId, Op, Id
  <1> QED BY <1>8, <1>9, <1>10, <1>11, <1>12, <1>13, <1>14 DEF AgreeInv

\* The one intent a call overwrites keeps its reference, or is stored for the
\* first time, when nobody else can have loaded it.
LEMMA SaveKeepsAgreement ==
    ASSUME NEW r \in Calls, TypeInv, TruthInv, AgreeInv, Save(r)
    PROVE  AgreeInv'
  <1>1. /\ req[r] \in Requests /\ Id(r) \in Calls /\ Key(r) \in Keys /\ Op(r) \in Operations
        /\ local[r] \in PaymentIntents /\ answer[r] \in Answers
        /\ Op(r) # "initiate" => local[r].ref \in Calls
    BY DEF Save, TypeInv, CallsHold, CallHolds, Op, Id, Key, Requests
  <1>2. /\ Op(r) # "initiate" => Advanced(r).ref = local[r].ref
        /\ Op(r) = "initiate" => Advanced(r).ref = answer[r].ref
        /\ Advanced(r) \in PaymentIntents
    BY AdvancedType DEF Save, TypeInv, CallsHold
  <1>3. /\ UNCHANGED <<req, answer, reply, idem, replay>>
        /\ \A q \in Calls : /\ pc'[q] = (IF q = r THEN "commit" ELSE pc[q])
                            /\ local'[q] = (IF q = r THEN Advanced(r) ELSE local[q])
                            /\ repo'[q] = (IF q = Id(r) THEN Advanced(r) ELSE repo[q])
    BY DEF Save, TypeInv, TypeOK, gatewayVars
  <1>4. Advanced(r).ref = answer[r].ref /\ Advanced(r).ref \in Calls
    BY <1>1, <1>2 DEF Save, TruthInv, AnswersTrue, Answers
  <1>6. Op(r) # "initiate" => repo[Id(r)].ref = Advanced(r).ref /\ repo[Id(r)] # NoIntent
    <2> SUFFICES ASSUME Op(r) # "initiate"
                 PROVE  repo[Id(r)].ref = Advanced(r).ref /\ repo[Id(r)] # NoIntent
      OBVIOUS
    <2>1. repo[Id(r)].ref = local[r].ref
      BY DEF Save, AgreeInv, LoadedAgree
    <2> QED BY <1>1, <1>2, <2>1, NoneIsNoCall DEF NoIntent
  <1>7. Op(r) = "initiate" => Id(r) = r /\ repo[r] = NoIntent
    BY <1>1 DEF Save, AgreeInv, InitiateDrawsId, StoredByInitiate
  <1>8. \A i \in Calls : repo[i].ref \in Calls => repo'[i].ref = repo[i].ref
    BY <1>3, <1>6, <1>7, NoneIsNoCall DEF NoIntent
  <1>9. StoredByInitiate'
    BY <1>1, <1>3, <1>4, <1>6, <1>7 DEF AgreeInv, StoredByInitiate, Op
  <1>10. LoadedAgree'
    <2> SUFFICES ASSUME NEW q \in Calls, pc'[q] \in {"gateway", "resume", "commit"},
                        Op(q) # "initiate"
                 PROVE  repo'[Id(q)].ref = local'[q].ref
      BY <1>3 DEF LoadedAgree, Op, Id
    <2>1. CASE q = r
      BY <1>1, <1>3, <2>1
    <2>2. CASE q # r
      <3>1. pc[q] \in {"gateway", "resume", "commit"} /\ local'[q] = local[q]
        BY <1>3, <2>2
      <3>2. Id(q) \in Calls /\ local[q].ref \in Calls
        BY <3>1 DEF TypeInv, CallsHold, CallHolds, Id, Requests
      <3>3. repo[Id(q)].ref = local[q].ref
        BY <3>1 DEF AgreeInv, LoadedAgree
      <3> QED BY <1>8, <3>1, <3>2, <3>3
    <2> QED BY <2>1, <2>2
  <1>11. AnsweredAgree'
    BY <1>3 DEF AgreeInv, AnsweredAgree, Op, Key
  <1>12. SavedAgree'
    <2> SUFFICES ASSUME NEW q \in Calls, pc'[q] = "commit"
                 PROVE  /\ replay[Key(q)].op = Op(q)
                        /\ replay[Key(q)].answer.ref = local'[q].ref
                        /\ repo'[Id(q)].ref = local'[q].ref
                        /\ local'[q].ref \in Calls
      BY <1>3 DEF SavedAgree, Op, Id, Key
    <2>1. CASE q = r
      <3>1. replay[Key(r)] = [op |-> Op(r), answer |-> answer[r]]
        BY DEF Save, AgreeInv, AnsweredAgree
      <3> QED BY <1>1, <1>3, <1>4, <2>1, <3>1
    <2>2. CASE q # r
      <3>1. pc[q] = "commit" /\ local'[q] = local[q]
        BY <1>3, <2>2
      <3>2. Id(q) \in Calls
        BY <3>1 DEF TypeInv, CallsHold, CallHolds, Id, Requests
      <3> QED BY <1>8, <3>1, <3>2 DEF AgreeInv, SavedAgree
    <2> QED BY <2>1, <2>2
  <1>13. CachedAgree'
    <2> SUFFICES ASSUME NEW k \in Keys, idem[k] # NoOutput
                 PROVE  repo'[idem[k].id].ref = idem[k].intent.ref
      BY <1>3 DEF AgreeInv, CachedAgree
    <2>1. idem[k].id \in Calls
      BY DEF TypeInv, TypeOK, Outputs
    <2> QED BY <1>8, <2>1 DEF AgreeInv, CachedAgree
  <1>14. RepliesAgree' /\ InitiateDrawsId'
    BY <1>3 DEF AgreeInv, RepliesAgree, InitiateDrawsId, Op, Id, Key
  <1> QED BY <1>9, <1>10, <1>11, <1>12, <1>13, <1>14 DEF AgreeInv

\* Caching an output and answering with it.
LEMMA CommitKeepsAgreement ==
    ASSUME NEW r \in Calls, TypeInv, AgreeInv, Commit(r)
    PROVE  AgreeInv'
  <1>1. /\ req[r] \in Requests /\ Id(r) \in Calls /\ Key(r) \in Keys /\ Op(r) \in Operations
    BY DEF Commit, TypeInv, CallsHold, CallHolds, Op, Id, Key, Requests
  <1>2. /\ UNCHANGED <<req, local, answer, repo, replay>>
        /\ \A q \in Calls : /\ pc'[q] = (IF q = r THEN "done" ELSE pc[q])
                            /\ reply'[q] = (IF q = r THEN OkReply(Output(r)) ELSE reply[q])
        /\ \A k \in Keys : idem'[k] = IF k = Key(r) THEN Output(r) ELSE idem[k]
    BY DEF Commit, Return, TypeInv, TypeOK, gatewayVars
  <1>3. /\ replay[Key(r)].op = Op(r)
        /\ replay[Key(r)].answer.ref = local[r].ref
        /\ repo[Id(r)].ref = local[r].ref
        /\ local[r].ref \in Calls
    BY DEF Commit, AgreeInv, SavedAgree
  <1>4. Output(r).op = Op(r) /\ Output(r).id = Id(r) /\ Output(r).intent = local[r]
    BY DEF Output
  <1>5. OkReply(Output(r)).out = Output(r)
    BY DEF OkReply
  <1>6. StoredByInitiate' /\ LoadedAgree'
    BY <1>2 DEF Commit, AgreeInv, StoredByInitiate, LoadedAgree, Op, Id
  <1>7. AnsweredAgree' /\ SavedAgree'
    BY <1>2 DEF AgreeInv, AnsweredAgree, SavedAgree, Op, Id, Key
  <1>8. CachedAgree'
    BY <1>2, <1>3, <1>4 DEF AgreeInv, CachedAgree
  <1>9. RepliesAgree'
    BY <1>1, <1>2, <1>3, <1>4, <1>5 DEF AgreeInv, RepliesAgree, Key
  <1>10. InitiateDrawsId'
    BY <1>2 DEF AgreeInv, InitiateDrawsId, Op, Id
  <1> QED BY <1>6, <1>7, <1>8, <1>9, <1>10 DEF AgreeInv

\* The inductive step of the agreement.
LEMMA AgreeStep ==
    ASSUME TypeInv, TruthInv, AgreeInv, [Next]_vars
    PROVE  AgreeInv'
  <1> USE DEF storeVars, gatewayVars
  <1>1. ASSUME NEW r \in Calls, Receive(r) PROVE AgreeInv'
    <2>1. PICK rq \in Requests :
             (rq.op = "initiate" => rq.id = r) /\ req' = [req EXCEPT ![r] = rq]
      BY <1>1 DEF Receive
    <2>2. req'[r] = rq /\ \A q \in Calls : q # r => req'[q] = req[q]
      BY <2>1 DEF TypeInv, TypeOK
    <2>3. \A q \in Calls : pc'[q] = IF q = r THEN "check" ELSE pc[q]
      BY <1>1 DEF Receive, TypeInv, TypeOK
    <2>4. req[r] \notin Requests
      BY <1>1 DEF Receive, TypeInv, CallsHold, CallHolds, NoRequest, Requests, Operations
    <2>5. repo[r] = NoIntent /\ reply[r].kind # "ok"
      BY <2>4 DEF AgreeInv, StoredByInitiate, RepliesAgree
    <2>6. Op(r)' = "initiate" => Id(r)' = r
      BY <2>1, <2>2 DEF Op, Id
    <2>7. UNCHANGED <<local, answer, reply, repo, idem, replay>>
      BY <1>1 DEF Receive
    <2> QED
      BY <2>2, <2>3, <2>5, <2>6, <2>7, AgreeFrame
  <1>2. ASSUME NEW r \in Calls, ReturnCached(r) PROVE AgreeInv'
    <2>1. Key(r) \in Keys /\ req[r] \in Requests
      BY <1>2 DEF ReturnCached, TypeInv, CallsHold, CallHolds, Key, Requests
    <2>2. UNCHANGED <<req, local, answer, repo, idem, replay>>
      BY <1>2 DEF ReturnCached
    <2>3. \A q \in Calls : pc'[q] = (IF q = r THEN "done" ELSE pc[q])
            /\ reply'[q] = (IF q = r THEN OkReply(idem[Key(r)]) ELSE reply[q])
      BY <1>2 DEF ReturnCached, Return, TypeInv, TypeOK
    <2>4. /\ replay[Key(r)].op \in Operations
          /\ replay[Key(r)].answer.ref = idem[Key(r)].intent.ref
      BY <1>2, <2>1 DEF ReturnCached, AgreeInv, CachedAgree, TypeInv, TypeOK, Outputs
    <2>5. reply'[r].out = idem[Key(r)] /\ Key(r)' = Key(r)
      BY <2>2, <2>3 DEF OkReply, Key
    <2>6. repo[r] = NoIntent
      BY <1>2 DEF ReturnCached, AgreeInv, StoredByInitiate
    <2>7. req'[r] \in Requests /\ Op(r)' = "initiate" => Id(r)' = r
      BY <2>2 DEF AgreeInv, InitiateDrawsId, Op, Id
    <2> QED
      BY <2>1, <2>2, <2>3, <2>4, <2>5, <2>6, <2>7, AgreeFrame
  <1>3. ASSUME NEW r \in Calls, CachedMisread(r) \/ IllegalTransition(r) PROVE AgreeInv'
    BY <1>3, ExitKeepsAgreement DEF CachedMisread, IllegalTransition
  <1>4. ASSUME NEW r \in Calls,
               StartInitiate(r) \/ StartOnExisting(r) \/ Load(r) \/ Reject(r)
        PROVE  AgreeInv'
    <2>1. UNCHANGED <<req, answer, repo, idem, replay>>
      BY <1>4 DEF StartInitiate, StartOnExisting, Load, Reject
    <2>2. \A q \in Calls : q # r =>
            pc'[q] = pc[q] /\ local'[q] = local[q] /\ reply'[q] = reply[q]
      BY <1>4 DEF StartInitiate, StartOnExisting, Load, Reject, Return, TypeInv, TypeOK
    <2>3. /\ pc'[r] \in {"gateway", "load", "done"}
          /\ reply'[r].kind = "ok" => reply'[r] = reply[r]
          /\ pc'[r] = "gateway" => Op(r) = "initiate" \/ local'[r] = repo[Id(r)]
      BY <1>4
      DEF StartInitiate, StartOnExisting, Load, Reject, Return, ErrorReply, TypeInv, TypeOK
    <2>4. repo[r] = NoIntent
      BY <1>4
      DEF StartInitiate, StartOnExisting, Load, Reject, AgreeInv, StoredByInitiate
    <2>5. req'[r] \in Requests /\ Op(r)' = "initiate" => Id(r)' = r
      BY <2>1 DEF AgreeInv, InitiateDrawsId, Op, Id
    <2>6. Op(r)' = Op(r) /\ Id(r)' = Id(r)
      BY <2>1 DEF Op, Id
    <2> QED
      BY <2>1, <2>2, <2>3, <2>4, <2>5, <2>6, AgreeFrame
  <1>5. ASSUME NEW r \in Calls, ReturnGatewayError(r) PROVE AgreeInv'
    <2>1. UNCHANGED <<req, local, answer, repo, idem, replay>>
      BY <1>5 DEF ReturnGatewayError
    <2>2. /\ \A q \in Calls : q # r => pc'[q] = pc[q] /\ reply'[q] = reply[q]
          /\ pc'[r] = "done" /\ reply'[r].kind # "ok"
      BY <1>5 DEF ReturnGatewayError, Return, ErrorReply, TypeInv, TypeOK
    <2>3. req'[r] \in Requests /\ Op(r)' = "initiate" => Id(r)' = r
      BY <2>1 DEF AgreeInv, InitiateDrawsId, Op, Id
    <2> QED
      BY <2>1, <2>2, <2>3, AgreeFrame
  <1>6. ASSUME NEW r \in Calls, Save(r) PROVE AgreeInv'
    BY <1>6, SaveKeepsAgreement
  <1>7. ASSUME NEW r \in Calls, Commit(r) PROVE AgreeInv'
    BY <1>7, CommitKeepsAgreement
  <1>8. ASSUME NEW r \in Calls, GatewayRefuses(r) \/ GatewayReplays(r) PROVE AgreeInv'
    <2>1. UNCHANGED <<req, local, reply, repo, idem, replay>>
      BY <1>8 DEF GatewayRefuses, GatewayReplays
    <2>2. /\ \A q \in Calls : q # r => pc'[q] = pc[q] /\ answer'[q] = answer[q]
          /\ pc[r] \in {"gateway", "orphan"}
          /\ pc'[r] \in {"lost", "resume"}
          /\ pc'[r] = "resume" => pc[r] = "gateway"
          /\ pc'[r] = "resume" /\ answer'[r] # Failure =>
                /\ replay[Key(r)].op = Op(r)
                /\ answer'[r] = replay[Key(r)].answer
      BY <1>8
      DEF GatewayRefuses, GatewayReplays, GatewayKey, Answered, Outstanding, TypeInv, TypeOK
    <2>3. Op(r) \in Operations /\ Key(r) \in HeaderKeys
      BY <2>2, OutstandingTypes DEF Outstanding
    <2>4. pc'[r] = "resume" /\ answer'[r] # Failure =>
             replay[Key(r)] = [op |-> Op(r), answer |-> answer'[r]]
      BY <2>2, <2>3 DEF TypeInv, TypeOK, Recorded, Unused, Operations
    <2>5. Op(r)' = Op(r) /\ Id(r)' = Id(r) /\ Key(r)' = Key(r)
      BY <2>1 DEF Op, Id, Key
    <2>6. pc'[r] = "resume" /\ Op(r) # "initiate" => repo[Id(r)].ref = local[r].ref
      BY <2>2 DEF AgreeInv, LoadedAgree
    <2>7. repo[r] = NoIntent \/ pc[r] \in {"done", "lost", "commit"}
      BY DEF AgreeInv, StoredByInitiate
    <2>8. req'[r] \in Requests /\ Op(r)' = "initiate" => Id(r)' = r
      BY <2>1 DEF AgreeInv, InitiateDrawsId, Op, Id
    <2> QED
      BY <2>1, <2>2, <2>4, <2>5, <2>6, <2>7, <2>8, AgreeFrame
  <1>9. ASSUME NEW r \in Calls,
               GatewayCreates(r) \/ GatewayConfirms(r) \/ GatewayRefunds(r)
        PROVE  AgreeInv'
    <2>1. Outstanding(r) /\ \E kind \in AnswerKinds : Executed(r, kind)
      BY <1>9, ConfirmExecutes, RefundExecutes
      DEF GatewayCreates, GatewayConfirms, GatewayRefunds, AnswerKinds
    <2> QED BY <2>1, RecordingKeepsAgreement
  <1>10. ASSUME NEW c \in Calls, ChargeSettles(c) \/ RefundSettles(c) PROVE AgreeInv'
    <2>1. UNCHANGED <<processVars, storeVars, replay>>
      BY <1>10 DEF ChargeSettles, RefundSettles
    <2> QED
      BY <2>1
      DEF processVars, AgreeInv, StoredByInitiate, LoadedAgree, AnsweredAgree,
          SavedAgree, CachedAgree, RepliesAgree, InitiateDrawsId, Op, Id, Key
  <1>11. CASE Crash
    BY <1>11, ExitKeepsAgreement DEF Crash
  <1>12. CASE UNCHANGED vars
    BY <1>12
    DEF vars, processVars, AgreeInv, StoredByInitiate, LoadedAgree, AnsweredAgree,
        SavedAgree, CachedAgree, RepliesAgree, InitiateDrawsId, Op, Id, Key
  <1> QED
    BY <1>1, <1>2, <1>3, <1>4, <1>5, <1>6, <1>7, <1>8, <1>9, <1>10, <1>11, <1>12
    DEF Next, Handler, GatewayActs, AllSettled

\* Initially nothing is stored or answered that could disagree.
LEMMA InitiallyAgreed ==
    ASSUME Init
    PROVE  AgreeInv
  <1>1. LoadedAgree /\ AnsweredAgree /\ SavedAgree
    BY DEF Init, LoadedAgree, AnsweredAgree, SavedAgree
  <1>2. StoredByInitiate /\ CachedAgree
    BY DEF Init, StoredByInitiate, CachedAgree
  <1>3. RepliesAgree /\ InitiateDrawsId
    BY DEF Init, RepliesAgree, InitiateDrawsId, NoReply, NoRequest, Requests, Operations
  <1> QED BY <1>1, <1>2, <1>3 DEF AgreeInv

\* The invariant as a whole.
Inv == TypeInv /\ LedgerInv /\ TruthInv /\ AgreeInv

LEMMA InvStep ==
    ASSUME Inv, [Next]_vars
    PROVE  Inv'
  BY TypeInvStep, LedgerStep, TruthStep, AgreeStep DEF Inv

LEMMA InvAlways == Spec => []Inv
  <1>1. Init => Inv
    BY InitiallyTrue, InitiallyAgreed DEF Inv
  <1>2. Inv /\ [Next]_vars => Inv'
    BY InvStep
  <1> QED BY <1>1, <1>2, PTL DEF Spec

-------------------------------------------------------------------------------
(* What callers are told of a refund is what the gateway recorded of its key. *)

\* The status that the recorded answer makes of an intent that was captured.
Verdict(k) == IF replay[k].answer.kind = "succeeded" THEN "refunded" ELSE "succeeded"

OnRecord(k, status) == replay[k] # Unused /\ status = Verdict(k)

\* Only a captured intent is refunded; until its answer is used it stays so.
LoadedCaptured == \A r \in Calls :
    pc[r] \in {"gateway", "resume"} /\ Op(r) = "refund" => local[r].status = "succeeded"

SavedOnRecord == \A r \in Calls :
    pc[r] = "commit" /\ Op(r) = "refund" => OnRecord(Key(r), local[r].status)

CachedOnRecord == \A k \in Keys :
    idem[k].op = "refund" => OnRecord(k, idem[k].intent.status)

RepliesOnRecord == \A r \in Calls :
    reply[r].kind = "ok" /\ Op(r) = "refund" =>
        OnRecord(Key(r), reply[r].out.intent.status) /\ reply[r].out.op = "refund"

VerdictInv == LoadedCaptured /\ SavedOnRecord /\ CachedOnRecord /\ RepliesOnRecord

\* A step keeps to the record if it only adds to it, and what it lets a call take
\* along, commit, cache or answer is on record.
LEMMA VerdictFrame ==
    ASSUME Inv, VerdictInv,
           \A k \in Keys : replay[k] # Unused => replay'[k] = replay[k],
           \A r \in Calls : req[r] \in Requests => req'[r] = req[r],
           \A r \in Calls : pc'[r] \in {"gateway", "resume"} /\ Op(r)' = "refund" =>
              \/ pc[r] \in {"gateway", "resume"} /\ local'[r] = local[r]
              \/ local'[r].status = "succeeded",
           \A r \in Calls : pc'[r] = "commit" /\ Op(r)' = "refund" =>
              \/ pc[r] = "commit" /\ local'[r] = local[r]
              \/ OnRecord(Key(r), local[r].status)',
           \A k \in Keys : idem'[k] = idem[k] \/ idem'[k] = NoOutput
              \/ (idem[k].op = "refund" => OnRecord(k, idem[k].intent.status))',
           \A r \in Calls : reply'[r].kind = "ok" /\ Op(r)' = "refund" =>
              \/ reply'[r] = reply[r]
              \/ (OnRecord(Key(r), reply[r].out.intent.status) /\ reply[r].out.op = "refund")'
    PROVE  VerdictInv'
  <1>1. \A r \in Calls : req[r] \in Requests => Key(r)' = Key(r) /\ Op(r)' = Op(r) /\ Key(r) \in Keys
    BY DEF Key, Op, Requests
  <1>2. \A k \in Keys : replay[k] # Unused => Verdict(k)' = Verdict(k) /\ replay'[k] # Unused
    BY DEF Verdict
  <1>3. ASSUME NEW r \in Calls, pc[r] \in {"gateway", "resume", "commit"} PROVE req[r] \in Requests
    BY <1>3 DEF Inv, TypeInv, CallsHold, CallHolds
  <1>4. LoadedCaptured'
    BY <1>1, <1>3 DEF VerdictInv, LoadedCaptured
  <1>5. SavedOnRecord'
    <2> SUFFICES ASSUME NEW r \in Calls, pc'[r] = "commit", Op(r)' = "refund",
                        pc[r] = "commit", local'[r] = local[r]
                 PROVE  OnRecord(Key(r), local[r].status)'
      BY DEF SavedOnRecord
    <2>1. /\ Key(r)' = Key(r) /\ Key(r) \in Keys
          /\ OnRecord(Key(r), local[r].status)
      BY <1>1, <1>3 DEF VerdictInv, SavedOnRecord
    <2> QED BY <1>2, <2>1 DEF OnRecord
  <1>6. CachedOnRecord'
    <2> SUFFICES ASSUME NEW k \in Keys, idem'[k].op = "refund", idem'[k] = idem[k]
                 PROVE  OnRecord(k, idem[k].intent.status)'
      BY DEF CachedOnRecord, NoOutput
    <2>1. OnRecord(k, idem[k].intent.status)
      BY DEF VerdictInv, CachedOnRecord
    <2> QED BY <1>2, <2>1 DEF OnRecord
  <1>7. RepliesOnRecord'
    <2> SUFFICES ASSUME NEW r \in Calls, reply'[r].kind = "ok", Op(r)' = "refund",
                        reply'[r] = reply[r]
                 PROVE  (OnRecord(Key(r), reply[r].out.intent.status)
                            /\ reply[r].out.op = "refund")'
      BY DEF RepliesOnRecord
    <2>1. req[r] \in Requests
      BY DEF Inv, AgreeInv, RepliesAgree
    <2>2. /\ Key(r)' = Key(r) /\ Key(r) \in Keys /\ reply[r].out.op = "refund"
          /\ OnRecord(Key(r), reply[r].out.intent.status)
      BY <1>1, <2>1 DEF VerdictInv, RepliesOnRecord
    <2> QED BY <1>2, <2>2 DEF OnRecord
  <1> QED BY <1>4, <1>5, <1>6, <1>7 DEF VerdictInv

\* A call answered about its refund saves what is on record.
LEMMA SavedVerdict ==
    ASSUME Inv, VerdictInv, NEW r \in Calls, Save(r), Op(r) = "refund"
    PROVE  OnRecord(Key(r), Advanced(r).status)
  <1>1. req[r] \in Requests /\ pc[r] = "resume" /\ answer[r] # Failure
    BY DEF Save, Inv, TypeInv, CallsHold, CallHolds
  <1>2. replay[Key(r)] = [op |-> Op(r), answer |-> answer[r]]
    BY <1>1 DEF Inv, AgreeInv, AnsweredAgree
  <1>3. replay[Key(r)] # Unused /\ replay[Key(r)].answer = answer[r]
    BY <1>2 DEF Unused
  <1>4. local[r].status = "succeeded"
    BY <1>1 DEF VerdictInv, LoadedCaptured
  <1>5. CASE answer[r].kind = "succeeded"
    <2>1. Target(r) = "refunded"
      BY <1>5 DEF Target
    <2>2. Advanced(r).status = "refunded"
      BY <2>1 DEF Advanced, Transitioned
    <2> QED BY <1>3, <1>5, <2>2 DEF OnRecord, Verdict
  <1>6. CASE answer[r].kind # "succeeded"
    <2>1. Target(r) = "none"
      BY <1>6 DEF Target
    <2> QED BY <1>3, <1>4, <1>6, <2>1 DEF OnRecord, Verdict, Advanced
  <1> QED BY <1>5, <1>6

\* The inductive step.
LEMMA VerdictStep ==
    ASSUME Inv, VerdictInv, [Next]_vars
    PROVE  VerdictInv'
  <1> USE DEF storeVars, gatewayVars, processVars
  <1>t. TypeInv
    BY DEF Inv
  <1>1. ASSUME NEW r \in Calls, Receive(r) PROVE VerdictInv'
    <2>1. /\ \A q \in Calls : pc'[q] = IF q = r THEN "check" ELSE pc[q]
          /\ \A q \in Calls : q # r => req'[q] = req[q]
          /\ req[r] \notin Requests
      BY <1>1, <1>t
      DEF Receive, TypeInv, TypeOK, CallsHold, CallHolds, NoRequest, Requests, Operations
    <2> QED BY <1>1, <2>1, VerdictFrame DEF Receive
  <1>2. ASSUME NEW r \in Calls, ReturnCached(r) PROVE VerdictInv'
    <2>1. Key(r) \in Keys
      BY <1>2, <1>t DEF ReturnCached, TypeInv, CallsHold, CallHolds, Key, Requests
    <2>2. /\ \A q \in Calls : pc'[q] = IF q = r THEN "done" ELSE pc[q]
          /\ \A q \in Calls : q # r => reply'[q] = reply[q]
          /\ reply'[r].out = idem[Key(r)]
          /\ Op(r) = "refund" => idem[Key(r)].op = "refund"
          /\ UNCHANGED <<req, local, idem, replay>>
      BY <1>2, <1>t DEF ReturnCached, Return, OkReply, TypeInv, TypeOK
    <2>3. Op(r)' = "refund" =>
             (OnRecord(Key(r), reply[r].out.intent.status) /\ reply[r].out.op = "refund")'
      BY <2>1, <2>2 DEF VerdictInv, CachedOnRecord, OnRecord, Verdict, Key, Op
    <2> QED BY <2>2, <2>3, VerdictFrame
  <1>3. ASSUME NEW r \in Calls, StartInitiate(r) \/ StartOnExisting(r) PROVE VerdictInv'
    <2>1. /\ \A q \in Calls : q # r => pc'[q] = pc[q] /\ local'[q] = local[q]
          /\ pc'[r] \in {"gateway", "load"} /\ (pc'[r] = "gateway" => Op(r) # "refund")
          /\ UNCHANGED <<req, reply, idem, replay>>
      BY <1>3, <1>t DEF StartInitiate, StartOnExisting, TypeInv, TypeOK
    <2>2. Op(r)' = Op(r)
      BY <2>1 DEF Op
    <2> QED BY <2>1, <2>2, VerdictFrame
  <1>4. ASSUME NEW r \in Calls, Load(r) PROVE VerdictInv'
    <2>1. /\ \A q \in Calls : q # r => pc'[q] = pc[q] /\ local'[q] = local[q]
          /\ pc'[r] = "gateway" /\ local'[r] = repo[Id(r)]
          /\ UNCHANGED <<req, reply, idem, replay>>
      BY <1>4, <1>t DEF Load, TypeInv, TypeOK
    <2>2. Op(r) = "refund" => local'[r].status = "succeeded"
      BY <1>4, <2>1 DEF Load, Usable, CanTransition, PaymentIntentTransitions
    <2>3. Op(r)' = Op(r)
      BY <2>1 DEF Op
    <2> QED BY <2>1, <2>2, <2>3, VerdictFrame
  <1>5. ASSUME NEW r \in Calls, Reject(r) \/ ReturnGatewayError(r) PROVE VerdictInv'
    <2>1. /\ \A q \in Calls : pc'[q] = IF q = r THEN "done" ELSE pc[q]
          /\ \A q \in Calls : q # r => reply'[q] = reply[q]
          /\ reply'[r].kind = "error"
          /\ UNCHANGED <<req, local, idem, replay>>
      BY <1>5, <1>t DEF Reject, ReturnGatewayError, Return, ErrorReply, TypeInv, TypeOK
    <2> QED BY <2>1, VerdictFrame
  <1>6. ASSUME NEW r \in Calls, Save(r) PROVE VerdictInv'
    <2>1. /\ \A q \in Calls : q # r => pc'[q] = pc[q] /\ local'[q] = local[q]
          /\ pc'[r] = "commit" /\ local'[r] = Advanced(r)
          /\ UNCHANGED <<req, reply, idem, replay>>
      BY <1>6, <1>t DEF Save, TypeInv, TypeOK
    <2>2. Op(r)' = "refund" => OnRecord(Key(r), local[r].status)'
      BY <1>6, <2>1, SavedVerdict DEF OnRecord, Verdict, Key, Op
    <2> QED BY <2>1, <2>2, VerdictFrame
  <1>7. ASSUME NEW r \in Calls, Commit(r) PROVE VerdictInv'
    <2>1. pc[r] = "commit" /\ Key(r) \in Keys
      BY <1>7, <1>t DEF Commit, TypeInv, CallsHold, CallHolds, Key, Requests
    <2>2. /\ \A q \in Calls : pc'[q] = IF q = r THEN "done" ELSE pc[q]
          /\ \A q \in Calls : q # r => reply'[q] = reply[q]
          /\ reply'[r].out = Output(r)
          /\ \A k \in Keys : idem'[k] = IF k = Key(r) THEN Output(r) ELSE idem[k]
          /\ UNCHANGED <<req, local, replay>>
      BY <1>7, <1>t DEF Commit, Return, OkReply, TypeInv, TypeOK
    <2>3. /\ Output(r).op = Op(r) /\ Output(r).intent = local[r]
          /\ Op(r) = "refund" => OnRecord(Key(r), local[r].status)
      BY <2>1 DEF VerdictInv, SavedOnRecord, Output
    <2>4. \A k \in Keys : idem'[k] = idem[k]
             \/ (idem[k].op = "refund" => OnRecord(k, idem[k].intent.status))'
      BY <2>2, <2>3 DEF OnRecord, Verdict
    <2>5. Op(r)' = "refund" =>
             (OnRecord(Key(r), reply[r].out.intent.status) /\ reply[r].out.op = "refund")'
      BY <2>2, <2>3 DEF OnRecord, Verdict, Key, Op
    <2> QED BY <2>2, <2>4, <2>5, VerdictFrame
  <1>8. ASSUME ProcessExits PROVE VerdictInv'
    <2>1. \A q \in Calls : pc'[q] \notin {"gateway", "resume", "commit"}
      BY <1>8, <1>t DEF ProcessExits, Executing, TypeInv, TypeOK
    <2>2. /\ \A k \in Keys : idem'[k] = idem[k] \/ idem'[k] = NoOutput
          /\ UNCHANGED <<req, reply, replay>>
      BY <1>8 DEF ProcessExits
    <2> QED BY <2>1, <2>2, VerdictFrame
  <1>9. ASSUME NEW r \in Calls, GatewayActs(r) PROVE VerdictInv'
    <2>1. /\ \A q \in Calls : pc'[q] \in {"gateway", "resume"} => pc[q] \in {"gateway", "resume"}
          /\ \A q \in Calls : pc'[q] = "commit" => pc[q] = "commit"
          /\ \A k \in Keys : replay[k] # Unused => replay'[k] = replay[k]
          /\ UNCHANGED <<req, local, reply, idem>>
      <3>1. CASE GatewayRefuses(r) \/ GatewayReplays(r)
        BY <1>t, <3>1 DEF GatewayRefuses, GatewayReplays, Outstanding, Answered, TypeInv, TypeOK
      <3>2. CASE GatewayCreates(r) \/ GatewayConfirms(r) \/ GatewayRefunds(r)
        <4>1. Outstanding(r)
          BY <3>2 DEF GatewayCreates, GatewayConfirms, GatewayRefunds
        <4>2. PICK kind \in AnswerKinds : Executed(r, kind)
          BY <3>2, ConfirmExecutes, RefundExecutes DEF GatewayCreates, AnswerKinds
        <4>3. \A h \in HeaderKeys : replay[h] # Unused => replay'[h] = replay[h]
          BY <1>t, <4>1, <4>2, ExecutedRecords DEF TypeInv, TypeOK
        <4>4. /\ \A q \in Calls : q # r => pc'[q] = pc[q]
              /\ pc[r] \in {"gateway", "orphan"} /\ pc'[r] \in {"lost", "resume"}
              /\ pc'[r] = "resume" => pc[r] = "gateway"
          BY <1>t, <4>1, <4>2 DEF Executed, Outstanding, Answered, TypeInv, TypeOK
        <4> QED BY <4>2, <4>3, <4>4 DEF Executed, HeaderKeys
      <3> QED BY <1>9, <3>1, <3>2 DEF GatewayActs
    <2> QED BY <2>1, VerdictFrame
  <1>10. ASSUME NEW c \in Calls, ChargeSettles(c) \/ RefundSettles(c) PROVE VerdictInv'
    BY <1>10, VerdictFrame DEF ChargeSettles, RefundSettles
  <1>11. CASE UNCHANGED vars
    BY <1>11, VerdictFrame DEF vars
  <1> QED
    BY <1>1, <1>2, <1>3, <1>4, <1>5, <1>6, <1>7, <1>8, <1>9, <1>10, <1>11
    DEF Next, Handler, AllSettled, CachedMisread, IllegalTransition, Crash

-------------------------------------------------------------------------------
(* What follows of every behaviour.                                         *)

\* The customer is charged at most once per idempotency key, for any callers,
\* interleaving and number of process exits ("Safe to retry", checkout.ts:99).
THEOREM ChargedOnce == Spec => []ChargedOncePerKey
  <1>1. Inv => ChargedOncePerKey
    BY DEF Inv, LedgerInv, ChargedOncePerKey
  <1> QED BY <1>1, InvAlways, PTL

\* Likewise the gateway accepts at most one refund per idempotency key, also
\* where callers use one key for two operations (checkout.ts:317-377).
THEOREM RefundedOnce == Spec => []RefundedOncePerKey
  <1>1. Inv => RefundedOncePerKey
    BY DEF Inv, LedgerInv, RefundedOncePerKey
  <1> QED BY <1>1, InvAlways, PTL

\* What a stored intent, a cached output or an answer claims was captured or
\* refunded was, whatever the callers do: each is computed from an intent read
\* before the gateway call and written after it (checkout.ts:229-274, 327-368).
THEOREM StatusesTrue == Spec => []StatusBackedByGateway
  <1>1. Inv => StatusBackedByGateway
    BY TruthsTold DEF Inv
  <1> QED BY <1>1, InvAlways, PTL

\* A refund is only ever asked for a captured charge, even when the intent it
\* was loaded from has been overwritten meanwhile (checkout.ts:327-354).
THEOREM RefundsFollowCaptures == Spec => []RefundsOnlyCaptured
  <1>1. Inv => RefundsOnlyCaptured
    BY DEF Inv, TruthInv
  <1> QED BY <1>1, InvAlways, PTL

\* With Stripe's adapter a failure that is stored, cached or answered is the
\* end of its charge.  OnvoPay's reports a charge that is still open as failed.
THEOREM FailuresFinal == Gateway = "stripe" => (Spec => []FailedIsFinal)
  <1> SUFFICES ASSUME Gateway = "stripe" PROVE Spec => []FailedIsFinal
    OBVIOUS
  <1>1. Inv => FailedIsFinal
    BY TruthsTold DEF Inv
  <1> QED BY <1>1, InvAlways, PTL

\* A cached output is about the stored intent's charge and the gateway's record
\* of the key: a replay from the cache and one by the gateway cannot disagree.
THEOREM CacheAgrees == Spec => []CommittedOutputsAgree
  <1>1. Inv => CommittedOutputsAgree
    BY DEF Inv, AgreeInv, CachedAgree, CommittedOutputsAgree
  <1> QED BY <1>1, InvAlways, PTL

\* All callers that use one key are told of the same charge, through races, key
\* reuse across operations and process exits (checkout.ts:99-377).
THEOREM RetriesAgree == Spec => []RetriesNameOneCharge
  <1>1. Inv => RetriesNameOneCharge
    BY DEF Inv, AgreeInv, RepliesAgree, RetriesNameOneCharge
  <1> QED BY <1>1, InvAlways, PTL

\* All callers that ask for a refund under one key are told the same of it, with
\* either adapter, through races, the cache, the gateway's replays and process
\* exits, and also when a refund that was answered as failed is paid after all
\* (stripe/mappers.ts:138-141, onvopay/payment-gateway.ts:161).
THEOREM RefundAnswersStand == Spec => []RetriesAgreeOnRefund
  <1>1. Init => VerdictInv
    BY DEF Init, VerdictInv, LoadedCaptured, SavedOnRecord, CachedOnRecord, RepliesOnRecord,
           NoReply, NoOutput
  <1>2. Inv /\ VerdictInv /\ [Next]_vars => VerdictInv'
    BY VerdictStep
  <1>3. VerdictInv => RetriesAgreeOnRefund
    <2> SUFFICES ASSUME VerdictInv, NEW q \in Calls, NEW r \in Calls,
                        Op(q) = "refund", reply[q].kind = "ok",
                        Op(r) = "refund", reply[r].kind = "ok", Key(q) = Key(r)
                 PROVE  Told(q) = Told(r)
      BY DEF RetriesAgreeOnRefund
    <2>1. reply[q].out.intent.status = reply[r].out.intent.status
      BY DEF VerdictInv, RepliesOnRecord, OnRecord
    <2> QED BY <2>1 DEF Told
  <1> QED BY <1>1, <1>2, <1>3, InvAlways, PTL DEF Spec
===============================================================================
