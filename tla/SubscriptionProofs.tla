-------------------------- MODULE SubscriptionProofs --------------------------
(***************************************************************************)
(* Proofs about Subscription, for every set of calls, keys, plans, orders  *)
(* and wire statuses, and for callers of any discipline.                   *)
(***************************************************************************)
EXTENDS Subscription, TLAPS

\* What a call holds at each point of its handler; what it may open, it opens
\* once.
CallHolds(r) ==
    /\ pc[r] # "idle" => req[r] \in Offered /\ id[r] \in Calls
    /\ pc[r] \in {"gateway", "answered"} =>
          /\ local[r] \in Subscriptions
          /\ Op(r) # "create" => local[r].ref \in Calls
    /\ pc[r] = "answered" =>
          /\ answer[r] \in Answers \cup {Refused, Lost}
          /\ answer[r] \in Answers /\ Op(r) # "create" => answer[r].ref = local[r].ref
    /\ pc[r] \in {"idle", "arrived", "gateway"} => sub[r].word = "none"

CallsHold == \A r \in Calls : CallHolds(r)

\* What the gateway recorded under a key is an answer, and of a subscription
\* that exists it recorded the opening.
Recorded == \A k \in Keys : replay[k] = Unused \/ replay[k].answer \in Answers
Opened == \A c \in Calls : sub[c].word # "none" =>
              /\ req[c] \in Offered
              /\ replay[Key(c)].answer.ref = c

Inv == TypeOK /\ CallsHold /\ Recorded /\ Opened

-------------------------------------------------------------------------------
(* Helpers.                                                                  *)

\* Wire statuses are statuses of the domain once they are mapped, and no gateway
\* has one that says there is no subscription.
LEMMA WordsTranslate ==
    ASSUME NEW word \in Words
    PROVE  /\ SubscriptionStatusOf[Gateway][word] \in SubscriptionStatus
           /\ word # "none"
  <1>1. word \in DOMAIN SubscriptionStatusOf[Gateway]
    BY Parameters
  <1>2. CASE Gateway = "stripe"
    BY <1>1, <1>2 DEF SubscriptionStatusOf, StripeSubscriptionStatus, SubscriptionStatus
  <1>3. CASE Gateway = "onvopay"
    BY <1>1, <1>3 DEF SubscriptionStatusOf, OnvoSubscriptionStatus, SubscriptionStatus
  <1> QED BY <1>2, <1>3, Parameters DEF Gateways

\* An order that was accepted is one, and a create or switch names a plan.
LEMMA OrderTypes ==
    ASSUME NEW r \in Calls, req[r] \in Offered
    PROVE  /\ req[r] \in Orders /\ Op(r) \in Operations /\ Key(r) \in Keys
           /\ Op(r) # "cancel" => req[r].plan \in Plans
  BY Parameters DEF Op, Key, Orders

\* What the three ways to execute a request come to.
LEMMA Executes ==
    ASSUME Inv, NEW r \in Calls, GatewayOpens(r) \/ GatewaySwitches(r) \/ GatewayCancels(r)
    PROVE  \E kind \in {"body", "empty"}, word \in Words, plan \in Plans \cup {None} :
              /\ pc[r] = "gateway"
              /\ Executed(r, kind, word, plan)
              /\ Subject(r) \in Calls
              /\ sub[Subject(r)].word # "canceled"
              /\ IF Op(r) = "create" THEN Subject(r) = r ELSE sub[Subject(r)].word # "none"
  <1>1. pc[r] = "gateway"
    BY DEF GatewayOpens, GatewaySwitches, GatewayCancels
  <1>2. CallHolds(r)
    BY DEF Inv, CallsHold
  <1>3. /\ req[r] \in Offered /\ sub[r].word = "none"
        /\ Op(r) # "create" => local[r].ref \in Calls
    BY <1>1, <1>2 DEF CallHolds
  <1>4. Subject(r) \in Calls
    BY <1>3 DEF Subject
  <1>5. sub[Subject(r)] \in [word : Words \cup {"none"}, plan : Plans \cup {None}]
    BY <1>4 DEF Inv, TypeOK
  <1>6. Op(r) # "cancel" => req[r].plan \in Plans
    BY <1>3, OrderTypes
  <1>7. CASE GatewayOpens(r)
    <2>1. PICK word \in FirstWords : Executed(r, "body", word, req[r].plan)
      BY <1>7 DEF GatewayOpens
    <2>2. word \in Words /\ Op(r) = "create" /\ Subject(r) = r /\ req[r].plan \in Plans
      BY <1>6, <1>7 DEF FirstWords, GatewayOpens, Subject
    <2> QED BY <1>1, <1>3, <2>1, <2>2
  <1>8. CASE GatewaySwitches(r)
    <2>1. /\ Executed(r, "body", sub[Subject(r)].word, req[r].plan)
          /\ sub[Subject(r)].word \in Words \ {"canceled"}
          /\ Op(r) = "switch" /\ req[r].plan \in Plans
      BY <1>5, <1>6, <1>8 DEF GatewaySwitches, Billed
    <2>2. sub[Subject(r)].word # "none"
      BY <1>8 DEF GatewaySwitches, Billed
    <2> QED BY <1>1, <1>4, <2>1, <2>2
  <1>9. CASE GatewayCancels(r)
    <2> DEFINE word == IF req[r].atPeriodEnd THEN sub[Subject(r)].word ELSE "canceled"
    <2>1. PICK kind \in {"body", "empty"} : Executed(r, kind, word, sub[Subject(r)].plan)
      BY <1>9 DEF GatewayCancels
    <2>2. Op(r) = "cancel" /\ sub[Subject(r)].word \notin {"none", "canceled"}
      BY <1>9 DEF GatewayCancels, Billed
    <2>3. word \in Words
      BY <1>5, <2>2, Parameters
    <2>4. sub[Subject(r)].plan \in Plans \cup {None}
      BY <1>5
    <2> HIDE DEF word
    <2> QED BY <1>1, <1>4, <2>1, <2>2, <2>3, <2>4
  <1> QED BY <1>7, <1>8, <1>9

\* A request that is executed is recorded under the caller's key, which was not
\* used before.
LEMMA ExecutedRecords ==
    ASSUME Inv, NEW r \in Calls, req[r] \in Offered,
           NEW kind, NEW word, NEW plan, Executed(r, kind, word, plan)
    PROVE  LET ans == [kind |-> kind, word |-> word, ref |-> Subject(r)] IN
           /\ replay[Key(r)] = Unused
           /\ replay' = [replay EXCEPT ![Key(r)] = [order |-> req[r], answer |-> ans]]
           /\ sub' = [sub EXCEPT ![Subject(r)] = [word |-> word, plan |-> plan]]
           /\ answer' \in {[answer EXCEPT ![r] = ans], [answer EXCEPT ![r] = Lost]}
           /\ pc' = [pc EXCEPT ![r] = "answered"]
           /\ UNCHANGED <<patient, req, id, local, reply, storeVars>>
  <1>1. Key(r) \in Keys
    BY OrderTypes
  <1>2. replay[Key(r)] = Unused
    BY <1>1 DEF Executed, SeenBefore, HeaderKey
  <1>3. replay = [k \in Keys |-> replay[k]]
    BY DEF Inv, TypeOK
  <1>4. replay' = [replay EXCEPT ![Key(r)] = [order |-> req[r],
                       answer |-> [kind |-> kind, word |-> word, ref |-> Subject(r)]]]
    BY <1>1, <1>3 DEF Executed, HeaderKey
  <1> QED BY <1>2, <1>4 DEF Executed, Answered

\* Where a call returns, its request, its entity and the gateway stay.
LEMMA ReturnKeepsInv ==
    ASSUME Inv, NEW r \in Calls, pc[r] # "idle",
           NEW rep \in [kind : {"none", "error", "ok"}, out : Outputs \cup {NoOutput}],
           Return(r, rep),
           repo' \in [Calls -> Subscriptions \cup {NoSubscription}],
           idem' \in [Keys -> Outputs \cup {NoOutput}],
           UNCHANGED <<patient, req, id, local, answer, gatewayVars>>
    PROVE  Inv'
  <1>1. TypeOK'
    BY DEF Inv, TypeOK, Return, gatewayVars
  <1>2. ASSUME NEW q \in Calls PROVE CallHolds(q)'
    <2>1. CallHolds(q)
      BY DEF Inv, CallsHold
    <2>2. pc'[q] = IF q = r THEN "done" ELSE pc[q]
      BY DEF Return, Inv, TypeOK
    <2> QED BY <2>1, <2>2 DEF CallHolds, Op, gatewayVars
  <1>3. Recorded' /\ Opened'
    BY DEF Inv, Recorded, Opened, Key, gatewayVars
  <1> QED BY <1>1, <1>2, <1>3 DEF Inv, CallsHold

\* The gateway's answer to a call, which is recorded or says that it is not.
LEMMA AnswerKeepsInv ==
    ASSUME Inv, NEW r \in Calls, pc[r] = "gateway",
           NEW ans \in Answers \cup {Refused, Lost},
           ans \in Answers /\ Op(r) # "create" => ans.ref = local[r].ref,
           answer' = [answer EXCEPT ![r] = ans],
           pc' = [pc EXCEPT ![r] = "answered"],
           UNCHANGED <<patient, req, id, local, reply, storeVars>>,
           sub' \in [Calls -> [word : Words \cup {"none"}, plan : Plans \cup {None}]],
           replay' \in [Keys -> [order : Orders \cup {NoOrder}, answer : Answers \cup {NoAnswer}]],
           \A c \in Calls : c # r /\ sub[c].word = "none" => sub'[c].word = "none"
    PROVE  TypeOK' /\ CallsHold'
  <1>1. TypeOK'
    BY DEF Inv, TypeOK, storeVars, Executing
  <1>2. ASSUME NEW q \in Calls PROVE CallHolds(q)'
    <2>1. CallHolds(q)
      BY DEF Inv, CallsHold
    <2>2. CASE q = r
      BY <2>1, <2>2 DEF CallHolds, Op, Inv, TypeOK
    <2>3. CASE q # r
      <3>1. pc'[q] = pc[q] /\ answer'[q] = answer[q]
        BY <2>3 DEF Inv, TypeOK
      <3> QED BY <2>1, <2>3, <3>1 DEF CallHolds, Op
    <2> QED BY <2>2, <2>3
  <1> QED BY <1>1, <1>2 DEF CallsHold

\* The entity that a legal move leads to, with the reference it keeps or gains.
LEMMA AdvancedTypes ==
    ASSUME Inv, NEW r \in Calls, Read(r)
    PROVE  /\ req[r] \in Offered /\ id[r] \in Calls /\ Key(r) \in Keys
           /\ answer[r] \in Answers
           /\ Status(r) = SubscriptionStatusOf[Gateway][answer[r].word]
           /\ Advanced(r) \in Subscriptions
           /\ Advanced(r).status = Status(r)
           /\ Advanced(r).ref = answer[r].ref
  <1>1. CallHolds(r) /\ pc[r] = "answered" /\ answer[r].kind = "body"
    BY DEF Inv, CallsHold, Read
  <1>2. /\ req[r] \in Offered /\ id[r] \in Calls /\ local[r] \in Subscriptions
        /\ answer[r] \in Answers
        /\ Op(r) # "create" => answer[r].ref = local[r].ref
    BY <1>1 DEF CallHolds, Refused, Lost
  <1>3. Key(r) \in Keys /\ (Op(r) # "cancel" => req[r].plan \in Plans)
    BY <1>2, OrderTypes
  <1>4. answer[r].word \in Words /\ answer[r].ref \in Calls
    BY <1>2 DEF Answers
  <1>5. Status(r) \in SubscriptionStatus
    BY <1>4, WordsTranslate DEF Status
  <1>6. Advanced(r).ref = answer[r].ref /\ Advanced(r).status = Status(r)
    BY <1>2 DEF Advanced
  <1>7. Advanced(r) \in Subscriptions
    BY <1>2, <1>3, <1>4, <1>5 DEF Advanced, Subscriptions
  <1> QED BY <1>2, <1>3, <1>6, <1>7 DEF Status

-------------------------------------------------------------------------------
(* The invariant.                                                            *)

LEMMA InvInitially == Init => Inv
  <1> SUFFICES ASSUME Init PROVE Inv
    OBVIOUS
  <1>1. TypeOK
    BY DEF Init, TypeOK, NoReply, Unused
  <1>2. CallsHold
    BY DEF Init, CallsHold, CallHolds
  <1>3. Recorded /\ Opened
    BY DEF Init, Recorded, Opened
  <1> QED BY <1>1, <1>2, <1>3 DEF Inv

LEMMA InvStep == Inv /\ [Next]_vars => Inv'
  <1> SUFFICES ASSUME Inv, [Next]_vars PROVE Inv'
    OBVIOUS
  <1>1. CASE UNCHANGED vars
    BY <1>1 DEF Inv, TypeOK, CallsHold, CallHolds, Recorded, Opened, Op, Key,
                vars, processVars, storeVars, gatewayVars
  <1>2. ASSUME NEW r \in Calls, Receive(r) PROVE Inv'
    <2>1. PICK order \in Offered, i \in Calls :
             req' = [req EXCEPT ![r] = order] /\ id' = [id EXCEPT ![r] = i]
      <3>1. ({r} \cup {id[q] : q \in Calls}) \ {None} \subseteq Calls
        BY DEF Inv, TypeOK
      <3> QED BY <1>2, <3>1 DEF Receive
    <2>2. /\ pc[r] = "idle" /\ pc' = [pc EXCEPT ![r] = "arrived"]
          /\ UNCHANGED <<patient, local, answer, reply, storeVars, gatewayVars>>
      BY <1>2 DEF Receive
    <2>3. order \in Orders
      BY Parameters
    <2>4. TypeOK'
      BY <2>1, <2>2, <2>3 DEF Inv, TypeOK, storeVars, gatewayVars, Executing
    <2>5. ASSUME NEW q \in Calls PROVE CallHolds(q)'
      <3>1. CallHolds(q)
        BY DEF Inv, CallsHold
      <3>2. CASE q = r
        BY <2>1, <2>2, <3>1, <3>2 DEF CallHolds, Inv, TypeOK, gatewayVars
      <3>3. CASE q # r
        <4>1. pc'[q] = pc[q] /\ req'[q] = req[q] /\ id'[q] = id[q]
          BY <2>1, <2>2, <3>3 DEF Inv, TypeOK
        <4> QED BY <2>2, <3>1, <4>1 DEF CallHolds, Op, gatewayVars
      <3> QED BY <3>2, <3>3
    <2>6. Recorded'
      BY <2>2 DEF Inv, Recorded, gatewayVars
    <2>7. Opened'
      <3>1. sub[r].word = "none"
        BY <2>2 DEF Inv, CallsHold, CallHolds
      <3>2. \A c \in Calls : c # r => req'[c] = req[c]
        BY <2>1 DEF Inv, TypeOK
      <3> QED BY <2>2, <3>1, <3>2 DEF Inv, Opened, Key, gatewayVars
    <2> QED BY <2>4, <2>5, <2>6, <2>7 DEF Inv, CallsHold
  <1>3. ASSUME NEW r \in Calls, ReturnCached(r) PROVE Inv'
    <2>1. CallHolds(r) /\ pc[r] = "arrived"
      BY <1>3 DEF Inv, CallsHold, ReturnCached
    <2>2. Key(r) \in Keys
      BY <2>1, OrderTypes DEF CallHolds
    <2>3. OkReply(idem[Key(r)]) \in [kind : {"none", "error", "ok"}, out : Outputs \cup {NoOutput}]
      BY <2>2 DEF Inv, TypeOK, OkReply
    <2>4. repo' = repo /\ idem' = idem /\ UNCHANGED gatewayVars
      BY <1>3 DEF ReturnCached, storeVars
    <2> QED BY <1>3, <2>1, <2>3, <2>4, ReturnKeepsInv DEF ReturnCached, Inv, TypeOK
  <1>4. ASSUME NEW r \in Calls, NotFound(r) \/ ReturnGatewayError(r) \/ RejectTransition(r)
        PROVE  Inv'
    <2>1. /\ pc[r] # "idle" /\ Return(r, ErrorReply)
          /\ UNCHANGED <<patient, req, id, local, answer, repo, idem, gatewayVars>>
      BY <1>4 DEF NotFound, ReturnGatewayError, RejectTransition, Read, storeVars
    <2>2. ErrorReply \in [kind : {"none", "error", "ok"}, out : Outputs \cup {NoOutput}]
      BY DEF ErrorReply
    <2> QED BY <2>1, <2>2, ReturnKeepsInv DEF Inv, TypeOK
  <1>5. ASSUME NEW r \in Calls, Start(r) PROVE Inv'
    <2>1. CallHolds(r) /\ pc[r] = "arrived"
      BY <1>5 DEF Inv, CallsHold, Start
    <2>2. req[r] \in Offered /\ id[r] \in Calls
      BY <2>1 DEF CallHolds
    <2>3. Op(r) # "cancel" => req[r].plan \in Plans
      BY <2>2, OrderTypes
    <2>4. PICK entity \in Subscriptions : /\ local' = [local EXCEPT ![r] = entity]
                                          /\ Op(r) # "create" => entity.ref \in Calls
      <3>1. CASE Op(r) = "create"
        <4>1. Created(r) \in Subscriptions
          BY <2>3, <3>1 DEF Created, Subscriptions, SubscriptionStatus
        <4> QED BY <1>5, <3>1, <4>1 DEF Start
      <3>2. CASE Op(r) # "create"
        <4>1. repo[id[r]] \in Subscriptions /\ repo[id[r]].ref \in Calls
          BY <1>5, <2>2, <3>2 DEF Start, Inv, TypeOK, Subscriptions, NoSubscription
        <4> QED BY <1>5, <3>2, <4>1 DEF Start
      <3> QED BY <3>1, <3>2
    <2>5. /\ pc' = [pc EXCEPT ![r] = "gateway"]
          /\ UNCHANGED <<patient, req, id, answer, reply, storeVars, gatewayVars>>
      BY <1>5 DEF Start
    <2>6. TypeOK'
      BY <2>4, <2>5 DEF Inv, TypeOK, storeVars, gatewayVars, Executing
    <2>7. ASSUME NEW q \in Calls PROVE CallHolds(q)'
      <3>1. CallHolds(q)
        BY DEF Inv, CallsHold
      <3>2. CASE q = r
        BY <2>1, <2>2, <2>4, <2>5, <3>2 DEF CallHolds, Op, Inv, TypeOK, gatewayVars
      <3>3. CASE q # r
        <4>1. pc'[q] = pc[q] /\ local'[q] = local[q]
          BY <2>4, <2>5, <3>3 DEF Inv, TypeOK
        <4> QED BY <2>5, <3>1, <4>1 DEF CallHolds, Op, gatewayVars
      <3> QED BY <3>2, <3>3
    <2>8. Recorded' /\ Opened'
      BY <2>5 DEF Inv, Recorded, Opened, Key, gatewayVars
    <2> QED BY <2>6, <2>7, <2>8 DEF Inv, CallsHold
  <1>6. ASSUME NEW r \in Calls, Finish(r) PROVE Inv'
    <2>1. /\ id[r] \in Calls /\ Key(r) \in Keys /\ Advanced(r) \in Subscriptions
      BY <1>6, AdvancedTypes DEF Finish
    <2> DEFINE out == [id |-> id[r], subscription |-> Advanced(r)]
    <2>2. out \in Outputs
      BY <2>1 DEF Outputs
    <2>3. /\ repo' = [repo EXCEPT ![id[r]] = Advanced(r)]
          /\ idem' = [idem EXCEPT ![Key(r)] = out]
          /\ Return(r, OkReply(out)) /\ pc[r] # "idle"
          /\ UNCHANGED <<patient, req, id, local, answer, gatewayVars>>
      BY <1>6 DEF Finish, Read
    <2> HIDE DEF out
    <2>4. OkReply(out) \in [kind : {"none", "error", "ok"}, out : Outputs \cup {NoOutput}]
      BY <2>2 DEF OkReply
    <2>5. /\ repo' \in [Calls -> Subscriptions \cup {NoSubscription}]
          /\ idem' \in [Keys -> Outputs \cup {NoOutput}]
      BY <2>1, <2>2, <2>3 DEF Inv, TypeOK
    <2> QED BY <2>3, <2>4, <2>5, ReturnKeepsInv
  <1>7. ASSUME NEW r \in Calls, GatewayRefuses(r) PROVE Inv'
    <2>1. /\ pc[r] = "gateway" /\ answer' = [answer EXCEPT ![r] = Refused]
          /\ pc' = [pc EXCEPT ![r] = "answered"]
          /\ UNCHANGED <<patient, req, id, local, reply, storeVars, gatewayVars>>
      BY <1>7 DEF GatewayRefuses
    <2>2. Refused \notin Answers
      BY DEF Refused, Answers
    <2>3. sub' = sub /\ replay' = replay
      BY <2>1 DEF gatewayVars
    <2>4. TypeOK' /\ CallsHold'
      BY <2>1, <2>2, <2>3, AnswerKeepsInv DEF Inv, TypeOK
    <2>5. Recorded' /\ Opened'
      BY <2>1, <2>3 DEF Inv, Recorded, Opened, Key
    <2> QED BY <2>4, <2>5 DEF Inv
  <1>8. ASSUME NEW r \in Calls, GatewayReplays(r) PROVE Inv'
    <2>1. /\ pc[r] = "gateway" /\ SeenBefore(r)
          /\ Op(r) # "create" => replay[Key(r)].answer.ref = Subject(r)
          /\ Answered(r, replay[Key(r)].answer)
          /\ UNCHANGED <<patient, req, id, local, reply, storeVars, gatewayVars>>
      BY <1>8 DEF GatewayReplays, HeaderKey
    <2>2. replay[Key(r)].answer \in Answers
      BY <2>1 DEF SeenBefore, HeaderKey, Inv, Recorded
    <2>3. PICK ans \in {replay[Key(r)].answer, Lost} : answer' = [answer EXCEPT ![r] = ans]
      BY <2>1 DEF Answered
    <2>4. ans \in Answers /\ Op(r) # "create" => ans.ref = local[r].ref
      BY <2>1, <2>3 DEF Lost, Answers, Subject
    <2>5. pc' = [pc EXCEPT ![r] = "answered"] /\ sub' = sub /\ replay' = replay
      BY <2>1 DEF Answered, gatewayVars
    <2>6. TypeOK' /\ CallsHold'
      BY <2>1, <2>2, <2>3, <2>4, <2>5, AnswerKeepsInv DEF Inv, TypeOK
    <2>7. Recorded' /\ Opened'
      BY <2>1, <2>5 DEF Inv, Recorded, Opened, Key
    <2> QED BY <2>6, <2>7 DEF Inv
  <1>9. ASSUME NEW r \in Calls, GatewayOpens(r) \/ GatewaySwitches(r) \/ GatewayCancels(r)
        PROVE  Inv'
    <2>1. PICK kind \in {"body", "empty"}, word \in Words, plan \in Plans \cup {None} :
             /\ pc[r] = "gateway"
             /\ Executed(r, kind, word, plan)
             /\ Subject(r) \in Calls
             /\ IF Op(r) = "create" THEN Subject(r) = r ELSE sub[Subject(r)].word # "none"
      BY <1>9, Executes
    <2> DEFINE ans == [kind |-> kind, word |-> word, ref |-> Subject(r)]
    <2>2. CallHolds(r) /\ req[r] \in Offered
      BY <2>1 DEF Inv, CallsHold, CallHolds
    <2>3. req[r] \in Orders /\ Key(r) \in Keys
      BY <2>2, OrderTypes
    <2>4. /\ replay[Key(r)] = Unused
          /\ replay' = [replay EXCEPT ![Key(r)] = [order |-> req[r], answer |-> ans]]
          /\ sub' = [sub EXCEPT ![Subject(r)] = [word |-> word, plan |-> plan]]
          /\ answer' \in {[answer EXCEPT ![r] = ans], [answer EXCEPT ![r] = Lost]}
          /\ pc' = [pc EXCEPT ![r] = "answered"]
          /\ UNCHANGED <<patient, req, id, local, reply, storeVars>>
      BY <2>1, <2>2, ExecutedRecords
    <2>5. ans \in Answers /\ ans.ref = Subject(r)
      BY <2>1 DEF Answers
    <2> HIDE DEF ans
    <2>6. PICK a \in {ans, Lost} : answer' = [answer EXCEPT ![r] = a]
      BY <2>4
    <2>7. a \in Answers /\ Op(r) # "create" => a.ref = local[r].ref
      BY <2>5, <2>6 DEF Lost, Answers, Subject
    <2>8. /\ sub' \in [Calls -> [word : Words \cup {"none"}, plan : Plans \cup {None}]]
          /\ replay' \in [Keys -> [order : Orders \cup {NoOrder}, answer : Answers \cup {NoAnswer}]]
      BY <2>1, <2>3, <2>4, <2>5 DEF Inv, TypeOK
    <2>9. \A c \in Calls : c # r /\ sub[c].word = "none" => sub'[c].word = "none"
      BY <2>1, <2>4 DEF Inv, TypeOK
    <2>10. TypeOK' /\ CallsHold'
      BY <2>1, <2>4, <2>5, <2>6, <2>7, <2>8, <2>9, AnswerKeepsInv
    <2>11. Recorded'
      BY <2>3, <2>4, <2>5 DEF Inv, TypeOK, Recorded
    <2>12. ASSUME NEW c \in Calls, sub'[c].word # "none"
           PROVE  req'[c] \in Offered /\ replay'[Key(c)'].answer.ref = c
      <3>1. CASE sub[c].word # "none"
        <4>1. req[c] \in Offered /\ replay[Key(c)].answer.ref = c /\ Key(c) \in Keys
          BY <3>1, OrderTypes DEF Inv, Opened
        <4>2. Key(c) # Key(r)
          BY <2>4, <4>1, Parameters DEF Unused, NoAnswer
        <4> QED BY <2>3, <2>4, <4>1, <4>2 DEF Inv, TypeOK, Key
      <3>2. CASE sub[c].word = "none"
        <4>1. c = r /\ Subject(r) = r
          BY <2>1, <2>4, <2>9, <2>12, <3>2 DEF Inv, TypeOK
        <4> QED BY <2>2, <2>3, <2>4, <2>5, <4>1 DEF Inv, TypeOK, Key
      <3> QED BY <3>1, <3>2
    <2> QED BY <2>10, <2>11, <2>12 DEF Inv, Opened
  <1>10. ASSUME NEW c \in Calls, BillingMoves(c) PROVE Inv'
    <2>1. PICK word \in Words : sub' = [sub EXCEPT ![c].word = word]
      BY <1>10 DEF BillingMoves
    <2>2. /\ sub[c].word # "none"
          /\ UNCHANGED <<patient, pc, req, id, local, answer, reply, storeVars, replay>>
      BY <1>10 DEF BillingMoves, Billed, processVars
    <2>3. TypeOK'
      BY <2>1, <2>2 DEF Inv, TypeOK, storeVars
    <2>4. \A q \in Calls : sub'[q].word # "none" => sub[q].word # "none"
      BY <2>1, <2>2 DEF Inv, TypeOK
    <2>5. CallsHold'
      BY <2>2, <2>4 DEF Inv, CallsHold, CallHolds, Op
    <2>6. Recorded' /\ Opened'
      BY <2>2, <2>4 DEF Inv, Recorded, Opened, Key
    <2> QED BY <2>3, <2>5, <2>6 DEF Inv
  <1> QED BY <1>1, <1>2, <1>3, <1>4, <1>5, <1>6, <1>7, <1>8, <1>9, <1>10
          DEF Next, Handler, GatewayActs, AllDone

\* Every variable keeps the values the code can put there: statuses are the
\* domain's, and a request is only made for an entity with a reference.
THEOREM TypeCorrect == Spec => []TypeOK
  <1>1. Inv => TypeOK
    BY DEF Inv
  <1> QED BY InvInitially, InvStep, <1>1, PTL DEF Spec

\* A customer is subscribed at most once per idempotency key, however the calls
\* overlap, lose their answers and are retried.
THEOREM OneSubscriptionPerKey == Spec => []OpenedOncePerKey
  <1>1. Inv => OpenedOncePerKey
    BY DEF Inv, Opened, OpenedOncePerKey
  <1> QED BY InvInitially, InvStep, <1>1, PTL DEF Spec

-------------------------------------------------------------------------------
(* What is stored, cached or answered as canceled has ended.                *)

\* Stripe's paused subscriptions are taken for canceled ones; OnvoPay's are not.
Translated == Gateway = "onvopay" \/ "paused" \notin Words

\* Answers that are awaited, repeated or under way, and entities read before
\* them, tell of an end only when it has come.
EndTrue(ans) == ans.word = "canceled" => sub[ans.ref].word = "canceled"

TruthInv ==
    /\ \A r \in Calls : EndTrue(answer[r])
    /\ \A k \in Keys  : EndTrue(replay[k].answer)
    /\ \A r \in Calls : Ended(local[r])
    /\ \A i \in Calls : Ended(repo[i])
    /\ \A k \in Keys  : Ended(idem[k].subscription)
    /\ \A r \in Calls : Ended(reply[r].out.subscription)

\* What has ended at the gateway stays ended.
EndsKept == \A c : sub[c].word = "canceled" => sub'[c].word = "canceled"

LEMMA OnlyEndsMapToEnds ==
    ASSUME Translated, NEW word \in Words, SubscriptionStatusOf[Gateway][word] = "canceled"
    PROVE  word = "canceled"
  <1>1. word \in DOMAIN SubscriptionStatusOf[Gateway]
    BY Parameters
  <1>2. CASE Gateway = "stripe"
    BY <1>1, <1>2 DEF Translated, SubscriptionStatusOf, StripeSubscriptionStatus
  <1>3. CASE Gateway = "onvopay"
    BY <1>1, <1>3 DEF SubscriptionStatusOf, OnvoSubscriptionStatus
  <1> QED BY <1>2, <1>3, Parameters DEF Gateways

\* No step of the gateway's takes a subscription up again that has ended.
LEMMA EndsAreKept ==
    ASSUME Inv, [Next]_vars PROVE EndsKept
  <1>1. CASE UNCHANGED sub
    BY <1>1 DEF EndsKept
  <1>2. ASSUME NEW r \in Calls, GatewayOpens(r) \/ GatewaySwitches(r) \/ GatewayCancels(r)
        PROVE  EndsKept
    <2>1. PICK word, plan : /\ sub' = [sub EXCEPT ![Subject(r)] = [word |-> word, plan |-> plan]]
                            /\ sub[Subject(r)].word # "canceled"
      BY <1>2, Executes DEF Executed
    <2> QED BY <2>1 DEF EndsKept, Inv, TypeOK
  <1>3. ASSUME NEW c \in Calls, BillingMoves(c) PROVE EndsKept
    <2>1. sub[c].word # "canceled" /\ \E word : sub' = [sub EXCEPT ![c].word = word]
      BY <1>3 DEF BillingMoves, Billed
    <2> QED BY <2>1 DEF EndsKept, Inv, TypeOK
  <1> QED
    BY <1>1, <1>2, <1>3
    DEF Next, Handler, GatewayActs, AllDone, vars, gatewayVars, Receive, ReturnCached, NotFound,
        Start, ReturnGatewayError, RejectTransition, Finish, GatewayRefuses, GatewayReplays

\* So what was true stays true until it is replaced by what is.
LEMMA TruthKept ==
    ASSUME TruthInv, EndsKept,
           \A r \in Calls : answer'[r] = answer[r] \/ EndTrue(answer[r])',
           \A k \in Keys  : replay'[k] = replay[k] \/ EndTrue(replay[k].answer)',
           \A r \in Calls : local'[r] = local[r] \/ Ended(local[r])',
           \A i \in Calls : repo'[i] = repo[i] \/ Ended(repo[i])',
           \A k \in Keys  : idem'[k] = idem[k] \/ Ended(idem[k].subscription)',
           \A r \in Calls : reply'[r] = reply[r] \/ Ended(reply[r].out.subscription)'
    PROVE  TruthInv'
  <1>1. \A r \in Calls : EndTrue(answer[r])'
    BY DEF TruthInv, EndsKept, EndTrue
  <1>2. \A k \in Keys : EndTrue(replay[k].answer)'
    BY DEF TruthInv, EndsKept, EndTrue
  <1>3. \A r \in Calls : Ended(local[r])'
    BY DEF TruthInv, EndsKept, Ended
  <1>4. \A i \in Calls : Ended(repo[i])'
    BY DEF TruthInv, EndsKept, Ended
  <1>5. \A k \in Keys : Ended(idem[k].subscription)'
    BY DEF TruthInv, EndsKept, Ended
  <1>6. \A r \in Calls : Ended(reply[r].out.subscription)'
    BY DEF TruthInv, EndsKept, Ended
  <1> QED BY <1>1, <1>2, <1>3, <1>4, <1>5, <1>6 DEF TruthInv

LEMMA TruthInitially == Init => TruthInv
  BY DEF Init, TruthInv, EndTrue, Ended, NoAnswer, NoSubscription, NoOutput, NoReply, Unused

LEMMA TruthStep == Translated /\ Inv /\ TruthInv /\ [Next]_vars => TruthInv'
  <1> SUFFICES ASSUME Translated, Inv, TruthInv, [Next]_vars PROVE TruthInv'
    OBVIOUS
  <1>a. EndsKept
    BY EndsAreKept
  <1>1. CASE UNCHANGED <<answer, replay, local, repo, idem, reply>>
    BY <1>a, <1>1, TruthKept
  <1>2. ASSUME NEW r \in Calls, ReturnCached(r) PROVE TruthInv'
    <2>1. UNCHANGED <<answer, replay, local, repo, idem, sub>>
      BY <1>2 DEF ReturnCached, storeVars, gatewayVars
    <2>2. Key(r) \in Keys
      <3>1. req[r] \in Offered
        BY <1>2 DEF ReturnCached, Inv, CallsHold, CallHolds
      <3> QED BY <3>1, OrderTypes
    <2>3. ASSUME NEW q \in Calls PROVE reply'[q] = reply[q] \/ Ended(reply[q].out.subscription)'
      <3>1. reply'[q] = IF q = r THEN OkReply(idem[Key(r)]) ELSE reply[q]
        BY <1>2 DEF ReturnCached, Return, Inv, TypeOK
      <3>2. Ended(idem[Key(r)].subscription)
        BY <2>2 DEF TruthInv
      <3> QED BY <2>1, <3>1, <3>2 DEF OkReply, Ended
    <2> QED BY <1>a, <2>1, <2>3, TruthKept
  <1>3. ASSUME NEW r \in Calls, NotFound(r) \/ ReturnGatewayError(r) \/ RejectTransition(r)
        PROVE  TruthInv'
    <2>1. Return(r, ErrorReply) /\ UNCHANGED <<answer, replay, local, repo, idem, sub>>
      BY <1>3 DEF NotFound, ReturnGatewayError, RejectTransition, storeVars, gatewayVars
    <2>2. \A q \in Calls : reply'[q] = reply[q] \/ Ended(reply[q].out.subscription)'
      BY <2>1 DEF Return, ErrorReply, NoOutput, NoSubscription, Ended, Inv, TypeOK
    <2> QED BY <1>a, <2>1, <2>2, TruthKept
  <1>4. ASSUME NEW r \in Calls, Start(r) PROVE TruthInv'
    <2>1. UNCHANGED <<answer, replay, reply, repo, idem, sub>>
      BY <1>4 DEF Start, storeVars, gatewayVars
    <2>2. id[r] \in Calls
      BY <1>4 DEF Start, Inv, CallsHold, CallHolds
    <2>3. local' = [local EXCEPT ![r] = IF Op(r) = "create" THEN Created(r) ELSE repo[id[r]]]
      BY <1>4 DEF Start
    <2>4. ASSUME NEW q \in Calls PROVE local'[q] = local[q] \/ Ended(local[q])'
      <3>1. local'[q] = IF q # r THEN local[q]
                        ELSE IF Op(r) = "create" THEN Created(r) ELSE repo[id[r]]
        BY <2>3 DEF Inv, TypeOK
      <3>2. Ended(repo[id[r]]) /\ Created(r).status # "canceled"
        BY <2>2 DEF TruthInv, Created
      <3> QED BY <2>1, <3>1, <3>2 DEF Ended
    <2> QED BY <1>a, <2>1, <2>4, TruthKept
  <1>5. ASSUME NEW r \in Calls, Finish(r) PROVE TruthInv'
    <2>1. /\ answer[r] \in Answers /\ id[r] \in Calls /\ Key(r) \in Keys
          /\ Advanced(r).status = SubscriptionStatusOf[Gateway][answer[r].word]
          /\ Advanced(r).ref = answer[r].ref
      BY <1>5, AdvancedTypes DEF Finish
    <2>2. Advanced(r).status = "canceled" => sub[Advanced(r).ref].word = "canceled"
      <3>1. answer[r].word \in Words
        BY <2>1 DEF Answers
      <3> QED BY <2>1, <3>1, OnlyEndsMapToEnds DEF TruthInv, EndTrue
    <2> DEFINE out == [id |-> id[r], subscription |-> Advanced(r)]
    <2>3. /\ repo' = [repo EXCEPT ![id[r]] = Advanced(r)]
          /\ idem' = [idem EXCEPT ![Key(r)] = out]
          /\ reply' = [reply EXCEPT ![r] = OkReply(out)]
          /\ UNCHANGED <<answer, replay, local, sub>>
      BY <1>5 DEF Finish, Return, gatewayVars
    <2>4. out.subscription = Advanced(r) /\ OkReply(out).out = out
      BY DEF OkReply
    <2> HIDE DEF out
    <2>5. \A i \in Calls : repo'[i] = repo[i] \/ Ended(repo[i])'
      BY <2>1, <2>2, <2>3 DEF Ended, Inv, TypeOK
    <2>6. \A k \in Keys : idem'[k] = idem[k] \/ Ended(idem[k].subscription)'
      BY <2>1, <2>2, <2>3, <2>4 DEF Ended, Inv, TypeOK
    <2>7. \A q \in Calls : reply'[q] = reply[q] \/ Ended(reply[q].out.subscription)'
      BY <2>2, <2>3, <2>4 DEF Ended, Inv, TypeOK
    <2> QED BY <1>a, <2>3, <2>5, <2>6, <2>7, TruthKept
  <1>6. ASSUME NEW r \in Calls, GatewayRefuses(r) PROVE TruthInv'
    <2>1. /\ answer' = [answer EXCEPT ![r] = Refused]
          /\ UNCHANGED <<replay, local, repo, idem, reply>>
      BY <1>6 DEF GatewayRefuses, storeVars, gatewayVars
    <2>2. \A q \in Calls : answer'[q] = answer[q] \/ EndTrue(answer[q])'
      BY <2>1 DEF Refused, EndTrue, Inv, TypeOK
    <2> QED BY <1>a, <2>1, <2>2, TruthKept
  <1>7. ASSUME NEW r \in Calls, GatewayReplays(r) PROVE TruthInv'
    <2>1. /\ HeaderKey(r) \in Keys
          /\ \E a \in {replay[HeaderKey(r)].answer, Lost} : answer' = [answer EXCEPT ![r] = a]
          /\ UNCHANGED <<replay, local, repo, idem, reply, sub>>
      BY <1>7 DEF GatewayReplays, SeenBefore, Answered, storeVars, gatewayVars
    <2>2. \A q \in Calls : answer'[q] = answer[q] \/ EndTrue(answer[q])'
      BY <2>1 DEF Lost, EndTrue, Inv, TypeOK, TruthInv
    <2> QED BY <1>a, <2>1, <2>2, TruthKept
  <1>8. ASSUME NEW r \in Calls, GatewayOpens(r) \/ GatewaySwitches(r) \/ GatewayCancels(r)
        PROVE  TruthInv'
    <2>1. PICK kind \in {"body", "empty"}, word \in Words, plan \in Plans \cup {None} :
             /\ pc[r] = "gateway"
             /\ Executed(r, kind, word, plan)
             /\ Subject(r) \in Calls
      BY <1>8, Executes
    <2> DEFINE ans == [kind |-> kind, word |-> word, ref |-> Subject(r)]
    <2>2. req[r] \in Offered
      BY <2>1 DEF Inv, CallsHold, CallHolds
    <2>3. /\ replay' = [replay EXCEPT ![Key(r)] = [order |-> req[r], answer |-> ans]]
          /\ sub' = [sub EXCEPT ![Subject(r)] = [word |-> word, plan |-> plan]]
          /\ answer' \in {[answer EXCEPT ![r] = ans], [answer EXCEPT ![r] = Lost]}
          /\ UNCHANGED <<local, reply, repo, idem>>
      BY <2>1, <2>2, ExecutedRecords DEF storeVars
    <2>4. sub'[Subject(r)].word = word
      BY <2>1, <2>3 DEF Inv, TypeOK
    <2>5. /\ ans.word = "canceled" => sub'[ans.ref].word = "canceled"
          /\ Lost.word # "canceled"
      BY <2>4 DEF Lost
    <2> HIDE DEF ans
    <2>6. \A q \in Calls : answer'[q] = answer[q] \/ EndTrue(answer[q])'
      BY <2>3, <2>5 DEF Inv, TypeOK, EndTrue
    <2>7. \A k \in Keys : replay'[k] = replay[k] \/ EndTrue(replay[k].answer)'
      BY <2>3, <2>5 DEF Inv, TypeOK, EndTrue
    <2> QED BY <1>a, <2>3, <2>6, <2>7, TruthKept
  <1> QED
    BY <1>1, <1>2, <1>3, <1>4, <1>5, <1>6, <1>7, <1>8
    DEF Next, Handler, GatewayActs, AllDone, vars, processVars, storeVars, gatewayVars,
        Receive, BillingMoves

\* Where a subscription is stored, cached or answered as canceled its billing
\* has ended, with OnvoPay's adapter always and with Stripe's unless
\* subscriptions are paused.
THEOREM CanceledHasEnded == Spec => [](Translated => CanceledIsEnded)
  <1> DEFINE Truth == Translated => TruthInv
  <1>1. Init => Inv /\ Truth
    BY InvInitially, TruthInitially
  <1>2. Inv /\ Truth /\ [Next]_vars => (Inv /\ Truth)'
    BY InvStep, TruthStep DEF Translated
  <1>3. Inv /\ Truth => (Translated => CanceledIsEnded)
    <2> SUFFICES ASSUME Inv, TruthInv PROVE CanceledIsEnded
      OBVIOUS
    <2>1. ASSUME NEW r \in Calls, Told(r) = "CANCELED"
          PROVE  sub[reply[r].out.subscription.ref].word = "canceled"
      <3> DEFINE status == reply[r].out.subscription.status
      <3>1. status \in {"absent", "intent", "active", "past_due", "canceled", "incomplete"}
        BY DEF Inv, TypeOK, Outputs, NoOutput, NoSubscription, Subscriptions, SubscriptionStatus
      <3>2. SubscriptionOnWire[status] = "CANCELED"
        BY <2>1 DEF Told
      <3> HIDE DEF status
      <3>3. status = "canceled"
        BY <3>1, <3>2 DEF SubscriptionOnWire, Unspecified
      <3> QED BY <3>3 DEF TruthInv, Ended, status
    <2> QED BY <2>1 DEF TruthInv, CanceledIsEnded
  <1> HIDE DEF Truth
  <1> QED BY <1>1, <1>2, <1>3, PTL DEF Spec

-------------------------------------------------------------------------------
(* Callers that wait for an answer, and retry an order whose answer was lost *)
(* before they give another: what a step writes, call by call.              *)

Busy(r) == pc[r] \in Executing

OthersStay(r) == \A q \in Calls : q # r =>
    /\ pc'[q] = pc[q] /\ req'[q] = req[q] /\ id'[q] = id[q]
    /\ local'[q] = local[q] /\ answer'[q] = answer[q]

Arrives(r) ==
    /\ pc[r] = "idle" /\ pc'[r] = "arrived"
    /\ id'[r] \in Calls /\ (req'[r].op = "create" => id'[r] = r)
    /\ patient => /\ \A q \in Calls : Busy(q) => id[q] # id'[r] /\ Key(q) # req'[r].key
                  /\ Owed(id'[r]) \subseteq {req'[r].key}
    /\ OthersStay(r) /\ UNCHANGED <<local, answer, repo, idem, sub, replay>>

Returns(r) ==
    /\ pc[r] \in {"arrived", "answered"} /\ pc'[r] = "done"
    /\ pc[r] = "answered" /\ answer[r].kind = "body" => ~LegalMove(r)
    /\ OthersStay(r) /\ UNCHANGED <<req, id, local, answer, repo, idem, sub, replay>>

Starts(r) ==
    /\ pc[r] = "arrived" /\ pc'[r] = "gateway"
    /\ idem[Key(r)] = NoOutput
    /\ local'[r] = IF Op(r) = "create" THEN Created(r) ELSE repo[id[r]]
    /\ OthersStay(r) /\ UNCHANGED <<req, id, answer, repo, idem, sub, replay>>

Hears(r) ==
    /\ pc[r] = "gateway" /\ pc'[r] = "answered"
    /\ answer'[r] \in Answers \cup {Refused, Lost}
    /\ answer'[r] \in Answers => replay[Key(r)] = [order |-> req[r], answer |-> answer'[r]]
    /\ OthersStay(r) /\ UNCHANGED <<req, id, local, repo, idem, sub, replay>>

\* An order is carried out, answered `ans`, and leaves the plan at `plan`.
CarriedOut(r, ans, plan) ==
    /\ pc[r] = "gateway" /\ pc'[r] = "answered"
    /\ replay[Key(r)] = Unused
    /\ \A k \in Keys :
          replay'[k] = IF k = Key(r) THEN [order |-> req[r], answer |-> ans] ELSE replay[k]
    /\ ans.ref = (IF Op(r) = "create" THEN r ELSE local[r].ref)
    /\ answer'[r] \in {ans, Lost}
    /\ \A c \in Calls :
          sub'[c] = IF c = ans.ref THEN [word |-> ans.word, plan |-> plan] ELSE sub[c]
    /\ IF Op(r) = "create" THEN sub[r].word = "none"
                           ELSE sub[ans.ref].word \notin {"none", "canceled"}
    /\ plan = IF Op(r) = "cancel" THEN sub[ans.ref].plan ELSE req[r].plan
    /\ ans.kind = "empty" => ans.word = "canceled" /\ Op(r) = "cancel"
    /\ Op(r) = "switch" => ans.word # "canceled"
    /\ OthersStay(r) /\ UNCHANGED <<req, id, local, repo, idem>>

Finishes(r) ==
    /\ pc[r] = "answered" /\ pc'[r] = "done"
    /\ answer[r].kind = "body" /\ LegalMove(r)
    /\ \A i \in Calls : repo'[i] = IF i = id[r] THEN Advanced(r) ELSE repo[i]
    /\ \A k \in Keys : k # Key(r) => idem'[k] = idem[k]
    /\ idem'[Key(r)] # NoOutput
    /\ OthersStay(r) /\ UNCHANGED <<req, id, local, answer, sub, replay>>

\* Billing goes on, or nothing happens.
Bills ==
    /\ \A c \in Calls : sub'[c].plan = sub[c].plan /\ (sub'[c].word = "none" <=> sub[c].word = "none")
    /\ UNCHANGED <<pc, req, id, local, answer, repo, idem, replay>>

Steps ==
    \/ \E r \in Calls : \/ Arrives(r) \/ Returns(r) \/ Starts(r) \/ Hears(r) \/ Finishes(r)
                        \/ \E ans \in Answers : \E plan : CarriedOut(r, ans, plan)
    \/ Bills

\* The three ways to carry an order out.
LEMMA OrdersCarriedOut ==
    ASSUME Inv, NEW r \in Calls, GatewayOpens(r) \/ GatewaySwitches(r) \/ GatewayCancels(r)
    PROVE  \E ans \in Answers : \E plan : CarriedOut(r, ans, plan)
  <1>1. PICK kind \in {"body", "empty"}, word \in Words, plan \in Plans \cup {None} :
           /\ Executed(r, kind, word, plan)
           /\ pc[r] = "gateway" /\ Subject(r) \in Calls
           /\ IF Op(r) = "create" THEN sub[r].word = "none"
                                  ELSE sub[Subject(r)].word \notin {"none", "canceled"}
           /\ plan = IF Op(r) = "cancel" THEN sub[Subject(r)].plan ELSE req[r].plan
           /\ kind = "empty" => word = "canceled" /\ Op(r) = "cancel"
           /\ Op(r) = "switch" => word # "canceled"
    <2>1. Subject(r) \in Calls /\ pc[r] = "gateway" /\ sub[r].word = "none"
      BY Executes DEF Inv, CallsHold, CallHolds
    <2>2. /\ sub[Subject(r)] \in [word : Words \cup {"none"}, plan : Plans \cup {None}]
          /\ req[r].plan \in Plans \cup {None}
      <3>1. req[r] \in Orders
        BY <2>1, OrderTypes DEF Inv, CallsHold, CallHolds
      <3> QED BY <2>1, <3>1 DEF Inv, TypeOK, Orders
    <2>3. CASE GatewayOpens(r)
      <3>1. PICK word \in FirstWords : Executed(r, "body", word, req[r].plan)
        BY <2>3 DEF GatewayOpens
      <3>2. Op(r) = "create" /\ word \in Words
        BY <2>3 DEF GatewayOpens, FirstWords
      <3> QED BY <2>1, <2>2, <3>1, <3>2
    <2>4. CASE GatewaySwitches(r)
      <3>1. /\ Op(r) = "switch" /\ sub[Subject(r)].word \notin {"none", "canceled"}
            /\ Executed(r, "body", sub[Subject(r)].word, req[r].plan)
        BY <2>4 DEF GatewaySwitches, Billed
      <3> QED BY <2>1, <2>2, <3>1
    <2>5. CASE GatewayCancels(r)
      <3>1. Op(r) = "cancel" /\ sub[Subject(r)].word \notin {"none", "canceled"}
        BY <2>5 DEF GatewayCancels, Billed
      <3> DEFINE word == IF req[r].atPeriodEnd THEN sub[Subject(r)].word ELSE "canceled"
      <3>2. PICK kind \in {"body", "empty"} :
               /\ kind = "empty" => ~req[r].atPeriodEnd
               /\ Executed(r, kind, word, sub[Subject(r)].plan)
        BY <2>5 DEF GatewayCancels
      <3>3. word \in Words
        BY <2>2, <3>1, Parameters
      <3>4. kind = "empty" => word = "canceled"
        BY <3>2
      <3> HIDE DEF word
      <3> QED BY <2>1, <2>2, <3>1, <3>2, <3>3, <3>4
    <2> QED BY <2>3, <2>4, <2>5
  <1>2. req[r] \in Offered
    BY <1>1 DEF Inv, CallsHold, CallHolds
  <1>3. PICK ans : ans = [kind |-> kind, word |-> word, ref |-> Subject(r)]
    OBVIOUS
  <1>4. ans \in Answers /\ ans.ref = Subject(r) /\ ans.word = word /\ ans.kind = kind
    BY <1>1, <1>3 DEF Answers
  <1>5. /\ replay[Key(r)] = Unused
        /\ replay' = [replay EXCEPT ![Key(r)] = [order |-> req[r], answer |-> ans]]
        /\ sub' = [sub EXCEPT ![Subject(r)] = [word |-> word, plan |-> plan]]
        /\ answer' \in {[answer EXCEPT ![r] = ans], [answer EXCEPT ![r] = Lost]}
        /\ pc' = [pc EXCEPT ![r] = "answered"]
        /\ UNCHANGED <<req, id, local, repo, idem>>
    BY <1>1, <1>2, <1>3, ExecutedRecords DEF storeVars
  <1>6. \A k \in Keys :
           replay'[k] = IF k = Key(r) THEN [order |-> req[r], answer |-> ans] ELSE replay[k]
    BY <1>5 DEF Inv, TypeOK
  <1>7. \A c \in Calls : sub'[c] = IF c = ans.ref THEN [word |-> ans.word, plan |-> plan] ELSE sub[c]
    BY <1>4, <1>5 DEF Inv, TypeOK
  <1>8. pc'[r] = "answered" /\ answer'[r] \in {ans, Lost} /\ OthersStay(r)
    BY <1>5 DEF OthersStay, Inv, TypeOK
  <1>9. PICK c \in Calls : c = Subject(r)
    BY <1>1
  <1>10. /\ pc[r] = "gateway"
         /\ IF Op(r) = "create" THEN sub[r].word = "none" ELSE sub[c].word \notin {"none", "canceled"}
         /\ plan = IF Op(r) = "cancel" THEN sub[c].plan ELSE req[r].plan
         /\ ans.kind = "empty" => ans.word = "canceled" /\ Op(r) = "cancel"
         /\ Op(r) = "switch" => ans.word # "canceled"
    BY <1>1, <1>4, <1>9
  <1>11. CarriedOut(r, ans, plan)
    BY <1>4, <1>5, <1>6, <1>7, <1>8, <1>9, <1>10 DEF CarriedOut, Subject
  <1> QED BY <1>4, <1>11

LEMMA StepKinds ==
    ASSUME Inv, [Next]_vars
    PROVE  patient' = patient /\ Steps
  <1>p. patient' = patient
    BY DEF Next, vars, Receive, Handler, GatewayActs, BillingMoves, AllDone, ReturnCached,
           NotFound, Start, ReturnGatewayError, RejectTransition, Finish, GatewayRefuses,
           GatewayReplays, GatewayOpens, GatewaySwitches, GatewayCancels, Executed
  <1>1. ASSUME NEW r \in Calls, Receive(r) PROVE Arrives(r)
    <2>1. PICK order \in Offered, i \in Calls :
             /\ req' = [req EXCEPT ![r] = order] /\ id' = [id EXCEPT ![r] = i]
             /\ order.op = "create" => i = r
             /\ Admissible(order, i)
      <3>1. ({r} \cup {id[q] : q \in Calls}) \ {None} \subseteq Calls
        BY DEF Inv, TypeOK
      <3> QED BY <1>1, <3>1 DEF Receive
    <2>2. req'[r] = order /\ id'[r] = i
      BY <2>1 DEF Inv, TypeOK
    <2>3. /\ pc[r] = "idle" /\ pc' = [pc EXCEPT ![r] = "arrived"]
          /\ UNCHANGED <<local, answer, repo, idem, sub, replay>>
      BY <1>1 DEF Receive, storeVars, gatewayVars
    <2>4. pc'[r] = "arrived" /\ OthersStay(r)
      BY <2>1, <2>3 DEF OthersStay, Inv, TypeOK
    <2>5. patient => /\ \A q \in Calls : Busy(q) => id[q] # i /\ Key(q) # order.key
                     /\ Owed(i) \subseteq {order.key}
      BY <2>1 DEF Admissible, Busy
    <2> QED BY <2>1, <2>2, <2>3, <2>4, <2>5 DEF Arrives
  <1>2. ASSUME NEW r \in Calls,
               ReturnCached(r) \/ NotFound(r) \/ ReturnGatewayError(r) \/ RejectTransition(r)
        PROVE  Returns(r)
    <2>1. /\ pc[r] \in {"arrived", "answered"} /\ pc' = [pc EXCEPT ![r] = "done"]
          /\ pc[r] = "answered" /\ answer[r].kind = "body" => ~LegalMove(r)
          /\ UNCHANGED <<req, id, local, answer, repo, idem, sub, replay>>
      BY <1>2 DEF ReturnCached, NotFound, ReturnGatewayError, RejectTransition, Return, Read,
                  storeVars, gatewayVars
    <2>2. pc'[r] = "done" /\ OthersStay(r)
      BY <2>1 DEF OthersStay, Inv, TypeOK
    <2> QED BY <2>1, <2>2 DEF Returns
  <1>3. ASSUME NEW r \in Calls, Start(r) PROVE Starts(r)
    BY <1>3 DEF Start, Starts, OthersStay, storeVars, gatewayVars, Inv, TypeOK
  <1>4. ASSUME NEW r \in Calls, GatewayRefuses(r) PROVE Hears(r)
    <2>1. Refused \notin Answers
      BY DEF Refused, Answers
    <2> QED BY <1>4, <2>1
            DEF GatewayRefuses, Hears, OthersStay, storeVars, gatewayVars, Inv, TypeOK
  <1>5. ASSUME NEW r \in Calls, GatewayReplays(r) PROVE Hears(r)
    <2>1. PICK ans : ans = replay[Key(r)].answer
      OBVIOUS
    <2>2. /\ pc[r] = "gateway" /\ pc' = [pc EXCEPT ![r] = "answered"]
          /\ Key(r) \in Keys /\ replay[Key(r)] # Unused
          /\ replay[Key(r)].order = req[r]
          /\ \E a \in {ans, Lost} : answer' = [answer EXCEPT ![r] = a]
          /\ UNCHANGED <<req, id, local, repo, idem, sub, replay>>
      BY <1>5, <2>1 DEF GatewayReplays, SeenBefore, HeaderKey, Answered, storeVars, gatewayVars
    <2>3. ans \in Answers /\ replay[Key(r)] = [order |-> req[r], answer |-> ans]
      BY <2>1, <2>2 DEF Inv, TypeOK, Recorded
    <2>4. Lost \notin Answers
      BY DEF Lost, Answers
    <2>5. pc'[r] = "answered" /\ answer'[r] \in {ans, Lost} /\ OthersStay(r)
      BY <2>2 DEF OthersStay, Inv, TypeOK
    <2> QED BY <2>2, <2>3, <2>4, <2>5 DEF Hears
  <1>6. ASSUME NEW r \in Calls, Finish(r) PROVE Finishes(r)
    <2>1. id[r] \in Calls /\ Key(r) \in Keys
      BY <1>6, AdvancedTypes DEF Finish
    <2>2. PICK out : out = [id |-> id[r], subscription |-> Advanced(r)]
      OBVIOUS
    <2>3. /\ pc[r] = "answered" /\ pc' = [pc EXCEPT ![r] = "done"]
          /\ answer[r].kind = "body" /\ LegalMove(r)
          /\ repo' = [repo EXCEPT ![id[r]] = Advanced(r)]
          /\ idem' = [idem EXCEPT ![Key(r)] = out]
          /\ UNCHANGED <<req, id, local, answer, sub, replay>>
      BY <1>6, <2>2 DEF Finish, Read, Return, gatewayVars
    <2>4. out # NoOutput
      BY <2>1, <2>2, Parameters DEF NoOutput
    <2>5. pc'[r] = "done" /\ OthersStay(r)
      BY <2>3 DEF OthersStay, Inv, TypeOK
    <2>6. /\ \A i \in Calls : repo'[i] = IF i = id[r] THEN Advanced(r) ELSE repo[i]
          /\ \A k \in Keys : k # Key(r) => idem'[k] = idem[k]
          /\ idem'[Key(r)] # NoOutput
      BY <2>1, <2>3, <2>4 DEF Inv, TypeOK
    <2> QED BY <2>3, <2>5, <2>6 DEF Finishes
  <1>7. ASSUME NEW c \in Calls, BillingMoves(c) PROVE Bills
    <2>1. PICK word \in Words : sub' = [sub EXCEPT ![c].word = word]
      BY <1>7 DEF BillingMoves
    <2>2. sub[c].word # "none" /\ word # "none"
      BY <1>7, WordsTranslate DEF BillingMoves, Billed
    <2> QED BY <1>7, <2>1, <2>2 DEF BillingMoves, Bills, processVars, storeVars, Inv, TypeOK
  <1>8. ASSUME UNCHANGED vars PROVE Bills
    BY <1>8 DEF vars, processVars, storeVars, gatewayVars, Bills
  <1>9. CASE UNCHANGED vars
    BY <1>p, <1>8, <1>9 DEF Steps
  <1>10. CASE Next
    <2>1. CASE AllDone
      BY <1>p, <1>8, <2>1 DEF AllDone, Steps
    <2>2. CASE \E r \in Calls : Receive(r) \/ Handler(r) \/ GatewayActs(r) \/ BillingMoves(r)
      <3>1. PICK r \in Calls : Receive(r) \/ Handler(r) \/ GatewayActs(r) \/ BillingMoves(r)
        BY <2>2
      <3>2. \/ Arrives(r) \/ Returns(r) \/ Starts(r) \/ Hears(r) \/ Finishes(r) \/ Bills
            \/ \E ans \in Answers : \E plan : CarriedOut(r, ans, plan)
        BY <1>1, <1>2, <1>3, <1>4, <1>5, <1>6, <1>7, <3>1, OrdersCarriedOut
        DEF Handler, GatewayActs
      <3> QED BY <1>p, <3>2 DEF Steps
    <2> QED BY <1>10, <2>1, <2>2 DEF Next
  <1> QED BY <1>9, <1>10

-------------------------------------------------------------------------------
(* Their invariant.  Calls that are executed overlap in nothing, so what one *)
(* loaded is what is stored; an order that was carried out but is not cached *)
(* is one whose call is still executing or whose answer got lost.           *)

Alone == \A q, r \in Calls :
    Busy(q) /\ Busy(r) /\ (id[q] = id[r] \/ Key(q) = Key(r)) => q = r

OwedFirst == \A r \in Calls : Busy(r) => Owed(id[r]) \subseteq {Key(r)}

\* A call asks with the entity that is stored, and believes what is recorded.
Asking(r) ==
    /\ pc[r] \in {"idle", "arrived", "gateway"} => answer[r] = NoAnswer
    /\ pc[r] # "idle" /\ Op(r) = "create" => id[r] = r
    /\ pc[r] \in {"gateway", "answered"} =>
          /\ idem[Key(r)] = NoOutput
          /\ local[r] = IF Op(r) = "create" THEN Created(r) ELSE repo[id[r]]
    /\ answer[r] \in Answers => replay[Key(r)] = [order |-> req[r], answer |-> answer[r]]

\* A stored entity is that of one subscription, and its creation is cached.
Stored(i) == repo[i] # NoSubscription =>
    /\ Op(i) = "create" /\ pc[i] = "done"
    /\ repo[i].ref \in Calls
    /\ sub[repo[i].ref].word # "none"
    /\ idem[Key(repo[i].ref)] # NoOutput
    /\ \A j \in Calls : repo[j].ref = repo[i].ref => i = j

\* What is recorded: a creation that is not cached left the plan as it is.
Logged(k) == replay[k] # Unused =>
    /\ replay[k].answer.ref \in Calls
    /\ sub[replay[k].answer.ref].word # "none"
    /\ replay[k].order.op = "create" =>
          /\ Key(replay[k].answer.ref) = k
          /\ idem[k] = NoOutput => sub[replay[k].answer.ref].plan = replay[k].order.plan
    /\ replay[k].answer.kind = "empty" =>
          replay[k].answer.word = "canceled" /\ replay[k].order.op = "cancel"
    /\ replay[k].order.op = "switch" => replay[k].answer.word # "canceled"

\* An order that was carried out and will change the entity when its answer is
\* heard, and the entity it changes.
Unsettled(k) ==
    /\ replay[k] # Unused /\ idem[k] = NoOutput
    /\ \/ replay[k].order.op = "switch"
       \/ Translated /\ replay[k].order.op = "cancel" /\ replay[k].answer.word # "canceled"

About(k, i) == repo[i] # NoSubscription /\ repo[i].ref = replay[k].answer.ref

Awaited(k) == Unsettled(k) =>
    /\ \E q \in Calls : /\ Key(q) = k /\ id[q] \in Calls /\ About(k, id[q])
                        /\ answer[q] \in Answers \cup {Lost}
    /\ \A q \in Calls : Key(q) = k /\ answer[q] \in Answers => pc[q] = "answered"

\* A switch that is unsettled is the last one of its subscription, and the only
\* reason for an entity's plan to differ; nothing unsettled is about an entity
\* that is canceled.
PlanLeft(k) == Unsettled(k) /\ replay[k].order.op = "switch" =>
    replay[k].order.plan = sub[replay[k].answer.ref].plan

PlanKnown(i) == repo[i] # NoSubscription /\ repo[i].plan # sub[repo[i].ref].plan =>
    \E k \in Keys : Unsettled(k) /\ About(k, i) /\ replay[k].order.op = "switch"

NotOver(i) == Translated => \A k \in Keys :
    Unsettled(k) /\ About(k, i) => repo[i].status # "canceled"

Disciplined == Alone /\ OwedFirst /\ (\A r \in Calls : Asking(r))
Kept == (\A i \in Calls : Stored(i)) /\ (\A k \in Keys : Logged(k) /\ Awaited(k))
Followed == (\A k \in Keys : PlanLeft(k)) /\ (\A i \in Calls : PlanKnown(i) /\ NotOver(i))

PatientInv == patient => Disciplined /\ Kept /\ Followed

\* Of calls that have not arrived nothing is known, of those that have nothing
\* is asked again; records, outputs and subscriptions stay.
LEMMA WhoArrives ==
    ASSUME Steps, NEW r \in Calls, pc[r] = "idle", pc'[r] # "idle"
    PROVE  Arrives(r)
  <1>1. ASSUME NEW q \in Calls,
               \/ Arrives(q) \/ Returns(q) \/ Starts(q) \/ Hears(q) \/ Finishes(q)
               \/ \E ans \in Answers : \E plan : CarriedOut(q, ans, plan)
        PROVE  Arrives(r)
    <2>1. OthersStay(q)
      BY <1>1 DEF Arrives, Returns, Starts, Hears, Finishes, CarriedOut
    <2>2. q = r
      BY <2>1 DEF OthersStay
    <2> QED BY <1>1, <2>2 DEF Returns, Starts, Hears, Finishes, CarriedOut
  <1>2. ~Bills
    BY DEF Bills
  <1> QED BY <1>1, <1>2 DEF Steps

LEMMA WhatStays ==
    ASSUME Inv, Steps
    PROVE  /\ \A q \in Calls : pc[q] # "idle" =>
                  pc'[q] # "idle" /\ req'[q] = req[q] /\ id'[q] = id[q]
           /\ \A q \in Calls : pc[q] = "done" => pc'[q] = "done"
           /\ \A q \in Calls : Busy(q)' => Busy(q) \/ pc[q] = "idle"
           /\ \A q \in Calls : answer[q] # NoAnswer => pc[q] = "gateway" \/ answer'[q] = answer[q]
           /\ \A k \in Keys : replay[k] # Unused => replay'[k] = replay[k]
           /\ \A k \in Keys : idem'[k] = NoOutput => idem[k] = NoOutput
           /\ \A c \in Calls : sub[c].word # "none" => sub'[c].word # "none" /\ pc[c] # "idle"
  <1>1. \A c \in Calls : sub[c].word # "none" => pc[c] # "idle"
    BY DEF Inv, CallsHold, CallHolds
  <1>2. CASE Bills
    BY <1>1, <1>2 DEF Bills, Busy
  <1>3. ASSUME NEW r \in Calls, Arrives(r) \/ Returns(r) \/ Starts(r) \/ Hears(r) \/ Finishes(r)
        PROVE  /\ \A q \in Calls : pc[q] # "idle" =>
                      pc'[q] # "idle" /\ req'[q] = req[q] /\ id'[q] = id[q]
               /\ \A q \in Calls : pc[q] = "done" => pc'[q] = "done"
               /\ \A q \in Calls : Busy(q)' => Busy(q) \/ pc[q] = "idle"
               /\ \A q \in Calls : answer[q] # NoAnswer => pc[q] = "gateway" \/ answer'[q] = answer[q]
               /\ replay' = replay /\ sub' = sub
               /\ \A k \in Keys : idem'[k] = NoOutput => idem[k] = NoOutput
    <2>1. CASE Arrives(r)
      BY <2>1 DEF Arrives, OthersStay, Busy, Executing
    <2>2. CASE Returns(r)
      BY <2>2 DEF Returns, OthersStay, Busy, Executing
    <2>3. CASE Starts(r)
      BY <2>3 DEF Starts, OthersStay, Busy, Executing
    <2>4. CASE Hears(r)
      BY <2>4 DEF Hears, OthersStay, Busy, Executing
    <2>5. CASE Finishes(r)
      BY <2>5 DEF Finishes, OthersStay, Busy, Executing
    <2> QED BY <1>3, <2>1, <2>2, <2>3, <2>4, <2>5
  <1>4. ASSUME NEW r \in Calls, NEW ans \in Answers, NEW plan, CarriedOut(r, ans, plan)
        PROVE  /\ \A q \in Calls : pc[q] # "idle" =>
                      pc'[q] # "idle" /\ req'[q] = req[q] /\ id'[q] = id[q]
               /\ \A q \in Calls : pc[q] = "done" => pc'[q] = "done"
               /\ \A q \in Calls : Busy(q)' => Busy(q) \/ pc[q] = "idle"
               /\ \A q \in Calls : answer[q] # NoAnswer => pc[q] = "gateway" \/ answer'[q] = answer[q]
               /\ \A k \in Keys : replay[k] # Unused => replay'[k] = replay[k]
               /\ idem' = idem
               /\ \A c \in Calls : sub[c].word # "none" => sub'[c].word # "none"
    <2>1. ans.word # "none"
      BY WordsTranslate DEF Answers
    <2> QED BY <1>4, <2>1 DEF CarriedOut, OthersStay, Busy, Executing
  <1> QED BY <1>1, <1>2, <1>3, <1>4 DEF Steps

\* What a call that is served works with.
LEMMA Served ==
    ASSUME Inv, NEW r \in Calls, Asking(r), pc[r] # "idle"
    PROVE  /\ req[r] \in Offered /\ id[r] \in Calls /\ Key(r) \in Keys
           /\ Op(r) \in Operations
           /\ answer[r] \in Answers \cup {NoAnswer, Refused, Lost}
           /\ pc[r] \in {"gateway", "answered"} /\ Op(r) # "create" =>
                 /\ local[r] = repo[id[r]] /\ repo[id[r]] # NoSubscription
                 /\ repo[id[r]].ref \in Calls
           /\ answer[r] \in Answers /\ Op(r) # "create" /\ pc[r] = "answered" =>
                 answer[r].ref = repo[id[r]].ref
  <1>1. CallHolds(r)
    BY DEF Inv, CallsHold
  <1>2. req[r] \in Offered /\ id[r] \in Calls
    BY <1>1 DEF CallHolds
  <1>3. answer[r] \in Answers \cup {NoAnswer, Refused, Lost}
    BY DEF Inv, TypeOK
  <1>4. ASSUME pc[r] \in {"gateway", "answered"}, Op(r) # "create"
        PROVE  local[r] = repo[id[r]] /\ repo[id[r]] # NoSubscription /\ repo[id[r]].ref \in Calls
    <2>1. local[r] = repo[id[r]] /\ local[r].ref \in Calls
      BY <1>1, <1>4 DEF CallHolds, Asking
    <2> QED BY <2>1, Parameters DEF NoSubscription
  <1>5. answer[r] \in Answers /\ Op(r) # "create" /\ pc[r] = "answered" => answer[r].ref = local[r].ref
    BY <1>1 DEF CallHolds
  <1> QED BY <1>2, <1>3, <1>4, <1>5, OrderTypes

LEMMA AloneKept == ASSUME Inv, Alone, patient, Steps PROVE Alone'
  <1>1. CASE \E r \in Calls : Arrives(r)
    <2>1. PICK r \in Calls : Arrives(r)
      BY <1>1
    <2>2. \A q \in Calls : Busy(q) => id[q] # id'[r] /\ Key(q) # req'[r].key
      BY <2>1 DEF Arrives
    <2>3. \A q \in Calls : q # r =>
             /\ Busy(q)' = Busy(q) /\ id'[q] = id[q] /\ req'[q] = req[q]
      BY <2>1 DEF Arrives, OthersStay, Busy
    <2> QED BY <2>2, <2>3 DEF Alone, Key
  <1>2. CASE ~ \E r \in Calls : Arrives(r)
    <2>1. \A q \in Calls : Busy(q)' => Busy(q) /\ id'[q] = id[q] /\ req'[q] = req[q]
      <3>1. CASE Bills
        BY <3>1 DEF Bills, Busy
      <3>2. ASSUME NEW r \in Calls, Returns(r) \/ Starts(r) \/ Hears(r) \/ Finishes(r)
            PROVE  \A q \in Calls : Busy(q)' => Busy(q) /\ id'[q] = id[q] /\ req'[q] = req[q]
        BY <3>2 DEF Returns, Starts, Hears, Finishes, OthersStay, Busy, Executing
      <3>3. ASSUME NEW r \in Calls, NEW ans \in Answers, NEW plan, CarriedOut(r, ans, plan)
            PROVE  \A q \in Calls : Busy(q)' => Busy(q) /\ id'[q] = id[q] /\ req'[q] = req[q]
        BY <3>3 DEF CarriedOut, OthersStay, Busy, Executing
      <3> QED BY <1>2, <3>1, <3>2, <3>3 DEF Steps
    <2> QED BY <2>1 DEF Alone, Key
  <1> QED BY <1>1, <1>2

\* Only a call that hears nothing of its order comes to be owed its answer.
LEMMA OwedKept ==
    ASSUME Inv, \A r \in Calls : Asking(r), Steps, NEW i \in Calls
    PROVE  \/ Owed(i)' \subseteq Owed(i)
           \/ \E r \in Calls : /\ Busy(r)' /\ id[r] = i /\ id'[r] = i /\ Key(r)' = Key(r)
                               /\ Owed(i)' \subseteq Owed(i) \cup {Key(r)}
                               /\ \A q \in Calls : q # r => Busy(q)' = Busy(q)
  <1>0. Lost # NoAnswer /\ Refused # NoAnswer /\ Refused # Lost /\ NoAnswer.kind \notin {"body", "empty"}
    BY DEF Lost, NoAnswer, Refused
  <1>1. ASSUME NEW r \in Calls, Arrives(r) PROVE Owed(i)' \subseteq Owed(i)
    <2>1. answer[r] = NoAnswer /\ answer' = answer
      BY <1>1 DEF Arrives, Asking
    <2>2. \A q \in Calls : q # r => id'[q] = id[q] /\ req'[q] = req[q]
      BY <1>1 DEF Arrives, OthersStay
    <2> QED BY <1>0, <2>1, <2>2 DEF Owed, Key
  <1>2. ASSUME UNCHANGED <<req, id, answer>> PROVE Owed(i)' \subseteq Owed(i)
    BY <1>2 DEF Owed, Key
  <1>3. ASSUME NEW r \in Calls, pc[r] = "gateway", pc'[r] = "answered", OthersStay(r),
               UNCHANGED <<req, id>>
        PROVE  \/ Owed(i)' \subseteq Owed(i)
               \/ /\ Busy(r)' /\ id[r] = i /\ id'[r] = i /\ Key(r)' = Key(r)
                  /\ Owed(i)' \subseteq Owed(i) \cup {Key(r)}
                  /\ \A q \in Calls : q # r => Busy(q)' = Busy(q)
    <2>1. answer[r] = NoAnswer
      BY <1>3 DEF Asking
    <2>2. \A q \in Calls : q # r => answer'[q] = answer[q] /\ Busy(q)' = Busy(q)
      BY <1>3 DEF OthersStay, Busy
    <2>3. Busy(r)' /\ Key(r)' = Key(r)
      BY <1>3 DEF Busy, Executing, Key
    <2>4. Owed(i)' \subseteq Owed(i) \cup {k \in {Key(r)} : id[r] = i}
      BY <1>0, <1>3, <2>1, <2>2 DEF Owed, Key
    <2> QED BY <1>3, <2>2, <2>3, <2>4
  <1>4. CASE Bills
    BY <1>2, <1>4 DEF Bills
  <1>5. ASSUME NEW r \in Calls, Returns(r) \/ Starts(r) \/ Finishes(r)
        PROVE  Owed(i)' \subseteq Owed(i)
    BY <1>2, <1>5 DEF Returns, Starts, Finishes
  <1>6. ASSUME NEW r \in Calls, Hears(r)
        PROVE  /\ pc[r] = "gateway" /\ pc'[r] = "answered" /\ OthersStay(r)
               /\ UNCHANGED <<req, id>>
    BY <1>6 DEF Hears
  <1>7. ASSUME NEW r \in Calls, NEW ans \in Answers, NEW plan, CarriedOut(r, ans, plan)
        PROVE  /\ pc[r] = "gateway" /\ pc'[r] = "answered" /\ OthersStay(r)
               /\ UNCHANGED <<req, id>>
    BY <1>7 DEF CarriedOut
  <1> QED BY <1>1, <1>3, <1>4, <1>5, <1>6, <1>7 DEF Steps

LEMMA OwedFirstKept ==
    ASSUME Inv, Disciplined, patient, Steps
    PROVE  OwedFirst'
  <1> SUFFICES ASSUME NEW r \in Calls, Busy(r)', NEW i \in Calls, i = id'[r]
               PROVE  Owed(i)' \subseteq {Key(r)'}
    <2>1. ASSUME NEW r \in Calls, Busy(r)' PROVE id'[r] \in Calls
      <3>1. CASE pc[r] = "idle"
        <4>1. pc'[r] # "idle"
          BY <2>1 DEF Busy, Executing
        <4> QED BY <3>1, <4>1, WhoArrives DEF Arrives
      <3>2. CASE pc[r] # "idle"
        BY <3>2, WhatStays, Served DEF Disciplined
      <3> QED BY <3>1, <3>2
    <2>2. ASSUME NEW r \in Calls, Busy(r)', \A i \in Calls : i = id'[r] => Owed(i)' \subseteq {Key(r)'}
          PROVE  (Busy(r) => Owed(id[r]) \subseteq {Key(r)})'
      BY <2>1, <2>2 DEF Owed
    <2> QED BY <2>2 DEF OwedFirst
  <1>1. CASE pc[r] = "idle"
    <2>1. Arrives(r)
      <3>1. pc'[r] # "idle"
        BY DEF Busy, Executing
      <3> QED BY <1>1, <3>1, WhoArrives
    <2>2. Owed(i) \subseteq {Key(r)'}
      BY <2>1 DEF Arrives, Key
    <2>3. answer[r] = NoAnswer /\ answer' = answer
      BY <2>1 DEF Arrives, Disciplined, Asking
    <2>4. \A q \in Calls : q # r => id'[q] = id[q] /\ req'[q] = req[q]
      BY <2>1 DEF Arrives, OthersStay
    <2>5. Owed(i)' \subseteq Owed(i)
      <3>1. Lost # NoAnswer /\ NoAnswer.kind \notin {"body", "empty"}
        BY DEF Lost, NoAnswer
      <3> QED BY <2>3, <2>4, <3>1 DEF Owed, Key
    <2> QED BY <2>2, <2>5
  <1>2. CASE pc[r] # "idle"
    <2>1. Busy(r) /\ req'[r] = req[r] /\ id'[r] = id[r]
      BY <1>2, WhatStays
    <2>2. Owed(i) \subseteq {Key(r)} /\ Key(r)' = Key(r)
      BY <2>1 DEF Disciplined, OwedFirst, Key
    <2>3. \/ Owed(i)' \subseteq Owed(i)
          \/ \E q \in Calls : /\ Busy(q)' /\ id'[q] = i
                              /\ Owed(i)' \subseteq Owed(i) \cup {Key(q)}
                              /\ Key(q)' = Key(q)
      BY OwedKept DEF Disciplined
    <2>4. CASE Owed(i)' \subseteq Owed(i)
      BY <2>2, <2>4
    <2>5. ASSUME NEW q \in Calls, Busy(q)', id'[q] = i,
                 Owed(i)' \subseteq Owed(i) \cup {Key(q)}
          PROVE  Owed(i)' \subseteq {Key(r)'}
      <3>1. Alone'
        BY AloneKept DEF Disciplined
      <3>2. q = r
        BY <2>5, <3>1 DEF Alone
      <3> QED BY <2>2, <2>5, <3>2
    <2> QED BY <2>3, <2>4, <2>5
  <1> QED BY <1>1, <1>2

\* Kinds of answers.
LEMMA Kinds ==
    ASSUME Inv
    PROVE  /\ NoAnswer \notin Answers /\ Refused \notin Answers /\ Lost \notin Answers
           /\ \A a \in Answers : a.kind \in {"body", "empty"} /\ a.word \in Words /\ a.ref \in Calls
           /\ \A o : \A a \in Answers : [order |-> o, answer |-> a] # Unused
           /\ \A o : \A a \in Answers : [order |-> o, answer |-> a].answer = a
           /\ \A o : \A a \in Answers : [order |-> o, answer |-> a].order = o
           /\ \A k \in Keys : replay[k] # Unused => replay[k].answer \in Answers
  <1>1. NoAnswer \notin Answers /\ Refused \notin Answers /\ Lost \notin Answers
    BY DEF NoAnswer, Refused, Lost, Answers
  <1>2. \A a \in Answers : a.kind \in {"body", "empty"} /\ a.word \in Words /\ a.ref \in Calls
    BY DEF Answers
  <1>3. ASSUME NEW o, NEW a \in Answers PROVE [order |-> o, answer |-> a] # Unused
    <2>1. Unused.answer = NoAnswer
      BY DEF Unused
    <2> QED BY <1>1, <2>1
  <1> QED BY <1>1, <1>2, <1>3 DEF Inv, Recorded

\* Who works on a subscription keeps it to itself.
LEMMA AskingKept ==
    ASSUME Inv, Disciplined, patient, Steps, NEW r \in Calls
    PROVE  Asking(r)'
  <1>1. Asking(r)
    BY DEF Disciplined
  <1>2. CASE Bills
    BY <1>1, <1>2 DEF Bills, Asking, Op, Key, Created
  <1>3. ASSUME NEW q \in Calls, q # r,
               \/ Arrives(q) \/ Returns(q) \/ Starts(q) \/ Hears(q) \/ Finishes(q)
               \/ \E ans \in Answers : \E plan : CarriedOut(q, ans, plan)
        PROVE  Asking(r)'
    <2>1. /\ pc'[r] = pc[r] /\ req'[r] = req[r] /\ id'[r] = id[r]
          /\ local'[r] = local[r] /\ answer'[r] = answer[r]
      BY <1>3 DEF Arrives, Returns, Starts, Hears, Finishes, CarriedOut, OthersStay
    <2>2. answer[r] \in Answers => replay'[Key(r)] = replay[Key(r)]
      <3>1. ASSUME answer[r] \in Answers PROVE Key(r) \in Keys /\ replay[Key(r)] # Unused
        <4>1. pc[r] # "idle"
          BY <1>1, <3>1, Kinds DEF Asking
        <4> QED BY <1>1, <3>1, <4>1, Served, Kinds DEF Asking
      <3> QED BY <3>1, WhatStays
    <2>3. pc[r] \in {"gateway", "answered"} =>
             idem'[Key(r)] = idem[Key(r)] /\ repo'[id[r]] = repo[id[r]]
      <3> SUFFICES ASSUME pc[r] \in {"gateway", "answered"}
                   PROVE  idem'[Key(r)] = idem[Key(r)] /\ repo'[id[r]] = repo[id[r]]
        OBVIOUS
      <3>1. Key(r) \in Keys /\ id[r] \in Calls
        BY <1>1, Served
      <3>2. CASE Finishes(q)
        <4>1. Busy(q) /\ Busy(r)
          BY <3>2 DEF Finishes, Busy, Executing
        <4>2. id[q] # id[r] /\ Key(q) # Key(r)
          BY <1>3, <4>1 DEF Disciplined, Alone
        <4> QED BY <3>1, <3>2, <4>2 DEF Finishes
      <3>3. CASE ~Finishes(q)
        BY <1>3, <3>3 DEF Arrives, Returns, Starts, Hears, CarriedOut
      <3> QED BY <3>2, <3>3
    <2> QED BY <1>1, <2>1, <2>2, <2>3 DEF Asking, Op, Key, Created
  <1>4. CASE Arrives(r)
    BY <1>1, <1>4, Kinds DEF Arrives, Asking, Op, Key, Created
  <1>5. CASE Returns(r)
    BY <1>1, <1>5 DEF Returns, Asking, Op, Key, Created
  <1>6. CASE Starts(r)
    BY <1>1, <1>6 DEF Starts, Asking, Op, Key, Created
  <1>7. CASE Hears(r)
    <2>1. answer'[r] \in Answers => replay'[Key(r)] = [order |-> req[r], answer |-> answer'[r]]
      BY <1>7 DEF Hears
    <2>2. pc[r] = "gateway" /\ pc'[r] = "answered" /\ UNCHANGED <<req, id, local, repo, idem>>
      BY <1>7 DEF Hears
    <2> QED BY <1>1, <2>1, <2>2 DEF Asking, Op, Key, Created
  <1>8. ASSUME NEW ans \in Answers, NEW plan, CarriedOut(r, ans, plan) PROVE Asking(r)'
    <2>1. pc[r] = "gateway" /\ pc'[r] = "answered" /\ UNCHANGED <<req, id, local, repo, idem>>
      BY <1>8 DEF CarriedOut
    <2>2. Key(r) \in Keys
      BY <1>1, <2>1, Served
    <2>3. answer'[r] \in Answers => replay'[Key(r)] = [order |-> req[r], answer |-> answer'[r]]
      BY <1>8, <2>2, Kinds DEF CarriedOut
    <2> QED BY <1>1, <2>1, <2>3 DEF Asking, Op, Key, Created
  <1>9. CASE Finishes(r)
    BY <1>1, <1>9 DEF Finishes, Asking, Op, Key, Created
  <1> QED BY <1>2, <1>3, <1>4, <1>5, <1>6, <1>7, <1>8, <1>9 DEF Steps

\* What a call that finishes stores.
LEMMA Storing ==
    ASSUME Inv, Disciplined, Kept, NEW r \in Calls, Finishes(r)
    PROVE  /\ req[r] \in Offered /\ id[r] \in Calls /\ Key(r) \in Keys /\ Op(r) \in Operations
           /\ answer[r] \in Answers /\ answer[r].ref \in Calls
           /\ idem[Key(r)] = NoOutput
           /\ replay[Key(r)].order = req[r] /\ replay[Key(r)].answer = answer[r]
           /\ replay[Key(r)] # Unused
           /\ Advanced(r) # NoSubscription
           /\ Advanced(r).ref = answer[r].ref
           /\ Advanced(r).status = Status(r)
           /\ Advanced(r).plan = IF Op(r) = "cancel" THEN repo[id[r]].plan ELSE req[r].plan
           /\ Op(r) = "create" => id[r] = r /\ repo[r] = NoSubscription
           /\ Op(r) # "create" => repo[id[r]] # NoSubscription /\ repo[id[r]].ref = answer[r].ref
  <1>1. Asking(r) /\ pc[r] = "answered" /\ Read(r)
    BY DEF Disciplined, Finishes, Read
  <1>2. /\ answer[r] \in Answers /\ Advanced(r) \in Subscriptions
        /\ Advanced(r).ref = answer[r].ref /\ Advanced(r).status = Status(r)
    BY <1>1, AdvancedTypes
  <1>3. answer[r].ref \in Calls /\ replay[Key(r)] = [order |-> req[r], answer |-> answer[r]]
        /\ replay[Key(r)] # Unused /\ idem[Key(r)] = NoOutput
    BY <1>1, <1>2, Kinds DEF Asking
  <1>4. replay[Key(r)].order = req[r] /\ replay[Key(r)].answer = answer[r]
    BY <1>2, <1>3, Kinds
  <1>5. Advanced(r) # NoSubscription
    BY <1>2, <1>3, Parameters DEF NoSubscription
  <1>6. /\ req[r] \in Offered /\ id[r] \in Calls /\ Key(r) \in Keys /\ Op(r) \in Operations
        /\ Op(r) # "create" => /\ local[r] = repo[id[r]] /\ repo[id[r]] # NoSubscription
                               /\ answer[r].ref = repo[id[r]].ref
    BY <1>1, <1>2, Served
  <1>7. Op(r) = "create" => id[r] = r /\ repo[r] = NoSubscription
    BY <1>1, <1>6 DEF Asking, Kept, Stored
  <1>8. Advanced(r).plan = IF Op(r) = "switch" THEN req[r].plan ELSE local[r].plan
    BY DEF Advanced
  <1>9. Op(r) = "create" => local[r].plan = req[r].plan
    BY <1>1 DEF Asking, Created
  <1>10. Advanced(r).plan = IF Op(r) = "cancel" THEN repo[id[r]].plan ELSE req[r].plan
    BY <1>6, <1>8, <1>9 DEF Operations
  <1> QED BY <1>2, <1>3, <1>4, <1>5, <1>6, <1>7, <1>10

\* What a call that has an order carried out leaves.
LEMMA Carrying ==
    ASSUME Inv, Disciplined, Kept, NEW r \in Calls, NEW ans \in Answers, NEW plan,
           CarriedOut(r, ans, plan)
    PROVE  /\ id[r] \in Calls /\ Key(r) \in Keys /\ Op(r) \in Operations /\ ans.ref \in Calls
           /\ idem[Key(r)] = NoOutput /\ replay[Key(r)] = Unused
           /\ replay'[Key(r)] # Unused
           /\ replay'[Key(r)].order = req[r] /\ replay'[Key(r)].answer = ans
           /\ \A k \in Keys : k # Key(r) => replay'[k] = replay[k]
           /\ sub'[ans.ref].plan = plan /\ sub'[ans.ref].word = ans.word
           /\ \A c \in Calls : c # ans.ref => sub'[c] = sub[c]
           /\ Op(r) = "create" => ans.ref = r /\ sub[r].word = "none"
           /\ Op(r) # "create" => /\ repo[id[r]] # NoSubscription /\ repo[id[r]].ref = ans.ref
                                  /\ sub[ans.ref].word \notin {"none", "canceled"}
           /\ plan = IF Op(r) = "cancel" THEN sub[ans.ref].plan ELSE req[r].plan
           /\ UNCHANGED <<req, id, local, repo, idem>>
  <1>1. pc[r] = "gateway" /\ Asking(r) /\ ans.ref \in Calls
    BY Kinds DEF CarriedOut, Disciplined
  <1>2. /\ id[r] \in Calls /\ Key(r) \in Keys /\ Op(r) \in Operations
        /\ idem[Key(r)] = NoOutput
        /\ Op(r) # "create" => local[r] = repo[id[r]] /\ repo[id[r]] # NoSubscription
    BY <1>1, Served DEF Asking
  <1>3. replay'[Key(r)] = [order |-> req[r], answer |-> ans]
    BY <1>2 DEF CarriedOut
  <1>4. /\ replay'[Key(r)] # Unused /\ replay'[Key(r)].order = req[r]
        /\ replay'[Key(r)].answer = ans
    BY <1>3, Kinds
  <1>5. sub'[ans.ref].plan = plan /\ sub'[ans.ref].word = ans.word
    BY <1>1 DEF CarriedOut
  <1>6. Op(r) = "create" => ans.ref = r /\ sub[r].word = "none"
    BY DEF CarriedOut
  <1>7. Op(r) # "create" => /\ repo[id[r]].ref = ans.ref
                            /\ sub[ans.ref].word \notin {"none", "canceled"}
    BY <1>2 DEF CarriedOut
  <1> QED BY <1>1, <1>2, <1>3, <1>4, <1>5, <1>6, <1>7 DEF CarriedOut

\* Nothing is stored, cached or carried out by the other steps.
LEMMA QuietSteps ==
    ASSUME Steps,
           \A r \in Calls : ~Finishes(r),
           \A r \in Calls, ans \in Answers : \A plan : ~CarriedOut(r, ans, plan)
    PROVE  /\ repo' = repo /\ idem' = idem /\ replay' = replay
           /\ \A c \in Calls : sub'[c].plan = sub[c].plan /\ (sub'[c].word = "none" <=> sub[c].word = "none")
  BY DEF Steps, Arrives, Returns, Starts, Hears, Bills

LEMMA StoredKept ==
    ASSUME Inv, Disciplined, Kept, Steps, NEW i \in Calls
    PROVE  Stored(i)'
  <1>0. \A j \in Calls : Stored(j)
    BY DEF Kept
  <1>1. ASSUME NEW c \in Calls, sub[c].word # "none", idem[Key(c)] # NoOutput
        PROVE  sub'[c].word # "none" /\ (idem[Key(c)] # NoOutput)'
    <2>1. pc[c] # "idle" /\ sub'[c].word # "none" /\ req'[c] = req[c]
      BY <1>1, WhatStays
    <2>2. Key(c) \in Keys
      BY <2>1, Served DEF Disciplined
    <2> QED BY <1>1, <2>1, <2>2, WhatStays DEF Key
  <1>2. ASSUME repo' = repo PROVE Stored(i)'
    <2> SUFFICES ASSUME repo[i] # NoSubscription PROVE Stored(i)'
      BY <1>2 DEF Stored
    <2>1. /\ pc[i] = "done" /\ repo[i].ref \in Calls /\ sub[repo[i].ref].word # "none"
          /\ idem[Key(repo[i].ref)] # NoOutput /\ Op(i) = "create"
      BY <1>0 DEF Stored
    <2>2. pc'[i] = "done" /\ req'[i] = req[i]
      BY <2>1, WhatStays
    <2>3. PICK c \in Calls : c = repo[i].ref
      BY <2>1
    <2>4. sub'[c].word # "none" /\ (idem[Key(c)] # NoOutput)'
      BY <1>1, <2>1, <2>3
    <2> QED BY <1>0, <1>2, <2>1, <2>2, <2>3, <2>4 DEF Stored, Op, Key
  <1>3. ASSUME NEW r \in Calls, Finishes(r) PROVE Stored(i)'
    <2>1. \A j \in Calls : repo'[j] = IF j = id[r] THEN Advanced(r) ELSE repo[j]
      BY <1>3 DEF Finishes
    <2>2. PICK c \in Calls : c = answer[r].ref
      BY <1>3, Storing
    <2>3. /\ id[r] \in Calls /\ Key(r) \in Keys
          /\ Advanced(r).ref = c
          /\ Op(r) = "create" => id[r] = r
          /\ Op(r) # "create" => repo[id[r]] # NoSubscription /\ repo[id[r]].ref = c
      BY <1>3, <2>2, Storing
    <2>4. sub[c].word # "none" /\ (Op(r) = "create" => Key(c) = Key(r))
      <3>1. Logged(Key(r)) /\ replay[Key(r)] # Unused
            /\ replay[Key(r)].order = req[r] /\ replay[Key(r)].answer = answer[r]
        BY <1>3, Storing DEF Kept
      <3> QED BY <2>2, <3>1 DEF Logged, Op
    <2>5. (idem[Key(c)] # NoOutput)'
      <3>1. pc[c] # "idle" /\ req'[c] = req[c]
        BY <2>4, WhatStays
      <3>2. CASE Op(r) = "create"
        BY <1>3, <2>4, <3>1, <3>2 DEF Finishes, Key
      <3>3. CASE Op(r) # "create"
        <4>1. idem[Key(c)] # NoOutput
          BY <1>0, <2>3, <3>3 DEF Stored
        <4> QED BY <1>1, <2>4, <4>1
      <3> QED BY <3>2, <3>3
    <2>6. \A j \in Calls : j # id[r] /\ repo[j] # NoSubscription => repo[j].ref # c
      <3> SUFFICES ASSUME NEW j \in Calls, j # id[r], repo[j] # NoSubscription, repo[j].ref = c
                   PROVE  FALSE
        OBVIOUS
      <3>1. Op(r) = "create"
        BY <1>0, <2>3 DEF Stored
      <3>2. idem[Key(c)] # NoOutput /\ idem[Key(r)] = NoOutput
        BY <1>0, <1>3, Storing DEF Stored
      <3> QED BY <2>4, <3>1, <3>2
    <2>7. NoSubscription.ref # c
      BY Parameters DEF NoSubscription
    <2>8. CASE i = id[r]
      <3>1. repo'[i] = Advanced(r) /\ repo'[i].ref = c
        BY <2>1, <2>3, <2>8
      <3>2. sub'[c].word # "none"
        BY <2>4, WhatStays
      <3>3. Op(i)' = "create" /\ pc'[i] = "done"
        <4>1. CASE Op(r) = "create"
          <5>1. i = r
            BY <2>3, <2>8, <4>1
          <5> QED BY <1>3, <4>1, <5>1 DEF Finishes, Op
        <4>2. CASE Op(r) # "create"
          <5>1. Op(i) = "create" /\ pc[i] = "done"
            BY <1>0, <2>3, <2>8, <4>2 DEF Stored
          <5> QED BY <1>3, <5>1, WhatStays DEF Finishes, Op
        <4> QED BY <4>1, <4>2
      <3>4. \A j \in Calls : repo'[j].ref = c => i = j
        BY <2>1, <2>6, <2>7, <2>8
      <3> QED BY <2>5, <3>1, <3>2, <3>3, <3>4 DEF Stored, Key
    <2>9. CASE i # id[r]
      <3> SUFFICES ASSUME repo[i] # NoSubscription PROVE Stored(i)'
        BY <2>1, <2>9 DEF Stored
      <3>1. repo'[i] = repo[i]
        BY <2>1, <2>9
      <3>2. PICK d \in Calls : d = repo[i].ref
        BY <1>0 DEF Stored
      <3>3. /\ Op(i) = "create" /\ pc[i] = "done" /\ sub[d].word # "none"
            /\ idem[Key(d)] # NoOutput /\ \A j \in Calls : repo[j].ref = d => i = j
        BY <1>0, <3>2 DEF Stored
      <3>4. Op(i)' = "create" /\ pc'[i] = "done"
        BY <3>3, WhatStays DEF Op
      <3>5. sub'[d].word # "none" /\ (idem[Key(d)] # NoOutput)'
        BY <1>1, <3>3
      <3>6. \A j \in Calls : repo'[j].ref = d => i = j
        BY <2>1, <2>3, <2>6, <2>9, <3>2, <3>3
      <3> QED BY <3>1, <3>2, <3>4, <3>5, <3>6 DEF Stored, Key
    <2> QED BY <2>8, <2>9
  <1>4. ASSUME NEW r \in Calls, NEW ans \in Answers, NEW plan, CarriedOut(r, ans, plan)
        PROVE  repo' = repo
    BY <1>4 DEF CarriedOut
  <1> QED BY <1>2, <1>3, <1>4, QuietSteps

LEMMA LoggedKept ==
    ASSUME Inv, Disciplined, Kept, Steps, NEW k \in Keys
    PROVE  Logged(k)'
  <1>0. Logged(k) /\ \A i \in Calls : Stored(i)
    BY DEF Kept
  <1>1. ASSUME replay'[k] = replay[k], replay[k] # Unused,
               /\ replay[k].order.op = "create" /\ idem[k] = NoOutput
               => sub'[replay[k].answer.ref].plan = sub[replay[k].answer.ref].plan
        PROVE  Logged(k)'
    <2>1. PICK c \in Calls : c = replay[k].answer.ref
      BY <1>0, <1>1 DEF Logged
    <2>2. sub[c].word # "none"
      BY <1>0, <1>1, <2>1 DEF Logged
    <2>3. sub'[c].word # "none" /\ Key(c)' = Key(c)
      BY <2>2, WhatStays DEF Key
    <2>4. idem'[k] = NoOutput => idem[k] = NoOutput
      BY WhatStays
    <2>5. /\ replay[k].order.op = "create" =>
                Key(c) = k /\ (idem[k] = NoOutput => sub[c].plan = replay[k].order.plan)
          /\ replay[k].answer.kind = "empty" =>
                replay[k].answer.word = "canceled" /\ replay[k].order.op = "cancel"
          /\ replay[k].order.op = "switch" => replay[k].answer.word # "canceled"
      BY <1>0, <1>1, <2>1 DEF Logged
    <2>6. /\ replay'[k].order.op = "create" =>
                Key(c)' = k /\ (idem'[k] = NoOutput => sub'[c].plan = replay'[k].order.plan)
          /\ replay'[k].answer.kind = "empty" =>
                replay'[k].answer.word = "canceled" /\ replay'[k].order.op = "cancel"
          /\ replay'[k].order.op = "switch" => replay'[k].answer.word # "canceled"
          /\ replay'[k].answer.ref = c
      BY <1>1, <2>1, <2>3, <2>4, <2>5
    <2> QED BY <2>3, <2>6 DEF Logged
  <1>2. ASSUME replay'[k] = replay[k], \A c \in Calls : sub'[c].plan = sub[c].plan
        PROVE  Logged(k)'
    BY <1>0, <1>1, <1>2 DEF Logged
  <1>3. ASSUME NEW r \in Calls, Finishes(r) PROVE Logged(k)'
    BY <1>2, <1>3 DEF Finishes
  <1>4. ASSUME NEW r \in Calls, NEW ans \in Answers, NEW plan, CarriedOut(r, ans, plan)
        PROVE  Logged(k)'
    <2>1. CASE k # Key(r)
      <3>1. replay'[k] = replay[k]
        BY <1>4, <2>1, Carrying
      <3>2. ASSUME replay[k] # Unused, replay[k].order.op = "create", idem[k] = NoOutput,
                   replay[k].answer.ref = ans.ref
            PROVE  FALSE
        <4>1. sub[ans.ref].word # "none" /\ Key(ans.ref) = k
          BY <1>0, <3>2 DEF Logged
        <4>2. Op(r) # "create"
          BY <1>4, <4>1, Carrying
        <4>3. id[r] \in Calls /\ repo[id[r]] # NoSubscription /\ repo[id[r]].ref = ans.ref
          BY <1>4, <4>2, Carrying
        <4> QED BY <1>0, <3>2, <4>1, <4>3 DEF Stored
      <3>3. ASSUME replay[k] # Unused PROVE replay[k].answer.ref \in Calls
        BY <1>0, <3>3 DEF Logged
      <3>4. CASE replay[k] = Unused
        BY <3>1, <3>4 DEF Logged
      <3> QED BY <1>1, <1>4, <3>1, <3>2, <3>3, <3>4, Carrying
    <2>2. CASE k = Key(r)
      <3>1. /\ replay'[k].order = req[r] /\ replay'[k].answer = ans /\ ans.ref \in Calls
            /\ sub'[ans.ref].word = ans.word /\ sub'[ans.ref].plan = plan
            /\ Op(r) = "create" => ans.ref = r
            /\ plan = IF Op(r) = "cancel" THEN sub[ans.ref].plan ELSE req[r].plan
            /\ req' = req
        BY <1>4, <2>2, Carrying
      <3>2. ans.word # "none"
        BY Kinds, WordsTranslate
      <3>3. /\ ans.kind = "empty" => ans.word = "canceled" /\ Op(r) = "cancel"
            /\ Op(r) = "switch" => ans.word # "canceled"
        BY <1>4 DEF CarriedOut
      <3>4. replay'[k].order.op = Op(r) /\ Key(r)' = Key(r) /\ replay'[k].order.plan = req[r].plan
        BY <3>1 DEF Op, Key
      <3> QED BY <2>2, <3>1, <3>2, <3>3, <3>4 DEF Logged
    <2> QED BY <2>1, <2>2
  <1> QED BY <1>2, <1>3, <1>4, QuietSteps

\* An unsettled order is one to switch or to cancel, answered with a body, which
\* the entity follows whatever its status is.
LEMMA UnsettledFollowed ==
    ASSUME Inv, Disciplined, Kept, NEW k \in Keys, Unsettled(k),
           NEW r \in Calls, Key(r) = k, answer[r] \in Answers
    PROVE  /\ replay[k].answer = answer[r] /\ replay[k].order = req[r]
           /\ Op(r) # "create" /\ answer[r].kind = "body" /\ LegalMove(r)
  <1>1. replay[k].answer = answer[r] /\ replay[k].order = req[r] /\ Logged(k)
    <2>1. Asking(r)
      BY DEF Disciplined
    <2>2. replay[k] = [order |-> req[r], answer |-> answer[r]]
      BY <2>1 DEF Asking
    <2> QED BY <2>2, Kinds DEF Kept
  <1>2. answer[r].kind = "body"
    BY <1>1, Kinds DEF Logged, Unsettled
  <1>3. CASE Op(r) = "switch"
    BY <1>1, <1>2, <1>3 DEF LegalMove
  <1>4. CASE Op(r) # "switch"
    <2>1. Translated /\ Op(r) = "cancel" /\ answer[r].word # "canceled"
      BY <1>1, <1>4 DEF Unsettled, Op
    <2>2. answer[r].word \in Words
      BY Kinds
    <2>3. Status(r) # "canceled"
      BY <2>1, <2>2, OnlyEndsMapToEnds DEF Status
    <2> QED BY <1>1, <1>2, <2>1, <2>3 DEF LegalMove
  <1> QED BY <1>3, <1>4

\* An unsettled order about an entity is owed to the callers, or is the one that
\* is being executed on it.
LEMMA UnsettledOwed ==
    ASSUME Inv, Disciplined, Kept, NEW k \in Keys, Unsettled(k), NEW i \in Calls, About(k, i)
    PROVE  k \in Owed(i) \/ \E q \in Calls : Busy(q) /\ Key(q) = k /\ id[q] = i
  <1>1. Awaited(k) /\ \A j \in Calls : Stored(j)
    BY DEF Kept
  <1>2. PICK q \in Calls : /\ Key(q) = k /\ id[q] \in Calls /\ About(k, id[q])
                           /\ answer[q] \in Answers \cup {Lost}
    BY <1>1 DEF Awaited
  <1>3. id[q] = i
    BY <1>1, <1>2 DEF About, Stored
  <1>4. ASSUME NEW p \in Calls, Key(p) = k, answer[p] \in Answers
        PROVE  Busy(p) /\ id[p] = i
    <2>1. pc[p] = "answered"
      BY <1>1, <1>4 DEF Awaited
    <2>2. Asking(p) /\ Op(p) # "create" /\ replay[k].answer = answer[p]
      BY <1>4, UnsettledFollowed DEF Disciplined
    <2>3. id[p] \in Calls /\ repo[id[p]] # NoSubscription /\ repo[id[p]].ref = answer[p].ref
      BY <1>4, <2>1, <2>2, Served
    <2>4. id[p] = i
      BY <1>1, <2>2, <2>3 DEF About, Stored
    <2> QED BY <2>1, <2>4 DEF Busy, Executing
  <1>5. CASE \E p \in Calls : Key(p) = k /\ answer[p] \in Answers
    BY <1>4, <1>5
  <1>6. CASE \A p \in Calls : Key(p) = k => answer[p] \notin Answers
    <2>1. answer[q] = Lost
      BY <1>2, <1>6
    <2>2. ASSUME NEW p \in Calls, answer[p].kind \in {"body", "empty"} PROVE answer[p] \in Answers
      <3>1. NoAnswer.kind \notin {"body", "empty"} /\ Refused.kind \notin {"body", "empty"}
            /\ Lost.kind \notin {"body", "empty"}
        BY DEF NoAnswer, Refused, Lost
      <3> QED BY <2>2, <3>1 DEF Inv, TypeOK
    <2> QED BY <1>2, <1>3, <1>6, <2>1, <2>2 DEF Owed
  <1> QED BY <1>5, <1>6

\* So a call that is executed on an entity is the one whose order is unsettled.
LEMMA UnsettledFirst ==
    ASSUME Inv, Disciplined, Kept, NEW k \in Keys, Unsettled(k),
           NEW r \in Calls, Busy(r), id[r] \in Calls, About(k, id[r])
    PROVE  k = Key(r)
  <1>1. PICK i \in Calls : i = id[r]
    OBVIOUS
  <1>2. k \in Owed(i) \/ \E q \in Calls : Busy(q) /\ Key(q) = k /\ id[q] = i
    BY <1>1, UnsettledOwed
  <1>3. Owed(i) \subseteq {Key(r)}
    BY <1>1 DEF Disciplined, OwedFirst
  <1> QED BY <1>1, <1>2, <1>3 DEF Disciplined, Alone

\* An order that is still unsettled was so before, unless it is just carried out.
LEMMA StillUnsettled ==
    ASSUME Inv, Steps, NEW k \in Keys, Unsettled(k)', replay[k] # Unused
    PROVE  Unsettled(k) /\ replay'[k] = replay[k]
  <1>1. replay'[k] = replay[k] /\ (idem'[k] = NoOutput => idem[k] = NoOutput)
    BY WhatStays
  <1> QED BY <1>1 DEF Unsettled

LEMMA NewlyUnsettled ==
    ASSUME Inv, Disciplined, Kept, Steps, NEW k \in Keys, Unsettled(k)', replay[k] = Unused
    PROVE  \E r \in Calls, ans \in Answers : \E plan : k = Key(r) /\ CarriedOut(r, ans, plan)
  <1>1. replay'[k] # replay[k]
    BY DEF Unsettled
  <1>2. CASE \E r \in Calls, ans \in Answers : \E plan : CarriedOut(r, ans, plan)
    <2>1. PICK r \in Calls, ans \in Answers : \E plan : CarriedOut(r, ans, plan)
      BY <1>2
    <2>2. PICK plan : CarriedOut(r, ans, plan)
      BY <2>1
    <2>3. k = Key(r)
      BY <1>1, <2>2, Carrying
    <2> QED BY <2>2, <2>3
  <1>3. CASE \A r \in Calls, ans \in Answers : \A plan : ~CarriedOut(r, ans, plan)
    <2>1. CASE \E r \in Calls : Finishes(r)
      BY <1>1, <2>1 DEF Finishes
    <2>2. CASE \A r \in Calls : ~Finishes(r)
      BY <1>1, <1>3, <2>2, QuietSteps
    <2> QED BY <2>1, <2>2
  <1> QED BY <1>2, <1>3

\* What is unsettled about an entity stays about it.
LEMMA AboutKept ==
    ASSUME Inv, Disciplined, Kept, Steps, NEW k \in Keys, NEW i \in Calls,
           About(k, i), replay'[k] = replay[k]
    PROVE  About(k, i)'
  <1>1. CASE \E r \in Calls : Finishes(r)
    <2>1. PICK r \in Calls : Finishes(r)
      BY <1>1
    <2>2. \A j \in Calls : repo'[j] = IF j = id[r] THEN Advanced(r) ELSE repo[j]
      BY <2>1 DEF Finishes
    <2>3. /\ Advanced(r) # NoSubscription /\ Advanced(r).ref = answer[r].ref
          /\ Op(r) = "create" => id[r] = r /\ repo[r] = NoSubscription
          /\ Op(r) # "create" => repo[id[r]].ref = answer[r].ref
      BY <2>1, Storing
    <2> QED BY <2>2, <2>3 DEF About
  <1>2. CASE \A r \in Calls : ~Finishes(r)
    <2>1. repo' = repo
      <3>1. ASSUME NEW r \in Calls, NEW ans \in Answers, NEW plan, CarriedOut(r, ans, plan)
            PROVE  repo' = repo
        BY <3>1 DEF CarriedOut
      <3> QED BY <1>2, <3>1, QuietSteps
    <2> QED BY <2>1 DEF About
  <1> QED BY <1>1, <1>2

LEMMA AwaitedKept ==
    ASSUME Inv, Disciplined, Kept, Steps, NEW k \in Keys
    PROVE  Awaited(k)'
  <1> SUFFICES ASSUME Unsettled(k)' PROVE Awaited(k)'
    BY DEF Awaited
  <1>0. Lost # NoAnswer /\ Lost \notin Answers /\ NoAnswer \notin Answers /\ Refused \notin Answers
    BY Kinds DEF Lost, NoAnswer
  <1>1. CASE replay[k] # Unused
    <2>1. Unsettled(k) /\ replay'[k] = replay[k]
      BY <1>1, StillUnsettled
    <2>2. Awaited(k)
      BY DEF Kept
    <2>3. PICK q \in Calls : /\ Key(q) = k /\ id[q] \in Calls /\ About(k, id[q])
                             /\ answer[q] \in Answers \cup {Lost}
      BY <2>1, <2>2 DEF Awaited
    <2>4. pc[q] # "idle" /\ pc[q] # "gateway" /\ answer[q] # NoAnswer
      BY <1>0, <2>3 DEF Disciplined, Asking
    <2>5. req'[q] = req[q] /\ id'[q] = id[q] /\ answer'[q] = answer[q]
      BY <2>4, WhatStays
    <2>6. PICK i \in Calls : i = id[q]
      BY <2>3
    <2>7. About(k, i)'
      BY <2>1, <2>3, <2>6, AboutKept
    <2>8. Key(q)' = k /\ id'[q] \in Calls /\ About(k, id[q])' /\ answer'[q] \in Answers \cup {Lost}
      BY <2>3, <2>5, <2>6, <2>7 DEF Key, About
    <2>9. ASSUME NEW p \in Calls, Key(p)' = k, answer'[p] \in Answers PROVE pc'[p] = "answered"
      <3>1. Asking(p)
        BY DEF Disciplined
      <3>2. CASE answer[p] \in Answers
        <4>1. pc[p] # "idle" /\ pc[p] # "gateway"
          BY <1>0, <3>1, <3>2 DEF Asking
        <4>2. Key(p) = k
          BY <2>9, <4>1, WhatStays DEF Key
        <4>3. pc[p] = "answered"
          BY <2>1, <2>2, <3>2, <4>2 DEF Awaited
        <4>4. answer[p].kind = "body" /\ LegalMove(p)
          BY <2>1, <3>2, <4>2, UnsettledFollowed
        <4>5. ASSUME NEW r \in Calls, Finishes(r) PROVE r # p
          BY <4>2, <4>5 DEF Finishes, Unsettled
        <4>6. ASSUME NEW r \in Calls, Returns(r) PROVE r # p
          BY <4>3, <4>4, <4>6 DEF Returns
        <4>7. ASSUME NEW r \in Calls, NEW ans \in Answers, NEW plan, CarriedOut(r, ans, plan)
              PROVE  pc'[p] = "answered"
          BY <4>3, <4>7 DEF CarriedOut, OthersStay
        <4>8. ASSUME NEW r \in Calls, Arrives(r) \/ Starts(r) \/ Hears(r)
              PROVE  pc'[p] = "answered"
          BY <4>3, <4>8 DEF Arrives, Starts, Hears, OthersStay
        <4>9. ASSUME NEW r \in Calls, r # p, Returns(r) \/ Finishes(r) PROVE pc'[p] = "answered"
          BY <4>3, <4>9 DEF Returns, Finishes, OthersStay
        <4>10. Bills => pc'[p] = "answered"
          BY <4>3 DEF Bills
        <4> QED BY <4>5, <4>6, <4>7, <4>8, <4>9, <4>10 DEF Steps
      <3>3. CASE answer[p] \notin Answers
        <4>1. answer'[p] # answer[p]
          BY <2>9, <3>3
        <4>2. ASSUME NEW r \in Calls, NEW ans \in Answers, NEW plan, CarriedOut(r, ans, plan)
              PROVE  pc'[p] = "answered"
          BY <4>1, <4>2 DEF CarriedOut, OthersStay
        <4>3. ASSUME NEW r \in Calls, Hears(r) PROVE pc'[p] = "answered"
          BY <4>1, <4>3 DEF Hears, OthersStay
        <4>4. ~Bills
          BY <4>1 DEF Bills
        <4>5. ASSUME NEW r \in Calls
              PROVE  ~(Arrives(r) \/ Returns(r) \/ Starts(r) \/ Finishes(r))
          BY <4>1 DEF Arrives, Returns, Starts, Finishes
        <4> QED BY <4>2, <4>3, <4>4, <4>5 DEF Steps
      <3> QED BY <3>2, <3>3
    <2> QED BY <2>8, <2>9 DEF Awaited
  <1>2. CASE replay[k] = Unused
    <2>1. PICK r \in Calls, ans \in Answers : \E plan : k = Key(r) /\ CarriedOut(r, ans, plan)
      BY <1>2, NewlyUnsettled
    <2>2. PICK plan : k = Key(r) /\ CarriedOut(r, ans, plan)
      BY <2>1
    <2>3. /\ id[r] \in Calls /\ replay'[k].order = req[r] /\ replay'[k].answer = ans
          /\ Op(r) # "create" => repo[id[r]] # NoSubscription /\ repo[id[r]].ref = ans.ref
          /\ UNCHANGED <<req, id, repo>>
      BY <2>2, Carrying
    <2>4. answer'[r] \in {ans, Lost} /\ pc'[r] = "answered" /\ OthersStay(r)
      BY <2>2 DEF CarriedOut
    <2>5. Op(r) # "create"
      BY <2>3 DEF Unsettled, Op
    <2>6. About(k, id[r])' /\ Key(r)' = k /\ id'[r] \in Calls
      BY <2>2, <2>3, <2>5 DEF About, Key
    <2>7. ASSUME NEW p \in Calls, Key(p)' = k, answer'[p] \in Answers PROVE pc'[p] = "answered"
      <3>1. CASE p # r
        <4>1. Key(p) = k /\ answer[p] \in Answers
          BY <2>3, <2>4, <2>7, <3>1 DEF OthersStay, Key
        <4>2. Asking(p)
          BY DEF Disciplined
        <4> QED BY <1>2, <4>1, <4>2, Kinds DEF Asking
      <3> QED BY <2>4, <3>1
    <2> QED BY <2>4, <2>6, <2>7 DEF Awaited
  <1> QED BY <1>1, <1>2

\* Nothing unsettled is about a subscription that another call changes.
LEMMA NoneUnsettled ==
    ASSUME Inv, Disciplined, Kept, NEW r \in Calls, NEW ans \in Answers, NEW plan,
           CarriedOut(r, ans, plan), NEW k \in Keys, Unsettled(k)
    PROVE  replay[k].answer.ref # ans.ref
  <1> SUFFICES ASSUME replay[k].answer.ref = ans.ref PROVE FALSE
    OBVIOUS
  <1>1. Logged(k) /\ replay[k] # Unused
    BY DEF Kept, Unsettled
  <1>2. sub[ans.ref].word # "none"
    BY <1>1 DEF Logged
  <1>3. Op(r) # "create"
    BY <1>2, Carrying
  <1>4. id[r] \in Calls /\ About(k, id[r])
    <2>1. id[r] \in Calls /\ repo[id[r]] # NoSubscription /\ repo[id[r]].ref = ans.ref
      BY <1>3, Carrying
    <2> QED BY <2>1 DEF About
  <1>5. Busy(r)
    BY DEF CarriedOut, Busy, Executing
  <1>6. k = Key(r)
    BY <1>4, <1>5, UnsettledFirst
  <1> QED BY <1>1, <1>6, Carrying

LEMMA PlanLeftKept ==
    ASSUME Inv, Disciplined, Kept, Steps, NEW k \in Keys, PlanLeft(k)
    PROVE  PlanLeft(k)'
  <1> SUFFICES ASSUME Unsettled(k)', replay'[k].order.op = "switch"
               PROVE  replay'[k].order.plan = sub'[replay'[k].answer.ref].plan
    BY DEF PlanLeft
  <1>1. CASE replay[k] # Unused
    <2>1. Unsettled(k) /\ replay'[k] = replay[k] /\ Logged(k)
      BY <1>1, StillUnsettled DEF Kept
    <2>2. PICK c \in Calls : c = replay[k].answer.ref
      BY <1>1, <2>1 DEF Logged
    <2>3. sub'[c].plan = sub[c].plan
      <3>1. ASSUME NEW r \in Calls, NEW ans \in Answers, NEW plan, CarriedOut(r, ans, plan)
            PROVE  sub'[c].plan = sub[c].plan
        <4>1. c # ans.ref
          BY <2>1, <2>2, <3>1, NoneUnsettled
        <4> QED BY <3>1, <4>1, Carrying
      <3>2. ASSUME NEW r \in Calls, Finishes(r) PROVE sub' = sub
        BY <3>2 DEF Finishes
      <3> QED BY <3>1, <3>2, QuietSteps
    <2> QED BY <2>1, <2>2, <2>3 DEF PlanLeft
  <1>2. CASE replay[k] = Unused
    <2>1. PICK r \in Calls, ans \in Answers : \E plan : k = Key(r) /\ CarriedOut(r, ans, plan)
      BY <1>2, NewlyUnsettled
    <2>2. PICK plan : k = Key(r) /\ CarriedOut(r, ans, plan)
      BY <2>1
    <2>3. /\ replay'[k].order = req[r] /\ replay'[k].answer = ans
          /\ sub'[ans.ref].plan = plan
          /\ plan = IF Op(r) = "cancel" THEN sub[ans.ref].plan ELSE req[r].plan
      BY <2>2, Carrying
    <2> QED BY <2>3 DEF Op
  <1> QED BY <1>1, <1>2

LEMMA PlanKnownKept ==
    ASSUME Inv, Disciplined, Kept, (\A k \in Keys : PlanLeft(k)), Steps,
           NEW i \in Calls, PlanKnown(i)
    PROVE  PlanKnown(i)'
  <1> SUFFICES ASSUME repo'[i] # NoSubscription, repo'[i].plan # sub'[repo'[i].ref].plan
               PROVE  (\E k \in Keys : Unsettled(k) /\ About(k, i) /\ replay[k].order.op = "switch")'
    BY DEF PlanKnown
  <1>0. \A j \in Calls : Stored(j)
    BY DEF Kept
  \* A reason that was there before is still there.
  <1>1. ASSUME repo[i] # NoSubscription, repo[i].plan # sub[repo[i].ref].plan,
               \A r \in Calls : Finishes(r) => i # id[r]
        PROVE  (\E k \in Keys : Unsettled(k) /\ About(k, i) /\ replay[k].order.op = "switch")'
    <2>1. PICK k \in Keys : Unsettled(k) /\ About(k, i) /\ replay[k].order.op = "switch"
      BY <1>1 DEF PlanKnown
    <2>2. replay'[k] = replay[k] /\ replay[k] # Unused
      BY <2>1, WhatStays DEF Unsettled
    <2>3. About(k, i)'
      BY <2>1, <2>2, AboutKept
    <2>4. idem'[k] = NoOutput
      <3>1. ASSUME NEW r \in Calls, Finishes(r) PROVE idem'[k] = idem[k]
        <4>1. ASSUME k = Key(r) PROVE FALSE
          <5>1. replay[k].order = req[r] /\ replay[k].answer = answer[r]
            BY <3>1, <4>1, Storing
          <5>2. Op(r) # "create"
            BY <2>1, <5>1 DEF Op
          <5>3. id[r] \in Calls /\ repo[id[r]].ref = answer[r].ref
            BY <3>1, <5>2, Storing
          <5>4. i = id[r]
            BY <1>0, <2>1, <5>1, <5>3 DEF Stored, About
          <5> QED BY <1>1, <3>1, <5>4
        <4> QED BY <3>1, <4>1 DEF Finishes
      <3>2. ASSUME NEW r \in Calls, NEW ans \in Answers, NEW plan, CarriedOut(r, ans, plan)
            PROVE  idem' = idem
        BY <3>2 DEF CarriedOut
      <3>3. idem'[k] = idem[k]
        BY <3>1, <3>2, QuietSteps
      <3> QED BY <2>1, <3>3 DEF Unsettled
    <2>5. Unsettled(k)'
      BY <2>1, <2>2, <2>4 DEF Unsettled
    <2>6. replay'[k].order.op = "switch"
      BY <2>1, <2>2
    <2> QED BY <2>3, <2>5, <2>6
  <1>2. ASSUME NEW r \in Calls, Finishes(r), i = id[r] PROVE FALSE
    <2>1. repo'[i] = Advanced(r) /\ sub' = sub
      BY <1>2 DEF Finishes
    <2>2. PICK c \in Calls : c = answer[r].ref
      BY <1>2, Storing
    <2>3. /\ Advanced(r).ref = c /\ Key(r) \in Keys /\ idem[Key(r)] = NoOutput
          /\ replay[Key(r)] # Unused /\ replay[Key(r)].order = req[r]
          /\ replay[Key(r)].answer.ref = c
          /\ Op(r) \in Operations
          /\ Advanced(r).plan = IF Op(r) = "cancel" THEN repo[i].plan ELSE req[r].plan
          /\ Op(r) # "create" => repo[i] # NoSubscription /\ repo[i].ref = c
      BY <1>2, <2>2, Storing
    <2>4. Advanced(r).plan # sub[c].plan
      BY <2>1, <2>3
    <2>5. CASE Op(r) = "create"
      BY <2>3, <2>4, <2>5 DEF Kept, Logged, Op
    <2>6. CASE Op(r) = "switch"
      <3>1. Unsettled(Key(r))
        BY <2>3, <2>6 DEF Unsettled, Op
      <3> QED BY <2>3, <2>4, <2>6, <3>1 DEF PlanLeft, Op
    <2>7. CASE Op(r) = "cancel"
      <3>1. PICK k \in Keys : Unsettled(k) /\ About(k, i) /\ replay[k].order.op = "switch"
        BY <2>3, <2>4, <2>7 DEF PlanKnown
      <3>2. Busy(r)
        BY <1>2 DEF Finishes, Busy, Executing
      <3>3. k = Key(r)
        BY <1>2, <3>1, <3>2, UnsettledFirst
      <3> QED BY <2>3, <2>7, <3>1, <3>3 DEF Op
    <2> QED BY <2>3, <2>5, <2>6, <2>7 DEF Operations
  <1>3. CASE \E r \in Calls : Finishes(r)
    <2>1. PICK r \in Calls : Finishes(r)
      BY <1>3
    <2>2. i # id[r]
      BY <1>2, <2>1
    <2>3. repo'[i] = repo[i] /\ sub' = sub
      BY <2>1, <2>2 DEF Finishes
    <2> QED BY <1>1, <1>2, <2>3
  <1>4. CASE \E r \in Calls, ans \in Answers : \E plan : CarriedOut(r, ans, plan)
    <2>1. PICK r \in Calls, ans \in Answers : \E plan : CarriedOut(r, ans, plan)
      BY <1>4
    <2>2. PICK plan : CarriedOut(r, ans, plan)
      BY <2>1
    <2>3. repo' = repo
      BY <2>2 DEF CarriedOut
    <2>4. PICK c \in Calls : c = repo[i].ref
      BY <1>0, <2>3 DEF Stored
    <2>5. CASE c # ans.ref \/ Op(r) # "switch"
      <3>1. Op(r) = "create" => c # ans.ref
        <4>1. sub[c].word # "none"
          BY <1>0, <2>3, <2>4 DEF Stored
        <4> QED BY <2>2, <4>1, Carrying
      <3>2. sub'[c].plan = sub[c].plan
        BY <2>2, <2>5, <3>1, Carrying DEF Operations
      <3> QED BY <1>1, <1>2, <2>3, <2>4, <3>2
    <2>6. CASE c = ans.ref /\ Op(r) = "switch"
      <3>1. /\ Key(r) \in Keys /\ replay'[Key(r)] # Unused
            /\ replay'[Key(r)].order = req[r] /\ replay'[Key(r)].answer = ans
            /\ idem[Key(r)] = NoOutput /\ UNCHANGED <<idem, repo>>
        BY <2>2, Carrying
      <3>2. PICK k \in Keys : k = Key(r)
        BY <3>1
      <3>3. replay'[k].order.op = "switch"
        BY <2>6, <3>1, <3>2 DEF Op
      <3>4. Unsettled(k)'
        BY <3>1, <3>2, <3>3 DEF Unsettled
      <3>5. About(k, i)'
        BY <2>3, <2>4, <2>6, <3>1, <3>2 DEF About
      <3> QED BY <3>3, <3>4, <3>5
    <2> QED BY <2>5, <2>6
  <1>5. CASE /\ \A r \in Calls : ~Finishes(r)
             /\ \A r \in Calls, ans \in Answers : \A plan : ~CarriedOut(r, ans, plan)
    <2>1. repo' = repo /\ \A c \in Calls : sub'[c].plan = sub[c].plan
      BY <1>5, QuietSteps
    <2>2. repo[i].ref \in Calls
      BY <1>0, <2>1 DEF Stored
    <2> QED BY <1>1, <1>5, <2>1, <2>2
  <1> QED BY <1>3, <1>4, <1>5

\* A switch is carried out on what has not ended, so its entity is not canceled
\* either; and while it is unsettled nobody else changes that entity.
LEMMA NotOverKept ==
    ASSUME Inv, Disciplined, Kept, Translated => TruthInv, Steps, NEW i \in Calls, NotOver(i)
    PROVE  NotOver(i)'
  <1> SUFFICES ASSUME Translated, NEW k \in Keys, Unsettled(k)', About(k, i)'
               PROVE  repo'[i].status # "canceled"
    BY DEF NotOver, Translated
  <1>1. CASE replay[k] # Unused
    <2>1. Unsettled(k) /\ replay'[k] = replay[k]
      BY <1>1, StillUnsettled
    <2>2. ASSUME repo'[i] = repo[i] PROVE repo'[i].status # "canceled"
      BY <2>1, <2>2 DEF NotOver, About
    <2>3. ASSUME NEW r \in Calls, Finishes(r) PROVE repo'[i] = repo[i]
      <3>1. \A j \in Calls : repo'[j] = IF j = id[r] THEN Advanced(r) ELSE repo[j]
        BY <2>3 DEF Finishes
      <3>2. ASSUME i = id[r] PROVE FALSE
        <4>1. k # Key(r)
          BY <2>3 DEF Finishes, Unsettled
        <4>2. PICK c \in Calls : c = answer[r].ref
          BY <2>3, Storing
        <4>3. replay[k].answer.ref = c
          BY <2>1, <2>3, <3>1, <3>2, <4>2, Storing DEF About
        <4>4. CASE Op(r) = "create"
          <5>1. Logged(Key(r)) /\ Awaited(k) /\ idem[Key(r)] = NoOutput
            BY <2>3, Storing DEF Kept
          <5>2. Key(c) = Key(r)
            <6>1. replay[Key(r)] # Unused /\ replay[Key(r)].order = req[r]
                  /\ replay[Key(r)].answer.ref = c
              BY <2>3, <4>2, Storing
            <6> QED BY <4>4, <5>1, <6>1 DEF Logged, Op
          <5>3. PICK q \in Calls : id[q] \in Calls /\ About(k, id[q])
            BY <2>1, <5>1 DEF Awaited
          <5>4. idem[Key(c)] # NoOutput
            BY <4>3, <5>3 DEF About, Kept, Stored
          <5> QED BY <5>1, <5>2, <5>4
        <4>5. CASE Op(r) # "create"
          <5>1. About(k, id[r]) /\ id[r] \in Calls
            BY <2>3, <4>2, <4>3, <4>5, Storing DEF About
          <5>2. Busy(r)
            BY <2>3 DEF Finishes, Busy, Executing
          <5> QED BY <2>1, <4>1, <5>1, <5>2, UnsettledFirst
        <4> QED BY <4>4, <4>5
      <3> QED BY <3>1, <3>2
    <2>4. ASSUME NEW r \in Calls, NEW ans \in Answers, NEW plan, CarriedOut(r, ans, plan)
          PROVE  repo' = repo
      BY <2>4 DEF CarriedOut
    <2>5. repo'[i] = repo[i]
      BY <2>3, <2>4, QuietSteps
    <2> QED BY <2>2, <2>5
  <1>2. CASE replay[k] = Unused
    <2>1. PICK r \in Calls, ans \in Answers : \E plan : k = Key(r) /\ CarriedOut(r, ans, plan)
      BY <1>2, NewlyUnsettled
    <2>2. PICK plan : k = Key(r) /\ CarriedOut(r, ans, plan)
      BY <2>1
    <2>3. /\ replay'[k].order = req[r] /\ replay'[k].answer = ans
          /\ Op(r) # "create" => sub[ans.ref].word # "canceled"
          /\ repo' = repo
      BY <2>2, Carrying
    <2>4. Op(r) # "create" /\ repo[i].ref = ans.ref
      BY <2>3 DEF Unsettled, About, Op
    <2> QED BY <2>3, <2>4 DEF TruthInv, Ended
  <1> QED BY <1>1, <1>2

\* Both mappers know the end.
LEMMA CanceledMapsToCanceled == SubscriptionStatusOf[Gateway]["canceled"] = "canceled"
  <1>1. "canceled" \in DOMAIN SubscriptionStatusOf[Gateway]
    BY Parameters
  <1>2. CASE Gateway = "stripe"
    BY <1>1, <1>2 DEF SubscriptionStatusOf, StripeSubscriptionStatus
  <1>3. CASE Gateway = "onvopay"
    BY <1>1, <1>3 DEF SubscriptionStatusOf, OnvoSubscriptionStatus
  <1> QED BY <1>2, <1>3, Parameters DEF Gateways

LEMMA PatientInitially == Init => PatientInv
  <1> SUFFICES ASSUME Init PROVE PatientInv
    OBVIOUS
  <1>1. Alone /\ OwedFirst
    BY DEF Init, Alone, OwedFirst, Busy, Executing
  <1>2. NoAnswer \notin Answers
    BY DEF NoAnswer, Answers
  <1>3. \A r \in Calls : Asking(r)
    BY <1>2 DEF Init, Asking
  <1>4. \A i \in Calls : Stored(i) /\ PlanKnown(i)
    BY DEF Init, Stored, PlanKnown
  <1>5. \A k \in Keys : Logged(k) /\ ~Unsettled(k)
    BY DEF Init, Logged, Unsettled
  <1> QED BY <1>1, <1>3, <1>4, <1>5
          DEF PatientInv, Disciplined, Kept, Followed, Awaited, PlanLeft, NotOver

LEMMA PatientStep ==
    Inv /\ (Translated => TruthInv) /\ PatientInv /\ [Next]_vars => PatientInv'
  <1> SUFFICES ASSUME Inv, Translated => TruthInv, PatientInv, [Next]_vars, patient
               PROVE  (Disciplined /\ Kept /\ Followed)'
    BY StepKinds DEF PatientInv
  <1>1. Steps /\ Disciplined /\ Kept /\ Followed
    BY StepKinds DEF PatientInv
  <1>2. Alone' /\ OwedFirst'
    BY <1>1, AloneKept, OwedFirstKept DEF Disciplined
  <1>3. \A r \in Calls : Asking(r)'
    BY <1>1, AskingKept
  <1>4. \A i \in Calls : Stored(i)'
    BY <1>1, StoredKept
  <1>5. \A k \in Keys : Logged(k)' /\ Awaited(k)'
    BY <1>1, LoggedKept, AwaitedKept
  <1>6. \A k \in Keys : PlanLeft(k)'
    BY <1>1, PlanLeftKept DEF Followed
  <1>7. \A i \in Calls : PlanKnown(i)' /\ NotOver(i)'
    BY <1>1, PlanKnownKept, NotOverKept DEF Followed
  <1> QED BY <1>2, <1>3, <1>4, <1>5, <1>6, <1>7 DEF Disciplined, Kept, Followed

\* Patient callers that are owed no answer find stored the plan the gateway
\* bills, whatever answers got lost and however switches and cancellations
\* follow each other (subscription.ts:168-171, 249).
THEOREM PlanTracked == Spec => []PlanTracksGateway
  <1> DEFINE Truth == Translated => TruthInv
  <1>1. Init => Inv /\ Truth /\ PatientInv
    BY InvInitially, TruthInitially, PatientInitially
  <1>2. Inv /\ Truth /\ PatientInv /\ [Next]_vars => (Inv /\ Truth /\ PatientInv)'
    BY InvStep, TruthStep, PatientStep DEF Translated
  <1>3. Inv /\ PatientInv => PlanTracksGateway
    <2> SUFFICES ASSUME Inv, PatientInv, patient, NEW i \in Calls, repo[i] # NoSubscription,
                        Owed(i) = {}, \A q \in Calls : pc[q] \in Executing => id[q] # i,
                        repo[i].plan # sub[repo[i].ref].plan
                 PROVE  FALSE
      BY DEF PlanTracksGateway
    <2>1. Disciplined /\ Kept /\ PlanKnown(i)
      BY DEF PatientInv, Followed
    <2>2. PICK k \in Keys : Unsettled(k) /\ About(k, i)
      BY <2>1 DEF PlanKnown
    <2> QED BY <2>1, <2>2, UnsettledOwed DEF Busy
  <1> HIDE DEF Truth
  <1> QED BY <1>1, <1>2, <1>3, PTL DEF Spec

\* With OnvoPay's adapter, and with Stripe's unless subscriptions are paused,
\* patient callers never see a canceled subscription revived, although a switch
\* assigns whatever status was answered, possibly long ago (subscription.ts:249).
THEOREM CancellationStays == Translated => (Spec => CanceledStays)
  <1> SUFFICES ASSUME Translated PROVE Spec => CanceledStays
    OBVIOUS
  <1>1. Init => Inv /\ TruthInv /\ PatientInv
    BY InvInitially, TruthInitially, PatientInitially
  <1>2. Inv /\ TruthInv /\ PatientInv /\ [Next]_vars => (Inv /\ TruthInv /\ PatientInv)'
    BY InvStep, TruthStep, PatientStep
  <1>3. ASSUME Inv, TruthInv, PatientInv, [Next]_vars, patient, NEW i \in Calls,
               repo[i].status = "canceled"
        PROVE  repo'[i].status = "canceled"
    <2>1. Steps /\ Disciplined /\ Kept /\ NotOver(i)
      BY <1>3, StepKinds DEF PatientInv, Followed
    <2>2. ASSUME NEW r \in Calls, Finishes(r) PROVE repo'[i].status = "canceled"
      <3>1. CASE i = id[r]
        <4>1. repo'[i] = Advanced(r) /\ LegalMove(r)
          BY <2>2, <3>1 DEF Finishes
        <4>2. /\ Advanced(r).status = Status(r) /\ Key(r) \in Keys /\ idem[Key(r)] = NoOutput
              /\ replay[Key(r)] # Unused /\ replay[Key(r)].order = req[r]
              /\ replay[Key(r)].answer = answer[r] /\ answer[r] \in Answers
              /\ Op(r) \in Operations
              /\ Op(r) = "create" => repo[i] = NoSubscription
              /\ Op(r) # "create" => repo[i] # NoSubscription /\ repo[i].ref = answer[r].ref
          BY <1>3, <2>1, <2>2, <3>1, Storing
        <4>3. Op(r) # "create"
          BY <1>3, <4>2 DEF NoSubscription
        <4>4. About(Key(r), i)
          BY <4>2, <4>3 DEF About
        <4>5. ~Unsettled(Key(r))
          BY <1>3, <2>1, <4>2, <4>4 DEF NotOver
        <4>6. Op(r) = "cancel" /\ answer[r].word = "canceled"
          BY <4>2, <4>3, <4>5 DEF Unsettled, Operations, Op
        <4>7. Status(r) = "canceled"
          BY <4>6, CanceledMapsToCanceled DEF Status
        <4> QED BY <4>1, <4>2, <4>7
      <3>2. CASE i # id[r]
        BY <1>3, <2>2, <3>2 DEF Finishes
      <3> QED BY <3>1, <3>2
    <2>3. ASSUME NEW r \in Calls, NEW ans \in Answers, NEW plan, CarriedOut(r, ans, plan)
          PROVE  repo' = repo
      BY <2>3 DEF CarriedOut
    <2> QED BY <1>3, <2>1, <2>2, <2>3, QuietSteps
  <1>4. Inv /\ TruthInv /\ PatientInv /\ [Next]_vars =>
           [patient => \A i \in Calls :
               repo[i].status = "canceled" => repo'[i].status = "canceled"]_repo
    BY <1>3
  <1> QED BY <1>1, <1>2, <1>4, PTL DEF Spec, CanceledStays
===============================================================================
