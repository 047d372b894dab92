---------------------------- MODULE OneShotProofs -----------------------------
(***************************************************************************)
(* Proofs about OneShot, for every set of calls, keys and orders and any   *)
(* number of crashes.                                                      *)
(***************************************************************************)
EXTENDS OneShot, TLAPS

\* What is stored, cached and told under a key is what the gateway recorded
\* under it, in the words of the use cases.
Recalled(k) ==
    [op |-> replay[k].op, key |-> k, ref |-> replay[k].answer.ref,
     status |-> IF replay[k].op \notin Creations THEN "absent"
                ELSE IF replay[k].op \in Donations THEN "pending" ELSE replay[k].answer.word]

\* What a call holds at each point of its handler; what it may open, it opens
\* once.
CallHolds(r) ==
    /\ pc[r] # "idle" => req[r] \in Offered /\ (Op(r) \in Managed => about[r] \in Calls)
    /\ pc[r] \in {"idle", "arrived", "gateway"} => thing[r] = "none"
    /\ pc[r] = "answered" /\ answer[r] \in Answers =>
          /\ replay[Key(r)].op = Op(r)
          /\ replay[Key(r)].answer = answer[r]
    /\ reply[r].kind = "ok" =>
          /\ pc[r] = "done"
          /\ replay[Key(r)] # Unused
          /\ reply[r].out = Recalled(Key(r))
    /\ reply[r].kind # "ok" => reply[r].out = NoRecord

\* The words that no step takes back.
Ends == {"paid", "succeeded", "failed", "cancelled"}

\* A record of the gateway's tells what it did and, of what has ended, how.
RecordHolds(k) == replay[k] # Unused =>
    /\ replay[k].op \in Operations
    /\ replay[k].answer \in Answers
    /\ replay[k].op \in Creations => replay[k].answer.word \in FirstWords[replay[k].op]
    /\ replay[k].op = "pause"     => replay[k].answer.word = "paused"
    /\ replay[k].op = "cancel"    => replay[k].answer.word = "cancelled"
    /\ replay[k].answer.word \in Ends => thing[replay[k].answer.ref] = replay[k].answer.word

\* Of what exists at the gateway the opening is recorded.
OpeningHolds(c) == thing[c] # "none" =>
    req[c] \in Offered /\ replay[Key(c)].answer.ref = c

CacheHolds(k) == idem[k] # NoRecord => replay[k] # Unused /\ idem[k] = Recalled(k)

\* A stored record has its output in the cache.
StoreHolds(i) == repo[i] # NoRecord =>
    /\ repo[i].key \in Keys
    /\ idem[repo[i].key] # NoRecord
    /\ repo[i] = Recalled(repo[i].key)

\* Callers that wait have one call at a time under a key, and it is asked of the
\* gateway only when nothing is cached.
Alone == patient => \A r \in Calls :
    /\ pc[r] \in {"gateway", "answered"} => idem[Key(r)] = NoRecord
    /\ pc[r] \in Executing => \A q \in Calls : pc[q] \in Executing /\ Key(q) = Key(r) => q = r

\* ... and so a key has one record.
Single == patient => \A i, j \in Calls :
    repo[i] # NoRecord /\ repo[j] # NoRecord /\ repo[i].key = repo[j].key => i = j

Inv ==
    /\ TypeOK
    /\ \A r \in Calls : CallHolds(r)
    /\ \A k \in Keys  : RecordHolds(k)
    /\ \A c \in Calls : OpeningHolds(c)
    /\ \A k \in Keys  : CacheHolds(k)
    /\ \A i \in Calls : StoreHolds(i)
    /\ Alone /\ Single

-------------------------------------------------------------------------------
(* Helpers.                                                                  *)

\* An order that was accepted is one.
LEMMA OrderTypes ==
    ASSUME NEW r \in Calls, req[r] \in Offered
    PROVE  req[r] \in Orders /\ Op(r) \in Operations /\ Key(r) \in Keys
  BY Parameters DEF Op, Key, Orders

\* What is recalled of a record is an output.
LEMMA RecalledTypes ==
    ASSUME NEW k \in Keys, RecordHolds(k), replay[k] # Unused
    PROVE  /\ Recalled(k) \in Outputs
           /\ Recalled(k).op \in Creations => Recalled(k) \in Records
  <1>1. replay[k].op \in Operations /\ replay[k].answer.ref \in Calls
    BY DEF RecordHolds, Answers
  <1>2. CASE replay[k].op \in Donations
    BY <1>1, <1>2 DEF Recalled, Outputs, Records, Creations, Donations, Managed, Statuses, PayoutStatus
  <1>3. CASE replay[k].op = "payout"
    <2>1. replay[k].answer.word \in PayoutStatus
      BY <1>3 DEF RecordHolds, FirstWords, Creations
    <2> QED BY <1>1, <1>3, <2>1 DEF Recalled, Outputs, Records, Creations, Donations, Statuses
  <1>4. CASE replay[k].op = "agentic"
    <2>1. replay[k].answer.word \in PaymentIntentStatus
      BY <1>4 DEF RecordHolds, FirstWords, Creations, PaymentIntentStatus
    <2> QED BY <1>1, <1>4, <2>1 DEF Recalled, Outputs, Records, Creations, Donations, Statuses
  <1>5. CASE replay[k].op \in Managed
    BY <1>1, <1>5 DEF Recalled, Outputs, Creations, Managed
  <1> QED BY <1>1, <1>2, <1>3, <1>4, <1>5 DEF Operations, Creations, Donations

\* What the three ways to execute a request come to.
LEMMA Executes ==
    ASSUME Inv, NEW r \in Calls, GatewayCreates(r) \/ GatewayPauses(r) \/ GatewayCancels(r)
    PROVE  \E word \in Words \ {"none"} :
              /\ Executed(r, word)
              /\ Subject(r) \in Calls
              /\ thing[Subject(r)] \in Ends => thing[Subject(r)] = word
              /\ Op(r) \in Creations => Subject(r) = r /\ word \in FirstWords[Op(r)]
              /\ Op(r) = "pause"  => word = "paused"
              /\ Op(r) = "cancel" => word = "cancelled"
              /\ Subject(r) # r => thing[Subject(r)] # "none"
  <1>1. pc[r] = "gateway" /\ CallHolds(r)
    BY DEF Inv, GatewayCreates, GatewayPauses, GatewayCancels, Executed
  <1>2. /\ Op(r) \in Managed => about[r] \in Calls
        /\ thing[r] = "none"
    BY <1>1 DEF CallHolds
  <1>3. CASE GatewayCreates(r)
    <2>1. PICK word \in FirstWords[Op(r)] : Executed(r, word)
      BY <1>3 DEF GatewayCreates
    <2>2. Op(r) \in Creations /\ Subject(r) = r
      BY <1>3 DEF GatewayCreates, Subject
    <2>3. word \in Words \ {"none"}
      BY <2>1, <2>2 DEF Creations, FirstWords, PayoutStatus, Words
    <2>4. Op(r) \notin {"pause", "cancel"}
      BY <2>2 DEF Creations
    <2> QED BY <1>2, <2>1, <2>2, <2>3, <2>4 DEF Ends
  <1>4. CASE GatewayPauses(r)
    <2>1. /\ Op(r) = "pause" /\ Subject(r) = about[r] /\ about[r] \in Calls
          /\ thing[about[r]] \in {"active", "paused"} /\ Executed(r, "paused")
      BY <1>2, <1>4 DEF GatewayPauses, Subject, Creations, Managed
    <2> QED BY <2>1 DEF Ends, Words, Creations
  <1>5. CASE GatewayCancels(r)
    <2>1. /\ Op(r) = "cancel" /\ Subject(r) = about[r] /\ about[r] \in Calls
          /\ thing[about[r]] \in {"active", "paused", "cancelled"} /\ Executed(r, "cancelled")
      BY <1>2, <1>5 DEF GatewayCancels, Subject, Creations, Managed
    <2> QED BY <2>1 DEF Ends, Words, Creations
  <1> QED BY <1>3, <1>4, <1>5

\* A request that is executed is recorded under the caller's key, which was not
\* used before.
LEMMA ExecutedRecords ==
    ASSUME Inv, NEW r \in Calls, NEW word, Executed(r, word)
    PROVE  LET ans == [kind |-> "body", word |-> word, ref |-> Subject(r)] IN
           /\ pc[r] = "gateway" /\ req[r] \in Offered /\ Key(r) \in Keys /\ Op(r) \in Operations
           /\ replay[Key(r)] = Unused
           /\ replay' = [replay EXCEPT ![Key(r)] = [op |-> Op(r), answer |-> ans]]
           /\ thing' = [thing EXCEPT ![Subject(r)] = word]
           /\ answer' \in {[answer EXCEPT ![r] = ans], [answer EXCEPT ![r] = Lost]}
           /\ pc' = [pc EXCEPT ![r] = "answered"]
           /\ UNCHANGED <<patient, crashes, req, about, reply, repo, idem>>
  <1>1. pc[r] = "gateway" /\ req[r] \in Offered
    BY DEF Inv, CallHolds, Executed
  <1>2. Key(r) \in Keys /\ Op(r) \in Operations
    BY <1>1, OrderTypes
  <1>3. replay[Key(r)] = Unused
    BY <1>2 DEF Executed, SeenBefore, PortKey
  <1>4. replay = [k \in Keys |-> replay[k]]
    BY DEF Inv, TypeOK
  <1>5. replay' = [replay EXCEPT ![Key(r)] = [op |-> Op(r),
                       answer |-> [kind |-> "body", word |-> word, ref |-> Subject(r)]]]
    BY <1>2, <1>4 DEF Executed, PortKey
  <1> QED BY <1>1, <1>2, <1>3, <1>5 DEF Executed, Answered, storeVars

\* A call that returns an error, or what is recalled under its key.
LEMMA ReturnKeepsInv ==
    ASSUME Inv, NEW r \in Calls, pc[r] \in Executing, NEW rep,
           \/ rep = ErrorReply
           \/ rep = OkReply(Recalled(Key(r))) /\ Key(r) \in Keys /\ replay[Key(r)] # Unused,
           Return(r, rep),
           UNCHANGED <<patient, crashes, req, about, answer, storeVars, gatewayVars>>
    PROVE  Inv'
  <1>1. UNCHANGED <<patient, crashes, req, about, answer, repo, idem, thing, replay>>
    BY DEF storeVars, gatewayVars
  <1>2. rep \in [kind : {"none", "error", "ok"}, out : Outputs \cup {NoRecord}]
    BY RecalledTypes DEF Inv, ErrorReply, OkReply
  <1>3. pc' = [pc EXCEPT ![r] = "done"] /\ reply' = [reply EXCEPT ![r] = rep]
    BY DEF Return
  <1>4. TypeOK'
    BY <1>1, <1>2, <1>3 DEF Inv, TypeOK
  <1>5. ASSUME NEW q \in Calls PROVE CallHolds(q)'
    <2>1. CallHolds(q)
      BY DEF Inv
    <2>2. CASE q = r
      <3>1. pc'[q] = "done" /\ reply'[q] = rep
        BY <1>3, <2>2 DEF Inv, TypeOK
      <3>2. pc[q] # "idle"
        BY <2>2 DEF Executing
      <3>3. CASE rep = ErrorReply
        BY <1>1, <2>1, <3>1, <3>2, <3>3 DEF CallHolds, Op, ErrorReply
      <3>4. CASE rep # ErrorReply
        <4>1. /\ rep = OkReply(Recalled(Key(r))) /\ replay[Key(r)] # Unused
              /\ Recalled(Key(r))' = Recalled(Key(r))
          BY <1>1, <3>4 DEF Recalled, Key
        <4> QED BY <1>1, <2>1, <2>2, <3>1, <3>2, <4>1 DEF CallHolds, Op, Key, OkReply
      <3> QED BY <3>3, <3>4
    <2>3. CASE q # r
      <3>1. pc'[q] = pc[q] /\ reply'[q] = reply[q]
        BY <1>3, <2>3 DEF Inv, TypeOK
      <3> QED BY <1>1, <2>1, <3>1 DEF CallHolds, Op, Key, Recalled
    <2> QED BY <2>2, <2>3
  <1>6. \A k \in Keys : RecordHolds(k)'
    BY <1>1 DEF Inv, RecordHolds
  <1>7. \A c \in Calls : OpeningHolds(c)'
    BY <1>1 DEF Inv, OpeningHolds, Key
  <1>8. \A k \in Keys : CacheHolds(k)'
    BY <1>1 DEF Inv, CacheHolds, Recalled
  <1>9. \A i \in Calls : StoreHolds(i)'
    BY <1>1 DEF Inv, StoreHolds, Recalled
  <1>10. \A q \in Calls : pc'[q] \in Executing => pc'[q] = pc[q]
    BY <1>3 DEF Inv, TypeOK, Executing
  <1>11. Alone'
    BY <1>1, <1>10 DEF Inv, Alone, Key, Executing
  <1>12. Single'
    BY <1>1 DEF Inv, Single
  <1> QED BY <1>4, <1>5, <1>6, <1>7, <1>8, <1>9, <1>11, <1>12 DEF Inv

\* The process ends: callers that were answered keep what they were told.
LEMMA ExitKeepsInv ==
    ASSUME Inv, ProcessExits, crashes' \in 0 .. MaxCrashes PROVE Inv'
  <1>1. UNCHANGED <<patient, req, about, answer, reply, thing, replay>>
    BY DEF ProcessExits, gatewayVars
  <1>2. /\ \A q \in Calls : pc'[q] = IF pc[q] \in Executing THEN "dropped" ELSE pc[q]
        /\ repo' = [i \in Calls |-> NoRecord] /\ idem' = [k \in Keys |-> NoRecord]
    BY DEF ProcessExits
  <1>3. TypeOK'
    BY <1>1, <1>2 DEF Inv, TypeOK, ProcessExits
  <1>4. ASSUME NEW q \in Calls PROVE CallHolds(q)'
    <2>1. CallHolds(q)
      BY DEF Inv
    <2>2. pc'[q] = pc[q] \/ (pc[q] \in Executing /\ pc'[q] = "dropped")
      BY <1>2
    <2> QED BY <1>1, <2>1, <2>2 DEF CallHolds, Op, Key, Recalled, Executing
  <1>5. \A k \in Keys : RecordHolds(k)'
    BY <1>1 DEF Inv, RecordHolds
  <1>6. \A c \in Calls : OpeningHolds(c)'
    BY <1>1 DEF Inv, OpeningHolds, Key
  <1>7. (\A k \in Keys : CacheHolds(k)') /\ (\A i \in Calls : StoreHolds(i)')
    BY <1>2 DEF CacheHolds, StoreHolds
  <1>8. Alone' /\ Single'
    BY <1>1, <1>2 DEF Inv, Alone, Single, Executing
  <1> QED BY <1>3, <1>4, <1>5, <1>6, <1>7, <1>8 DEF Inv

\* A call is answered at the gateway with what is recorded under its key, or
\* with an error.
LEMMA AnswerKeepsCalls ==
    ASSUME Inv, NEW r \in Calls, pc[r] = "gateway",
           NEW ans \in Answers \cup {Refused, Lost},
           ans \in Answers => replay'[Key(r)].op = Op(r) /\ replay'[Key(r)].answer = ans,
           answer' = [answer EXCEPT ![r] = ans],
           pc' = [pc EXCEPT ![r] = "answered"],
           UNCHANGED <<patient, crashes, req, about, reply, repo, idem>>,
           \A k \in Keys : replay[k] # Unused => replay'[k] = replay[k],
           \A c \in Calls : c # r /\ thing[c] = "none" => thing'[c] = "none"
    PROVE  /\ \A q \in Calls : CallHolds(q)'
           /\ \A k \in Keys  : CacheHolds(k)'
           /\ \A i \in Calls : StoreHolds(i)'
           /\ Alone' /\ Single'
  <1>1. \A k \in Keys : replay[k] # Unused => replay'[k] = replay[k] /\ Recalled(k)' = Recalled(k)
    BY DEF Recalled
  <1>2. ASSUME NEW q \in Calls PROVE CallHolds(q)'
    <2>1. CallHolds(q) /\ Op(q)' = Op(q) /\ Key(q)' = Key(q)
      BY DEF Inv, Op, Key
    <2>2. CASE q = r
      <3>1. pc'[q] = "answered" /\ answer'[q] = ans /\ reply'[q] = reply[q]
        BY <2>2 DEF Inv, TypeOK
      <3> QED BY <2>1, <2>2, <3>1 DEF CallHolds
    <2>3. CASE q # r
      <3>1. pc'[q] = pc[q] /\ answer'[q] = answer[q] /\ reply'[q] = reply[q]
        BY <2>3 DEF Inv, TypeOK
      <3>2. pc[q] = "answered" /\ answer[q] \in Answers => replay[Key(q)] # Unused
        BY <2>1 DEF CallHolds, Unused, NoAnswer, Answers
      <3>3. pc[q] # "idle" => Key(q) \in Keys
        BY <2>1, OrderTypes DEF CallHolds
      <3> QED BY <1>1, <2>1, <2>3, <3>1, <3>2, <3>3 DEF CallHolds
    <2> QED BY <2>2, <2>3
  <1>3. \A k \in Keys : CacheHolds(k)'
    BY <1>1 DEF Inv, CacheHolds
  <1>4. ASSUME NEW i \in Calls PROVE StoreHolds(i)'
    BY <1>1 DEF Inv, StoreHolds, CacheHolds
  <1>5. \A q \in Calls : pc'[q] = IF q = r THEN "answered" ELSE pc[q]
    BY DEF Inv, TypeOK
  <1>6. Alone'
    BY <1>5 DEF Inv, Alone, Key, Executing
  <1>7. Single'
    BY DEF Inv, Single
  <1> QED BY <1>2, <1>3, <1>4, <1>6, <1>7

-------------------------------------------------------------------------------
(* The invariant.                                                            *)

LEMMA InvInitially == Init => Inv
  <1> SUFFICES ASSUME Init PROVE Inv
    OBVIOUS
  <1>1. TypeOK
    BY Parameters DEF Init, TypeOK, NoReply, Words, Unused
  <1>2. \A r \in Calls : CallHolds(r)
    BY DEF Init, CallHolds, NoReply
  <1>3. /\ \A k \in Keys  : RecordHolds(k) /\ CacheHolds(k)
        /\ \A c \in Calls : OpeningHolds(c) /\ StoreHolds(c)
    BY DEF Init, RecordHolds, CacheHolds, OpeningHolds, StoreHolds
  <1>4. Alone /\ Single
    BY DEF Init, Alone, Single, Executing
  <1> QED BY <1>1, <1>2, <1>3, <1>4 DEF Inv

LEMMA ReceiveKeepsInv ==
    ASSUME Inv, NEW r \in Calls, Receive(r) PROVE Inv'
  <1>1. PICK order \in Offered :
           /\ Admissible(order)
           /\ req' = [req EXCEPT ![r] = order]
           /\ IF order.op \in Managed
              THEN \E c \in Calls : about' = [about EXCEPT ![r] = c]
              ELSE UNCHANGED about
    BY DEF Receive
  <1>2. /\ pc[r] = "idle" /\ pc' = [pc EXCEPT ![r] = "arrived"]
        /\ UNCHANGED <<patient, crashes, answer, reply, repo, idem, thing, replay>>
    BY DEF Receive, storeVars, gatewayVars
  <1>3. order \in Orders
    BY Parameters
  <1>4. TypeOK'
    BY <1>1, <1>2, <1>3 DEF Inv, TypeOK, Executing
  <1>5. \A q \in Calls : q # r => /\ pc'[q] = pc[q] /\ req'[q] = req[q] /\ about'[q] = about[q]
                                  /\ Op(q)' = Op(q) /\ Key(q)' = Key(q)
    BY <1>1, <1>2 DEF Inv, TypeOK, Op, Key
  <1>6. pc'[r] = "arrived" /\ req'[r] = order /\ Key(r)' = order.key /\ Op(r)' = order.op
    BY <1>1, <1>2 DEF Inv, TypeOK, Op, Key
  <1>7. ASSUME NEW q \in Calls PROVE CallHolds(q)'
    <2>1. CallHolds(q)
      BY DEF Inv
    <2>2. CASE q = r
      <3>1. order.op \in Managed => about'[r] \in Calls
        BY <1>1 DEF Inv, TypeOK
      <3> QED BY <1>2, <1>6, <2>1, <2>2, <3>1 DEF CallHolds
    <2>3. CASE q # r
      BY <1>2, <1>5, <2>1, <2>3 DEF CallHolds, Recalled
    <2> QED BY <2>2, <2>3
  <1>8. \A k \in Keys : RecordHolds(k)' /\ CacheHolds(k)'
    BY <1>2 DEF Inv, RecordHolds, CacheHolds, Recalled
  <1>9. \A c \in Calls : OpeningHolds(c)'
    <2>1. thing[r] = "none"
      BY <1>2 DEF Inv, CallHolds
    <2> QED BY <1>2, <1>5, <2>1 DEF Inv, OpeningHolds
  <1>10. \A i \in Calls : StoreHolds(i)'
    BY <1>2 DEF Inv, StoreHolds, Recalled
  <1>11. Alone'
    <2> SUFFICES ASSUME patient PROVE Alone'
      BY <1>2 DEF Alone
    <2>1. \A q \in Calls : pc[q] \in Executing => Key(q) # order.key
      BY <1>1 DEF Admissible
    <2>2. ASSUME NEW q \in Calls, pc'[q] \in {"gateway", "answered"} PROVE idem'[Key(q)'] = NoRecord
      BY <1>2, <1>5, <1>6, <2>2 DEF Inv, Alone
    <2>3. ASSUME NEW p \in Calls, NEW q \in Calls, pc'[p] \in Executing, pc'[q] \in Executing,
                 Key(q)' = Key(p)'
          PROVE  q = p
      BY <1>5, <1>6, <2>1, <2>3 DEF Inv, Alone
    <2> QED BY <2>2, <2>3 DEF Alone
  <1>12. Single'
    BY <1>2 DEF Inv, Single
  <1> QED BY <1>4, <1>7, <1>8, <1>9, <1>10, <1>11, <1>12 DEF Inv

LEMMA StartKeepsInv ==
    ASSUME Inv, NEW r \in Calls, Start(r) PROVE Inv'
  <1>1. /\ pc[r] = "arrived" /\ idem[Key(r)] = NoRecord /\ pc' = [pc EXCEPT ![r] = "gateway"]
        /\ UNCHANGED <<patient, crashes, req, about, answer, reply, repo, idem, thing, replay>>
    BY DEF Start, Proceed, storeVars, gatewayVars
  <1>2. TypeOK'
    BY <1>1 DEF Inv, TypeOK, Executing
  <1>3. \A q \in Calls : pc'[q] = IF q = r THEN "gateway" ELSE pc[q]
    BY <1>1 DEF Inv, TypeOK
  <1>4. ASSUME NEW q \in Calls PROVE CallHolds(q)'
    <2>1. CallHolds(q)
      BY DEF Inv
    <2> QED BY <1>1, <1>3, <2>1 DEF CallHolds, Op, Key, Recalled
  <1>5. \A k \in Keys : RecordHolds(k)' /\ CacheHolds(k)'
    BY <1>1 DEF Inv, RecordHolds, CacheHolds, Recalled
  <1>6. \A c \in Calls : OpeningHolds(c)' /\ StoreHolds(c)'
    BY <1>1 DEF Inv, OpeningHolds, StoreHolds, Recalled, Key
  <1>7. Alone'
    BY <1>1, <1>3 DEF Inv, Alone, Key, Executing
  <1>8. Single'
    BY <1>1 DEF Inv, Single
  <1> QED BY <1>2, <1>4, <1>5, <1>6, <1>7, <1>8 DEF Inv

\* What a call stores and answers is what is recalled under its key.
LEMMA OutputRecalled ==
    ASSUME Inv, NEW r \in Calls, Read(r)
    PROVE  /\ req[r] \in Offered /\ Key(r) \in Keys
           /\ replay[Key(r)] # Unused
           /\ replay[Key(r)].op = Op(r)
           /\ Output(r) = Recalled(Key(r))
  <1>1. pc[r] = "answered" /\ answer[r] \in Answers /\ CallHolds(r)
    BY DEF Read, Inv
  <1>2. /\ req[r] \in Offered
        /\ replay[Key(r)].op = Op(r)
        /\ replay[Key(r)].answer = answer[r]
    BY <1>1 DEF CallHolds
  <1>3. replay[Key(r)] # Unused
    BY <1>1, <1>2 DEF Unused, NoAnswer, Answers
  <1>4. Output(r) = Recalled(Key(r))
    BY <1>2 DEF Output, Status, Recalled, Donations, Creations
  <1> QED BY <1>2, <1>3, <1>4, OrderTypes

LEMMA FinishKeepsInv ==
    ASSUME Inv, NEW r \in Calls, Finish(r) PROVE Inv'
  <1> DEFINE out == Recalled(Key(r))
  <1>1. /\ req[r] \in Offered /\ Key(r) \in Keys
        /\ replay[Key(r)] # Unused
        /\ replay[Key(r)].op = Op(r)
        /\ Output(r) = out
    BY OutputRecalled DEF Finish
  <1>2. /\ pc[r] = "answered" /\ pc' = [pc EXCEPT ![r] = "done"]
        /\ reply' = [reply EXCEPT ![r] = OkReply(out)]
        /\ repo' = IF Op(r) \in Creations THEN [repo EXCEPT ![r] = out] ELSE repo
        /\ idem' = [idem EXCEPT ![Key(r)] = out]
        /\ UNCHANGED <<patient, crashes, req, about, answer, thing, replay>>
    BY <1>1 DEF Finish, Read, Return, gatewayVars
  <1>3. out \in Outputs /\ (Op(r) \in Creations => out \in Records)
    BY <1>1, RecalledTypes DEF Inv, Recalled
  <1>4. out # NoRecord /\ out.key = Key(r)
    BY <1>1, <1>3 DEF Recalled, NoRecord, Outputs, Records, Creations, Managed
  <1>5. \A k : Recalled(k)' = Recalled(k)
    BY <1>2 DEF Recalled
  <1> HIDE DEF out
  <1>6. TypeOK'
    <2>1. OkReply(out) \in [kind : {"none", "error", "ok"}, out : Outputs \cup {NoRecord}]
      BY <1>3 DEF OkReply
    <2>2. repo' \in [Calls -> Records \cup {NoRecord}] /\ idem' \in [Keys -> Outputs \cup {NoRecord}]
      BY <1>2, <1>3 DEF Inv, TypeOK
    <2> QED BY <1>2, <2>1, <2>2 DEF Inv, TypeOK
  <1>7. ASSUME NEW q \in Calls PROVE CallHolds(q)'
    <2>1. CallHolds(q) /\ Key(q)' = Key(q) /\ Op(q)' = Op(q)
      BY <1>2 DEF Inv, Key, Op
    <2>2. CASE q = r
      <3>1. pc'[q] = "done" /\ reply'[q] = OkReply(out)
        BY <1>2, <2>2 DEF Inv, TypeOK
      <3>2. reply'[q].kind = "ok" /\ reply'[q].out = Recalled(Key(q))'
        BY <1>5, <2>1, <2>2, <3>1 DEF OkReply, out
      <3> QED BY <1>1, <1>2, <2>1, <2>2, <3>1, <3>2 DEF CallHolds
    <2>3. CASE q # r
      <3>1. pc'[q] = pc[q] /\ reply'[q] = reply[q]
        BY <1>2, <2>3 DEF Inv, TypeOK
      <3> QED BY <1>2, <1>5, <2>1, <3>1 DEF CallHolds
    <2> QED BY <2>2, <2>3
  <1>8. \A k \in Keys : RecordHolds(k)'
    BY <1>2 DEF Inv, RecordHolds
  <1>9. \A c \in Calls : OpeningHolds(c)'
    BY <1>2 DEF Inv, OpeningHolds, Key
  <1>10. \A k \in Keys : idem'[k] = IF k = Key(r) THEN out ELSE idem[k]
    BY <1>2 DEF Inv, TypeOK
  <1>11. \A i \in Calls : repo'[i] = repo[i] \/ (i = r /\ repo'[i] = out)
    BY <1>2 DEF Inv, TypeOK
  <1>12. ASSUME NEW k \in Keys PROVE CacheHolds(k)'
    <2>1. CacheHolds(k)
      BY DEF Inv
    <2>2. CASE k = Key(r)
      BY <1>1, <1>2, <1>5, <1>10, <2>2 DEF CacheHolds, out
    <2>3. CASE k # Key(r)
      BY <1>2, <1>5, <1>10, <2>1, <2>3 DEF CacheHolds
    <2> QED BY <2>2, <2>3
  <1>13. ASSUME NEW i \in Calls PROVE StoreHolds(i)'
    <2>1. CASE repo'[i] = repo[i]
      <3>1. StoreHolds(i)
        BY DEF Inv
      <3> QED BY <1>4, <1>5, <1>10, <2>1, <3>1 DEF StoreHolds
    <2>2. CASE i = r /\ repo'[i] = out
      BY <1>1, <1>4, <1>5, <1>10, <2>2 DEF StoreHolds, out
    <2> QED BY <1>11, <2>1, <2>2
  <1>14. \A q \in Calls : pc'[q] = IF q = r THEN "done" ELSE pc[q]
    BY <1>2 DEF Inv, TypeOK
  <1>15. Alone'
    <2> SUFFICES ASSUME patient PROVE Alone'
      BY <1>2 DEF Alone
    <2>1. ASSUME NEW q \in Calls, pc'[q] \in {"gateway", "answered"}
          PROVE  idem'[Key(q)'] = NoRecord
      <3>1. q # r /\ pc[q] \in {"gateway", "answered"} /\ Key(q)' = Key(q)
        BY <1>2, <1>14, <2>1 DEF Key
      <3>2. Key(q) # Key(r) /\ idem[Key(q)] = NoRecord
        BY <1>2, <3>1 DEF Inv, Alone, Executing
      <3>3. req[q] \in Offered
        BY <3>1 DEF Inv, CallHolds
      <3> QED BY <1>10, <3>1, <3>2, <3>3, OrderTypes
    <2>2. ASSUME NEW p \in Calls, NEW q \in Calls, pc'[p] \in Executing, pc'[q] \in Executing,
                 Key(q)' = Key(p)'
          PROVE  q = p
      BY <1>2, <1>14, <2>2 DEF Inv, Alone, Executing, Key
    <2> QED BY <2>1, <2>2 DEF Alone
  <1>16. Single'
    <2> SUFFICES ASSUME patient, NEW i \in Calls, NEW j \in Calls,
                        repo'[i] # NoRecord, repo'[j] # NoRecord, repo'[i].key = repo'[j].key
                 PROVE  i = j
      BY <1>2 DEF Single
    <2>1. idem[Key(r)] = NoRecord
      BY <1>2 DEF Inv, Alone
    <2>2. \A h \in Calls : repo[h] # NoRecord => repo[h].key # Key(r)
      BY <2>1 DEF Inv, StoreHolds
    <2> QED BY <1>4, <1>11, <2>2 DEF Inv, Single
  <1> QED BY <1>6, <1>7, <1>8, <1>9, <1>12, <1>13, <1>15, <1>16 DEF Inv

LEMMA RefusesKeepsInv ==
    ASSUME Inv, NEW r \in Calls, GatewayRefuses(r) PROVE Inv'
  <1>1. /\ pc[r] = "gateway" /\ pc' = [pc EXCEPT ![r] = "answered"]
        /\ answer' = [answer EXCEPT ![r] = Refused]
        /\ UNCHANGED <<patient, crashes, req, about, reply, repo, idem, thing, replay>>
    BY DEF GatewayRefuses, storeVars, gatewayVars
  <1>2. TypeOK'
    BY <1>1 DEF Inv, TypeOK, Executing
  <1>3. Refused \notin Answers
    BY DEF Refused, Answers
  <1>4. /\ \A q \in Calls : CallHolds(q)'
        /\ \A k \in Keys  : CacheHolds(k)'
        /\ \A i \in Calls : StoreHolds(i)'
        /\ Alone' /\ Single'
    BY <1>1, <1>3, AnswerKeepsCalls
  <1>5. /\ \A k \in Keys  : RecordHolds(k)'
        /\ \A c \in Calls : OpeningHolds(c)'
    BY <1>1 DEF Inv, RecordHolds, OpeningHolds, Key
  <1> QED BY <1>2, <1>4, <1>5 DEF Inv

LEMMA ReplaysKeepsInv ==
    ASSUME Inv, NEW r \in Calls, GatewayReplays(r) PROVE Inv'
  <1> DEFINE recorded == replay[Key(r)]
  <1>1. /\ pc[r] = "gateway" /\ pc' = [pc EXCEPT ![r] = "answered"]
        /\ UNCHANGED <<patient, crashes, req, about, reply, repo, idem, thing, replay>>
    BY DEF GatewayReplays, Answered, storeVars, gatewayVars
  <1>2. /\ Key(r) \in Keys /\ recorded # Unused
        /\ recorded.op = Op(r)
    BY DEF GatewayReplays, SeenBefore, PortKey
  <1>3. recorded.answer \in Answers
    BY <1>2 DEF Inv, RecordHolds
  <1>4. PICK ans \in {recorded.answer, Lost} : answer' = [answer EXCEPT ![r] = ans]
    BY DEF GatewayReplays, Answered, PortKey
  <1>5. ans \in Answers \cup {Refused, Lost} /\ (ans \in Answers => ans = recorded.answer)
    BY <1>3, <1>4 DEF Lost, Answers
  <1>6. TypeOK'
    BY <1>1, <1>4, <1>5 DEF Inv, TypeOK, Executing
  <1>7. /\ \A q \in Calls : CallHolds(q)'
        /\ \A k \in Keys  : CacheHolds(k)'
        /\ \A i \in Calls : StoreHolds(i)'
        /\ Alone' /\ Single'
    BY <1>1, <1>2, <1>4, <1>5, AnswerKeepsCalls
  <1>8. /\ \A k \in Keys  : RecordHolds(k)'
        /\ \A c \in Calls : OpeningHolds(c)'
    BY <1>1 DEF Inv, RecordHolds, OpeningHolds, Key
  <1> QED BY <1>6, <1>7, <1>8 DEF Inv

LEMMA ExecutesKeepsInv ==
    ASSUME Inv, NEW r \in Calls, GatewayCreates(r) \/ GatewayPauses(r) \/ GatewayCancels(r)
    PROVE  Inv'
  <1>1. PICK word \in Words \ {"none"} :
           /\ Executed(r, word)
           /\ Subject(r) \in Calls
           /\ thing[Subject(r)] \in Ends => thing[Subject(r)] = word
           /\ Op(r) \in Creations => Subject(r) = r /\ word \in FirstWords[Op(r)]
           /\ Op(r) = "pause"  => word = "paused"
           /\ Op(r) = "cancel" => word = "cancelled"
           /\ Subject(r) # r => thing[Subject(r)] # "none"
    BY Executes
  <1> DEFINE result == [kind |-> "body", word |-> word, ref |-> Subject(r)]
  <1>2. /\ pc[r] = "gateway" /\ req[r] \in Offered /\ Key(r) \in Keys /\ Op(r) \in Operations
        /\ replay[Key(r)] = Unused
        /\ replay' = [replay EXCEPT ![Key(r)] = [op |-> Op(r), answer |-> result]]
        /\ thing' = [thing EXCEPT ![Subject(r)] = word]
        /\ pc' = [pc EXCEPT ![r] = "answered"]
        /\ UNCHANGED <<patient, crashes, req, about, reply, repo, idem>>
    BY <1>1, ExecutedRecords
  <1>3. PICK ans \in {result, Lost} : answer' = [answer EXCEPT ![r] = ans]
    BY <1>1, ExecutedRecords
  <1>4. result \in Answers /\ result.word = word /\ result.ref = Subject(r)
    BY <1>1 DEF Answers
  <1> HIDE DEF result
  <1>5. ans \in Answers \cup {Refused, Lost} /\ (ans \in Answers => ans = result)
    BY <1>3, <1>4 DEF Lost, Answers
  <1>6. TypeOK'
    BY <1>1, <1>2, <1>3, <1>4, <1>5 DEF Inv, TypeOK, Executing
  <1>7. /\ replay'[Key(r)] = [op |-> Op(r), answer |-> result]
        /\ \A k \in Keys : k # Key(r) => replay'[k] = replay[k]
    BY <1>2 DEF Inv, TypeOK
  <1>8. \A c \in Calls : thing'[c] = IF c = Subject(r) THEN word ELSE thing[c]
    BY <1>2 DEF Inv, TypeOK
  <1>9. \A k \in Keys : replay[k] # Unused => replay'[k] = replay[k]
    BY <1>2, <1>7
  <1>10. \A c \in Calls : c # r /\ thing[c] = "none" => thing'[c] = "none"
    BY <1>1, <1>8
  <1>11. ans \in Answers => replay'[Key(r)].op = Op(r) /\ replay'[Key(r)].answer = ans
    BY <1>5, <1>7
  <1>12. pc[r] = "gateway" /\ answer' = [answer EXCEPT ![r] = ans]
    BY <1>2, <1>3
  <1>13. /\ \A q \in Calls : CallHolds(q)'
         /\ \A k \in Keys  : CacheHolds(k)'
         /\ \A i \in Calls : StoreHolds(i)'
         /\ Alone' /\ Single'
    BY <1>2, <1>5, <1>9, <1>10, <1>11, <1>12, AnswerKeepsCalls
  <1>14. ASSUME NEW k \in Keys PROVE RecordHolds(k)'
    <2>1. CASE k = Key(r)
      BY <1>1, <1>2, <1>4, <1>7, <1>8, <2>1 DEF RecordHolds
    <2>2. CASE k # Key(r)
      <3>1. replay'[k] = replay[k] /\ RecordHolds(k)
        BY <1>7, <2>2 DEF Inv
      <3>2. replay[k].answer \in Answers => replay[k].answer.ref \in Calls
        BY DEF Answers
      <3> QED BY <1>1, <1>8, <3>1, <3>2 DEF RecordHolds
    <2> QED BY <2>1, <2>2
  <1>15. ASSUME NEW c \in Calls PROVE OpeningHolds(c)'
    <2>1. Key(c)' = Key(c) /\ req'[c] = req[c] /\ OpeningHolds(c)
      BY <1>2 DEF Inv, Key
    <2>2. CASE thing[c] # "none"
      <3>1. req[c] \in Offered /\ replay[Key(c)].answer.ref = c
        BY <2>1, <2>2 DEF OpeningHolds
      <3>2. replay[Key(c)] # Unused
        BY <3>1, Parameters DEF Unused, NoAnswer
      <3>3. replay'[Key(c)] = replay[Key(c)]
        BY <1>9, <3>1, <3>2, OrderTypes
      <3> QED BY <2>1, <3>1, <3>3 DEF OpeningHolds
    <2>3. CASE thing[c] = "none"
      <3>1. CASE c = r /\ Subject(r) = r
        BY <1>2, <1>4, <1>7, <2>1, <3>1 DEF OpeningHolds
      <3>2. CASE c # r \/ Subject(r) # r
        <4>1. thing'[c] = "none"
          BY <1>1, <1>8, <2>3, <3>2
        <4> QED BY <4>1 DEF OpeningHolds
      <3> QED BY <3>1, <3>2
    <2> QED BY <2>2, <2>3
  <1> QED BY <1>6, <1>13, <1>14, <1>15 DEF Inv

LEMMA SettlesKeepsInv ==
    ASSUME Inv, NEW c \in Calls, Settles(c) PROVE Inv'
  <1>1. PICK word \in {"paid", "succeeded", "failed"} : thing' = [thing EXCEPT ![c] = word]
    BY DEF Settles
  <1>2. /\ thing[c] = "pending"
        /\ UNCHANGED <<patient, crashes, pc, req, about, answer, reply, repo, idem, replay>>
    BY DEF Settles, callVars, storeVars
  <1>3. \A d \in Calls : thing'[d] = IF d = c THEN word ELSE thing[d]
    BY <1>1 DEF Inv, TypeOK
  <1>4. TypeOK'
    BY <1>1, <1>2 DEF Inv, TypeOK, Words
  <1>5. \A q \in Calls : CallHolds(q)'
    BY <1>2, <1>3 DEF Inv, CallHolds, Op, Key, Recalled
  <1>6. ASSUME NEW k \in Keys PROVE RecordHolds(k)'
    <2>1. RecordHolds(k)
      BY DEF Inv
    <2>2. replay[k].answer \in Answers => replay[k].answer.ref \in Calls
      BY DEF Answers
    <2> QED BY <1>2, <1>3, <2>1, <2>2 DEF RecordHolds, Ends
  <1>7. \A d \in Calls : OpeningHolds(d)'
    BY <1>2, <1>3 DEF Inv, OpeningHolds, Key
  <1>8. /\ \A k \in Keys  : CacheHolds(k)'
        /\ \A i \in Calls : StoreHolds(i)'
    BY <1>2 DEF Inv, CacheHolds, StoreHolds, Recalled
  <1>9. Alone' /\ Single'
    BY <1>2 DEF Inv, Alone, Single, Key
  <1> QED BY <1>4, <1>5, <1>6, <1>7, <1>8, <1>9 DEF Inv

\* No step breaks the invariant.
LEMMA InvStep == Inv /\ [Next]_vars => Inv'
  <1> SUFFICES ASSUME Inv, [Next]_vars PROVE Inv'
    OBVIOUS
  <1>1. ASSUME NEW r \in Calls, Receive(r) PROVE Inv'
    BY <1>1, ReceiveKeepsInv
  <1>2. ASSUME NEW r \in Calls, ReturnCached(r) PROVE Inv'
    <2>1. req[r] \in Offered /\ Key(r) \in Keys
      BY <1>2, OrderTypes DEF Inv, CallHolds, ReturnCached
    <2>2. replay[Key(r)] # Unused /\ idem[Key(r)] = Recalled(Key(r))
      BY <1>2, <2>1 DEF Inv, CacheHolds, ReturnCached
    <2> QED BY <1>2, <2>1, <2>2, ReturnKeepsInv DEF ReturnCached, Executing
  <1>3. ASSUME NEW r \in Calls, CachedMisread(r) PROVE Inv'
    BY <1>3, ExitKeepsInv DEF CachedMisread, Inv, TypeOK
  <1>4. ASSUME NEW r \in Calls, RejectAmount(r) PROVE Inv'
    BY <1>4, ReturnKeepsInv DEF RejectAmount, Executing
  <1>5. ASSUME NEW r \in Calls, Start(r) PROVE Inv'
    BY <1>5, StartKeepsInv
  <1>6. ASSUME NEW r \in Calls, ReturnGatewayError(r) PROVE Inv'
    BY <1>6, ReturnKeepsInv DEF ReturnGatewayError, Executing
  <1>7. ASSUME NEW r \in Calls, RejectTransition(r) PROVE Inv'
    BY <1>7, ReturnKeepsInv DEF RejectTransition, Read, Executing
  <1>8. ASSUME NEW r \in Calls, Finish(r) PROVE Inv'
    BY <1>8, FinishKeepsInv
  <1>9. ASSUME NEW r \in Calls, GatewayActs(r) PROVE Inv'
    BY <1>9, RefusesKeepsInv, ReplaysKeepsInv, ExecutesKeepsInv DEF GatewayActs
  <1>10. ASSUME NEW r \in Calls, Settles(r) PROVE Inv'
    BY <1>10, SettlesKeepsInv
  <1>11. CASE Crash
    <2>1. crashes' \in 0 .. MaxCrashes
      BY <1>11, Parameters DEF Crash, Inv, TypeOK
    <2> QED BY <1>11, <2>1, ExitKeepsInv DEF Crash
  <1>12. CASE UNCHANGED vars
    BY <1>12 DEF vars, callVars, storeVars, gatewayVars, Inv, TypeOK, CallHolds, RecordHolds,
        OpeningHolds, CacheHolds, StoreHolds, Alone, Single, Op, Key, Recalled
  <1> QED
    BY <1>1, <1>2, <1>3, <1>4, <1>5, <1>6, <1>7, <1>8, <1>9, <1>10, <1>11, <1>12
    DEF Next, Handler, AllDone

LEMMA InvAlways == Spec => []Inv
  BY InvInitially, InvStep, PTL DEF Spec

-------------------------------------------------------------------------------
(* What follows.                                                             *)

\* What a reply names is what is recalled under its call's key.
LEMMA ToldOfRecord ==
    ASSUME Inv, NEW r \in Calls, reply[r].out.op # "none"
    PROVE  /\ reply[r].kind = "ok" /\ Key(r) \in Keys
           /\ replay[Key(r)] # Unused /\ RecordHolds(Key(r))
           /\ reply[r].out = Recalled(Key(r))
  <1>1. CallHolds(r)
    BY DEF Inv
  <1>2. reply[r].kind = "ok"
    BY <1>1 DEF CallHolds, NoRecord
  <1>3. req[r] \in Offered
    BY <1>1, <1>2 DEF CallHolds
  <1> QED BY <1>1, <1>2, <1>3, OrderTypes DEF CallHolds, Inv

\* What is recalled of an end is true, and so is what is told of it.
LEMMA ToldEndsAreTrue == ASSUME Inv PROVE FinalStatusIsTrue
  <1>1. ASSUME NEW k \in Keys, replay[k] # Unused PROVE IsTrue(Recalled(k))
    BY <1>1 DEF Inv, RecordHolds, IsTrue, Recalled, Ends
  <1>2. IsTrue(NoRecord)
    BY DEF IsTrue, NoRecord
  <1>3. \A k \in Keys : IsTrue(idem[k])
    BY <1>1, <1>2 DEF Inv, CacheHolds
  <1>4. \A i \in Calls : IsTrue(repo[i])
    BY <1>1, <1>2 DEF Inv, StoreHolds, CacheHolds
  <1>5. ASSUME NEW r \in Calls, Told(r) \in DOMAIN WordTold
        PROVE  thing[reply[r].out.ref] = WordTold[Told(r)]
    <2>1. reply[r].out.op \in {"payout", "agentic"}
      BY <1>5 DEF Told, WordTold, Unspecified
    <2>2. /\ replay[Key(r)] # Unused /\ RecordHolds(Key(r)) /\ Key(r) \in Keys
          /\ reply[r].out = Recalled(Key(r))
      <3>1. reply[r].out.op # "none"
        BY <2>1
      <3> QED BY <3>1, ToldOfRecord
    <2>3. IsTrue(reply[r].out)
      BY <1>1, <2>2
    <2>4. reply[r].out.status \in FirstWords[reply[r].out.op]
      BY <2>1, <2>2 DEF RecordHolds, Recalled, Creations, Donations
    <2> DEFINE status == reply[r].out.status
    <2>5. CASE reply[r].out.op = "payout"
      <3>1. Told(r) = PayoutOnWire[status]
        BY <2>5 DEF Told
      <3>2. status \in PayoutStatus
        BY <2>4, <2>5 DEF FirstWords
      <3> HIDE DEF status
      <3>3. status \in {"paid", "failed"} /\ WordTold[Told(r)] = status
        BY <1>5, <3>1, <3>2 DEF PayoutStatus, PayoutOnWire, WordTold, Unspecified
      <3> QED BY <2>3, <3>3 DEF IsTrue, status
    <2>6. CASE reply[r].out.op = "agentic"
      <3>1. Told(r) = PaymentOnWire[status]
        BY <2>6 DEF Told
      <3>2. status \in {"pending", "succeeded", "failed"}
        BY <2>4, <2>6 DEF FirstWords
      <3> HIDE DEF status
      <3>3. status \in {"succeeded", "failed"} /\ WordTold[Told(r)] = status
        BY <1>5, <3>1, <3>2 DEF PaymentOnWire, WordTold, Unspecified
      <3> QED BY <2>3, <3>3 DEF IsTrue, status
    <2> QED BY <2>1, <2>5, <2>6
  <1> QED BY <1>3, <1>4, <1>5 DEF FinalStatusIsTrue

\* Every variable ranges over the values the code can put there.
THEOREM TypeCorrect == Spec => []TypeOK
  BY InvAlways, PTL DEF Inv

\* A payout is made, a charge or a schedule opened, once per idempotency key: a
\* request that the gateway executes is recorded under the caller's key, which
\* no later call gets past.
THEOREM OneOpeningPerKey == Spec => []OpenedOncePerKey
  <1>1. Inv => OpenedOncePerKey
    BY DEF Inv, OpeningHolds, OpenedOncePerKey
  <1> QED BY <1>1, InvAlways, PTL

\* All who are answered under a key are told of the one reference the gateway
\* recorded under it.
THEOREM OneReferencePerKey == Spec => []RetriesNameOneReference
  <1>1. Inv => RetriesNameOneReference
    BY DEF Inv, CallHolds, RetriesNameOneReference
  <1> QED BY <1>1, InvAlways, PTL

\* Callers that wait before they retry leave one record per key.
THEOREM BookedOnce == Spec => []OneRecordPerKey
  <1>1. Inv => OneRecordPerKey
    BY DEF Inv, Single, OneRecordPerKey
  <1> QED BY <1>1, InvAlways, PTL

\* What is stored, cached or answered as ended has ended, and so.
THEOREM EndsAreTrue == Spec => []FinalStatusIsTrue
  <1>1. Inv => FinalStatusIsTrue
    BY ToldEndsAreTrue
  <1> QED BY <1>1, InvAlways, PTL

\* Who is told of a cancellation finds the schedule cancelled.
THEOREM CancelsAreDone == Spec => []ReportedCancelIsDone
  <1>1. ASSUME Inv, NEW r \in Calls, reply[r].out.op = "cancel"
        PROVE  thing[reply[r].out.ref] = "cancelled"
    <2>1. /\ replay[Key(r)] # Unused /\ RecordHolds(Key(r))
          /\ reply[r].out = Recalled(Key(r))
      BY <1>1, ToldOfRecord
    <2>2. replay[Key(r)].op = "cancel" /\ reply[r].out.ref = replay[Key(r)].answer.ref
      BY <1>1, <2>1 DEF Recalled
    <2> QED BY <2>1, <2>2 DEF RecordHolds, Ends
  <1>2. Inv => ReportedCancelIsDone
    BY <1>1 DEF ReportedCancelIsDone
  <1> QED BY <1>2, InvAlways, PTL
===============================================================================
