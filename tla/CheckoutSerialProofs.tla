------------------------- MODULE CheckoutSerialProofs -------------------------
(***************************************************************************)
(* What Checkout promises callers that start no call while another one on  *)
(* their key or on their intent is being executed, for every set of calls  *)
(* and keys, both gateways and any number of process exits.                *)
(***************************************************************************)
EXTENDS CheckoutProofs

Busy(r) == pc[r] \in Executing

-------------------------------------------------------------------------------
(* The kinds of steps, by what they write.                                  *)

\* A step that stores, caches and loads nothing: a gateway's, a rejection.
Quiet ==
    /\ UNCHANGED <<req, local, repo, idem>>
    /\ \A r \in Calls :
          /\ reply'[r] \in {reply[r], ErrorReply}
          /\ \/ pc'[r] = pc[r]
             \/ pc[r] \in {"load", "resume", "orphan"} /\ pc'[r] \in {"done", "lost"}
             \/ pc[r] = "gateway" /\ pc'[r] = "resume"

LEMMA StepKinds ==
    ASSUME TypeInv, [Next]_vars
    PROVE  \/ \E r \in Calls : \/ Receive(r) \/ ReturnCached(r) \/ StartInitiate(r)
                               \/ StartOnExisting(r) \/ Load(r) \/ Save(r) \/ Commit(r)
           \/ ProcessExits
           \/ Quiet
  <1> USE DEF storeVars, gatewayVars, processVars
  <1>1. ASSUME NEW r \in Calls, Reject(r) \/ ReturnGatewayError(r) PROVE Quiet
    BY <1>1 DEF Reject, ReturnGatewayError, Return, Quiet, TypeInv, TypeOK
  <1>2. ASSUME NEW r \in Calls, NEW ans, Outstanding(r), Answered(r, ans),
               UNCHANGED <<req, local, reply, storeVars>>
        PROVE  Quiet
    BY <1>2 DEF Answered, Outstanding, Quiet, TypeInv, TypeOK
  <1>3. ASSUME NEW r \in Calls, GatewayRefuses(r) PROVE Quiet
    <2>1. Outstanding(r) /\ Answered(r, Failure)
      BY <1>3 DEF GatewayRefuses, Outstanding, Answered
    <2> QED BY <1>2, <1>3, <2>1 DEF GatewayRefuses
  <1>4. ASSUME NEW r \in Calls, GatewayReplays(r) PROVE Quiet
    BY <1>2, <1>4 DEF GatewayReplays
  <1>5. ASSUME NEW r \in Calls, GatewayCreates(r) \/ GatewayConfirms(r) \/ GatewayRefunds(r)
        PROVE  Quiet
    <2>1. Outstanding(r) /\ \E kind \in AnswerKinds : Executed(r, kind)
      BY <1>5, ConfirmExecutes, RefundExecutes
      DEF GatewayCreates, GatewayConfirms, GatewayRefunds, AnswerKinds
    <2> QED BY <1>2, <2>1, ExecutedTypes
  <1>6. ASSUME NEW c \in Calls, ChargeSettles(c) \/ RefundSettles(c) PROVE Quiet
    BY <1>6 DEF ChargeSettles, RefundSettles, Quiet
  <1>7. CASE UNCHANGED vars
    BY <1>7 DEF vars, Quiet
  <1> QED
    BY <1>1, <1>3, <1>4, <1>5, <1>6, <1>7
    DEF Next, Handler, GatewayActs, AllSettled, CachedMisread, IllegalTransition, Crash

\* What each kind of step makes of every call and of both stores.
LEMMA StepWrites ==
    ASSUME TypeInv, NEW r \in Calls
    PROVE  /\ Receive(r) =>
                /\ pc[r] = "idle"
                /\ \A q \in Calls : pc'[q] = IF q = r THEN "check" ELSE pc[q]
                /\ \A q \in Calls : q # r => req'[q] = req[q]
                /\ UNCHANGED <<local, reply, repo, idem>>
           /\ StartInitiate(r) \/ StartOnExisting(r) \/ Load(r) =>
                /\ pc[r] \in {"check", "load"} /\ pc'[r] \in {"load", "gateway"}
                /\ \A q \in Calls : q # r => pc'[q] = pc[q] /\ local'[q] = local[q]
                /\ UNCHANGED <<req, reply, repo, idem>>
           /\ ReturnCached(r) =>
                /\ pc[r] = "check" /\ Key(r) \in Keys
                /\ \A q \in Calls : pc'[q] = IF q = r THEN "done" ELSE pc[q]
                /\ \A q \in Calls : q # r => reply'[q] = reply[q]
                /\ reply'[r].out = idem[Key(r)]
                /\ UNCHANGED <<req, local, repo, idem>>
           /\ Save(r) =>
                /\ pc[r] = "resume" /\ Id(r) \in Calls
                /\ \A q \in Calls : pc'[q] = IF q = r THEN "commit" ELSE pc[q]
                /\ \A q \in Calls : local'[q] = IF q = r THEN Advanced(r) ELSE local[q]
                /\ \A i \in Calls : repo'[i] = IF i = Id(r) THEN Advanced(r) ELSE repo[i]
                /\ UNCHANGED <<req, reply, idem>>
           /\ Commit(r) =>
                /\ pc[r] = "commit" /\ Key(r) \in Keys /\ Id(r) \in Calls
                /\ \A q \in Calls : pc'[q] = IF q = r THEN "done" ELSE pc[q]
                /\ \A k \in Keys : idem'[k] = IF k = Key(r) THEN Output(r) ELSE idem[k]
                /\ \A q \in Calls : q # r => reply'[q] = reply[q]
                /\ reply'[r].out = Output(r)
                /\ UNCHANGED <<req, local, repo>>
  <1> USE DEF storeVars
  <1>1. pc[r] # "idle" => Key(r) \in Keys /\ Id(r) \in Calls
    BY DEF TypeInv, CallsHold, CallHolds, Key, Id, Requests
  <1>2. Receive(r) =>
           /\ pc[r] = "idle"
           /\ \A q \in Calls : pc'[q] = IF q = r THEN "check" ELSE pc[q]
           /\ \A q \in Calls : q # r => req'[q] = req[q]
           /\ UNCHANGED <<local, reply, repo, idem>>
    BY DEF Receive, TypeInv, TypeOK
  <1>3. StartInitiate(r) \/ StartOnExisting(r) \/ Load(r) =>
           /\ pc[r] \in {"check", "load"} /\ pc'[r] \in {"load", "gateway"}
           /\ \A q \in Calls : q # r => pc'[q] = pc[q] /\ local'[q] = local[q]
           /\ UNCHANGED <<req, reply, repo, idem>>
    BY DEF StartInitiate, StartOnExisting, Load, TypeInv, TypeOK
  <1>4. ReturnCached(r) =>
           /\ pc[r] = "check"
           /\ \A q \in Calls : pc'[q] = IF q = r THEN "done" ELSE pc[q]
           /\ \A q \in Calls : q # r => reply'[q] = reply[q]
           /\ reply'[r].out = idem[Key(r)]
           /\ UNCHANGED <<req, local, repo, idem>>
    BY DEF ReturnCached, Return, OkReply, TypeInv, TypeOK
  <1>5. Save(r) =>
           /\ pc[r] = "resume"
           /\ \A q \in Calls : pc'[q] = IF q = r THEN "commit" ELSE pc[q]
           /\ \A q \in Calls : local'[q] = IF q = r THEN Advanced(r) ELSE local[q]
           /\ \A i \in Calls : repo'[i] = IF i = Id(r) THEN Advanced(r) ELSE repo[i]
           /\ UNCHANGED <<req, reply, idem>>
    BY DEF Save, TypeInv, TypeOK
  <1>6. Commit(r) =>
           /\ pc[r] = "commit"
           /\ \A q \in Calls : pc'[q] = IF q = r THEN "done" ELSE pc[q]
           /\ \A k \in Keys : idem'[k] = IF k = Key(r) THEN Output(r) ELSE idem[k]
           /\ \A q \in Calls : q # r => reply'[q] = reply[q]
           /\ reply'[r].out = Output(r)
           /\ UNCHANGED <<req, local, repo>>
    BY DEF Commit, Return, OkReply, TypeInv, TypeOK
  <1> QED BY <1>1, <1>2, <1>3, <1>4, <1>5, <1>6

LEMMA ExitWrites ==
    ASSUME TypeInv, ProcessExits
    PROVE  /\ UNCHANGED <<req, local, reply>>
           /\ \A r \in Calls : ~ Busy(r)' /\ (pc'[r] = pc[r] \/ (Busy(r) /\ pc'[r] \in {"lost", "orphan"}))
           /\ \A r \in Calls : pc[r] \in {"commit", "done", "lost"} => pc'[r] \in {"done", "lost"}
           /\ Durable => UNCHANGED <<repo, idem>>
           /\ ~Durable => /\ \A i \in Calls : repo'[i] = NoIntent
                          /\ \A k \in Keys : idem'[k] = NoOutput
  BY DEF ProcessExits, Busy, Executing, TypeInv, TypeOK

-------------------------------------------------------------------------------
(* The invariant.                                                           *)

\* The discipline of the callers: one call at a time on a key, on an intent.
OneAtATime == \A q, r \in Calls :
    q # r /\ Busy(q) /\ Busy(r) => Key(q) # Key(r) /\ Id(q) # Id(r)

\* So nobody caches an output between a call's check of the cache and its own.
NothingCachedYet == \A r \in Calls :
    pc[r] \in {"load", "gateway", "resume", "commit"} => idem[Key(r)] = NoOutput

\* Nor does anybody overwrite the intent a call has loaded, or has just saved.
InStep == \A r \in Calls :
    /\ pc[r] \in {"gateway", "resume"} /\ Op(r) # "initiate" => repo[Id(r)] = local[r]
    /\ pc[r] = "commit" => repo[Id(r)] = local[r]

\* No checkout use case disputes an intent.
NeverDisputed ==
    /\ \A r \in Calls : local[r].status # "disputed"
    /\ \A i \in Calls : repo[i].status # "disputed"
    /\ \A k \in Keys : idem[k].intent.status # "disputed"
    /\ \A r \in Calls : reply[r].out.intent.status # "disputed"

\* An output is about an intent that was stored before, and a success that it
\* tells of is not taken back while the intent is known.
Kept(out) == out # NoOutput =>
    /\ pc[out.id] \in {"commit", "done", "lost"}
    /\ out.intent.status = "succeeded" =>
          repo[out.id] = NoIntent \/ repo[out.id].status \in {"succeeded", "refunded"}

OutputsKept == /\ \A k \in Keys : Kept(idem[k])
               /\ \A r \in Calls : Kept(reply[r].out)

SerialInv == /\ OneAtATime /\ NothingCachedYet /\ InStep
             /\ NeverDisputed /\ OutputsKept

LEMMA OneAtATimeStep ==
    ASSUME SerialCallers, TypeInv, OneAtATime, [Next]_vars
    PROVE  OneAtATime'
  <1>1. ASSUME UNCHANGED req, \A q \in Calls : Busy(q)' => Busy(q)
        PROVE  OneAtATime'
    BY <1>1 DEF OneAtATime, Key, Id
  <1>2. ASSUME NEW r \in Calls, Receive(r) PROVE OneAtATime'
    <2>1. PICK rq \in Requests : Admissible(rq) /\ req' = [req EXCEPT ![r] = rq]
      BY <1>2 DEF Receive
    <2>2. Key(r)' = rq.key /\ Id(r)' = rq.id
      BY <2>1 DEF Key, Id, TypeInv, TypeOK
    <2>3. \A q \in Calls : q # r => Key(q)' = Key(q) /\ Id(q)' = Id(q) /\ (Busy(q)' <=> Busy(q))
      BY <1>2, StepWrites DEF Key, Id, Busy
    <2>4. \A q \in Calls : Busy(q) => Key(q) # rq.key /\ Id(q) # rq.id
      BY <2>1 DEF Admissible, Busy
    <2> QED BY <2>2, <2>3, <2>4 DEF OneAtATime
  <1>3. ASSUME NEW r \in Calls,
               \/ ReturnCached(r) \/ StartInitiate(r) \/ StartOnExisting(r) \/ Load(r)
               \/ Save(r) \/ Commit(r)
        PROVE  OneAtATime'
    BY <1>1, <1>3, StepWrites DEF Busy, Executing
  <1>4. CASE ProcessExits
    BY <1>1, <1>4, ExitWrites
  <1>5. CASE Quiet
    BY <1>1, <1>5 DEF Quiet, Busy, Executing
  <1> QED BY <1>2, <1>3, <1>4, <1>5, StepKinds

LEMMA NothingCachedYetStep ==
    ASSUME TypeInv, OneAtATime, NothingCachedYet, [Next]_vars
    PROVE  NothingCachedYet'
  <1> DEFINE Started(r) == pc[r] \in {"load", "gateway", "resume", "commit"}
  <1>1. ASSUME UNCHANGED <<req, idem>>, \A q \in Calls : Started(q)' => Started(q)
        PROVE  NothingCachedYet'
    BY <1>1 DEF NothingCachedYet, Key
  <1>2. ASSUME NEW r \in Calls, Receive(r) PROVE NothingCachedYet'
    BY <1>2, StepWrites DEF NothingCachedYet, Key
  <1>3. ASSUME NEW r \in Calls, ReturnCached(r) \/ Save(r) PROVE NothingCachedYet'
    BY <1>1, <1>3, StepWrites
  <1>4. ASSUME NEW r \in Calls, StartInitiate(r) \/ StartOnExisting(r) \/ Load(r)
        PROVE  NothingCachedYet'
    <2>1. idem[Key(r)] = NoOutput
      BY <1>4 DEF StartInitiate, StartOnExisting, Load, NothingCachedYet
    <2> QED BY <1>4, <2>1, StepWrites DEF NothingCachedYet, Key
  <1>5. ASSUME NEW r \in Calls, Commit(r) PROVE NothingCachedYet'
    <2> SUFFICES ASSUME NEW q \in Calls, Started(q)' PROVE idem'[Key(q)] = NoOutput
      BY <1>5, StepWrites DEF NothingCachedYet, Key
    <2>1. q # r /\ Started(q) /\ idem[Key(q)] = NoOutput /\ Key(q) \in Keys
      BY <1>5, StepWrites DEF NothingCachedYet, TypeInv, CallsHold, CallHolds, Key, Requests
    <2>2. Key(q) # Key(r)
      BY <1>5, <2>1, StepWrites DEF OneAtATime, Busy, Executing
    <2> QED BY <1>5, <2>1, <2>2, StepWrites
  <1>6. CASE ProcessExits
    BY <1>6, ExitWrites DEF NothingCachedYet, Busy, Executing
  <1>7. CASE Quiet
    BY <1>1, <1>7 DEF Quiet
  <1> QED BY <1>2, <1>3, <1>4, <1>5, <1>6, <1>7, StepKinds

LEMMA InStepStep ==
    ASSUME TypeInv, OneAtATime, InStep, [Next]_vars
    PROVE  InStep'
  <1>1. ASSUME UNCHANGED <<req, local, repo>>,
               \A q \in Calls : \/ pc'[q] = pc[q]
                                \/ pc'[q] \notin {"gateway", "resume", "commit"}
                                \/ pc[q] = "gateway" /\ pc'[q] = "resume"
        PROVE  InStep'
    BY <1>1 DEF InStep, Op, Id
  <1>2. ASSUME NEW r \in Calls, Receive(r) PROVE InStep'
    BY <1>2, StepWrites DEF InStep, Op, Id
  <1>3. ASSUME NEW r \in Calls, ReturnCached(r) \/ Commit(r) PROVE InStep'
    BY <1>1, <1>3, StepWrites
  <1>4. ASSUME NEW r \in Calls, StartInitiate(r) \/ StartOnExisting(r) \/ Load(r)
        PROVE  InStep'
    <2>1. pc'[r] = "gateway" /\ Op(r) # "initiate" => repo[Id(r)] = local'[r]
      BY <1>4 DEF StartInitiate, StartOnExisting, Load, TypeInv, TypeOK
    <2> QED BY <1>4, <2>1, StepWrites DEF InStep, Op, Id
  <1>5. ASSUME NEW r \in Calls, Save(r) PROVE InStep'
    <2>1. \A q \in Calls : q # r /\ pc[q] \in {"gateway", "resume", "commit"} => Id(q) # Id(r)
      BY <1>5, StepWrites DEF OneAtATime, Busy, Executing
    <2>2. \A q \in Calls : pc[q] # "idle" => Id(q) \in Calls
      BY DEF TypeInv, CallsHold, CallHolds, Id, Requests
    <2>3. \A q \in Calls : Id(q)' = Id(q) /\ Op(q)' = Op(q)
      BY <1>5, StepWrites DEF Id, Op
    <2>4. ASSUME NEW q \in Calls, q # r, pc[q] \in {"gateway", "resume", "commit"}
          PROVE  repo'[Id(q)] = repo[Id(q)]
      BY <1>5, <2>1, <2>2, <2>4, StepWrites
    <2> QED BY <1>5, <2>3, <2>4, StepWrites DEF InStep
  <1>6. CASE ProcessExits
    BY <1>6, ExitWrites DEF InStep, Busy, Executing
  <1>7. CASE Quiet
    BY <1>1, <1>7 DEF Quiet
  <1> QED BY <1>2, <1>3, <1>4, <1>5, <1>6, <1>7, StepKinds

\* What a call that saves makes of its intent.
LEMMA SavedStatus ==
    ASSUME TypeInv, NEW r \in Calls, Save(r)
    PROVE  /\ Op(r) = "initiate" => Advanced(r).status = "pending"
           /\ Op(r) # "initiate" =>
                 \/ Advanced(r) = local[r]
                 \/ /\ Advanced(r).status \in {"succeeded", "failed", "refunded"}
                    /\ CanTransition(local[r].status, Advanced(r).status)
  <1>1. Op(r) \in Operations
    BY DEF Save, TypeInv, CallsHold, CallHolds, Op, Requests
  <1>2. CASE Op(r) = "initiate"
    BY <1>2 DEF Target, Advanced, Transitioned
  <1>3. CASE Op(r) # "initiate" /\ Target(r) # "none"
    <2>1. Target(r) \in {"succeeded", "failed", "refunded"}
      BY <1>1, <1>3 DEF Target, Operations
    <2> QED BY <1>3, <2>1 DEF Save, LegalMove, Advanced, Transitioned
  <1>4. CASE Op(r) # "initiate" /\ Target(r) = "none"
    BY <1>4 DEF Advanced
  <1> QED BY <1>2, <1>3, <1>4

LEMMA NeverDisputedStep ==
    ASSUME TypeInv, NeverDisputed, [Next]_vars
    PROVE  NeverDisputed'
  <1> USE DEF NeverDisputed
  <1>1. ASSUME NEW r \in Calls, Receive(r) \/ ReturnCached(r) PROVE NeverDisputed'
    BY <1>1, StepWrites
  <1>2. ASSUME NEW r \in Calls, StartInitiate(r) \/ StartOnExisting(r) \/ Load(r)
        PROVE  NeverDisputed'
    <2>1. local'[r].status # "disputed"
      <3>1. Load(r) => Id(r) \in Calls
        BY DEF Load, TypeInv, CallsHold, CallHolds, Id, Requests
      <3> QED
        BY <1>2, <3>1 DEF StartInitiate, StartOnExisting, Load, CreatedIntent, TypeInv, TypeOK
    <2> QED BY <1>2, <2>1, StepWrites
  <1>3. ASSUME NEW r \in Calls, Save(r) PROVE NeverDisputed'
    <2>1. Advanced(r).status # "disputed"
      BY <1>3, SavedStatus
    <2> QED BY <1>3, <2>1, StepWrites
  <1>4. ASSUME NEW r \in Calls, Commit(r) PROVE NeverDisputed'
    <2>1. Output(r).intent.status # "disputed"
      BY DEF Output
    <2> QED BY <1>4, <2>1, StepWrites
  <1>5. CASE ProcessExits
    <2>1. NoIntent.status # "disputed" /\ NoOutput.intent.status # "disputed"
      BY DEF NoOutput, NoIntent
    <2> QED BY <1>5, <2>1, ExitWrites
  <1>6. CASE Quiet
    BY <1>6 DEF Quiet, ErrorReply, NoOutput, NoIntent
  <1> QED BY <1>1, <1>2, <1>3, <1>4, <1>5, <1>6, StepKinds

\* An output is kept by a step that takes nobody back and takes no success back.
LEMMA KeptStays ==
    ASSUME NEW out \in Outputs \cup {NoOutput}, Kept(out),
           \A i \in Calls : pc[i] \in {"commit", "done", "lost"} =>
              /\ pc'[i] \in {"commit", "done", "lost"}
              /\ \/ repo'[i] = repo[i] \/ repo'[i] = NoIntent
                 \/ repo[i] # NoIntent /\
                       (repo[i].status \in {"succeeded", "refunded"} =>
                           repo'[i].status \in {"succeeded", "refunded"})
    PROVE  Kept(out)'
  BY DEF Kept, Outputs

LEMMA OutputsKeptStep ==
    ASSUME Inv, SerialInv, [Next]_vars
    PROVE  OutputsKept'
  <1>t. TypeInv
    BY DEF Inv
  <1>o. /\ \A k \in Keys : idem[k] \in Outputs \cup {NoOutput} /\ Kept(idem[k])
        /\ \A r \in Calls : reply[r].out \in Outputs \cup {NoOutput} /\ Kept(reply[r].out)
    BY <1>t DEF TypeInv, TypeOK, SerialInv, OutputsKept
  <1>n. Kept(NoOutput)'
    BY DEF Kept
  <1>1. ASSUME UNCHANGED <<repo, idem>>,
               \A r \in Calls : reply'[r].out \in {reply[r].out, NoOutput},
               \A i \in Calls : pc[i] \in {"commit", "done", "lost"} =>
                   pc'[i] \in {"commit", "done", "lost"}
        PROVE  OutputsKept'
    <2>1. ASSUME NEW out \in Outputs \cup {NoOutput}, Kept(out) PROVE Kept(out)'
      BY <1>1, <2>1, KeptStays
    <2>2. \A k \in Keys : Kept(idem[k])'
      BY <1>1, <1>o, <2>1 DEF Kept
    <2>3. \A r \in Calls : Kept(reply[r].out)'
      BY <1>1, <1>o, <1>n, <2>1 DEF Kept
    <2> QED BY <2>2, <2>3 DEF OutputsKept
  <1>2. ASSUME NEW r \in Calls, Receive(r) PROVE OutputsKept'
    BY <1>1, <1>2, <1>t, StepWrites
  <1>3. ASSUME NEW r \in Calls, StartInitiate(r) \/ StartOnExisting(r) \/ Load(r)
        PROVE  OutputsKept'
    BY <1>1, <1>3, <1>t, StepWrites
  <1>4. ASSUME NEW r \in Calls, ReturnCached(r) PROVE OutputsKept'
    <2>1. \A i \in Calls : pc[i] \in {"commit", "done", "lost"} =>
             pc'[i] \in {"commit", "done", "lost"}
      BY <1>4, <1>t, StepWrites
    <2>2. ASSUME NEW out \in Outputs \cup {NoOutput}, Kept(out) PROVE Kept(out)'
      BY <1>4, <1>t, <2>1, <2>2, StepWrites, KeptStays
    <2>3. \A k \in Keys : Kept(idem[k])'
      BY <1>4, <1>t, <1>o, <2>2, StepWrites DEF Kept
    <2>4. \A q \in Calls : Kept(reply[q].out)'
      <3>1. \A q \in Calls : q # r => reply'[q].out = reply[q].out
        BY <1>4, <1>t, StepWrites
      <3>2. reply'[r].out = idem[Key(r)] /\ Key(r) \in Keys
        BY <1>4, <1>t, StepWrites
      <3> QED BY <1>o, <2>2, <3>1, <3>2 DEF Kept
    <2> QED BY <2>3, <2>4 DEF OutputsKept
  <1>5. ASSUME NEW r \in Calls, Save(r) PROVE OutputsKept'
    <2>1. CASE Op(r) = "initiate"
      <3>1. Id(r) = r
        BY <1>5, <1>t, <2>1, StepWrites
        DEF Inv, AgreeInv, InitiateDrawsId, TypeInv, CallsHold, CallHolds
      <3>2. \A i \in Calls : pc[i] \in {"commit", "done", "lost"} =>
               pc'[i] = pc[i] /\ repo'[i] = repo[i]
        BY <1>5, <1>t, <3>1, StepWrites
      <3>3. ASSUME NEW out \in Outputs \cup {NoOutput}, Kept(out) PROVE Kept(out)'
        BY <3>2, <3>3, KeptStays
      <3> QED BY <1>5, <1>t, <1>o, <3>3, StepWrites DEF OutputsKept, Kept
    <2>2. CASE Op(r) # "initiate"
      <3>1. repo[Id(r)] = local[r] /\ local[r].ref \in Calls /\ repo[Id(r)] # NoIntent
        BY <1>5, <1>t, <2>2, StepWrites, NoneIsNoCall
        DEF SerialInv, InStep, TypeInv, CallsHold, CallHolds, NoIntent
      <3>2. repo[Id(r)].status \in {"succeeded", "refunded"} =>
               Advanced(r).status \in {"succeeded", "refunded"}
        BY <1>5, <1>t, <2>2, <3>1, SavedStatus DEF CanTransition, PaymentIntentTransitions
      <3>3. \A i \in Calls : pc[i] \in {"commit", "done", "lost"} =>
               pc'[i] \in {"commit", "done", "lost"}
        BY <1>5, <1>t, StepWrites
      <3>4. \A i \in Calls :
               \/ repo'[i] = repo[i]
               \/ repo[i] # NoIntent /\
                     (repo[i].status \in {"succeeded", "refunded"} =>
                         repo'[i].status \in {"succeeded", "refunded"})
        BY <1>5, <1>t, <3>1, <3>2, StepWrites
      <3>5. ASSUME NEW out \in Outputs \cup {NoOutput}, Kept(out) PROVE Kept(out)'
        BY <3>3, <3>4, <3>5, KeptStays
      <3> QED BY <1>5, <1>t, <1>o, <3>5, StepWrites DEF OutputsKept, Kept
    <2> QED BY <2>1, <2>2
  <1>6. ASSUME NEW r \in Calls, Commit(r) PROVE OutputsKept'
    <2>1. Id(r) \in Calls /\ repo[Id(r)] = local[r] /\ repo[Id(r)] # NoIntent
      BY <1>6, <1>t, StepWrites, NoneIsNoCall
      DEF SerialInv, InStep, Inv, AgreeInv, SavedAgree, NoIntent
    <2>2. pc[Id(r)] \in {"commit", "done", "lost"}
      BY <2>1 DEF Inv, AgreeInv, StoredByInitiate
    <2>3. \A i \in Calls : pc[i] \in {"commit", "done", "lost"} =>
             pc'[i] \in {"commit", "done", "lost"}
      BY <1>6, <1>t, StepWrites
    <2>4. PICK out : out = Output(r)
      OBVIOUS
    <2>5. Kept(out)'
      <3>1. out.id = Id(r) /\ out.intent = repo[Id(r)] /\ repo' = repo
        BY <1>6, <1>t, <2>1, <2>4, StepWrites DEF Output
      <3> QED BY <2>1, <2>2, <2>3, <3>1 DEF Kept
    <2>6. ASSUME NEW o \in Outputs \cup {NoOutput}, Kept(o) PROVE Kept(o)'
      BY <1>6, <1>t, <2>3, <2>6, StepWrites, KeptStays
    <2>7. \A k \in Keys : idem'[k] = out \/ idem'[k] = idem[k]
      BY <1>6, <1>t, <2>4, StepWrites
    <2>8. \A q \in Calls : reply'[q].out = out \/ reply'[q].out = reply[q].out
      BY <1>6, <1>t, <2>4, StepWrites
    <2>9. \A k \in Keys : Kept(idem[k])'
      BY <1>o, <2>5, <2>6, <2>7 DEF Kept
    <2>10. \A q \in Calls : Kept(reply[q].out)'
      BY <1>o, <2>5, <2>6, <2>8 DEF Kept
    <2> QED BY <2>9, <2>10 DEF OutputsKept
  <1>7. CASE ProcessExits
    <2>1. \A i \in Calls : pc[i] \in {"commit", "done", "lost"} => pc'[i] \in {"done", "lost"}
      BY <1>7, <1>t, ExitWrites
    <2>2. \A i \in Calls : repo'[i] = repo[i] \/ repo'[i] = NoIntent
      BY <1>7, <1>t, ExitWrites
    <2>3. ASSUME NEW out \in Outputs \cup {NoOutput}, Kept(out) PROVE Kept(out)'
      BY <2>1, <2>2, <2>3, KeptStays
    <2>4. \A k \in Keys : idem'[k] = idem[k] \/ idem'[k] = NoOutput
      BY <1>7, <1>t, ExitWrites
    <2>5. \A k \in Keys : Kept(idem[k])'
      BY <1>o, <1>n, <2>3, <2>4 DEF Kept
    <2>6. \A q \in Calls : Kept(reply[q].out)'
      BY <1>7, <1>t, <1>o, <2>3, ExitWrites DEF Kept
    <2> QED BY <2>5, <2>6 DEF OutputsKept
  <1>8. CASE Quiet
    <2>1. \A i \in Calls : pc[i] \in {"commit", "done", "lost"} =>
             pc'[i] \in {"commit", "done", "lost"}
      BY <1>8 DEF Quiet
    <2>2. \A r \in Calls : reply'[r].out \in {reply[r].out, NoOutput}
      BY <1>8 DEF Quiet, ErrorReply
    <2> QED BY <1>1, <1>8, <2>1, <2>2 DEF Quiet
  <1> QED BY <1>2, <1>3, <1>4, <1>5, <1>6, <1>7, <1>8, <1>t, StepKinds

LEMMA SerialInvAlways == SerialCallers => (Spec => []SerialInv)
  <1> SUFFICES ASSUME SerialCallers PROVE Spec => []SerialInv
    OBVIOUS
  <1>1. Init => SerialInv
    <2> SUFFICES ASSUME Init PROVE SerialInv
      OBVIOUS
    <2>1. OneAtATime /\ NothingCachedYet /\ InStep
      BY DEF Init, OneAtATime, NothingCachedYet, InStep, Busy, Executing
    <2>2. NeverDisputed /\ OutputsKept
      BY DEF Init, NeverDisputed, OutputsKept, Kept, NoReply, NoOutput, NoIntent
    <2> QED BY <2>1, <2>2 DEF SerialInv
  <1>2. Inv /\ SerialInv /\ [Next]_vars => SerialInv'
    BY OneAtATimeStep, NothingCachedYetStep, InStepStep, NeverDisputedStep, OutputsKeptStep
    DEF SerialInv, Inv
  <1> QED BY <1>1, <1>2, InvAlways, PTL DEF Spec

-------------------------------------------------------------------------------
(* What follows for callers that keep the discipline.                       *)

\* A success that was reported is not taken back: while the intent is known its
\* stored status is "succeeded", or "refunded" since.  Callers that overlap can
\* lose it, as each call writes what it computed from the intent it had loaded
\* before the gateway call (checkout.ts:229-274, 327-368).
THEOREM SuccessesKept == SerialCallers => (Spec => []ReportedSuccessKept)
  <1> SUFFICES ASSUME SerialCallers PROVE Spec => []ReportedSuccessKept
    OBVIOUS
  <1>1. Inv /\ SerialInv => ReportedSuccessKept
    <2> SUFFICES ASSUME Inv, SerialInv, NEW r \in Calls, Told(r) = "SUCCEEDED"
                 PROVE  \/ repo[reply[r].out.id] = NoIntent
                        \/ repo[reply[r].out.id].status \in {"succeeded", "refunded"}
      BY DEF ReportedSuccessKept
    <2>1. reply[r].out.intent.status \in {"succeeded", "disputed"}
      BY ToldAsStored DEF Inv, ToldOfEntity
    <2>2. reply[r].out.intent.status = "succeeded"
      BY <2>1 DEF SerialInv, NeverDisputed
    <2>3. reply[r].out # NoOutput
      BY <2>2 DEF NoOutput, NoIntent
    <2> QED BY <2>2, <2>3 DEF SerialInv, OutputsKept, Kept
  <1> QED BY <1>1, InvAlways, SerialInvAlways, PTL

\* With the in-memory stores, an intent is known only together with the output
\* cached under the key it was made for, or is about to be.
Remembered == \A i \in Calls : repo[i] # NoIntent =>
    pc[i] = "commit" \/ (pc[i] = "done" /\ idem[Key(i)] # NoOutput)

\* A step that stores no new intent and forgets no output keeps both.
LEMMA RememberedFrame ==
    ASSUME Inv, Remembered, OneIntentPerKey,
           \A i \in Calls : repo'[i] # NoIntent => repo[i] # NoIntent,
           \A i \in Calls : repo[i] # NoIntent =>
              /\ req'[i] = req[i]
              /\ pc'[i] = pc[i]
              /\ idem[Key(i)] # NoOutput => idem'[Key(i)] # NoOutput
    PROVE  Remembered' /\ OneIntentPerKey'
  BY DEF Remembered, OneIntentPerKey, Key

LEMMA RememberedStep ==
    ASSUME ~Durable, Inv, SerialInv, Remembered, OneIntentPerKey, [Next]_vars
    PROVE  Remembered' /\ OneIntentPerKey'
  <1>t. TypeInv
    BY DEF Inv
  <1>s. \A i \in Calls : repo[i] # NoIntent => pc[i] \in {"commit", "done"}
    BY DEF Remembered
  <1>1. ASSUME NEW r \in Calls,
               \/ Receive(r) \/ ReturnCached(r)
               \/ StartInitiate(r) \/ StartOnExisting(r) \/ Load(r)
        PROVE  Remembered' /\ OneIntentPerKey'
    <2>1. UNCHANGED <<repo, idem>> /\ pc[r] \notin {"commit", "done"}
          /\ \A q \in Calls : q # r => pc'[q] = pc[q] /\ req'[q] = req[q]
      BY <1>1, <1>t, StepWrites
    <2> QED BY <1>s, <2>1, RememberedFrame
  <1>2. ASSUME NEW r \in Calls, Save(r) PROVE Remembered' /\ OneIntentPerKey'
    <2>1. CASE Op(r) # "initiate"
      <3>1. repo[Id(r)] # NoIntent
        BY <1>2, <1>t, <2>1, StepWrites, NoneIsNoCall
        DEF SerialInv, InStep, TypeInv, CallsHold, CallHolds, NoIntent
      <3> QED BY <1>2, <1>t, <1>s, <3>1, StepWrites, RememberedFrame
    <2>2. CASE Op(r) = "initiate"
      <3>1. Id(r) = r
        BY <1>2, <1>t, <2>2, StepWrites
        DEF Inv, AgreeInv, InitiateDrawsId, TypeInv, CallsHold, CallHolds
      <3>2. \A i \in Calls : repo[i] # NoIntent => Key(i) # Key(r)
        <4> SUFFICES ASSUME NEW i \in Calls, repo[i] # NoIntent, Key(i) = Key(r) PROVE FALSE
          OBVIOUS
        <4>1. idem[Key(r)] = NoOutput /\ pc[r] = "resume"
          BY <1>2, <1>t, StepWrites DEF SerialInv, NothingCachedYet
        <4>2. pc[i] = "commit"
          BY <4>1 DEF Remembered
        <4> QED BY <4>1, <4>2 DEF SerialInv, OneAtATime, Busy, Executing
      <3>3. /\ \A i \in Calls : i # r => repo'[i] = repo[i] /\ pc'[i] = pc[i]
            /\ pc'[r] = "commit" /\ UNCHANGED <<req, idem>>
        BY <1>2, <1>t, <3>1, StepWrites
      <3>4. Remembered'
        BY <3>3 DEF Remembered, Key
      <3>5. OneIntentPerKey'
        BY <3>2, <3>3 DEF OneIntentPerKey, Key
      <3> QED BY <3>4, <3>5
    <2> QED BY <2>1, <2>2
  <1>3. ASSUME NEW r \in Calls, Commit(r) PROVE Remembered' /\ OneIntentPerKey'
    <2>1. Output(r) # NoOutput
      BY <1>3, <1>t, StepWrites
      DEF TypeInv, CallsHold, CallHolds, Output, NoOutput, Op, Requests, Operations
    <2>2. /\ \A k \in Keys : idem[k] # NoOutput => idem'[k] # NoOutput
          /\ idem'[Key(r)] # NoOutput /\ pc'[r] = "done"
          /\ \A q \in Calls : q # r => pc'[q] = pc[q]
          /\ UNCHANGED <<req, repo>>
      BY <1>3, <1>t, <2>1, StepWrites
    <2>3. \A i \in Calls : repo[i] # NoIntent => Key(i) \in Keys /\ Key(i)' = Key(i)
      BY <1>t, <1>s, <2>2 DEF TypeInv, CallsHold, CallHolds, Key, Requests
    <2>4. Remembered'
      BY <2>2, <2>3 DEF Remembered
    <2>5. OneIntentPerKey'
      BY <2>2 DEF OneIntentPerKey, Key
    <2> QED BY <2>4, <2>5
  <1>4. CASE ProcessExits
    BY <1>4, <1>t, ExitWrites DEF Remembered, OneIntentPerKey
  <1>5. CASE Quiet
    <2>1. UNCHANGED <<req, repo, idem>>
          /\ \A i \in Calls : pc[i] \in {"commit", "done"} => pc'[i] = pc[i]
      BY <1>5 DEF Quiet
    <2> QED BY <1>s, <2>1, RememberedFrame
  <1> QED BY <1>1, <1>2, <1>3, <1>4, <1>5, <1>t, StepKinds

\* Retries of InitiateCheckout converge on one stored intent
\* (idempotency-key.ts:4-6), with the in-memory stores of main.ts.  Stores that
\* survive an exit between save and commit would keep the first attempt's too.
THEOREM OneIntentKept ==
    SerialCallers /\ ~Durable => (Spec => []OneIntentPerKey)
  <1> SUFFICES ASSUME SerialCallers, ~Durable PROVE Spec => []OneIntentPerKey
    OBVIOUS
  <1>1. Init => Remembered /\ OneIntentPerKey
    BY DEF Init, Remembered, OneIntentPerKey
  <1>2. Inv /\ SerialInv /\ (Remembered /\ OneIntentPerKey) /\ [Next]_vars
            => (Remembered /\ OneIntentPerKey)'
    BY RememberedStep
  <1> QED BY <1>1, <1>2, InvAlways, SerialInvAlways, PTL DEF Spec

-------------------------------------------------------------------------------
(* The refinement of PaymentIntentLifecycle.                                *)

stored == [i \in Calls |-> repo[i].status]

LEMMA StepIsLifecycleStep ==
    ASSUME Inv, SerialInv, [Next]_vars
    PROVE  [Lifecycle!Next]_stored
  <1>t. TypeInv
    BY DEF Inv
  <1>a. ASSUME UNCHANGED repo PROVE UNCHANGED stored
    BY <1>a DEF stored
  <1>1. ASSUME NEW r \in Calls, Save(r) PROVE Lifecycle!Next \/ UNCHANGED stored
    <2>1. /\ Id(r) \in Calls /\ pc[r] = "resume"
          /\ \A i \in Calls : repo'[i] = IF i = Id(r) THEN Advanced(r) ELSE repo[i]
      BY <1>1, <1>t, StepWrites
    <2>2. stored' = [stored EXCEPT ![Id(r)] = Advanced(r).status]
      BY <2>1 DEF stored
    <2>3. CASE Op(r) = "initiate"
      <3>1. Id(r) = r
        BY <1>t, <2>1, <2>3 DEF Inv, AgreeInv, InitiateDrawsId, TypeInv, CallsHold, CallHolds
      <3>2. repo[r] = NoIntent
        BY <2>1 DEF Inv, AgreeInv, StoredByInitiate
      <3>3. stored[r] = "absent"
        BY <3>2 DEF stored, NoIntent
      <3>4. Lifecycle!Appear(r)
        BY <1>1, <1>t, <2>2, <2>3, <3>1, <3>3, SavedStatus DEF Lifecycle!Appear, stored
      <3> QED BY <3>4 DEF Lifecycle!Next
    <2>4. CASE Op(r) # "initiate"
      <3>1. stored[Id(r)] = local[r].status
        BY <2>1, <2>4 DEF SerialInv, InStep, stored
      <3>2. CASE Advanced(r) = local[r]
        BY <2>2, <3>1, <3>2 DEF stored
      <3>3. CASE /\ Advanced(r).status \in {"succeeded", "failed", "refunded"}
                 /\ CanTransition(local[r].status, Advanced(r).status)
        <4>1. PICK i \in Calls : i = Id(r)
          BY <2>1
        <4>2. Lifecycle!Advance(i)
          BY <2>2, <3>1, <3>3, <4>1
          DEF Lifecycle!Advance, Lifecycle!CanTransition, Lifecycle!PaymentIntentTransitions,
              CanTransition, PaymentIntentTransitions, Lifecycle!PaymentIntentStatus, stored
        <4> QED BY <4>2 DEF Lifecycle!Next
      <3> QED BY <1>1, <1>t, <2>4, <3>2, <3>3, SavedStatus
    <2> QED BY <2>3, <2>4
  <1>2. ASSUME ProcessExits PROVE Lifecycle!Next \/ UNCHANGED stored
    <2>1. CASE Durable
      BY <1>2, <1>a, <1>t, <2>1, ExitWrites
    <2>2. CASE ~Durable
      <3>1. \A i \in Calls : repo'[i].status = "absent"
        BY <1>2, <1>t, <2>2, ExitWrites DEF NoIntent
      <3>2. Lifecycle!Forget
        BY <2>2, <3>1 DEF Lifecycle!Forget, stored
      <3> QED BY <3>2 DEF Lifecycle!Next
    <2> QED BY <2>1, <2>2
  <1>3. ASSUME NEW r \in Calls,
               \/ Receive(r) \/ ReturnCached(r) \/ StartInitiate(r)
               \/ StartOnExisting(r) \/ Load(r) \/ Commit(r)
        PROVE  UNCHANGED stored
    BY <1>3, <1>a, <1>t, StepWrites
  <1>4. CASE Quiet
    BY <1>4, <1>a DEF Quiet
  <1> QED BY <1>1, <1>2, <1>3, <1>4, <1>t, StepKinds

\* The stored intents, seen alone, implement PaymentIntentLifecycle: each
\* appears once, as "pending", and moves only along the entity's table, although
\* the repository takes whatever status it is given (payment-intent.ts:36-45).
THEOREM StoredIntentsLiveOnce == SerialCallers => (Spec => ImplementsLifecycle)
  <1> SUFFICES ASSUME SerialCallers PROVE Spec => ImplementsLifecycle
    OBVIOUS
  <1>1. Init => Lifecycle!Init
    BY DEF Init, Lifecycle!Init, NoIntent
  <1>2. Inv /\ SerialInv /\ [Next]_vars => [Lifecycle!Next]_stored
    BY StepIsLifecycleStep
  <1> QED
    BY <1>1, <1>2, InvAlways, SerialInvAlways, PTL
    DEF Spec, ImplementsLifecycle, Lifecycle!Spec, stored
===============================================================================
