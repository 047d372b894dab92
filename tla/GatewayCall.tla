------------------------------ MODULE GatewayCall ------------------------------
(***************************************************************************)
(* What a use case relies on when it awaits PaymentGatewayPort.initiate    *)
(* (src/src/domain/ports/index.ts:60-100): however often the request is    *)
(* sent and whatever is lost, a gateway carries out one request per key;   *)
(* a call that is told what came of it is told what is recorded under its  *)
(* key; any other answer is an error, which says nothing: the request may  *)
(* have been carried out, or may still be.                                 *)
(***************************************************************************)
CONSTANTS Calls, Keys, None

VARIABLES
    asked,   \* the key each call asks under
    told,    \* what it was told
    done     \* what was carried out under each key

gatewayCallVars == <<asked, told, done>>

Results == [kind : {"charged"}, by : Calls] \cup [kind : {"declined"}]
Nothing == [kind |-> "nothing"]
Failure == [kind |-> "failure"]
Unused  == [kind |-> "unused"]

Init ==
    /\ asked = [r \in Calls |-> None]
    /\ told  = [r \in Calls |-> Nothing]
    /\ done  = [k \in Keys |-> Unused]

\* A call asks under key k; it may be answered at once, with an error or, when
\* the key has been used, with its result.
Ask(r, k) ==
    /\ asked[r] = None
    /\ asked' = [asked EXCEPT ![r] = k]
    /\ \E t \in {Nothing, Failure, done[k]} \ {Unused} : told' = [told EXCEPT ![r] = t]
    /\ UNCHANGED done

\* The gateway carries out the request of a call, which may have been told of
\* an error meanwhile.
Execute(r) ==
    /\ asked[r] # None
    /\ done[asked[r]] = Unused
    /\ told[r] \in {Nothing, Failure}
    /\ \E result \in { [kind |-> "charged", by |-> r], [kind |-> "declined"] } :
          done' = [done EXCEPT ![asked[r]] = result]
    /\ UNCHANGED <<asked, told>>

Deliver(r) ==
    /\ asked[r] # None
    /\ told[r] = Nothing
    /\ done[asked[r]] # Unused
    /\ told' = [told EXCEPT ![r] = done[asked[r]]]
    /\ UNCHANGED <<asked, done>>

Fail(r) ==
    /\ asked[r] # None
    /\ told[r] = Nothing
    /\ told' = [told EXCEPT ![r] = Failure]
    /\ UNCHANGED <<asked, done>>

Next == \E r \in Calls : \/ \E k \in Keys : Ask(r, k)
                         \/ Execute(r)
                         \/ Deliver(r)
                         \/ Fail(r)

Spec == Init /\ [][Next]_gatewayCallVars
===============================================================================
