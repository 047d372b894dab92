------------------------ MODULE PaymentIntentLifecycle ------------------------
(***************************************************************************)
(* What the stored payment intents promise their readers, whatever calls   *)
(* are in flight: an intent appears once, as "pending", and from then on   *)
(* its stored status only ever moves along an edge of the entity's table.  *)
(* With the in-memory stores the wiring uses, a process exit forgets all.  *)
(***************************************************************************)
CONSTANTS Intents, Refs, None,
          Durable   \* TRUE when the stores outlive the process

INSTANCE PaymentIntent

VARIABLE status     \* status[i]: the stored status, "absent" before any save

Init == status = [i \in Intents |-> "absent"]

Appear(i) ==
    /\ status[i] = "absent"
    /\ status' = [status EXCEPT ![i] = "pending"]

Advance(i) ==
    \E s \in PaymentIntentStatus :
        /\ CanTransition(status[i], s)
        /\ status' = [status EXCEPT ![i] = s]

Forget ==
    /\ ~Durable
    /\ status' = [i \in Intents |-> "absent"]

Next == Forget \/ \E i \in Intents : Appear(i) \/ Advance(i)

Spec == Init /\ [][Next]_status
=============================================================================
