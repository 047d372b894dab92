--------------------------------- MODULE Money ---------------------------------
(***************************************************************************)
(* Amounts of money from the wire of the RPC to the wire of a gateway      *)
(* (src/src/domain/value_objects/money.ts, the mappers of the gRPC server  *)
(* and of both gateways).  Inside the program an amount is a bigint; each  *)
(* gateway is sent a double, which holds every integer below Limit = 2^53  *)
(* and above it only multiples of growing powers of two.                   *)
(***************************************************************************)
EXTENDS Integers

CONSTANTS
    Limit,       \* Number.MAX_SAFE_INTEGER + 1
    Units,       \* the distances between neighbouring doubles: powers of two
    Currencies   \* three upper-case letters

ASSUME Doubles == /\ Limit \in Nat \ {0}
                  /\ Units \subseteq Nat \ {0}
                  /\ 1 \in Units
                  /\ \A u, v \in Units : u < v => v % u = 0 /\ (Limit * u) % v = 0

\* The amount of a request: an int64 and a string, or no message at all.
Missing == [amount |-> -1, currency |-> "missing"]

-------------------------------------------------------------------------------
(* The smart constructor refuses what is negative and what is not shaped     *)
(* like a currency; a required amount is refused when it is missing.         *)

IsMoney(m)       == m.amount >= 0 /\ m.currency \in Currencies
AcceptedMoney(m) == m # Missing /\ IsMoney(m)

-------------------------------------------------------------------------------
Distance(x, y) == IF x > y THEN x - y ELSE y - x

(* Number(n): the nearest double, and of two equally near ones that with     *)
(* the even significand.                                                     *)

Nearest(n, u) ==
    LET q == n \div u
        r == n % u
    IN  IF 2 * r > u \/ (2 * r = u /\ q % 2 = 1) THEN u * (q + 1) ELSE u * q

\* The unit of the doubles around n.
Unit(n) == CHOOSE u \in Units : /\ n < Limit * u
                                /\ \A v \in Units : n < Limit * v => u <= v

Number(n) == Nearest(n, Unit(n))

\* A double sent for an amount is it when there is such a double, and never
\* further off than the nearest.
Faithful(sent, asked) ==
    /\ asked < Limit => sent = asked
    /\ \A u \in Units, q \in 0 .. Limit : Distance(sent, asked) <= Distance(u * q, asked)

\* Faulty variant: the digits that do not fit are cut off.
Truncated(n) == Unit(n) * (n \div Unit(n))

\* What each gateway is sent.  OnvoPay's adapter takes colones only, and any
\* amount; Stripe's takes any currency, and only what a double holds.
OnvoPayTakes(m) == m.currency = "CRC"
ToOnvoPay(m)    == Number(m.amount)

StripeTakes(m)  == m.amount < Limit
ToStripe(m)     == Number(m.amount)
===============================================================================
