------------------------------- MODULE MCSidecar -------------------------------
(* Small instances of Sidecar for TLC: doubles that hold what is below 8. *)
EXTENDS Sidecar, TLC

CONSTANT k1

Order(k, n, cur) == [key |-> k, money |-> [amount |-> n, currency |-> cur]]

\* Under one key: an amount that a double holds, one that none does, an amount in
\* a currency the adapter does not take and one that is no money.
SomeOrders ==
    { Order(k1, 3, "CRC"), Order(k1, 9, "CRC"), Order(k1, 3, "USD"), Order(k1, -1, "CRC") }

PowersOfTwo == {1, 2, 4, 8}

\* Number is what it should be: nearest, and even where two are as near.
ASSUME NumberIsNearest ==
    \A n \in 0 .. 63 :
       /\ Faithful(Number(n), n)
       /\ \A u \in Units, q \in 0 .. Limit :
             LET d == u * q IN
             d # Number(n) /\ d + Number(n) = 2 * n => (Number(n) \div Unit(n)) % 2 = 0
===============================================================================
