------------------------------ MODULE MoneyProofs ------------------------------
(***************************************************************************)
(* Proofs about Money: what a gateway is sent is the amount that was asked *)
(* whenever a double holds it, and otherwise a double nearest to it.       *)
(***************************************************************************)
EXTENDS Money, WellFoundedInduction, TLAPS

\* The order of the natural numbers, as a relation.
Less == { p \in Nat \X Nat : p[1] < p[2] }

\* Every set of natural numbers has a least one.
LEMMA LessIsWellFounded == IsWellFoundedOn(Less, Nat)
  BY NatLessThanWellFounded, Zenon DEF OpToRel, Less

\* So a fitting unit implies a smallest one.
LEMMA SmallestUnit ==
    ASSUME NEW S \in SUBSET Nat, S # {}
    PROVE  \E u \in S : \A v \in S : u <= v
  <1>1. PICK u \in S : \A v \in S : ~ (<<v, u>> \in Less)
    BY LessIsWellFounded, WFMin, Zenon
  <1>2. ASSUME NEW v \in S, v < u PROVE FALSE
    <2>1. <<v, u>> \in Nat \X Nat /\ <<v, u>>[1] < <<v, u>>[2]
      BY <1>2
    <2>2. <<v, u>> \in Less
      BY <2>1, Zenon DEF Less
    <2> QED BY <1>1, <2>2
  <1> QED BY <1>2

\* Division with remainder.
LEMMA DivMod ==
    ASSUME NEW n \in Int, NEW u \in Nat \ {0}
    PROVE  /\ n \div u \in Int
           /\ n % u \in 0 .. u - 1
           /\ n = u * (n \div u) + (n % u)
  OBVIOUS

\* Division without.
LEMMA Divides ==
    ASSUME NEW n \in Int, NEW u \in Nat \ {0}, n % u = 0
    PROVE  n \div u \in Int /\ n = u * (n \div u)
  <1>1. n \div u \in Int /\ n = u * (n \div u) + (n % u)
    BY DivMod
  <1>2. u * (n \div u) \in Int
    BY <1>1
  <1> QED BY <1>1, <1>2

\* Multiples grow with their factor.
LEMMA TimesGrows ==
    ASSUME NEW u \in Nat, NEW p \in Int, NEW q \in Int, p <= q
    PROVE  u * p <= u * q
  OBVIOUS

\* Nearest is nearest among the multiples.
LEMMA NearestMultiple ==
    ASSUME NEW n \in Int, NEW u \in Nat \ {0}, NEW k \in Int
    PROVE  Distance(Nearest(n, u), n) <= Distance(u * k, n)
  <1> DEFINE q == n \div u
             r == n % u
  <1>1. q \in Int /\ r \in 0 .. u - 1 /\ n = u * q + r
    BY DivMod
  <1> HIDE DEF q, r
  <1>2. u * q \in Int /\ u * (q + 1) \in Int /\ u * (q + 1) = u * q + u /\ u * k \in Int
    BY <1>1
  <1>3. /\ Distance(Nearest(n, u), n) \in Nat
        /\ Distance(Nearest(n, u), n) <= r
        /\ Distance(Nearest(n, u), n) <= u - r
    BY <1>1, <1>2 DEF Nearest, Distance, q, r
  <1>4. CASE k <= q
    <2>1. u * k <= u * q
      BY <1>1, <1>4, TimesGrows
    <2> QED BY <1>1, <1>2, <1>3, <2>1 DEF Distance
  <1>5. CASE q + 1 <= k
    <2>1. u * (q + 1) <= u * k
      BY <1>1, <1>5, TimesGrows
    <2> QED BY <1>1, <1>2, <1>3, <2>1 DEF Distance
  <1> QED BY <1>1, <1>4, <1>5

\* Nearest does not go below zero.
LEMMA NearestIsNatural ==
    ASSUME NEW n \in Nat, NEW u \in Nat \ {0}
    PROVE  Nearest(n, u) \in Nat
  <1> DEFINE q == n \div u
  <1>1. q \in Nat
    BY DEF q
  <1> HIDE DEF q
  <1>2. u * q \in Nat /\ u * (q + 1) \in Nat
    BY <1>1
  <1> QED BY <1>2 DEF Nearest, q

\* The unit of an amount in range is one that fits, and none below it does.
LEMMA UnitIsSmallest ==
    ASSUME NEW n \in Nat, NEW w \in Units, n < Limit * w
    PROVE  /\ Unit(n) \in Units
           /\ n < Limit * Unit(n)
           /\ \A v \in Units : n < Limit * v => Unit(n) <= v
  <1> DEFINE Fit == { u \in Units : n < Limit * u }
  <1>1. PICK u \in Fit : \A v \in Fit : u <= v
    BY Doubles, SmallestUnit
  <1>2. \E x \in Units : n < Limit * x /\ \A v \in Units : n < Limit * v => x <= v
    BY <1>1
  <1> QED BY <1>2, Zenon DEF Unit

\* Number is nearest among all doubles, and exact below Limit.
THEOREM NumberIsFaithful ==
    ASSUME NEW n \in Nat, NEW w \in Units, n < Limit * w
    PROVE  Number(n) \in Nat /\ Faithful(Number(n), n)
  <1> DEFINE v == Unit(n)
  <1>1. v \in Nat \ {0} /\ v \in Units
    BY Doubles, UnitIsSmallest
  <1>2. Number(n) \in Nat
    BY <1>1, NearestIsNatural DEF Number
  <1>3. \A k \in Int : Distance(Number(n), n) <= Distance(v * k, n)
    BY <1>1, NearestMultiple DEF Number
  <1>4. ASSUME n < Limit PROVE Number(n) = n
    <2>1. v = 1
      BY <1>1, <1>4, Doubles, UnitIsSmallest
    <2>2. Nearest(n, 1) = n
      BY DEF Nearest
    <2> QED BY <2>1, <2>2 DEF Number
  <1>5. ASSUME NEW u \in Units, NEW q \in 0 .. Limit
        PROVE  Distance(Number(n), n) <= Distance(u * q, n)
    <2>1. u \in Nat \ {0} /\ Limit \in Nat \ {0} /\ q \in Nat
      BY <1>5, Doubles
    <2>2. CASE u = v
      BY <1>3, <2>1, <2>2
    <2>3. CASE v < u
      <3>1. u % v = 0
        BY <1>1, <2>3, Doubles
      <3>2. PICK k \in Int : u = v * k
        <4>1. u \div v \in Int /\ u = v * (u \div v)
          BY <1>1, <2>1, <3>1, Divides
        <4> QED BY <4>1
      <3>3. k * q \in Int /\ u * q = v * (k * q)
        BY <1>1, <2>1, <3>2
      <3> QED BY <1>3, <3>3
    <2>4. CASE u < v
      <3>1. Limit * u <= n
        BY <1>1, <2>1, <2>4, UnitIsSmallest
      <3>2. u * q <= u * Limit /\ u * q \in Int /\ u * Limit \in Int /\ u * Limit = Limit * u
        BY <2>1, TimesGrows
      <3>3. (Limit * u) % v = 0
        BY <1>1, <2>4, Doubles
      <3>4. PICK k \in Int : Limit * u = v * k
        BY <1>1, <3>2, <3>3, Divides
      <3>5. Distance(Number(n), n) <= Distance(Limit * u, n)
        BY <1>3, <3>4
      <3>6. Distance(Limit * u, n) <= Distance(u * q, n)
        BY <3>1, <3>2 DEF Distance
      <3>7. /\ Distance(Number(n), n) \in Int
            /\ Distance(Limit * u, n) \in Int
            /\ Distance(u * q, n) \in Int
        BY <1>2, <3>2 DEF Distance
      <3> QED BY <3>5, <3>6, <3>7
    <2> QED BY <1>1, <2>1, <2>2, <2>3, <2>4
  <1> QED BY <1>2, <1>4, <1>5 DEF Faithful
===============================================================================
