---------------------------- MODULE NaturalFacts ----------------------------
(***************************************************************************)
(* What the proofs need of the natural numbers: division and remainder     *)
(* (integers of a fixed width), and induction and recursion, stated for    *)
(* sets and functions so that every backend can use them (loops).          *)
(***************************************************************************)
EXTENDS Integers, TLAPS, WellFoundedInduction

\* A set of natural numbers has a least element.
LEMMA LeastElement ==
    ASSUME NEW T \in SUBSET Nat, T # {}
    PROVE  \E i \in T : \A j \in T : i <= j
<1> DEFINE R == OpToRel(<, Nat)
<1>1. IsWellFoundedOn(R, Nat)
  BY NatLessThanWellFounded
<1>2. PICK i \in T : \A j \in T : ~ (<<j, i>> \in R)
  <2> HIDE DEF R
  <2> QED BY <1>1, WFMin
<1>3. \A j \in T : ~ (j < i)
  BY <1>2 DEF OpToRel
<1> QED BY <1>3

\* What holds of 0 and of every successor holds of every natural number.
LEMMA SetInduction ==
    ASSUME NEW T, 0 \in T, \A n \in Nat : n \in T => n + 1 \in T
    PROVE  \A n \in Nat : n \in T
<1> DEFINE C == {n \in Nat : n \notin T}
<1> SUFFICES ASSUME C # {} PROVE FALSE
  OBVIOUS
<1>1. PICK i \in C : \A j \in C : i <= j
  BY LeastElement
<1>2. i \in Nat /\ i \notin T /\ i # 0
  OBVIOUS
<1>3. i - 1 \in Nat /\ (i - 1) + 1 = i
  BY <1>2
<1>4. i - 1 \in T
  BY <1>1, <1>3
<1> QED BY <1>2, <1>3, <1>4

\* The values of a loop that starts with b and makes N rounds.
IsRun(g, N, S, b, step) ==
    /\ g \in [0..N -> S]
    /\ g[0] = b
    /\ \A i \in 1..N : g[i] = step[i][g[i - 1]]

\* There are such values, whatever the rounds compute.
LEMMA RecursionExists ==
    ASSUME NEW S, NEW N \in Nat, NEW b \in S,
           NEW step \in [1..N -> [S -> S]]
    PROVE  \E g : IsRun(g, N, S, b, step)
<1> DEFINE Good(n) ==
             \E g \in [0..n -> S] :
                g[0] = b /\ \A i \in 1..n : g[i] = step[i][g[i - 1]]
           T == {n \in Nat : n <= N => Good(n)}
<1>1. 0 \in T
  <2> DEFINE g == [i \in 0..0 |-> b]
  <2>1. g \in [0..0 -> S] /\ g[0] = b /\ \A i \in 1..0 : FALSE
    OBVIOUS
  <2> HIDE DEF g
  <2>2. Good(0)
    BY <2>1
  <2> QED BY <2>2
<1>2. ASSUME NEW n \in Nat, n \in T
      PROVE  n + 1 \in T
  <2> SUFFICES ASSUME n + 1 <= N PROVE Good(n + 1)
    OBVIOUS
  <2>1. PICK g \in [0..n -> S] :
           g[0] = b /\ \A i \in 1..n : g[i] = step[i][g[i - 1]]
    BY <1>2
  <2> DEFINE v == step[n + 1][g[n]]
             h == [i \in 0..(n + 1) |-> IF i <= n THEN g[i] ELSE v]
  <2>2. v \in S
    <3>1. n + 1 \in 1..N /\ g[n] \in S
      BY <2>1
    <3> QED BY <3>1
  <2>3. h \in [0..(n + 1) -> S] /\ h[0] = b
    <3> HIDE DEF v
    <3> QED BY <2>1, <2>2
  <2>4. ASSUME NEW i \in 1..(n + 1)
        PROVE  h[i] = step[i][h[i - 1]]
    <3>1. i - 1 \in 0..n /\ h[i - 1] = g[i - 1]
      OBVIOUS
    <3>2. CASE i <= n
      <4>1. i \in 1..n /\ h[i] = g[i]
        BY <3>2
      <4> QED BY <2>1, <3>1, <4>1
    <3>3. CASE i = n + 1
      <4>1. h[i] = v /\ i - 1 = n
        BY <3>3
      <4> QED BY <3>1, <3>3, <4>1
    <3> QED BY <3>2, <3>3
  <2> HIDE DEF h
  <2> QED BY <2>3, <2>4
<1>3. N \in T
  <2> HIDE DEF T
  <2> QED BY <1>1, <1>2, SetInduction
<1> QED BY <1>3 DEF IsRun

-----------------------------------------------------------------------------
(* Division and remainder.                                                 *)

\* What integer division and remainder give.
LEMMA Division ==
    ASSUME NEW a \in Nat, NEW p \in Nat \ {0}
    PROVE  /\ a \div p \in Nat
           /\ a % p \in 0..(p - 1)
           /\ a = p * (a \div p) + (a % p)
  <1>1. a \div p \in Nat
    BY SMT
  <1>2. a % p \in 0..(p - 1)
    BY SMT
  <1>3. a = p * (a \div p) + (a % p)
    BY SMT
  <1> QED BY <1>1, <1>2, <1>3

\* Multiplication is monotonic.
LEMMA TimesMonotonic ==
    ASSUME NEW a \in Nat, NEW b \in Nat, NEW c \in Nat, a <= b
    PROVE  a * c <= b * c
  BY SMT

\* A multiple of p between p * m and p * (m + 1).
LEMMA BetweenMultiples ==
    ASSUME NEW p \in Nat \ {0}, NEW m \in Nat, NEW q \in Nat,
           p * m <= p * q, p * q < p * m + p
    PROVE  q = m
  <1>1. ~ (q >= m + 1)
    <2> SUFFICES ASSUME q >= m + 1 PROVE FALSE
      OBVIOUS
    <2>1. (m + 1) * p <= q * p
      BY TimesMonotonic
    <2> QED BY <2>1, SMT
  <1>2. ~ (m >= q + 1)
    <2> SUFFICES ASSUME m >= q + 1 PROVE FALSE
      OBVIOUS
    <2>1. (q + 1) * p <= m * p
      BY TimesMonotonic
    <2> QED BY <2>1, SMT
  <1> QED BY <1>1, <1>2

\* A number that fits is not changed by cutting it off.
LEMMA SmallRemainder ==
    ASSUME NEW a \in Nat, NEW p \in Nat \ {0}, a < p
    PROVE  a % p = a
  <1> DEFINE d == a \div p
             r == a % p
  <1>1. d \in Nat /\ r \in 0..(p - 1) /\ a = p * d + r
    BY Division
  <1> HIDE DEF d, r
  <1>2. d = 0
    <2>1. p * d \in Nat
      BY <1>1
    <2>2. p * 0 <= p * d /\ p * d < p * 0 + p
      BY <1>1, <2>1, SMT
    <2> QED BY <1>1, <2>2, BetweenMultiples
  <1>3. a = r
    BY <1>1, <1>2, SMT
  <1> QED BY <1>3 DEF r

\* Quotient and remainder are determined by what they are for.
LEMMA DivisionUnique ==
    ASSUME NEW a \in Nat, NEW p \in Nat \ {0}, NEW q \in Nat, NEW r \in Nat,
           r < p, a = p * q + r
    PROVE  a \div p = q /\ a % p = r
  <1> DEFINE m == a \div p
             s == a % p
  <1>1. m \in Nat /\ s \in 0..(p - 1) /\ a = p * m + s
    BY Division
  <1> HIDE DEF m, s
  <1> DEFINE x == p * m
             y == p * q
  <1>2. x \in Nat /\ y \in Nat
    BY <1>1, SMT
  <1>3. a = x + s /\ a = y + r
    BY <1>1
  <1> HIDE DEF x, y
  <1>4. x <= y \/ y <= x
    BY <1>2
  <1>5. CASE x <= y
    <2>1. y < x + p
      BY <1>1, <1>2, <1>3
    <2>2. q = m
      BY <1>1, <1>5, <2>1, BetweenMultiples DEF x, y
    <2> QED BY <1>1, <1>2, <1>3, <2>2 DEF m, s, x, y
  <1>6. CASE y <= x
    <2>1. x < y + p
      BY <1>1, <1>2, <1>3
    <2>2. q = m
      BY <1>1, <1>6, <2>1, BetweenMultiples DEF x, y
    <2> QED BY <1>1, <1>2, <1>3, <2>2 DEF m, s, x, y
  <1> QED BY <1>4, <1>5, <1>6

\* Dividing twice.
LEMMA DivisionTwice ==
    ASSUME NEW v \in Nat, NEW p \in Nat \ {0}, NEW b \in Nat \ {0}
    PROVE  v \div (p * b) = (v \div p) \div b
  <1> DEFINE x == v \div p
             r == v % p
             y == x \div b
             s == x % b
             pb == p * b
             ps == p * s
             t == ps + r
  <1>1. x \in Nat /\ r \in 0..(p - 1) /\ v = p * x + r
    BY Division
  <1> HIDE DEF x, r
  <1>2. y \in Nat /\ s \in 0..(b - 1) /\ x = b * y + s
    BY <1>1, Division
  <1> HIDE DEF y, s
  <1>3. pb \in Nat \ {0} /\ ps \in Nat
    BY <1>2, SMT
  <1>4. ps + p <= pb
    <2>1. s + 1 \in Nat /\ s + 1 <= b
      BY <1>2
    <2>2. (s + 1) * p <= b * p
      BY <2>1, TimesMonotonic
    <2> QED BY <1>2, <2>2, SMT
  <1>5. v = pb * y + t
    <2>1. p * x = p * (b * y) + ps
      BY <1>2, SMT
    <2>2. p * (b * y) = pb * y
      BY <1>2, SMT
    <2> DEFINE z == pb * y
    <2>3. z \in Nat
      BY <1>2, <1>3, SMT
    <2>4. v = (z + ps) + r
      BY <1>1, <2>1, <2>2
    <2> HIDE DEF z, ps
    <2>5. v = z + (ps + r)
      BY <1>1, <1>3, <2>3, <2>4
    <2> QED BY <2>5 DEF z
  <1>6. t \in Nat /\ t < pb
    <2> HIDE DEF ps, pb
    <2> QED BY <1>1, <1>3, <1>4
  <1> HIDE DEF t, pb
  <1>7. v \div pb = y
    BY <1>2, <1>3, <1>5, <1>6, DivisionUnique
  <1> QED BY <1>7 DEF pb, y, x

\* A remainder of a remainder.
LEMMA RemainderTwice ==
    ASSUME NEW v \in Nat, NEW p \in Nat \ {0}, NEW b \in Nat \ {0}
    PROVE  (v % (p * b)) % b = v % b
  <1> DEFINE pb == p * b
             x == v \div pb
             r == v % pb
             y == r \div b
             s == r % b
             q == p * x + y
  <1>1. pb \in Nat \ {0}
    BY SMT
  <1> HIDE DEF pb
  <1>2. x \in Nat /\ r \in Nat /\ v = pb * x + r
    BY <1>1, Division
  <1> HIDE DEF x, r
  <1>3. y \in Nat /\ s \in 0..(b - 1) /\ r = b * y + s
    BY <1>2, Division
  <1> HIDE DEF y, s
  <1>4. q \in Nat
    BY <1>2, <1>3, SMT
  <1>5. v = b * q + s
    <2>1. pb * x = b * (p * x)
      BY <1>2, SMT DEF pb
    <2>2. b * q = b * (p * x) + b * y
      BY <1>2, <1>3, SMT
    <2> DEFINE z == b * (p * x)
               w == b * y
    <2>3. z \in Nat /\ w \in Nat
      BY <1>2, <1>3, SMT
    <2> HIDE DEF z, w, q
    <2>4. v = z + (w + s)
      BY <1>2, <1>3, <2>1 DEF z, w
    <2>5. b * q = z + w
      BY <2>2 DEF z, w
    <2> DEFINE u == b * q
    <2>6. u = z + w
      BY <2>5
    <2> HIDE DEF u
    <2>7. v = u + s
      BY <1>3, <2>3, <2>4, <2>6
    <2> QED BY <2>7 DEF u
  <1> HIDE DEF q
  <1>6. v % b = s
    BY <1>3, <1>4, <1>5, DivisionUnique
  <1> QED BY <1>6 DEF s, r, pb
=============================================================================
