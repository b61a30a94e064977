-------------------------- MODULE Arithmetic_proofs --------------------------
(***************************************************************************)
(* Facts about remainders, which the ring buffer's indices and the         *)
(* counters that wrap are computed with, for every width; and the least    *)
(* number of a set, which arguments by a minimal counterexample need.      *)
(***************************************************************************)
EXTENDS Integers, WellFoundedInduction, TLAPS

\* Division with remainder, as the provers can use it.
LEMMA Division ==
  ASSUME NEW w \in Nat \ {0}, NEW x \in Int
  PROVE  x % w \in 0 .. w - 1 /\ \E k \in Int : x = w * k + (x % w)
<1> DEFINE q == x \div w
           r == x % w
<1>1. q \in Int /\ r \in 0 .. w - 1 /\ x = w * q + r
  OBVIOUS
<1> HIDE DEF q, r
<1>2. r \in 0 .. w - 1 /\ \E k \in Int : x = w * k + r
  BY <1>1
<1>3. QED
  BY <1>2 DEF r

\* The remainder is determined by being one.
LEMMA RemainderUnique ==
  ASSUME NEW w \in Nat \ {0}, NEW k \in Int, NEW r \in 0 .. w - 1
  PROVE  (w * k + r) % w = r
<1> DEFINE x == w * k + r
<1>1. x \in Int
  OBVIOUS
<1>2. PICK j \in Int : x = w * j + (x % w)
  BY <1>1, Division
<1>3. x % w \in 0 .. w - 1
  BY <1>1, Division
<1> DEFINE s == x % w
           d == k - j
<1>4. d \in Int /\ s \in 0 .. w - 1 /\ w * d = s - r
  BY <1>1, <1>2, <1>3
<1> HIDE DEF s, d
<1>5. ~ (d >= 1) /\ ~ (d <= -1)
  BY <1>4
<1>6. s = r
  BY <1>4, <1>5
<1>7. QED
  BY <1>6 DEF s

\* Taking the remainder of a summand first changes nothing.
LEMMA RemainderOfSum ==
  ASSUME NEW w \in Nat \ {0}, NEW x \in Int, NEW y \in Int
  PROVE  ((x % w) + y) % w = (x + y) % w
<1> DEFINE q == x % w
           r == (q + y) % w
<1>1. q \in Int
  BY Division
<1>2. PICK k \in Int : x = w * k + q
  BY Division
<1> HIDE DEF q
<1>3. q + y \in Int
  BY <1>1
<1>4. r \in 0 .. w - 1 /\ \E j \in Int : q + y = w * j + r
  BY <1>3, Division
<1> HIDE DEF r
<1>5. PICK j \in Int : q + y = w * j + r
  BY <1>4
<1>6. k + j \in Int /\ x + y = w * (k + j) + r
  BY <1>1, <1>2, <1>4, <1>5
<1>7. (x + y) % w = r
  BY <1>4, <1>6, RemainderUnique
<1>8. QED
  BY <1>7 DEF q, r

\* Counting on from the remainder.
LEMMA CountOn ==
  ASSUME NEW w \in Nat \ {0}, NEW x \in Int
  PROVE  ((x % w) + 1) % w = (x + 1) % w
<1>1. 1 \in Int
  OBVIOUS
<1>2. QED
  BY <1>1, RemainderOfSum

\* Two counters that agree modulo their width go on agreeing.
LEMMA BothCount ==
  ASSUME NEW w \in Nat \ {0}, NEW x \in Int, NEW y \in Int, x % w = y % w
  PROVE  (x + 1) % w = (y + 1) % w
<1>1. ((x % w) + 1) % w = (x + 1) % w
  BY CountOn
<1>2. ((y % w) + 1) % w = (y + 1) % w
  BY CountOn
<1>3. QED
  BY <1>1, <1>2

\* Counting one more, in a counter that wraps, is counting one more in any sum it is part of.
LEMMA CountOne ==
  ASSUME NEW w \in Nat \ {0}, NEW x \in Int, NEW y \in Int
  PROVE  /\ (x + 1) % w \in 0 .. w - 1
         /\ (((x + 1) % w) + y) % w = (x + y + 1) % w
<1>1. x + 1 \in Int /\ (x + 1) + y = x + y + 1
  OBVIOUS
<1>2. (((x + 1) % w) + y) % w = ((x + 1) + y) % w
  BY <1>1, RemainderOfSum
<1>3. (x + 1) % w \in 0 .. w - 1
  BY <1>1, Division
<1>4. QED
  BY <1>1, <1>2, <1>3

\* How far a counter is ahead of what another showed of its own value.
LEMMA RemainderOfDifference ==
  ASSUME NEW w \in Nat \ {0}, NEW x \in Int, NEW y \in Int
  PROVE  (x - (y % w)) % w = (x - y) % w
<1> DEFINE q == y % w
           z == x - y
<1>1. q \in Int
  BY Division
<1>2. PICK k \in Int : y = w * k + q
  BY Division
<1> HIDE DEF q
<1>3. z \in Int
  OBVIOUS
<1>4. z % w \in 0 .. w - 1
  BY <1>3, Division
<1>5. PICK j \in Int : z = w * j + (z % w)
  BY <1>3, Division
<1> DEFINE r == z % w
<1>6. r \in 0 .. w - 1 /\ z = w * j + r
  BY <1>4, <1>5
<1>7. x - q = z + w * k
  BY <1>1, <1>2
<1> HIDE DEF r, z
<1>8. k + j \in Int /\ x - q = w * (k + j) + r
  BY <1>1, <1>6, <1>7
<1>9. (x - q) % w = r
  BY <1>6, <1>8, RemainderUnique
<1>10. QED
  BY <1>9 DEF q, r, z

\* A remainder is at most what it is the remainder of.
LEMMA RemainderAtMost ==
  ASSUME NEW w \in Nat \ {0}, NEW x \in Nat
  PROVE  x % w <= x
<1> DEFINE r == x % w
<1>0. x \in Int
  OBVIOUS
<1>1. r \in 0 .. w - 1 /\ \E k \in Int : x = w * k + r
  BY <1>0, Division
<1> HIDE DEF r
<1>2. PICK k \in Int : x = w * k + r
  BY <1>1
<1>3. ~ (k <= -1)
  <2>1. SUFFICES ASSUME k <= -1
                 PROVE  FALSE
    OBVIOUS
  <2>2. w * k <= -w
    BY <2>1
  <2>3. QED
    BY <1>1, <1>2, <2>2
<1>4. w * k >= 0
  BY <1>3
<1>5. r <= x
  BY <1>1, <1>2, <1>4
<1>6. QED
  BY <1>5 DEF r

\* A sum of two numbers below the width wraps at most once.
LEMMA WrapsOnce ==
  ASSUME NEW w \in Nat \ {0}, NEW x \in 0 .. 2 * w - 1
  PROVE  x % w = IF x < w THEN x ELSE x - w
OBVIOUS

\* A set of natural numbers that is not empty has a least element.
LEMMA LeastNumber ==
  ASSUME NEW S \in SUBSET Nat, S # {}
  PROVE  \E m \in S : \A k \in S : m <= k
<1>1. PICK m \in S : \A k \in S : ~ (<<k, m>> \in OpToRel(<, Nat))
  BY NatLessThanWellFounded, WFMin, Zenon
<1>2. ASSUME NEW k \in S
      PROVE  m <= k
  <2>1. m \in Nat /\ k \in Nat
    OBVIOUS
  <2>2. <<k, m>> \in Nat \X Nat /\ <<k, m>>[1] = k /\ <<k, m>>[2] = m
    BY <2>1
  <2>3. ~ (k < m)
    BY <1>1, <2>2 DEF OpToRel
  <2> QED
    BY <2>1, <2>3
<1> QED
  BY <1>2
=============================================================================
