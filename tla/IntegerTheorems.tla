--------------------------- MODULE IntegerTheorems ---------------------------
(***************************************************************************)
(* Lemmas about integers: what Solidity's unchecked arithmetic on           *)
(* fixed-width integers computes, for every width m; and that sets of       *)
(* naturals have least elements, which gives induction.                     *)
(***************************************************************************)
EXTENDS Integers, FiniteSetsExt, FiniteSetTheorems, TLAPS

LEMMA DivMod ==
  ASSUME NEW a \in Int, NEW m \in Nat \ {0}
  PROVE  /\ a \div m \in Int
         /\ a % m \in 0..(m - 1)
         /\ a = m * (a \div m) + (a % m)
  BY SMT

LEMMA ModUnique ==
  ASSUME NEW m \in Nat \ {0}, NEW q \in Int, NEW r \in 0..(m - 1)
  PROVE  (m * q + r) % m = r
  BY SMT

LEMMA ModSmall ==
  ASSUME NEW m \in Nat \ {0}, NEW r \in 0..(m - 1)
  PROVE  r % m = r
  BY SMT

\* Adding to a wrapped number and wrapping again.
LEMMA ModAdd ==
  ASSUME NEW a \in Int, NEW b \in Int, NEW m \in Nat \ {0}
  PROVE  ((a % m) + b) % m = (a + b) % m
<1> DEFINE qa == a \div m
           ra == a % m
<1>1. qa \in Int /\ ra \in Int /\ a = m * qa + ra
  BY DivMod
<1> HIDE DEF qa, ra
<1> DEFINE q == (ra + b) \div m
           r == (ra + b) % m
<1>2. ra + b \in Int
  BY <1>1
<1>3. q \in Int /\ r \in 0..(m - 1) /\ ra + b = m * q + r
  BY <1>2, DivMod
<1> HIDE DEF q, r
<1>4. qa + q \in Int /\ a + b = m * (qa + q) + r
  BY <1>1, <1>3
<1>5. (m * (qa + q) + r) % m = r
  BY <1>3, <1>4, ModUnique
<1>6. r = (a + b) % m
  BY <1>4, <1>5
<1> QED
  BY <1>6 DEF r, ra

\* The difference of two numbers less than one turn apart survives the wrap of
\* either: what the unchecked subtractions compute.
LEMMA ModDifference ==
  ASSUME NEW a \in Int, NEW b \in Int, NEW m \in Nat \ {0}, a - b \in 0..(m - 1)
  PROVE  /\ ((a % m) - (b % m)) % m = a - b
         /\ (a - (b % m)) % m = a - b
<1> DEFINE qa == a \div m
           ra == a % m
           qb == b \div m
           rb == b % m
<1>1. /\ qa \in Int /\ ra \in Int /\ a = m * qa + ra
      /\ qb \in Int /\ rb \in Int /\ b = m * qb + rb
  BY DivMod
<1> HIDE DEF qa, ra, qb, rb
<1> DEFINE d == a - b
<1>2. d \in 0..(m - 1) /\ ra - rb = m * (qb - qa) + d /\ a - rb = m * qb + d
  BY <1>1
<1> HIDE DEF d
<1>3. qb - qa \in Int
  BY <1>1
<1>4. (m * (qb - qa) + d) % m = d
  BY <1>2, <1>3, ModUnique
<1>5. (m * qb + d) % m = d
  BY <1>1, <1>2, ModUnique
<1>6. (ra - rb) % m = d /\ (a - rb) % m = d
  BY <1>2, <1>4, <1>5
<1> QED
  BY <1>6 DEF d, ra, rb

\* A mean of values below n is below n.
LEMMA MeanBelow ==
  ASSUME NEW a \in Nat, NEW n \in Nat \ {0}, NEW e \in Nat \ {0}, a <= (n - 1) * e
  PROVE  a \div e \in 0..(n - 1)
  BY SMT

LEMMA ProductBelow ==
  ASSUME NEW n \in Nat \ {0}, NEW e \in Nat, NEW t \in Nat \ {0}, NEW m \in Nat, e < t,
         n * t <= m
  PROVE  (n - 1) * e < m
<1>1. (n - 1) * e <= n * e
  BY SMT
<1>2. n * e < n * t
  BY SMT
<1> QED
  BY <1>1, <1>2

-----------------------------------------------------------------------------
\* Induction, from the well-foundedness of the finite sets: a set of naturals that has 0
\* and the successor of each of its members has them all.

LEMMA LeastNatural ==
  ASSUME NEW S \in SUBSET Nat, S # {}
  PROVE  \E m \in S : \A k \in S : m <= k
<1> DEFINE T == {0..m : m \in S}
<1>1. IsWellFoundedOn(StrictSubsetOrdering(Nat), FiniteSubsetsOf(Nat))
  BY FS_StrictSubsetOrderingWellFounded
<1>2. T \subseteq FiniteSubsetsOf(Nat) /\ T # {}
  <2>1. ASSUME NEW m \in S PROVE 0..m \in FiniteSubsetsOf(Nat)
    <3>1. IsFiniteSet(0..m)
      BY FS_Interval
    <3> QED
      BY <3>1 DEF FiniteSubsetsOf
  <2> QED
    BY <2>1
<1>3. \E X \in T : \A Y \in T : <<Y, X>> \notin StrictSubsetOrdering(Nat)
  BY <1>1, <1>2, WFMin
<1>4. PICK m \in S : \A k \in S : <<0..k, 0..m>> \notin StrictSubsetOrdering(Nat)
  BY <1>3
<1>5. ASSUME NEW k \in S, k < m PROVE FALSE
  <2>1. 0..k \subseteq 0..m /\ m \in 0..m /\ m \notin 0..k
    BY <1>5
  <2>2. 0..k \in SUBSET Nat /\ 0..m \in SUBSET Nat
    OBVIOUS
  <2>3. <<0..k, 0..m>> \in StrictSubsetOrdering(Nat)
    BY <2>1, <2>2 DEF StrictSubsetOrdering
  <2> QED
    BY <1>4, <2>3
<1> QED
  BY <1>5

LEMMA Induction ==
  ASSUME NEW S, 0 \in S, \A n \in Nat : n \in S => n + 1 \in S
  PROVE  Nat \subseteq S
<1> SUFFICES ASSUME Nat \ S # {} PROVE FALSE
  OBVIOUS
<1>1. PICK m \in Nat \ S : \A k \in Nat \ S : m <= k
  <2>1. Nat \ S \in SUBSET Nat
    OBVIOUS
  <2> QED
    BY <2>1, LeastNatural
<1>2. m # 0 /\ m - 1 \in Nat
  BY <1>1
<1>3. m - 1 \in S
  BY <1>1, <1>2
<1>4. (m - 1) + 1 \in S
  BY <1>2, <1>3
<1> QED
  BY <1>1, <1>4

\* The largest of some places of a sequence is one of them.
LEMMA LargestPlace ==
  ASSUME NEW n \in Nat, NEW places \in SUBSET (1..n), places # {}
  PROVE  Max(places) \in places /\ \A i \in places : i <= Max(places)
<1> DEFINE left == {n - i : i \in places}
<1>1. left \in SUBSET Nat /\ left # {}
  <2>1. \A i \in places : n - i \in Nat
    OBVIOUS
  <2> QED
    BY <2>1
<1>2. PICK m \in left : \A k \in left : m <= k
  BY <1>1, LeastNatural
<1>3. PICK i \in places : m = n - i
  BY <1>2
<1>4. \A j \in places : i >= j
  <2>1. \A j \in places : m <= n - j
    BY <1>2
  <2>2. \A j \in places : j \in Int
    OBVIOUS
  <2> QED
    BY <1>3, <2>1, <2>2
<1>5. Max(places) = CHOOSE x \in places : \A y \in places : x >= y
  BY DEF Max
<1>6. Max(places) \in places /\ \A j \in places : Max(places) >= j
  BY <1>4, <1>5
<1> QED
  BY <1>6
=============================================================================
