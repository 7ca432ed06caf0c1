------------------------- MODULE ArithmeticTheorems -------------------------
(***************************************************************************)
(* Facts about numbers that the proofs need: remainders, for the rings of  *)
(* elements, the least number of a set, and induction.                     *)
(***************************************************************************)
EXTENDS Integers, WellFoundedInduction, TLAPS

(* What the quotient and the remainder are.                                *)
LEMMA DivMod ==
  ASSUME NEW m \in Nat \ {0}, NEW x \in Int
  PROVE  /\ x = m * (x \div m) + (x % m)
         /\ x \div m \in Int
         /\ x % m \in 0 .. m - 1
OBVIOUS

(* Only one remainder goes with a multiple.                                *)
LEMMA ModUnique ==
  ASSUME NEW m \in Nat \ {0}, NEW q \in Int, NEW r \in 0 .. m - 1
  PROVE  (m * q + r) % m = r
<1> DEFINE x == m * q + r
           p == x \div m
           s == x % m
<1>1. x \in Int
  OBVIOUS
<1>2. m * q + r = m * p + s /\ p \in Int /\ s \in 0 .. m - 1
  BY <1>1, DivMod
<1> HIDE DEF p, s
<1>3. CASE p < q
  <2>1. m * (p + 1) <= m * q
    BY <1>2, <1>3
  <2> QED BY <2>1, <1>2
<1>4. CASE q < p
  <2>1. m * (q + 1) <= m * p
    BY <1>2, <1>4
  <2> QED BY <2>1, <1>2
<1>5. CASE p = q
  BY <1>2, <1>5 DEF s
<1> QED BY <1>2, <1>3, <1>4, <1>5

(* Remainders do not see multiples of m.                                   *)
LEMMA ModShift ==
  ASSUME NEW m \in Nat \ {0}, NEW x \in Int, NEW q \in Int
  PROVE  (x + m * q) % m = x % m
<1> DEFINE d == x \div m
           r == x % m
<1>1. x = m * d + r /\ d \in Int /\ r \in 0 .. m - 1
  BY DivMod
<1> HIDE DEF d, r
<1>2. x + m * q = m * (d + q) + r
  BY <1>1
<1>3. (m * (d + q) + r) % m = r
  BY <1>1, ModUnique
<1> QED BY <1>2, <1>3 DEF r

LEMMA ModPlus ==
  ASSUME NEW m \in Nat \ {0}, NEW x \in Int
  PROVE  (x + m) % m = x % m
<1> DEFINE d == x \div m
           r == x % m
<1>1. x = m * d + r /\ d \in Int /\ r \in 0 .. m - 1
  BY DivMod
<1> HIDE DEF d, r
<1>2. x + m = m * (d + 1) + r
  BY <1>1
<1>3. (m * (d + 1) + r) % m = r
  BY <1>1, ModUnique
<1> QED BY <1>2, <1>3 DEF r

(* Numbers less than m apart have different remainders.                    *)
LEMMA ModApart ==
  ASSUME NEW m \in Nat \ {0}, NEW x \in Int, NEW y \in Int, x < y, y < x + m
  PROVE  x % m # y % m
<1> DEFINE q == x \div m
           r == x % m
           d == y - x
<1>1. x = m * q + r /\ q \in Int /\ r \in 0 .. m - 1
  BY DivMod
<1>2. d \in 1 .. m - 1 /\ y = x + d
  OBVIOUS
<1> HIDE DEF q, r, d
<1>3. CASE r + d < m
  <2>1. y = m * q + (r + d) /\ r + d \in 0 .. m - 1
    BY <1>1, <1>2, <1>3
  <2>2. y % m = r + d
    BY <2>1, <1>1, ModUnique
  <2> QED BY <2>2, <1>1, <1>2 DEF r
<1>4. CASE r + d >= m
  <2>1. y = m * (q + 1) + (r + d - m) /\ r + d - m \in 0 .. m - 1 /\ q + 1 \in Int
    BY <1>1, <1>2, <1>4
  <2>2. (m * (q + 1) + (r + d - m)) % m = r + d - m
    BY <2>1, ModUnique
  <2> QED BY <2>1, <2>2, <1>1, <1>2 DEF r
<1> QED BY <1>1, <1>2, <1>3, <1>4

(* Remainders of numbers within m of the range 0 .. m - 1.                 *)
LEMMA ModNear ==
  ASSUME NEW m \in Nat \ {0}, NEW x \in Int
  PROVE  /\ 0 <= x /\ x < m => x % m = x
         /\ -m <= x /\ x < 0 => x % m = x + m
         /\ m <= x /\ x < 2 * m => x % m = x - m
OBVIOUS

-----------------------------------------------------------------------------
(* A set of natural numbers has a least one.                               *)
LEMMA LeastNumber ==
  ASSUME NEW T \in SUBSET Nat, T # {}
  PROVE  \E x \in T : \A y \in T : x <= y
<1> DEFINE R == OpToRel(<, Nat)
<1>1. IsWellFoundedOn(R, Nat)
  BY NatLessThanWellFounded, Zenon
<1>2. \A x, y : <<x, y>> \in R <=> x \in Nat /\ y \in Nat /\ x < y
  BY Zenon DEF OpToRel
<1> HIDE DEF R
<1>3. PICK x \in T : \A y \in T : ~(<<y, x>> \in R)
  BY <1>1, WFMin, Zenon
<1>4. \A y \in T : ~(y < x)
  BY <1>2, <1>3, Zenon
<1> QED BY <1>4

(* Induction, for what can be said of the members of a set.                *)
LEMMA NumbersByInduction ==
  ASSUME NEW S, 0 \in S, \A n \in Nat : n \in S => n + 1 \in S
  PROVE  \A n \in Nat : n \in S
<1> SUFFICES ASSUME NEW n \in Nat, n \notin S PROVE FALSE
  OBVIOUS
<1> DEFINE T == {k \in Nat : k \notin S}
<1>1. T \in SUBSET Nat /\ T # {}
  OBVIOUS
<1>2. PICK k \in T : \A y \in T : k <= y
  BY <1>1, LeastNumber
<1>3. k \in Nat \ {0} /\ k - 1 \in Nat /\ k - 1 \in S
  BY <1>2
<1> QED BY <1>2, <1>3
=============================================================================
