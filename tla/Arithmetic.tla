----------------------------- MODULE Arithmetic -----------------------------
(***************************************************************************)
(* Facts about integers that several proofs rest on: least and greatest    *)
(* elements, and counts modulo the size of a ring or of a register.        *)
(***************************************************************************)
EXTENDS Integers, TLAPS, WellFoundedInduction

\* Every non-empty set of natural numbers has a least element.
LEMMA LeastNat ==
  ASSUME NEW T \in SUBSET Nat, T # {}
  PROVE  \E x \in T : \A y \in T : x <= y
  <1>1. PICK x \in T : \A y \in T : ~(<<y, x>> \in OpToRel(<, Nat))
    BY NatLessThanWellFounded, WFMin
  <1>2. \A y \in T : ~(y < x)
    BY <1>1 DEF OpToRel
  <1> QED BY <1>2

\* Every non-empty set of natural numbers below a bound has a greatest one.
LEMMA GreatestNat ==
  ASSUME NEW n \in Nat, NEW T \in SUBSET (0..n), T # {}
  PROVE  \E x \in T : \A y \in T : y <= x
  <1> DEFINE U == {n - y : y \in T}
  <1>1. U \in SUBSET Nat /\ U # {}
    <2>1. PICK z \in T : TRUE
      OBVIOUS
    <2>2. n - z \in U
      BY <2>1
    <2>3. \A y \in T : n - y \in Nat
      OBVIOUS
    <2> QED BY <2>2, <2>3
  <1>2. PICK u \in U : \A v \in U : u <= v
    BY <1>1, LeastNat
  <1>3. PICK x \in T : u = n - x
    BY <1>2
  <1>4. \A y \in T : n - x <= n - y
    BY <1>2, <1>3
  <1> QED BY <1>4

\* A non-empty part of a sequence of integers has a greatest element.
LEMMA GreatestElement ==
  ASSUME NEW n \in Nat, NEW w \in [1..n -> Int], NEW D \in SUBSET (1..n), D # {}
  PROVE  \E i \in D : \A j \in D : w[j] <= w[i]
<1> DEFINE Up(k) == {j \in D : j <= k}
           Good(k) == Up(k) = {} \/ \E i \in Up(k) : \A j \in Up(k) : w[j] <= w[i]
           Bad == {k \in 0..n : ~Good(k)}
<1>0. \A j \in D : j \in 1..n /\ j \in Nat /\ 0 < j /\ j <= n
  OBVIOUS
<1>1. Good(0)
  <2>1. \A j \in D : ~(j <= 0)
    BY <1>0
  <2>2. Up(0) = {}
    BY <2>1
  <2> QED BY <2>2
<1>2. ASSUME NEW k \in 1..n, Good(k - 1)
      PROVE  Good(k)
  <2>1. \A j \in Up(k) : j \in 1..n /\ (j = k \/ j \in Up(k - 1))
    OBVIOUS
  <2>2. Up(k - 1) \subseteq Up(k) /\ (k \in Up(k) <=> k \in D)
    <3>1. k <= k /\ \A j \in D : j <= k - 1 => j <= k
      BY <1>0
    <3> QED BY <3>1
  <2> HIDE DEF Up
  <2>3. CASE k \notin Up(k)
    <3>1. Up(k) = Up(k - 1)
      BY <2>1, <2>2, <2>3
    <3> QED BY <1>2, <3>1
  <2>4. CASE k \in Up(k) /\ Up(k - 1) = {}
    <3>1. \A j \in Up(k) : w[j] <= w[k]
      BY <2>1, <2>4
    <3> QED BY <2>4, <3>1
  <2>5. CASE k \in Up(k) /\ Up(k - 1) # {}
    <3>1. PICK i \in Up(k - 1) : \A j \in Up(k - 1) : w[j] <= w[i]
      BY <1>2, <2>5
    <3>2. i \in Up(k) /\ w[i] \in Int /\ w[k] \in Int
      BY <2>1, <2>2, <3>1
    <3>3. CASE w[k] <= w[i]
      <4>1. \A j \in Up(k) : w[j] <= w[i]
        BY <2>1, <3>1, <3>3
      <4> QED BY <3>2, <4>1
    <3>4. CASE ~(w[k] <= w[i])
      <4>1. \A j \in Up(k) : w[j] <= w[k]
        BY <2>1, <3>1, <3>2, <3>4
      <4> QED BY <2>5, <4>1
    <3> QED BY <3>3, <3>4
  <2> QED BY <2>3, <2>4, <2>5
<1> HIDE DEF Good
<1>3. Good(n)
  <2> SUFFICES ASSUME ~Good(n)
               PROVE  FALSE
    OBVIOUS
  <2>1. Bad \in SUBSET Nat /\ n \in Bad
    OBVIOUS
  <2>2. PICK k \in Bad : \A y \in Bad : k <= y
    BY <2>1, LeastNat
  <2>3. k \in 1..n
    BY <1>1, <2>2
  <2>4. k - 1 \notin Bad /\ k - 1 \in 0..n
    BY <2>2, <2>3
  <2>5. Good(k - 1)
    BY <2>4
  <2> QED BY <1>2, <2>2, <2>3, <2>5
<1>4. Up(n) = D
  BY <1>0
<1> QED BY <1>3, <1>4 DEF Good

\* And a least one.
LEMMA LeastElement ==
  ASSUME NEW n \in Nat, NEW w \in [1..n -> Int], NEW D \in SUBSET (1..n), D # {}
  PROVE  \E i \in D : \A j \in D : w[i] <= w[j]
<1> DEFINE v == [i \in 1..n |-> -w[i]]
<1>1. v \in [1..n -> Int]
  OBVIOUS
<1>2. \A i \in 1..n : v[i] = -w[i] /\ w[i] \in Int
  OBVIOUS
<1> HIDE DEF v
<1>3. PICK i \in D : \A j \in D : v[j] <= v[i]
  BY <1>1, GreatestElement
<1>4. ASSUME NEW j \in D
      PROVE  w[i] <= w[j]
  <2>1. v[j] <= v[i] /\ v[i] = -w[i] /\ v[j] = -w[j] /\ w[i] \in Int /\ w[j] \in Int
    BY <1>2, <1>3
  <2> QED BY <2>1
<1> QED BY <1>4

-----------------------------------------------------------------------------
\* What % and \div are.
LEMMA DivMod ==
  ASSUME NEW n \in Nat \ {0}, NEW a \in Int
  PROVE  a \div n \in Int /\ a % n \in 0..(n - 1) /\ a = n * (a \div n) + (a % n)
BY Z3

\* A multiple of n that is not 0 is at least n away from it.
LEMMA Multiple ==
  ASSUME NEW n \in Nat \ {0}, NEW q \in Int, n * q \in (1 - n)..(n - 1)
  PROVE  q = 0
<1>1. q >= 1 => n * q >= n
  BY Z3
<1>2. q <= -1 => n * q <= -n
  BY Z3
<1> QED BY <1>1, <1>2

\* There is one quotient and one remainder.
LEMMA DivModUnique ==
  ASSUME NEW n \in Nat \ {0}, NEW q \in Int, NEW r \in 0..(n - 1)
  PROVE  (n * q + r) % n = r /\ (n * q + r) \div n = q
<1> DEFINE a == n * q + r   p == a \div n   s == a % n
<1>1. a \in Int
  BY Z3
<1>2. p \in Int /\ s \in 0..(n - 1) /\ a = n * p + s
  BY <1>1, DivMod
<1>3. n * p + s = n * q + r
  BY <1>2
<1> HIDE DEF p, s
<1>4. n * (p - q) = n * p - n * q /\ n * p \in Int /\ n * q \in Int
  BY <1>2, Z3
<1>5. n * (p - q) \in (1 - n)..(n - 1)
  BY <1>2, <1>3, <1>4
<1>6. p - q = 0
  BY <1>2, <1>5, Multiple
<1>7. p = q /\ s = r
  BY <1>2, <1>3, <1>6
<1> QED BY <1>7 DEF p, s

\* Counts less than a lap apart are told apart by their slots.
LEMMA SameSlot ==
  ASSUME NEW n \in Nat \ {0}, NEW a \in Int, NEW b \in Int,
         a - b < n, b - a < n, a % n = b % n
  PROVE  a = b
<1> DEFINE p == a \div n   q == b \div n   r == a % n
<1>1. p \in Int /\ q \in Int /\ r \in Int
  BY DivMod
<1>2. a = n * p + r /\ b = n * q + r
  BY DivMod
<1> HIDE DEF p, q, r
<1>3. n * (p - q) = n * p - n * q /\ n * p \in Int /\ n * q \in Int
  BY <1>1, Z3
<1>4. n * (p - q) \in (1 - n)..(n - 1)
  BY <1>1, <1>2, <1>3
<1>5. p - q = 0
  BY <1>1, <1>4, Multiple
<1> QED BY <1>1, <1>2, <1>5

\* A count below the modulus is its own remainder.
LEMMA SmallMod ==
  ASSUME NEW n \in Nat \ {0}, NEW a \in 0..(n - 1)
  PROVE  a % n = a
BY Z3

\* A multiple of the modulus does not show in the remainder.
LEMMA ModShift ==
  ASSUME NEW n \in Nat \ {0}, NEW a \in Int, NEW k \in Int
  PROVE  (a + n * k) % n = a % n
<1> DEFINE p == a \div n   r == a % n
<1>1. p \in Int /\ r \in 0..(n - 1) /\ a = n * p + r
  BY DivMod
<1> HIDE DEF p, r
<1>2. a + n * k = n * (p + k) + r
  BY <1>1, Z3
<1>3. (n * (p + k) + r) % n = r
  BY <1>1, DivModUnique
<1> QED BY <1>2, <1>3 DEF r

\* A remainder may be taken early: modulo m, a multiple of n, before modulo n.
LEMMA ModEarly ==
  ASSUME NEW n \in Nat \ {0}, NEW m \in Nat \ {0}, m % n = 0,
         NEW a \in Int, NEW b \in Int
  PROVE  ((a % m) + b) % n = (a + b) % n /\ (b - (a % m)) % n = (b - a) % n
<1> DEFINE p == a \div m   r == a % m   k == m \div n   h == k * p
           c == r + b   d == b - a
<1>1. p \in Int /\ r \in Int /\ a = m * p + r
  BY DivMod
<1>2. k \in Int /\ m = n * k
  BY DivMod
<1> HIDE DEF p, r, k
<1>3. h \in Int /\ m * p = n * h /\ n * h \in Int
  BY <1>1, <1>2, Z3
<1> HIDE DEF h
<1>4. c \in Int /\ d \in Int /\ a + b = c + n * h /\ b - r = d + n * h
  BY <1>1, <1>3
<1> HIDE DEF c, d
<1>5. (c + n * h) % n = c % n /\ (d + n * h) % n = d % n
  BY <1>3, <1>4, ModShift
<1>6. (a + b) % n = (r + b) % n /\ (b - r) % n = (b - a) % n
  BY <1>4, <1>5 DEF c, d
<1> QED BY <1>6 DEF r

\* A quotient is the greatest integer whose multiple fits.
LEMMA DivFits ==
  ASSUME NEW n \in Nat \ {0}, NEW a \in Int, NEW x \in Int, n * x <= a
  PROVE  x <= a \div n
<1> DEFINE q == a \div n   r == a % n
<1>1. q \in Int /\ r \in 0..(n - 1) /\ a = n * q + r
  BY DivMod
<1> HIDE DEF q, r
<1>2. SUFFICES ASSUME x >= q + 1 PROVE FALSE
  BY <1>1 DEF q
<1>3. n * x >= n * (q + 1)
  BY <1>1, <1>2, Z3
<1>4. n * (q + 1) = n * q + n
  BY <1>1, Z3
<1> QED BY <1>1, <1>3, <1>4, Z3

\* A quotient is below every integer whose multiple is too large.
LEMMA DivBelow ==
  ASSUME NEW n \in Nat \ {0}, NEW a \in Int, NEW x \in Int, a < n * x + n
  PROVE  a \div n <= x
<1> DEFINE q == a \div n   r == a % n
<1>1. q \in Int /\ r \in 0..(n - 1) /\ a = n * q + r
  BY DivMod
<1> HIDE DEF q, r
<1>2. SUFFICES ASSUME q >= x + 1 PROVE FALSE
  BY <1>1 DEF q
<1>3. n * q >= n * (x + 1)
  BY <1>1, <1>2, Z3
<1>4. n * (x + 1) = n * x + n
  BY Z3
<1> QED BY <1>1, <1>3, <1>4, Z3

\* A quotient grows with what is divided.
LEMMA DivMonotone ==
  ASSUME NEW n \in Nat \ {0}, NEW a \in Int, NEW b \in Int, a <= b
  PROVE  a \div n <= b \div n
<1>1. a \div n \in Int /\ n * (a \div n) <= a
  <2>1. a \div n \in Int /\ a % n \in 0..(n - 1) /\ a = n * (a \div n) + (a % n)
    BY DivMod
  <2> DEFINE q == a \div n   r == a % n
  <2> HIDE DEF q, r
  <2>2. q \in Int /\ r \in 0..(n - 1) /\ a = n * q + r
    BY <2>1 DEF q, r
  <2>3. n * q \in Int
    BY <2>2
  <2>4. n * q <= a
    BY <2>2, <2>3
  <2> QED BY <2>2, <2>4 DEF q
<1>2. n * (a \div n) <= b
  <2>1. n * (a \div n) \in Int
    BY <1>1
  <2> QED BY <1>1, <2>1
<1> QED BY <1>1, <1>2, DivFits

\* A factor is taken of the whole and of the rest apart without a rounding.
LEMMA SplitScale ==
  ASSUME NEW n \in Nat \ {0}, NEW a \in Nat, NEW k \in Nat
  PROVE  (a \div n) * k + ((a % n) * k) \div n = (a * k) \div n
<1> DEFINE q == a \div n   r == a % n   b == r * k   p == b \div n   s == b % n
<1>1. q \in Int /\ r \in 0..(n - 1) /\ a = n * q + r
  BY DivMod
<1>2. b \in Int
  BY <1>1
<1>3. p \in Int /\ s \in 0..(n - 1) /\ b = n * p + s
  BY <1>2, DivMod
<1>4. r * k = n * p + s
  BY <1>3
<1> HIDE DEF q, r, b, p, s
<1>5. a * k = n * (q * k + p) + s
  BY <1>1, <1>3, <1>4, Z3
<1>6. q * k + p \in Int
  BY <1>1, <1>3
<1>7. (n * (q * k + p) + s) \div n = q * k + p
  BY <1>3, <1>6, DivModUnique
<1> QED BY <1>5, <1>7 DEF q, r, b, p

\* Scaled and rounded, a number never falls when it grows, and grows by the
\* scaled difference rounded up at most.
LEMMA ScaleStep ==
  ASSUME NEW n \in Nat \ {0}, NEW a \in Nat, NEW e \in Nat, NEW k \in Nat
  PROVE  /\ (a * k) \div n \in Nat /\ ((a + e) * k) \div n \in Nat
         /\ (a * k) \div n <= ((a + e) * k) \div n
         /\ ((a + e) * k) \div n - (a * k) \div n <= (e * k + n - 1) \div n
<1> DEFINE x == a * k   y == e * k   z == (a + e) * k
           p == x \div n   q == z \div n
<1>1. /\ x \in Nat /\ y \in Nat /\ z \in Nat /\ z = x + y
      /\ x \in Int /\ z \in Int
  BY Z3
<1> HIDE DEF x, y, z
<1>2. p \in Int /\ n * p <= x /\ x < n * p + n
  <2>1. x \div n \in Int /\ x % n \in 0..(n - 1) /\ x = n * (x \div n) + (x % n)
    BY <1>1, DivMod
  <2> QED BY <2>1, <1>1
<1>3. q \in Int /\ n * q <= z /\ z < n * q + n
  <2>1. z \div n \in Int /\ z % n \in 0..(n - 1) /\ z = n * (z \div n) + (z % n)
    BY <1>1, DivMod
  <2> QED BY <2>1, <1>1
<1>4. 0 <= p
  <2>1. n * 0 <= x /\ 0 \in Int /\ x \in Int
    BY <1>1
  <2> QED BY <2>1, DivFits
<1>5. p <= q
  <2>1. n * p <= z /\ z \in Int
    BY <1>1, <1>2
  <2> QED BY <1>2, <2>1, DivFits
<1> HIDE DEF p, q
<1>6. q - p <= (y + n - 1) \div n
  <2>1. n * (q - p) = n * q - n * p
    BY <1>2, <1>3, Z3
  <2>2. n * (q - p) <= y + n - 1
    BY <1>1, <1>2, <1>3, <2>1
  <2>3. q - p \in Int /\ y + n - 1 \in Int
    BY <1>1, <1>2, <1>3
  <2> QED BY <2>2, <2>3, DivFits
<1> QED BY <1>2, <1>3, <1>4, <1>5, <1>6 DEF x, y, z, p, q
==============================================================================
