--------------------------- MODULE HashTableProofs ---------------------------
(***************************************************************************)
(* Proofs about HashTable.  For every set of keys that a 32 bit address    *)
(* space can hold, the table of src/ghash.c is a map: probing always ends, *)
(* the counters count, and lookup sees the last insert through every       *)
(* tombstone and every resize.                                             *)
(*                                                                         *)
(* Induction over the natural numbers is stated with a set in place of a   *)
(* predicate (NatInd), so that it can be cited by name.                    *)
(***************************************************************************)
EXTENDS HashTable, Integers, TLAPS, FunctionTheorems, FiniteSetTheorems,
        WellFoundedInduction

-----------------------------------------------------------------------------
(* Induction and recursion over the natural numbers.                       *)

(* A nonempty set of naturals has a least element.                         *)
LEMMA LeastNat ==
    ASSUME NEW T, T \subseteq Nat, T # {}
    PROVE  \E n \in T : \A m \in T : n <= m
<1> DEFINE R == OpToRel(<, Nat)
<1>1. IsWellFoundedOn(R, Nat)
  BY NatLessThanWellFounded, Zenon
<1>2. \A m, n \in Nat : m < n => <<m, n>> \in R
  BY Zenon DEF OpToRel
<1> HIDE DEF R
<1>3. PICK n \in T : \A m \in T : ~ (<<m, n>> \in R)
  BY <1>1, WFMin, Zenon
<1>4. \A m \in T : ~ (m < n)
  BY <1>2, <1>3
<1>5. \A m \in T : n <= m
  BY <1>4
<1> QED
  BY <1>5

(* A set that holds 0 and every successor of a member holds every natural. *)
LEMMA NatInd ==
    ASSUME NEW S, 0 \in S, \A n \in Nat : n \in S => n + 1 \in S
    PROVE  Nat \subseteq S
<1> DEFINE T == Nat \ S
<1>1. SUFFICES ASSUME T # {} PROVE FALSE
  OBVIOUS
<1>2. T \subseteq Nat
  OBVIOUS
<1> HIDE DEF T
<1>3. PICK n \in T : \A m \in T : n <= m
  BY <1>1, <1>2, LeastNat
<1>4. n \in Nat /\ n # 0 /\ n - 1 \in Nat /\ n \notin S
  BY DEF T
<1>5. n - 1 \in S
  BY <1>3, <1>4 DEF T
<1> QED
  BY <1>4, <1>5

(* f is the first n steps of an iteration on S from base.                  *)
Iteration(S, base, step, n, f) ==
    /\ f \in [0 .. n -> S]
    /\ f[0] = base
    /\ \A m \in 0 .. n - 1 : f[m + 1] = step[m][f[m]]

(* Every finite part of an iteration exists.                               *)
LEMMA IterationExists ==
    ASSUME NEW S, NEW base \in S, NEW step \in [Nat -> [S -> S]], NEW n \in Nat
    PROVE  \E f : Iteration(S, base, step, n, f)
<1> DEFINE Have == {k \in Nat : \E f : Iteration(S, base, step, k, f)}
<1>1. 0 \in Have
  <2>1. Iteration(S, base, step, 0, [i \in 0 .. 0 |-> base])
    BY DEF Iteration
  <2> QED
    BY <2>1
<1>2. ASSUME NEW k \in Nat, k \in Have
      PROVE  k + 1 \in Have
  <2>1. PICK f : Iteration(S, base, step, k, f)
    BY <1>2
  <2> DEFINE g == [i \in 0 .. k + 1 |-> IF i <= k THEN f[i] ELSE step[k][f[k]]]
  <2>2. f \in [0 .. k -> S] /\ f[0] = base
    BY <2>1 DEF Iteration
  <2>3. step[k][f[k]] \in S
    BY <2>2
  <2>4. g \in [0 .. k + 1 -> S] /\ g[0] = base
    BY <2>2, <2>3
  <2>5. ASSUME NEW m \in 0 .. (k + 1) - 1
        PROVE  g[m + 1] = step[m][g[m]]
    <3>1. CASE m < k
      <4>1. g[m + 1] = f[m + 1] /\ g[m] = f[m]
        BY <3>1
      <4>2. f[m + 1] = step[m][f[m]]
        BY <2>1, <3>1 DEF Iteration
      <4> QED
        BY <4>1, <4>2
    <3>2. CASE m = k
      BY <3>2
    <3> QED
      BY <3>1, <3>2
  <2>6. Iteration(S, base, step, k + 1, g)
    <3> HIDE DEF g
    <3> QED
      BY <2>4, <2>5 DEF Iteration
  <2> QED
    BY <2>6
<1> HIDE DEF Have
<1>3. Nat \subseteq Have
  BY <1>1, <1>2, NatInd
<1> QED
  BY <1>3 DEF Have

(* Two parts of one iteration agree where both are defined.                *)
LEMMA IterationUnique ==
    ASSUME NEW S, NEW base \in S, NEW step \in [Nat -> [S -> S]],
           NEW n1 \in Nat, NEW n2 \in Nat, NEW f1, NEW f2,
           Iteration(S, base, step, n1, f1), Iteration(S, base, step, n2, f2),
           NEW k \in Nat, k <= n1, k <= n2
    PROVE  f1[k] = f2[k]
<1> DEFINE Same == {m \in Nat : m <= n1 /\ m <= n2 => f1[m] = f2[m]}
<1>1. 0 \in Same
  BY DEF Iteration
<1>2. ASSUME NEW m \in Nat, m \in Same
      PROVE  m + 1 \in Same
  <2> SUFFICES ASSUME m + 1 <= n1, m + 1 <= n2
               PROVE  f1[m + 1] = f2[m + 1]
    OBVIOUS
  <2>1. f1[m] = f2[m]
    BY <1>2
  <2>2. f1[m + 1] = step[m][f1[m]] /\ f2[m + 1] = step[m][f2[m]]
    BY DEF Iteration
  <2> QED
    BY <2>1, <2>2
<1> HIDE DEF Same
<1>3. Nat \subseteq Same
  BY <1>1, <1>2, NatInd
<1> QED
  BY <1>3 DEF Same

Iterates(f, base, step) == f[0] = base /\ \A n \in Nat : f[n + 1] = step[n][f[n]]

(* A step on a set can be iterated for ever.                               *)
LEMMA IterateExists ==
    ASSUME NEW S, NEW base \in S, NEW step \in [Nat -> [S -> S]]
    PROVE  \E f \in [Nat -> S] : Iterates(f, base, step)
<1> DEFINE part(n) == CHOOSE f : Iteration(S, base, step, n, f)
           all == [n \in Nat |-> part(n)[n]]
<1>1. ASSUME NEW n \in Nat
      PROVE  Iteration(S, base, step, n, part(n))
  BY IterationExists, Zenon
<1> HIDE DEF part
<1>2. \A n \in Nat : part(n) \in [0 .. n -> S] /\ part(n)[0] = base
  BY <1>1 DEF Iteration
<1>3. all \in [Nat -> S] /\ all[0] = base
  BY <1>2
<1>4. ASSUME NEW n \in Nat
      PROVE  all[n + 1] = step[n][all[n]]
  <2>1. Iteration(S, base, step, n, part(n)) /\ Iteration(S, base, step, n + 1, part(n + 1))
    BY <1>1
  <2>2. part(n + 1)[n] = part(n)[n]
    BY <2>1, IterationUnique
  <2>3. part(n + 1)[n + 1] = step[n][part(n + 1)[n]]
    BY <2>1 DEF Iteration
  <2> QED
    BY <2>2, <2>3
<1> HIDE DEF all
<1> QED
  BY <1>3, <1>4 DEF Iterates

-----------------------------------------------------------------------------
(* Powers of two.                                                          *)

LEMMA Pow2Equation ==
    /\ Pow2 \in [Nat -> Nat]
    /\ Pow2[0] = 1
    /\ \A n \in Nat : Pow2[n + 1] = 2 * Pow2[n]
<1> DEFINE step == [n \in Nat |-> [x \in Nat |-> 2 * x]]
<1>1. step \in [Nat -> [Nat -> Nat]] /\ \A n, x \in Nat : step[n][x] = 2 * x
  OBVIOUS
<1> HIDE DEF step
<1>2. PICK f \in [Nat -> Nat] : f[0] = 1 /\ \A n \in Nat : f[n + 1] = step[n][f[n]]
  <2>1. 1 \in Nat
    OBVIOUS
  <2>2. \E f \in [Nat -> Nat] : Iterates(f, 1, step)
    BY <1>1, <2>1, IterateExists
  <2> QED
    BY <2>2 DEF Iterates
<1>3. \A n \in Nat : f[n + 1] = 2 * f[n]
  BY <1>1, <1>2
<1>4. \A n \in Nat : f[n] = IF n = 0 THEN 1 ELSE 2 * f[n - 1]
  <2> TAKE n \in Nat
  <2>1. CASE n = 0
    BY <1>2, <2>1
  <2>2. CASE n # 0
    <3>1. n - 1 \in Nat /\ (n - 1) + 1 = n
      BY <2>2
    <3> QED
      BY <1>3, <2>2, <3>1
  <2> QED
    BY <2>1, <2>2
<1>5. f = [n \in Nat |-> IF n = 0 THEN 1 ELSE 2 * f[n - 1]]
  BY <1>4
<1>6. Pow2 = [n \in Nat |-> IF n = 0 THEN 1 ELSE 2 * Pow2[n - 1]]
  BY <1>5, Zenon DEF Pow2
<1>7. Pow2[0] = 1 /\ \A n \in Nat : Pow2[n + 1] = 2 * Pow2[n]
  <2>1. Pow2[0] = 1
    BY <1>6
  <2>2. ASSUME NEW n \in Nat PROVE Pow2[n + 1] = 2 * Pow2[n]
    <3>1. n + 1 \in Nat /\ n + 1 # 0 /\ (n + 1) - 1 = n
      OBVIOUS
    <3>2. Pow2[n + 1] = 2 * Pow2[(n + 1) - 1]
      BY <1>6, <3>1, Zenon
    <3> QED
      BY <3>1, <3>2
  <2> QED
    BY <2>1, <2>2
<1>8. Nat \subseteq {n \in Nat : Pow2[n] \in Nat}
  <2> DEFINE S == {n \in Nat : Pow2[n] \in Nat}
  <2>1. 0 \in S /\ \A n \in Nat : n \in S => n + 1 \in S
    BY <1>7
  <2> HIDE DEF S
  <2>2. Nat \subseteq S
    BY <2>1, NatInd
  <2> QED
    BY <2>2 DEF S
<1>9. Pow2 \in [Nat -> Nat]
  <2>1. \A n \in Nat : Pow2[n] \in Nat
    BY <1>8
  <2>2. Pow2 = [n \in Nat |-> Pow2[n]]
    BY <1>6, Zenon
  <2> QED
    BY <2>1, <2>2
<1> QED
  BY <1>7, <1>9

LEMMA Pow2Grows ==
    ASSUME NEW n \in Nat
    PROVE  Pow2[n] \in Nat \ {0} /\ Pow2[n] > n
<1> DEFINE S == {m \in Nat : Pow2[m] > m}
<1>1. 0 \in S /\ \A m \in Nat : m \in S => m + 1 \in S
  BY Pow2Equation
<1> HIDE DEF S
<1>2. n \in S
  BY <1>1, NatInd
<1> QED
  BY <1>2, Pow2Equation DEF S

LEMMA Pow2Monotone ==
    ASSUME NEW m \in Nat, NEW n \in Nat
    PROVE  /\ m <= n => Pow2[m] <= Pow2[n]
           /\ Pow2[m] < Pow2[n] => m < n
<1> DEFINE S == {k \in Nat : \A j \in 0 .. k : Pow2[j] <= Pow2[k]}
<1>1. 0 \in S
  BY Pow2Equation
<1>2. ASSUME NEW k \in Nat, k \in S
      PROVE  k + 1 \in S
  <2>1. \A j \in 0 .. k : Pow2[j] <= Pow2[k]
    BY <1>2
  <2>2. Pow2[k + 1] = 2 * Pow2[k] /\ Pow2[k] \in Nat
    BY Pow2Equation
  <2>3. ASSUME NEW j \in 0 .. k + 1
        PROVE  Pow2[j] <= Pow2[k + 1]
    <3>1. CASE j = k + 1
      BY <3>1, Pow2Equation
    <3>2. CASE j \in 0 .. k
      <4>1. Pow2[j] \in Nat
        BY <3>2, Pow2Equation
      <4> QED
        BY <2>1, <2>2, <3>2, <4>1
    <3> QED
      BY <3>1, <3>2
  <2> QED
    BY <2>3
<1> HIDE DEF S
<1>3. Nat \subseteq S
  BY <1>1, <1>2, NatInd
<1>4. \A i, j \in Nat : j <= i => Pow2[j] <= Pow2[i]
  BY <1>3 DEF S
<1> QED
  BY <1>4, Pow2Equation

(* The shift find_closest_shift returns: the first power of two above n.   *)
LEMMA ClosestShift ==
    ASSUME NEW n \in Nat
    PROVE  LET i == find_closest_shift(n)
           IN  i \in 0 .. n /\ Pow2[i] > n /\ (i > 0 => Pow2[i - 1] <= n)
<1> DEFINE T == {i \in Nat : Pow2[i] > n}
<1>1. n \in T /\ T \subseteq Nat
  BY Pow2Grows
<1> HIDE DEF T
<1>2. PICK i \in T : \A j \in T : i <= j
  BY <1>1, LeastNat
<1>3. i \in 0 .. n /\ Pow2[i] > n
  BY <1>1, <1>2 DEF T
<1>4. i > 0 => Pow2[i - 1] <= n
  <2> SUFFICES ASSUME i > 0, ~ (Pow2[i - 1] <= n)
               PROVE  FALSE
    OBVIOUS
  <2>1. i - 1 \in Nat
    BY <1>3
  <2>2. i - 1 \in T
    BY <2>1, Pow2Equation DEF T
  <2> QED
    BY <1>2, <1>3, <2>2
<1>5. \E j \in 0 .. n : Pow2[j] > n /\ (j > 0 => Pow2[j - 1] <= n)
  BY <1>3, <1>4
<1> QED
  BY <1>5, Zenon DEF find_closest_shift

(* An odd factor does not help a power of two to divide.                   *)
LEMMA OddFactor ==
    ASSUME NEW k \in Nat, NEW a \in Int, NEW b \in Int, NEW x \in Int, NEW q \in Int,
           a = 2 * b + 1, a * x = q * Pow2[k]
    PROVE  \E r \in Int : x = r * Pow2[k]
<1> DEFINE S == {j \in Nat : \A y, p \in Int : (2 * b + 1) * y = p * Pow2[j]
                                => \E r \in Int : y = r * Pow2[j]}
<1>1. 0 \in S
  <2> SUFFICES ASSUME NEW y \in Int PROVE \E r \in Int : y = r * Pow2[0]
    OBVIOUS
  <2>1. y = y * Pow2[0]
    BY Pow2Equation
  <2> QED
    BY <2>1
<1>2. ASSUME NEW j \in Nat, j \in S
      PROVE  j + 1 \in S
  <2> SUFFICES ASSUME NEW y \in Int, NEW p \in Int, (2 * b + 1) * y = p * Pow2[j + 1]
               PROVE  \E r \in Int : y = r * Pow2[j + 1]
    OBVIOUS
  <2>1. Pow2[j + 1] = 2 * Pow2[j] /\ Pow2[j] \in Nat
    BY Pow2Equation
  <2> DEFINE e == Pow2[j]
             z == p * e - b * y
  <2>2. z \in Int /\ y = 2 * z
    <3>1. e \in Int /\ (2 * b + 1) * y = p * (2 * e)
      BY <2>1
    <3> HIDE DEF e
    <3>2. (2 * b + 1) * y = 2 * (b * y) + y /\ p * (2 * e) = 2 * (p * e)
      BY <3>1
    <3>3. p * e \in Int /\ b * y \in Int
      BY <3>1
    <3> QED
      BY <3>1, <3>2, <3>3
  <2> HIDE DEF z
  <2>3. (2 * b + 1) * z = p * e
    <3>1. e \in Int /\ (2 * b + 1) * (2 * z) = p * (2 * e)
      BY <2>1, <2>2
    <3> HIDE DEF e
    <3>2. (2 * b + 1) * (2 * z) = 2 * ((2 * b + 1) * z) /\ p * (2 * e) = 2 * (p * e)
      BY <2>2, <3>1
    <3>3. p * e \in Int /\ (2 * b + 1) * z \in Int
      BY <2>2, <3>1
    <3> QED
      BY <3>1, <3>2, <3>3
  <2>4. PICK r \in Int : z = r * e
    BY <1>2, <2>2, <2>3
  <2>5. y = r * (2 * e)
    BY <2>1, <2>2, <2>4
  <2> QED
    BY <2>1, <2>5
<1> HIDE DEF S
<1>3. k \in S
  BY <1>1, <1>2, NatInd
<1> QED
  BY <1>3 DEF S

-----------------------------------------------------------------------------
(* Triangular probing.                                                     *)

(* Equal remainders differ by a multiple.                                  *)
LEMMA SameRemainder ==
    ASSUME NEW x \in Int, NEW y \in Int, NEW s \in Nat \ {0}, x % s = y % s
    PROVE  \E q \in Int : x - y = q * s
<1>1. x = s * (x \div s) + (x % s) /\ x \div s \in Int
  OBVIOUS
<1>2. y = s * (y \div s) + (y % s) /\ y \div s \in Int
  OBVIOUS
<1>3. s * (x \div s) \in Int /\ s * (y \div s) \in Int /\ x % s \in Int /\ y % s \in Int
  BY <1>1, <1>2
<1>4. x - y = s * (x \div s) - s * (y \div s)
  BY <1>1, <1>2, <1>3
<1>5. s * (x \div s) - s * (y \div s) = ((x \div s) - (y \div s)) * s
  BY <1>1, <1>2
<1>6. (x \div s) - (y \div s) \in Int
  BY <1>1, <1>2
<1> QED
  BY <1>4, <1>5, <1>6

(* The offset of the n-th probe.                                           *)
Triangle(n) == (n * (n + 1)) \div 2

LEMMA TriangleTwice ==
    ASSUME NEW n \in Nat
    PROVE  Triangle(n) \in Nat /\ 2 * Triangle(n) = n * (n + 1)
<1> DEFINE S == {m \in Nat : \E t \in Nat : m * (m + 1) = 2 * t}
<1>1. 0 \in S
  OBVIOUS
<1>2. ASSUME NEW m \in Nat, m \in S
      PROVE  m + 1 \in S
  <2>1. PICK t \in Nat : m * (m + 1) = 2 * t
    BY <1>2
  <2>2. (m + 1) * ((m + 1) + 1) = 2 * (t + m + 1)
    BY <2>1
  <2>3. t + m + 1 \in Nat /\ m + 1 \in Nat
    BY <2>1
  <2> QED
    BY <2>2, <2>3, Zenon
<1> HIDE DEF S
<1>3. n \in S
  BY <1>1, <1>2, NatInd
<1>4. PICK t \in Nat : n * (n + 1) = 2 * t
  BY <1>3 DEF S
<1>5. Triangle(n) = t
  BY <1>4 DEF Triangle
<1> QED
  BY <1>4, <1>5

(* Below a power of two, no two triangular offsets are the same slot.      *)
LEMMA TrianglesApart ==
    ASSUME NEW k \in Nat, NEW n \in Nat, NEW m \in Nat, m < n, n < Pow2[k],
           NEW q \in Int, Triangle(n) - Triangle(m) = q * Pow2[k]
    PROVE  FALSE
<1> DEFINE P == Pow2[k + 1]
<1>1. Pow2[k] \in Nat /\ P = 2 * Pow2[k] /\ P \in Nat
  BY Pow2Equation
<1>2. n * (n + 1) - m * (m + 1) = q * P
  <2>1. 2 * Triangle(n) = n * (n + 1) /\ 2 * Triangle(m) = m * (m + 1)
    BY TriangleTwice
  <2>2. Triangle(n) \in Nat /\ Triangle(m) \in Nat
    BY TriangleTwice
  <2>3. 2 * (q * Pow2[k]) = q * P /\ q * Pow2[k] \in Int
    BY <1>1
  <2>4. 2 * Triangle(n) - 2 * Triangle(m) = 2 * (q * Pow2[k])
    <3> HIDE DEF P
    <3> QED
      BY <2>2, <2>3
  <2> HIDE DEF P
  <2> QED
    BY <2>1, <2>3, <2>4
<1>3. (n - m) * (n + m + 1) = q * P
  <2>1. (n - m) * (n + m + 1) = n * (n + 1) - m * (m + 1)
    OBVIOUS
  <2> QED
    BY <1>2, <2>1
<1>4. \A r \in Int, x \in Int : x = r * P /\ 0 < x => P <= x
  BY <1>1
<1> HIDE DEF P
<1> DEFINE d == n - m
           e == n + m + 1
<1>5. d \in Int /\ e \in Int /\ d * e = q * P /\ e * d = q * P
  BY <1>3
<1>6. 0 < d /\ 0 < e /\ d < P /\ e < P /\ d + e = 2 * n + 1
  BY <1>1
<1> HIDE DEF d, e
<1>7. \A r \in Int : d # r * P /\ e # r * P
  BY <1>4, <1>5, <1>6, <1>1
<1>8. \A a, x, b \in Int : a = 2 * b + 1 /\ a * x = q * P => \E r \in Int : x = r * P
  <2> DEFINE kk == k + 1
  <2>1. kk \in Nat
    OBVIOUS
  <2> HIDE DEF kk
  <2>2. \A a, x, b \in Int : a = 2 * b + 1 /\ a * x = q * Pow2[kk]
            => \E r \in Int : x = r * Pow2[kk]
    BY <2>1, OddFactor
  <2> QED
    BY <2>2 DEF kk, P
<1>9. CASE \E b \in Int : d = 2 * b + 1
  BY <1>5, <1>7, <1>8, <1>9
<1>10. CASE \E b \in Int : e = 2 * b + 1
  BY <1>5, <1>7, <1>8, <1>10
<1>11. (\E b \in Int : d = 2 * b + 1) \/ (\E b \in Int : e = 2 * b + 1)
  <2>1. d = 2 * (d \div 2) + 1 \/ d = 2 * (d \div 2)
    BY <1>5
  <2>2. CASE d = 2 * (d \div 2)
    <3>1. e = 2 * (n - (d \div 2)) + 1 /\ n - (d \div 2) \in Int
      BY <1>5, <1>6, <2>2
    <3> QED
      BY <3>1
  <2>3. CASE d = 2 * (d \div 2) + 1
    BY <1>5, <2>3
  <2> QED
    BY <2>1, <2>2, <2>3
<1> QED
  BY <1>9, <1>10, <1>11

-----------------------------------------------------------------------------
(* Probing.                                                                *)

(* The size and the prime of a table belong to one shift.                  *)
Sized(ht) == \E shift \in 0 .. 30 : ht.size = Pow2[shift] /\ ht.mod = prime_mod[shift + 1]

LEMMA SizedType ==
    ASSUME NEW ht, Sized(ht)
    PROVE  ht.size \in Nat \ {0} /\ ht.mod \in Nat \ {0}
<1>1. PICK shift \in 0 .. 30 : ht.size = Pow2[shift] /\ ht.mod = prime_mod[shift + 1]
  BY DEF Sized
<1>2. ht.size \in Nat \ {0}
  BY <1>1, Pow2Grows
<1>3. prime_mod[shift + 1] \in Nat \ {0}
  BY DEF prime_mod
<1> QED
  BY <1>1, <1>2, <1>3

LEMMA ProbeSlot ==
    ASSUME NEW ht, Sized(ht), NEW h \in Nat, NEW n \in Nat
    PROVE  Probe(ht, h, n) \in Slots(ht)
<1>1. ht.size \in Nat \ {0} /\ ht.mod \in Nat \ {0}
  BY SizedType
<1>2. h % ht.mod \in Nat
  BY <1>1
<1>3. (n * (n + 1)) \div 2 \in Nat
  BY TriangleTwice DEF Triangle
<1> DEFINE x == (h % ht.mod) + ((n * (n + 1)) \div 2)
<1>4. x \in Nat
  BY <1>2, <1>3
<1> HIDE DEF x
<1>5. x % ht.size \in 0 .. ht.size - 1
  BY <1>1, <1>4
<1> QED
  BY <1>5 DEF Probe, Slots, x

(* Two probes of one sequence, fewer steps than slots, are never the same. *)
LEMMA ProbesDiffer ==
    ASSUME NEW ht, Sized(ht), NEW h \in Nat, NEW m \in Slots(ht), NEW n \in Slots(ht),
           m < n, Probe(ht, h, m) = Probe(ht, h, n)
    PROVE  FALSE
<1>1. PICK shift \in 0 .. 30 : ht.size = Pow2[shift] /\ ht.mod = prime_mod[shift + 1]
  BY DEF Sized
<1>2. ht.size \in Nat \ {0} /\ ht.mod \in Nat \ {0}
  BY SizedType
<1>3. h % ht.mod \in Nat /\ m \in Nat /\ n \in Nat /\ n < ht.size
  BY <1>2 DEF Slots
<1> DEFINE a == h % ht.mod
           x == a + Triangle(n)
           y == a + Triangle(m)
<1>4. Triangle(m) \in Nat /\ Triangle(n) \in Nat
  BY <1>3, TriangleTwice
<1>5. x % ht.size = y % ht.size
  BY DEF Probe, Triangle
<1>6. x \in Int /\ y \in Int /\ x - y = Triangle(n) - Triangle(m)
  BY <1>3, <1>4
<1> HIDE DEF x, y
<1>7. PICK q \in Int : x - y = q * ht.size
  BY <1>2, <1>5, <1>6, SameRemainder
<1>8. Triangle(n) - Triangle(m) = q * Pow2[shift]
  BY <1>1, <1>6, <1>7
<1> QED
  BY <1>1, <1>3, <1>8, TrianglesApart

(* The probe sequence of every hash visits every slot.                     *)
LEMMA ProbeReaches ==
    ASSUME NEW ht, Sized(ht), NEW h \in Nat, NEW i \in Slots(ht)
    PROVE  \E n \in Slots(ht) : Probe(ht, h, n) = i
<1> DEFINE S == Slots(ht)
           f == [n \in S |-> Probe(ht, h, n)]
<1>1. ht.size \in Nat \ {0}
  BY SizedType
<1>2. S \subseteq Nat /\ IsFiniteSet(S)
  BY <1>1, FS_Interval DEF Slots
<1>3. f \in [S -> S]
  BY <1>2, ProbeSlot
<1>4. ASSUME NEW m \in S, NEW n \in S, f[m] = f[n]
      PROVE  m = n
  <2>1. Probe(ht, h, m) = Probe(ht, h, n)
    BY <1>4
  <2>2. m \in Nat /\ n \in Nat
    BY <1>2
  <2>3. ~ (m < n) /\ ~ (n < m)
    BY <2>1, ProbesDiffer
  <2> QED
    BY <2>2, <2>3
<1> HIDE DEF f
<1>5. f \in Injection(S, S)
  BY <1>3, <1>4 DEF Injection, IsInjective
<1> HIDE DEF S
<1>6. f \in Surjection(S, S)
  BY <1>2, <1>5, FS_Injection
<1>7. i \in S
  BY DEF S
<1>8. \E n \in S : f[n] = i
  BY <1>6, <1>7 DEF Surjection
<1> QED
  BY <1>8 DEF f, S

(* What FirstProbe finds, when there is something to find.                 *)
LEMMA FirstProbeFinds ==
    ASSUME NEW ht, Sized(ht), NEW h \in Nat, NEW slots, slots \subseteq Slots(ht), slots # {}
    PROVE  LET n == FirstProbe(ht, h, slots)
           IN  /\ n \in Slots(ht)
               /\ Probe(ht, h, n) \in slots
               /\ \A m \in 0 .. n - 1 : Probe(ht, h, m) \notin slots
<1> DEFINE T == {n \in Slots(ht) : Probe(ht, h, n) \in slots}
<1>1. ht.size \in Nat \ {0}
  BY SizedType
<1>2. T \subseteq Nat
  BY <1>1 DEF Slots
<1>3. T # {}
  <2>1. PICK i \in Slots(ht) : i \in slots
    OBVIOUS
  <2> QED
    BY <2>1, ProbeReaches
<1> HIDE DEF T
<1>4. PICK n \in T : \A m \in T : n <= m
  BY <1>2, <1>3, LeastNat
<1>5. n \in Slots(ht) /\ Probe(ht, h, n) \in slots
  BY DEF T
<1>6. ASSUME NEW m \in 0 .. n - 1, Probe(ht, h, m) \in slots
      PROVE  FALSE
  <2>1. m \in Slots(ht) /\ ~ (n <= m)
    BY <1>1, <1>5 DEF Slots
  <2> QED
    BY <1>4, <1>6, <2>1 DEF T
<1>7. \E k \in Slots(ht) :
          Probe(ht, h, k) \in slots /\ \A m \in 0 .. k - 1 : Probe(ht, h, m) \notin slots
  BY <1>5, <1>6
<1> QED
  BY <1>7, Zenon DEF FirstProbe

-----------------------------------------------------------------------------
(* The inductive invariant, as predicates on a table.                      *)

TableOf(size) ==
    [size : {size}, mod : Nat, nnodes : Nat, noccupied : Nat,
     hashes : [0 .. size - 1 -> Nat],
     keys : [0 .. size - 1 -> Keys \cup {Nil}],
     values : [0 .. size - 1 -> Values \cup {Nil}]]

Real(ht) == {i \in Slots(ht) : HASH_IS_REAL(ht.hashes[i])}

Used(ht) == {i \in Slots(ht) : ht.hashes[i] # UNUSED_HASH_VALUE}

(* The three arrays agree on which slots are in use, and a slot in use     *)
(* remembers the hash of its key.                                          *)
Filled(ht) ==
    \A i \in Slots(ht) :
       IF HASH_IS_REAL(ht.hashes[i])
       THEN ht.keys[i] \in Keys /\ ht.values[i] \in Values /\ ht.hashes[i] = HashOf(ht.keys[i])
       ELSE ht.keys[i] = Nil /\ ht.values[i] = Nil

Distinct(ht) == \A i, j \in Real(ht) : ht.keys[i] = ht.keys[j] => i = j

(* Probing for h comes to slot i and meets no unused slot before it.       *)
PathTo(ht, h, i) ==
    \E n \in Slots(ht) :
       /\ Probe(ht, h, n) = i
       /\ \A m \in 0 .. n - 1 : ht.hashes[Probe(ht, h, m)] # UNUSED_HASH_VALUE

(* Every key can be found: removals and resizes leave its path unbroken.   *)
Reachable(ht) == \A i \in Real(ht) : PathTo(ht, ht.hashes[i], i)

WellFormed(ht) ==
    /\ ht \in TableOf(ht.size)
    /\ Sized(ht)
    /\ Filled(ht)
    /\ Distinct(ht)
    /\ Reachable(ht)

(* The counters count, no bound on a gint is passed, and a slot is free.   *)
Counted(ht) == ht.nnodes = Cardinality(Real(ht)) /\ ht.noccupied = Cardinality(Used(ht))

(* The map a table stands for.                                             *)
Holds(ht, k, v) == \E i \in Real(ht) : ht.keys[i] = k /\ ht.values[i] = v

(* The fields of a table.                                                  *)
LEMMA TableType ==
    ASSUME NEW ht, WellFormed(ht)
    PROVE  /\ ht.size \in Nat \ {0} /\ ht.mod \in Nat \ {0}
           /\ ht.nnodes \in Nat /\ ht.noccupied \in Nat
           /\ Slots(ht) = 0 .. ht.size - 1
           /\ ht.hashes \in [Slots(ht) -> Nat]
           /\ ht.keys \in [Slots(ht) -> Keys \cup {Nil}]
           /\ ht.values \in [Slots(ht) -> Values \cup {Nil}]
<1>1. ht.size \in Nat \ {0} /\ ht.mod \in Nat \ {0}
  BY SizedType DEF WellFormed
<1>2. ht \in TableOf(ht.size)
  BY DEF WellFormed
<1> QED
  BY <1>1, <1>2 DEF TableOf, Slots

LEMMA HashType ==
    ASSUME NEW k \in Keys
    PROVE  HashOf(k) \in Nat /\ HASH_IS_REAL(HashOf(k))
<1>1. k \in Nat /\ GuintRange \in Nat \ {0}
  BY HashKeyAssumption, HashSizeAssumption
<1>2. keyHash(k) \in Nat
  BY <1>1 DEF keyHash
<1> QED
  BY <1>2 DEF HashOf, HASH_IS_REAL

(* lookup_node returns the slot of the key; or, when there is none, a free *)
(* slot to which the key's path leads.                                     *)
LEMMA LookupNode ==
    ASSUME NEW ht, WellFormed(ht), Used(ht) # Slots(ht), NEW k \in Keys
    PROVE  LET i == lookup_node(ht, k)
           IN  /\ i \in Slots(ht)
               /\ PathTo(ht, HashOf(k), i)
               /\ \A j \in Real(ht) : ht.keys[j] = k => i = j
               /\ HASH_IS_REAL(ht.hashes[i]) => ht.keys[i] = k
<1> DEFINE h == HashOf(k)
           P(n) == Probe(ht, h, n)
           Match(i) == ht.hashes[i] = h /\ ht.keys[i] = k
           stops == {i \in Slots(ht) : ht.hashes[i] = UNUSED_HASH_VALUE \/ Match(i)}
           last == FirstProbe(ht, h, stops)
           tombs == {n \in 0 .. last : ht.hashes[P(n)] = TOMBSTONE_HASH_VALUE}
           tomb == CHOOSE n \in tombs : \A m \in tombs : n <= m
<1>1. h \in Nat /\ HASH_IS_REAL(h) /\ Sized(ht) /\ Slots(ht) = 0 .. ht.size - 1 /\ ht.size \in Nat
  BY HashType, TableType DEF WellFormed
<1>2. \A i \in Slots(ht) : ht.hashes[i] \in Nat
  BY TableType
<1>3. stops \subseteq Slots(ht) /\ stops # {}
  BY DEF Used
<1>4. /\ last \in Slots(ht)
      /\ P(last) \in stops
      /\ \A m \in 0 .. last - 1 : P(m) \notin stops
  <2> HIDE DEF h, stops
  <2> QED
    BY <1>1, <1>3, FirstProbeFinds
<1>5. \A n \in Nat : P(n) \in Slots(ht)
  <2> HIDE DEF h
  <2> QED
    BY <1>1, ProbeSlot
<1> HIDE DEF h, last
<1>6. \A m \in 0 .. last - 1 : ht.hashes[P(m)] # UNUSED_HASH_VALUE /\ ~ Match(P(m))
  <2> TAKE m \in 0 .. last - 1
  <2>1. m \in Nat
    BY <1>1, <1>4
  <2>2. P(m) \in Slots(ht) /\ P(m) \notin stops
    BY <1>4, <1>5, <2>1
  <2> HIDE DEF P
  <2> QED
    BY <2>2
<1>7. \A n \in 0 .. last : n \in Slots(ht) /\ n \in Nat
  BY <1>1, <1>4
<1>8. \A n \in 0 .. last : PathTo(ht, h, P(n))
  <2> TAKE n \in 0 .. last
  <2>1. \A m \in 0 .. n - 1 : ht.hashes[P(m)] # UNUSED_HASH_VALUE
    BY <1>1, <1>4, <1>6
  <2> QED
    BY <1>7, <2>1 DEF PathTo
<1>9. ASSUME NEW j \in Real(ht), ht.keys[j] = k
      PROVE  P(last) = j
  <2>1. j \in Slots(ht) /\ ht.hashes[j] = h /\ PathTo(ht, h, j)
    BY <1>9 DEF WellFormed, Filled, Reachable, Real, h
  <2>2. PICK n \in Slots(ht) :
            P(n) = j /\ \A m \in 0 .. n - 1 : ht.hashes[P(m)] # UNUSED_HASH_VALUE
    BY <2>1 DEF PathTo
  <2>3. ~ (n < last)
    <3> SUFFICES ASSUME n < last PROVE FALSE
      OBVIOUS
    <3>1. n \in 0 .. last - 1
      BY <1>1, <1>4
    <3> QED
      BY <1>6, <1>9, <2>1, <2>2, <3>1
  <2>4. CASE last = n
    BY <2>2, <2>4
  <2>5. CASE last < n
    <3>1. last \in 0 .. n - 1
      BY <1>1, <1>4, <2>5
    <3>2. Match(P(last))
      BY <1>4, <2>2, <3>1
    <3>3. P(last) \in Real(ht) /\ ht.keys[P(last)] = k
      BY <1>1, <1>4, <3>2 DEF Real
    <3> QED
      BY <1>9, <3>3 DEF WellFormed, Distinct
  <2> QED
    BY <1>1, <1>4, <2>3, <2>4, <2>5
<1>10. HASH_IS_REAL(ht.hashes[P(last)]) => ht.keys[P(last)] = k
  BY <1>4 DEF HASH_IS_REAL, UNUSED_HASH_VALUE
<1>11. CASE Match(P(last)) \/ tombs = {}
  <2>1. lookup_node(ht, k) = P(last)
    BY <1>11 DEF lookup_node, h, last
  <2>2. last \in 0 .. last
    BY <1>1, <1>4
  <2> QED
    BY <1>5, <1>7, <1>8, <1>9, <1>10, <2>1, <2>2 DEF h
<1>12. CASE ~ (Match(P(last)) \/ tombs = {})
  <2>1. lookup_node(ht, k) = P(tomb)
    BY <1>12 DEF lookup_node, h, last
  <2>2. tombs \subseteq Nat /\ tombs # {}
    BY <1>7, <1>12
  <2>3. \E n \in tombs : \A m \in tombs : n <= m
    <3> HIDE DEF tombs
    <3> QED
      BY <2>2, LeastNat
  <2>4. tomb \in tombs
    <3> HIDE DEF tombs
    <3> QED
      BY <2>3
  <2> HIDE DEF tomb
  <2>5. tomb \in 0 .. last /\ ~ HASH_IS_REAL(ht.hashes[P(tomb)])
    BY <2>4 DEF HASH_IS_REAL, TOMBSTONE_HASH_VALUE
  <2>6. \A j \in Real(ht) : ht.keys[j] # k
    <3> SUFFICES ASSUME NEW j \in Real(ht), ht.keys[j] = k PROVE FALSE
      OBVIOUS
    <3>1. P(last) = j
      BY <1>9
    <3>2. ht.hashes[j] = h
      BY DEF WellFormed, Filled, Real, h
    <3> QED
      BY <1>12, <3>1, <3>2
  <2> QED
    BY <1>5, <1>7, <1>8, <2>1, <2>5, <2>6 DEF h
<1> QED
  BY <1>11, <1>12

-----------------------------------------------------------------------------
(* One slot changes.                                                       *)

SameShape(a, b) == b.size = a.size /\ b.mod = a.mod /\ b \in TableOf(b.size)

LEMMA SameProbes ==
    ASSUME NEW a, NEW b, SameShape(a, b)
    PROVE  /\ Slots(b) = Slots(a)
           /\ Sized(a) => Sized(b)
           /\ \A h, n : Probe(b, h, n) = Probe(a, h, n)
  BY DEF SameShape, Slots, Sized, Probe

(* A free slot on the key's path takes a key that no slot has.             *)
LEMMA PutKeepsWellFormed ==
    ASSUME NEW a, NEW b, WellFormed(a), SameShape(a, b),
           NEW i \in Slots(a), NEW k \in Keys, NEW v \in Values,
           PathTo(a, HashOf(k), i), ~ HASH_IS_REAL(a.hashes[i]),
           \A j \in Real(a) : a.keys[j] # k,
           b.hashes = [a.hashes EXCEPT ![i] = HashOf(k)],
           b.keys = [a.keys EXCEPT ![i] = k],
           b.values = [a.values EXCEPT ![i] = v]
    PROVE  /\ WellFormed(b)
           /\ i \notin Real(a) /\ Real(b) = Real(a) \cup {i}
           /\ Used(b) = Used(a) \cup {i}
           /\ \A key, val : Holds(b, key, val) <=> Holds(a, key, val) \/ (key = k /\ val = v)
<1>1. HashOf(k) \in Nat /\ HASH_IS_REAL(HashOf(k))
  BY HashType
<1>2. Slots(b) = Slots(a) /\ Sized(b) /\ \A h, n : Probe(b, h, n) = Probe(a, h, n)
  BY SameProbes DEF WellFormed
<1>3. /\ a.hashes \in [Slots(a) -> Nat]
      /\ a.keys \in [Slots(a) -> Keys \cup {Nil}]
      /\ a.values \in [Slots(a) -> Values \cup {Nil}]
  BY TableType
<1>4. /\ b.hashes[i] = HashOf(k) /\ b.keys[i] = k /\ b.values[i] = v
      /\ \A j \in Slots(a) : j # i => /\ b.hashes[j] = a.hashes[j]
                                      /\ b.keys[j] = a.keys[j]
                                      /\ b.values[j] = a.values[j]
  BY <1>3
<1>5. i \notin Real(a) /\ Real(b) = Real(a) \cup {i}
  BY <1>1, <1>2, <1>4 DEF Real
<1>6. HashOf(k) # UNUSED_HASH_VALUE
  BY <1>1 DEF HASH_IS_REAL, UNUSED_HASH_VALUE
<1>7. Used(b) = Used(a) \cup {i}
  BY <1>2, <1>4, <1>6 DEF Used
<1>8. Filled(b)
  <2> SUFFICES ASSUME NEW j \in Slots(a)
               PROVE  IF HASH_IS_REAL(b.hashes[j])
                      THEN /\ b.keys[j] \in Keys /\ b.values[j] \in Values
                           /\ b.hashes[j] = HashOf(b.keys[j])
                      ELSE b.keys[j] = Nil /\ b.values[j] = Nil
    BY <1>2 DEF Filled
  <2>1. CASE j = i
    BY <1>1, <1>4, <2>1
  <2>2. CASE j # i
    BY <1>4, <2>2 DEF WellFormed, Filled
  <2> QED
    BY <2>1, <2>2
<1>9. Distinct(b)
  <2>1. \A j \in Real(a) : j # i /\ j \in Slots(a) /\ b.keys[j] = a.keys[j]
    BY <1>4, <1>5 DEF Real
  <2> QED
    BY <1>4, <1>5, <2>1 DEF WellFormed, Distinct
<1>10. \A h \in Nat, j \in Slots(a) : PathTo(a, h, j) => PathTo(b, h, j)
  <2> SUFFICES ASSUME NEW h \in Nat, NEW j \in Slots(a), PathTo(a, h, j)
               PROVE  PathTo(b, h, j)
    OBVIOUS
  <2>1. PICK n \in Slots(a) :
            /\ Probe(a, h, n) = j
            /\ \A m \in 0 .. n - 1 : a.hashes[Probe(a, h, m)] # UNUSED_HASH_VALUE
    BY DEF PathTo
  <2>2. ASSUME NEW m \in 0 .. n - 1
        PROVE  b.hashes[Probe(a, h, m)] # UNUSED_HASH_VALUE
    <3>1. n \in Nat /\ m \in Nat
      BY TableType
    <3>2. Probe(a, h, m) \in Slots(a)
      BY <3>1, ProbeSlot DEF WellFormed
    <3> QED
      BY <1>4, <1>6, <2>1, <3>2
  <2> QED
    BY <1>2, <2>1, <2>2 DEF PathTo
<1>11. Reachable(b)
  <2> SUFFICES ASSUME NEW j \in Real(b) PROVE PathTo(b, b.hashes[j], j)
    BY DEF Reachable
  <2>1. CASE j = i
    BY <1>1, <1>4, <1>10, <2>1
  <2>2. CASE j # i
    <3>1. j \in Real(a) /\ j \in Slots(a) /\ b.hashes[j] = a.hashes[j] /\ a.hashes[j] \in Nat
      BY <1>3, <1>4, <1>5, <2>2 DEF Real
    <3> QED
      BY <1>10, <3>1 DEF WellFormed, Reachable
  <2> QED
    BY <2>1, <2>2
<1>12. WellFormed(b)
  BY <1>2, <1>8, <1>9, <1>11 DEF WellFormed, SameShape
<1>13. ASSUME NEW key, NEW val
       PROVE  Holds(b, key, val) <=> Holds(a, key, val) \/ (key = k /\ val = v)
  <2>1. \A j \in Real(a) : b.keys[j] = a.keys[j] /\ b.values[j] = a.values[j]
    BY <1>4, <1>5 DEF Real
  <2> QED
    BY <1>4, <1>5, <2>1 DEF Holds
<1> QED
  BY <1>5, <1>7, <1>12, <1>13

(* A slot in use takes a new value.                                        *)
LEMMA ChangeKeepsWellFormed ==
    ASSUME NEW a, NEW b, WellFormed(a), SameShape(a, b),
           NEW i \in Real(a), NEW v \in Values,
           b.hashes = a.hashes, b.keys = a.keys, b.values = [a.values EXCEPT ![i] = v]
    PROVE  /\ WellFormed(b)
           /\ Real(b) = Real(a) /\ Used(b) = Used(a)
           /\ \A key, val : Holds(b, key, val)
                <=> IF key = a.keys[i] THEN val = v ELSE Holds(a, key, val)
<1>1. Slots(b) = Slots(a) /\ Sized(b) /\ \A h, n : Probe(b, h, n) = Probe(a, h, n)
  BY SameProbes DEF WellFormed
<1>2. /\ i \in Slots(a) /\ b.values[i] = v
      /\ \A j \in Slots(a) : j # i => b.values[j] = a.values[j]
  BY TableType DEF Real
<1>3. Real(b) = Real(a) /\ Used(b) = Used(a)
  BY <1>1 DEF Real, Used
<1>4. Filled(b)
  BY <1>1, <1>2 DEF WellFormed, Filled, Real
<1>5. Distinct(b)
  BY <1>3 DEF WellFormed, Distinct
<1>6. Reachable(b)
  BY <1>1, <1>3 DEF WellFormed, Reachable, PathTo
<1>7. ASSUME NEW key, NEW val
      PROVE  Holds(b, key, val) <=> IF key = a.keys[i] THEN val = v ELSE Holds(a, key, val)
  <2>1. CASE key = a.keys[i]
    <3>1. \A j \in Real(a) : a.keys[j] = key => j = i
      BY <2>1 DEF WellFormed, Distinct
    <3> QED
      BY <1>2, <1>3, <2>1, <3>1 DEF Holds
  <2>2. CASE key # a.keys[i]
    <3>1. \A j \in Real(a) : a.keys[j] = key => b.values[j] = a.values[j]
      BY <1>2, <2>2 DEF Real
    <3> QED
      BY <1>3, <2>2, <3>1 DEF Holds
  <2> QED
    BY <2>1, <2>2
<1> QED
  BY <1>1, <1>3, <1>4, <1>5, <1>6, <1>7 DEF WellFormed, SameShape

(* A slot in use becomes a tombstone.                                      *)
LEMMA BuryKeepsWellFormed ==
    ASSUME NEW a, NEW b, WellFormed(a), SameShape(a, b), NEW i \in Real(a),
           b.hashes = [a.hashes EXCEPT ![i] = TOMBSTONE_HASH_VALUE],
           b.keys = [a.keys EXCEPT ![i] = Nil],
           b.values = [a.values EXCEPT ![i] = Nil]
    PROVE  /\ WellFormed(b)
           /\ Real(b) = Real(a) \ {i} /\ Used(b) = Used(a)
           /\ \A key, val : Holds(b, key, val) <=> Holds(a, key, val) /\ key # a.keys[i]
<1>1. Slots(b) = Slots(a) /\ Sized(b) /\ \A h, n : Probe(b, h, n) = Probe(a, h, n)
  BY SameProbes DEF WellFormed
<1>2. /\ a.hashes \in [Slots(a) -> Nat]
      /\ a.keys \in [Slots(a) -> Keys \cup {Nil}]
      /\ a.values \in [Slots(a) -> Values \cup {Nil}]
      /\ i \in Slots(a)
  BY TableType DEF Real
<1>3. /\ b.hashes[i] = TOMBSTONE_HASH_VALUE /\ b.keys[i] = Nil /\ b.values[i] = Nil
      /\ \A j \in Slots(a) : j # i => /\ b.hashes[j] = a.hashes[j]
                                      /\ b.keys[j] = a.keys[j]
                                      /\ b.values[j] = a.values[j]
  BY <1>2
<1>4. ~ HASH_IS_REAL(TOMBSTONE_HASH_VALUE) /\ TOMBSTONE_HASH_VALUE # UNUSED_HASH_VALUE
  BY DEF HASH_IS_REAL, TOMBSTONE_HASH_VALUE, UNUSED_HASH_VALUE
<1>5. a.hashes[i] # UNUSED_HASH_VALUE
  BY DEF Real, HASH_IS_REAL, UNUSED_HASH_VALUE
<1>6. Real(b) = Real(a) \ {i}
  BY <1>1, <1>2, <1>3, <1>4 DEF Real
<1>7. Used(b) = Used(a)
  BY <1>1, <1>2, <1>3, <1>4, <1>5 DEF Used
<1>8. Filled(b)
  BY <1>1, <1>2, <1>3, <1>4 DEF WellFormed, Filled
<1>9. \A j \in Real(b) : /\ j \in Real(a) /\ b.keys[j] = a.keys[j]
                         /\ b.values[j] = a.values[j] /\ b.hashes[j] = a.hashes[j]
  BY <1>3, <1>6 DEF Real
<1>10. Distinct(b)
  BY <1>9 DEF WellFormed, Distinct
<1>11. \A j \in Slots(a) : a.hashes[j] # UNUSED_HASH_VALUE => b.hashes[j] # UNUSED_HASH_VALUE
  BY <1>3, <1>4
<1>12. Reachable(b)
  <2> SUFFICES ASSUME NEW j \in Real(b) PROVE PathTo(b, b.hashes[j], j)
    BY DEF Reachable
  <2>1. PathTo(a, a.hashes[j], j) /\ a.hashes[j] \in Nat /\ b.hashes[j] = a.hashes[j]
    BY <1>2, <1>9 DEF WellFormed, Reachable, Real
  <2> DEFINE h == a.hashes[j]
  <2>2. PICK n \in Slots(a) :
            /\ Probe(a, h, n) = j
            /\ \A m \in 0 .. n - 1 : a.hashes[Probe(a, h, m)] # UNUSED_HASH_VALUE
    BY <2>1 DEF PathTo
  <2>3. ASSUME NEW m \in 0 .. n - 1
        PROVE  b.hashes[Probe(a, h, m)] # UNUSED_HASH_VALUE
    <3>1. n \in Nat /\ m \in Nat
      BY TableType
    <3>2. Probe(a, h, m) \in Slots(a)
      BY <2>1, <3>1, ProbeSlot DEF WellFormed
    <3> QED
      BY <1>11, <2>2, <3>2
  <2> QED
    BY <1>1, <2>1, <2>2, <2>3 DEF PathTo
<1>13. ASSUME NEW key, NEW val
       PROVE  Holds(b, key, val) <=> Holds(a, key, val) /\ key # a.keys[i]
  <2>1. \A j \in Real(a) : j \in Real(b) \/ j = i
    BY <1>6
  <2>2. \A j \in Real(a) : a.keys[j] = a.keys[i] => j = i
    BY DEF WellFormed, Distinct
  <2> QED
    BY <1>6, <1>9, <2>1, <2>2 DEF Holds
<1> QED
  BY <1>1, <1>6, <1>7, <1>8, <1>10, <1>12, <1>13 DEF WellFormed, SameShape

-----------------------------------------------------------------------------
(* Resizing.                                                               *)

LEMMA SlotsFinite ==
    ASSUME NEW ht, WellFormed(ht)
    PROVE  /\ IsFiniteSet(Slots(ht)) /\ Cardinality(Slots(ht)) = ht.size
           /\ IsFiniteSet(Real(ht)) /\ Cardinality(Real(ht)) \in Nat
           /\ IsFiniteSet(Used(ht)) /\ Cardinality(Used(ht)) \in Nat
           /\ Cardinality(Real(ht)) <= Cardinality(Used(ht))
           /\ Cardinality(Used(ht)) <= ht.size
<1>1. ht.size \in Nat \ {0} /\ Slots(ht) = 0 .. ht.size - 1
  BY TableType
<1>2. IsFiniteSet(Slots(ht)) /\ Cardinality(Slots(ht)) = ht.size
  BY <1>1, FS_Interval
<1>3. Used(ht) \subseteq Slots(ht) /\ Real(ht) \subseteq Used(ht)
  BY DEF Used, Real, HASH_IS_REAL, UNUSED_HASH_VALUE
<1>4. IsFiniteSet(Used(ht)) /\ Cardinality(Used(ht)) <= ht.size
  BY <1>2, <1>3, FS_Subset
<1>5. IsFiniteSet(Real(ht)) /\ Cardinality(Real(ht)) <= Cardinality(Used(ht))
  BY <1>3, <1>4, FS_Subset
<1> QED
  BY <1>2, <1>4, <1>5, FS_CardinalityType

(* There are no more keys in a table than keys, and no gint overflows.     *)
LEMMA FewNodes ==
    ASSUME NEW ht, WellFormed(ht)
    PROVE  2 * Cardinality(Real(ht)) < Pow2[30]
<1> DEFINE f == [i \in Real(ht) |-> ht.keys[i]]
<1>1. f \in [Real(ht) -> Keys]
  BY DEF WellFormed, Filled, Real
<1>2. \A i, j \in Real(ht) : f[i] = f[j] => i = j
  BY DEF WellFormed, Distinct
<1> HIDE DEF f
<1>3. f \in Injection(Real(ht), Keys)
  BY <1>1, <1>2 DEF Injection, IsInjective
<1>4. Cardinality(Real(ht)) <= Cardinality(Keys)
  BY <1>3, HashCountAssumption, FS_Injection
<1>5. Pow2[29 + 1] = 2 * Pow2[29] /\ Pow2[29] \in Nat
  BY Pow2Equation
<1>6. Cardinality(Keys) \in Nat /\ Cardinality(Real(ht)) \in Nat
  BY HashCountAssumption, FS_CardinalityType, SlotsFinite
<1> QED
  BY <1>4, <1>5, <1>6, HashCountAssumption

LEMMA CardinalityAdd ==
    ASSUME NEW S, NEW T, NEW x, IsFiniteSet(S), x \notin S, T = S \cup {x}
    PROVE  IsFiniteSet(T) /\ Cardinality(T) = Cardinality(S) + 1
<1>1. IsFiniteSet(S \cup {x}) /\ Cardinality(S \cup {x}) = Cardinality(S) + 1
  BY FS_AddElement, Zenon
<1> QED
  BY <1>1

LEMMA EmptyType ==
    ASSUME NEW shift \in 0 .. 30
    PROVE  /\ Empty(shift) \in TableOf(Pow2[shift])
           /\ Empty(shift).nnodes = 0 /\ Empty(shift).noccupied = 0
<1> DEFINE e == Empty(shift)
           N == Pow2[shift]
           A == [i \in 0 .. N - 1 |-> UNUSED_HASH_VALUE]
           B == [i \in 0 .. N - 1 |-> Nil]
<1>1. /\ A \in [0 .. N - 1 -> Nat]
      /\ B \in [0 .. N - 1 -> Keys \cup {Nil}]
      /\ B \in [0 .. N - 1 -> Values \cup {Nil}]
  BY DEF UNUSED_HASH_VALUE
<1>2. e = [size |-> N, mod |-> prime_mod[shift + 1], nnodes |-> 0, noccupied |-> 0,
           hashes |-> A, keys |-> B, values |-> B]
  BY DEF Empty
<1>3. prime_mod[shift + 1] \in Nat
  BY DEF prime_mod
<1> HIDE DEF e, A, B, N
<1>4. e \in TableOf(N)
  BY <1>1, <1>2, <1>3 DEF TableOf
<1>5. e.nnodes = 0 /\ e.noccupied = 0
  BY <1>2
<1> QED
  BY <1>4, <1>5 DEF e, N

(* A new table is empty.                                                   *)
LEMMA EmptyWellFormed ==
    ASSUME NEW shift \in 0 .. 30, NEW n \in Nat
    PROVE  LET ht == [Empty(shift) EXCEPT !.nnodes = n, !.noccupied = n]
           IN  /\ WellFormed(ht) /\ Real(ht) = {} /\ Used(ht) = {}
               /\ ht.size = Pow2[shift] /\ ht.mod = prime_mod[shift + 1]
               /\ ht.nnodes = n /\ ht.noccupied = n
<1> DEFINE ht == [Empty(shift) EXCEPT !.nnodes = n, !.noccupied = n]
           N == Pow2[shift]
<1>1. /\ ht.size = N /\ ht.mod = prime_mod[shift + 1]
      /\ ht.nnodes = n /\ ht.noccupied = n
      /\ ht.hashes = [i \in 0 .. N - 1 |-> UNUSED_HASH_VALUE]
      /\ ht.keys = [i \in 0 .. N - 1 |-> Nil]
      /\ ht.values = [i \in 0 .. N - 1 |-> Nil]
  BY DEF Empty
<1> HIDE DEF ht
<1>3. Sized(ht)
  BY <1>1 DEF Sized
<1>4. ht.size \in Nat /\ ht.mod \in Nat
  BY <1>3, SizedType
<1>5. ht \in TableOf(ht.size)
  <2> DEFINE e == Empty(shift)
  <2>1. e \in TableOf(N)
    BY EmptyType
  <2> HIDE DEF e, N
  <2>2. [e EXCEPT !.nnodes = n, !.noccupied = n] \in TableOf(N)
    BY <2>1 DEF TableOf
  <2> QED
    BY <1>1, <2>2 DEF ht, e
<1>9. \A i \in Slots(ht) :
          ht.hashes[i] = UNUSED_HASH_VALUE /\ ht.keys[i] = Nil /\ ht.values[i] = Nil
  BY <1>1 DEF Slots
<1>10. ~ HASH_IS_REAL(UNUSED_HASH_VALUE)
  BY DEF HASH_IS_REAL, UNUSED_HASH_VALUE
<1>11. Real(ht) = {} /\ Used(ht) = {}
  BY <1>9, <1>10 DEF Real, Used
<1>12. Filled(ht) /\ Distinct(ht) /\ Reachable(ht)
  BY <1>9, <1>10, <1>11 DEF Filled, Distinct, Reachable
<1>13. WellFormed(ht)
  BY <1>3, <1>5, <1>12 DEF WellFormed
<1> QED
  BY <1>1, <1>11, <1>13 DEF ht

(* The slots in use among the first n, which rehashing has moved.          *)
RealBelow(ht, n) == {i \in Real(ht) : i < n}

Moved(old, new, t, n) ==
    /\ WellFormed(t) /\ Used(t) = Real(t)
    /\ t.size = new.size /\ t.mod = new.mod
    /\ t.nnodes = new.nnodes /\ t.noccupied = new.noccupied
    /\ Cardinality(Real(t)) = Cardinality(RealBelow(old, n))
    /\ \A key, val : Holds(t, key, val)
          <=> \E i \in RealBelow(old, n) : old.keys[i] = key /\ old.values[i] = val

(* Rehashing one slot moves it.                                            *)
LEMMA RehashMoves ==
    ASSUME NEW old, NEW new, NEW t, NEW n \in Slots(old), WellFormed(old),
           Moved(old, new, t, n), Cardinality(Real(old)) < new.size
    PROVE  Moved(old, new, Rehash(old, t, n), n + 1)
<1> DEFINE h == old.hashes[n]
           k == old.keys[n]
           v == old.values[n]
           unused == {j \in Slots(t) : t.hashes[j] = UNUSED_HASH_VALUE}
           p == FirstProbe(t, h, unused)
           to == Probe(t, h, p)
           b == [t EXCEPT !.hashes[to] = h, !.keys[to] = k, !.values[to] = v]
<1>1. n \in Nat /\ h \in Nat /\ Real(old) \subseteq Nat
  BY TableType DEF Real
<1>2. CASE ~ HASH_IS_REAL(h)
  <2>1. Rehash(old, t, n) = t
    BY <1>2 DEF Rehash
  <2>2. n \notin Real(old)
    BY <1>2 DEF Real
  <2>3. RealBelow(old, n + 1) = RealBelow(old, n)
    BY <1>1, <2>2 DEF RealBelow
  <2> QED
    BY <2>1, <2>3 DEF Moved
<1>3. CASE HASH_IS_REAL(h)
  <2>1. n \in Real(old) /\ k \in Keys /\ v \in Values /\ h = HashOf(k)
    BY <1>3 DEF Real, WellFormed, Filled
  <2>2. /\ RealBelow(old, n + 1) = RealBelow(old, n) \cup {n}
        /\ n \notin RealBelow(old, n)
        /\ RealBelow(old, n) \subseteq Real(old)
    BY <1>1, <2>1 DEF RealBelow
  <2>3. IsFiniteSet(RealBelow(old, n)) /\ Cardinality(RealBelow(old, n)) <= Cardinality(Real(old))
    BY <2>2, SlotsFinite, FS_Subset
  <2>4. WellFormed(t) /\ t.size = new.size
    BY DEF Moved
  <2>5. unused # {}
    <3>1. Cardinality(Used(t)) # Cardinality(Slots(t))
      BY <2>3, <2>4, SlotsFinite, FS_CardinalityType DEF Moved
    <3>2. Used(t) # Slots(t) /\ Used(t) \subseteq Slots(t)
      BY <3>1 DEF Used
    <3> QED
      BY <3>2 DEF Used
  <2>6. /\ p \in Slots(t) /\ to \in unused
        /\ \A m \in 0 .. p - 1 : Probe(t, h, m) \notin unused
    <3>1. unused \subseteq Slots(t) /\ Sized(t)
      BY <2>4 DEF WellFormed
    <3> HIDE DEF unused, h
    <3> QED
      BY <1>1, <2>5, <3>1, FirstProbeFinds
  <2>7. Rehash(old, t, n) = b
    BY <1>3 DEF Rehash
  <2> HIDE DEF p, h, k, v
  <2>8. PathTo(t, h, to)
    <3>1. ASSUME NEW m \in 0 .. p - 1
          PROVE  t.hashes[Probe(t, h, m)] # UNUSED_HASH_VALUE
      <4>1. m \in Nat
        BY <2>4, <2>6, TableType
      <4>2. Probe(t, h, m) \in Slots(t)
        BY <1>1, <2>4, <4>1, ProbeSlot DEF WellFormed
      <4> QED
        BY <2>6, <4>2
    <3> QED
      BY <2>6, <3>1 DEF PathTo
  <2> HIDE DEF to
  <2>9. to \in Slots(t) /\ ~ HASH_IS_REAL(t.hashes[to])
    BY <2>6 DEF HASH_IS_REAL, UNUSED_HASH_VALUE
  <2>10. \A j \in Real(t) : t.keys[j] # k
    <3> SUFFICES ASSUME NEW j \in Real(t), t.keys[j] = k PROVE FALSE
      OBVIOUS
    <3>1. Holds(t, k, t.values[j])
      BY DEF Holds
    <3>2. PICK i \in RealBelow(old, n) : old.keys[i] = k
      BY <3>1 DEF Moved
    <3>3. i = n
      BY <2>1, <2>2, <3>2 DEF WellFormed, Distinct, k
    <3> QED
      BY <2>2, <3>2, <3>3
  <2>11. /\ b \in TableOf(t.size)
         /\ b.size = t.size /\ b.mod = t.mod
         /\ b.nnodes = t.nnodes /\ b.noccupied = t.noccupied
         /\ b.hashes = [t.hashes EXCEPT ![to] = h]
         /\ b.keys = [t.keys EXCEPT ![to] = k]
         /\ b.values = [t.values EXCEPT ![to] = v]
    <3>1. t \in TableOf(t.size)
      BY <2>4 DEF WellFormed
    <3>2. k \in Keys \cup {Nil} /\ v \in Values \cup {Nil}
      BY <2>1
    <3>3. h \in Nat
      BY <1>1 DEF h
    <3> QED
      BY <3>1, <3>2, <3>3 DEF TableOf
  <2> HIDE DEF b
  <2>12. /\ WellFormed(b)
         /\ to \notin Real(t) /\ Real(b) = Real(t) \cup {to}
         /\ Used(b) = Used(t) \cup {to}
         /\ \A key, val : Holds(b, key, val) <=> Holds(t, key, val) \/ (key = k /\ val = v)
    <3>1. SameShape(t, b)
      BY <2>11 DEF SameShape
    <3> QED
      BY <2>1, <2>4, <2>8, <2>9, <2>10, <2>11, <3>1, PutKeepsWellFormed
  <2>13. Cardinality(Real(b)) = Cardinality(RealBelow(old, n + 1))
    <3>1. Cardinality(Real(b)) = Cardinality(Real(t)) + 1
      BY <2>4, <2>12, SlotsFinite, CardinalityAdd
    <3>2. Cardinality(RealBelow(old, n + 1)) = Cardinality(RealBelow(old, n)) + 1
      BY <2>2, <2>3, CardinalityAdd
    <3> QED
      BY <3>1, <3>2 DEF Moved
  <2>14. ASSUME NEW key, NEW val
         PROVE  Holds(b, key, val)
                  <=> \E i \in RealBelow(old, n + 1) : old.keys[i] = key /\ old.values[i] = val
    BY <2>2, <2>12 DEF Moved, k, v
  <2> QED
    BY <2>7, <2>11, <2>12, <2>13, <2>14 DEF Moved
<1> QED
  BY <1>2, <1>3

LEMMA RehashType ==
    ASSUME NEW old, WellFormed(old), NEW N, NEW t \in TableOf(N), NEW n \in Slots(old)
    PROVE  Rehash(old, t, n) \in TableOf(N)
<1> DEFINE h == old.hashes[n]
           k == old.keys[n]
           v == old.values[n]
           to == Probe(t, h, FirstProbe(t, h, {j \in Slots(t) : t.hashes[j] = UNUSED_HASH_VALUE}))
           b == [t EXCEPT !.hashes[to] = h, !.keys[to] = k, !.values[to] = v]
<1>1. h \in Nat /\ k \in Keys \cup {Nil} /\ v \in Values \cup {Nil}
  BY TableType
<1>2. Rehash(old, t, n) = t \/ Rehash(old, t, n) = b
  BY DEF Rehash
<1> HIDE DEF h, k, v, to
<1>3. b \in TableOf(N)
  BY <1>1 DEF TableOf
<1> QED
  BY <1>2, <1>3

(* The recursion of Rehashed is well founded.                              *)
LEMMA RehashedEquation ==
    ASSUME NEW old, WellFormed(old), NEW N, NEW new \in TableOf(N)
    PROVE  \A n \in 0 .. old.size :
              Rehashed(old, new)[n] = IF n = 0 THEN new
                                      ELSE Rehash(old, Rehashed(old, new)[n - 1], n - 1)
<1> DEFINE S == TableOf(N)
           step == [n \in Nat |-> [t \in S |-> IF n \in Slots(old) THEN Rehash(old, t, n) ELSE t]]
<1>1. step \in [Nat -> [S -> S]]
  <2> HIDE DEF S
  <2>1. \A n \in Slots(old), t \in S : Rehash(old, t, n) \in S
    BY RehashType DEF S
  <2> QED
    BY <2>1
<1>2. \A n \in Slots(old), t \in S : step[n][t] = Rehash(old, t, n)
  <2> HIDE DEF S
  <2>1. Slots(old) \subseteq Nat
    BY TableType
  <2> QED
    BY <2>1
<1> HIDE DEF S, step
<1>3. PICK f \in [Nat -> S] : Iterates(f, new, step)
  BY <1>1, IterateExists DEF S
<1> DEFINE g == [n \in 0 .. old.size |-> f[n]]
<1>4. old.size \in Nat /\ Slots(old) = 0 .. old.size - 1
  BY TableType
<1>5. \A n \in 0 .. old.size : g[n] = IF n = 0 THEN new ELSE Rehash(old, g[n - 1], n - 1)
  <2> TAKE n \in 0 .. old.size
  <2>1. CASE n = 0
    BY <1>3, <2>1 DEF Iterates
  <2>2. CASE n # 0
    <3>1. n - 1 \in Nat /\ (n - 1) + 1 = n /\ n - 1 \in Slots(old) /\ n - 1 \in 0 .. old.size
      BY <1>4, <2>2
    <3>2. f[n] = step[n - 1][f[n - 1]] /\ f[n - 1] \in S
      BY <1>3, <3>1 DEF Iterates
    <3>3. f[n] = Rehash(old, f[n - 1], n - 1)
      BY <1>2, <3>1, <3>2
    <3>4. g[n] = f[n] /\ g[n - 1] = f[n - 1]
      BY <3>1
    <3> QED
      BY <2>2, <3>3, <3>4
  <2> QED
    BY <2>1, <2>2
<1>6. g = [n \in 0 .. old.size |-> IF n = 0 THEN new ELSE Rehash(old, g[n - 1], n - 1)]
  <2> DEFINE r(n) == IF n = 0 THEN new ELSE Rehash(old, g[n - 1], n - 1)
  <2>1. \A n \in 0 .. old.size : f[n] = r(n)
    BY <1>5
  <2> HIDE DEF r
  <2>2. g = [n \in 0 .. old.size |-> r(n)]
    BY <2>1
  <2> QED
    BY <2>2 DEF r
<1> HIDE DEF g
<1>7. Rehashed(old, new) = [n \in 0 .. old.size |->
          IF n = 0 THEN new ELSE Rehash(old, Rehashed(old, new)[n - 1], n - 1)]
  BY <1>6, Zenon DEF Rehashed
<1> QED
  BY <1>7, Zenon

(* The bounds on the size that resize leaves.                              *)
Fits(ht) ==
    /\ \E shift \in MinShift .. 30 : ht.size = Pow2[shift] /\ ht.mod = prime_mod[shift + 1]
    /\ ht.noccupied < ht.size
    /\ ht.size > Pow2[MinShift] => ht.size <= 4 * ht.nnodes

LEMMA ShiftFits ==
    ASSUME NEW ht, WellFormed(ht), ht.nnodes = Cardinality(Real(ht))
    PROVE  LET shift == shift_from_size(2 * ht.nnodes)
           IN  /\ shift \in MinShift .. 30
               /\ Pow2[shift] > 2 * ht.nnodes
               /\ Pow2[shift] > Pow2[MinShift] => Pow2[shift] <= 4 * ht.nnodes
<1> DEFINE n == 2 * ht.nnodes
           i == find_closest_shift(n)
<1>1. MinShift \in 2 .. 5
  BY HashSizeAssumption
<1>2. n \in Nat /\ n < Pow2[30] /\ ht.nnodes \in Nat
  BY SlotsFinite, FewNodes
<1> HIDE DEF n
<1>3. i \in 0 .. n /\ Pow2[i] > n /\ (i > 0 => Pow2[i - 1] <= n)
  BY <1>2, ClosestShift
<1> HIDE DEF i
<1>4. i \in Nat /\ Pow2[i] \in Nat /\ Pow2[MinShift] \in Nat
  <2>1. i \in Nat /\ MinShift \in Nat
    BY <1>1, <1>2, <1>3
  <2> QED
    BY <2>1, Pow2Equation
<1>5. i <= 30
  <2> SUFFICES ASSUME i > 30 PROVE FALSE
    BY <1>4
  <2>1. i - 1 \in Nat /\ 30 <= i - 1
    BY <1>4
  <2>2. Pow2[30] <= Pow2[i - 1] /\ Pow2[30] \in Nat /\ Pow2[i - 1] \in Nat
    BY <2>1, Pow2Monotone, Pow2Equation
  <2> QED
    BY <1>2, <1>3, <2>2
<1>6. CASE i > MinShift
  <2>1. shift_from_size(n) = i
    BY <1>6 DEF shift_from_size, i
  <2>2. i - 1 \in Nat /\ (i - 1) + 1 = i /\ i > 0
    BY <1>1, <1>4, <1>6
  <2>3. Pow2[i] = 2 * Pow2[i - 1] /\ Pow2[i - 1] \in Nat
    <3>1. Pow2[(i - 1) + 1] = 2 * Pow2[i - 1]
      BY <2>2, Pow2Equation
    <3> QED
      BY <2>2, <3>1, Pow2Equation
  <2>4. Pow2[i] <= 4 * ht.nnodes
    BY <1>2, <1>3, <2>2, <2>3 DEF n
  <2> QED
    BY <1>1, <1>3, <1>4, <1>5, <1>6, <2>1, <2>4 DEF n
<1>7. CASE ~ (i > MinShift)
  <2>1. shift_from_size(n) = MinShift
    BY <1>7 DEF shift_from_size, i
  <2>2. Pow2[i] <= Pow2[MinShift]
    BY <1>1, <1>4, <1>7, Pow2Monotone
  <2> QED
    BY <1>1, <1>2, <1>3, <1>4, <2>1, <2>2 DEF n
<1> QED
  BY <1>6, <1>7

(* Resizing keeps the map, drops the tombstones and leaves the table       *)
(* neither full nor too large.                                             *)
LEMMA ResizeKeepsMap ==
    ASSUME NEW ht, WellFormed(ht), ht.nnodes = Cardinality(Real(ht))
    PROVE  LET b == resize(ht)
           IN  /\ WellFormed(b) /\ Counted(b) /\ Fits(b)
               /\ \A key, val : Holds(b, key, val) <=> Holds(ht, key, val)
<1> DEFINE shift == shift_from_size(2 * ht.nnodes)
           new == [Empty(shift) EXCEPT !.nnodes = ht.nnodes, !.noccupied = ht.nnodes]
           after(n) == Rehashed(ht, new)[n]
           b == after(ht.size)
<1>1. /\ shift \in MinShift .. 30
      /\ Pow2[shift] > 2 * ht.nnodes
      /\ Pow2[shift] > Pow2[MinShift] => Pow2[shift] <= 4 * ht.nnodes
  BY ShiftFits
<1> HIDE DEF shift
<1>2. shift \in 0 .. 30 /\ ht.nnodes \in Nat
  BY <1>1, HashSizeAssumption, TableType
<1>3. /\ WellFormed(new) /\ Real(new) = {} /\ Used(new) = {}
      /\ new.size = Pow2[shift] /\ new.mod = prime_mod[shift + 1]
      /\ new.nnodes = ht.nnodes /\ new.noccupied = ht.nnodes
  BY <1>2, EmptyWellFormed
<1>4. resize(ht) = b
  BY DEF resize, shift
<1> HIDE DEF new
<1>5. \A n \in 0 .. ht.size : after(n) = IF n = 0 THEN new ELSE Rehash(ht, after(n - 1), n - 1)
  BY <1>3, RehashedEquation DEF WellFormed
<1> HIDE DEF after
<1>6. ht.size \in Nat /\ Slots(ht) = 0 .. ht.size - 1
  BY TableType
<1>7. Cardinality(Real(ht)) < new.size
  BY <1>1, <1>2, <1>3, Pow2Equation
<1> DEFINE S == {n \in Nat : n <= ht.size => Moved(ht, new, after(n), n)}
<1>8. 0 \in S
  <2>1. after(0) = new
    BY <1>5, <1>6
  <2>2. RealBelow(ht, 0) = {}
    BY <1>6 DEF RealBelow, Real
  <2>3. Moved(ht, new, new, 0)
    BY <1>3, <2>2 DEF Moved, Holds
  <2> QED
    BY <2>1, <2>3
<1>9. ASSUME NEW n \in Nat, n \in S
      PROVE  n + 1 \in S
  <2> SUFFICES ASSUME n + 1 <= ht.size
               PROVE  Moved(ht, new, after(n + 1), n + 1)
    OBVIOUS
  <2>1. n \in Slots(ht) /\ n <= ht.size /\ n + 1 \in 0 .. ht.size /\ (n + 1) - 1 = n
    BY <1>6
  <2>2. Moved(ht, new, after(n), n)
    BY <1>9, <2>1
  <2>3. after(n + 1) = Rehash(ht, after(n), n)
    <3>1. after(n + 1) = Rehash(ht, after((n + 1) - 1), (n + 1) - 1)
      BY <1>5, <2>1
    <3> QED
      BY <2>1, <3>1
  <2> QED
    BY <1>7, <2>1, <2>2, <2>3, RehashMoves
<1> HIDE DEF S
<1>10. Moved(ht, new, b, ht.size)
  <2>1. ht.size \in S
    BY <1>6, <1>8, <1>9, NatInd
  <2> QED
    BY <1>6, <2>1 DEF S
<1>11. RealBelow(ht, ht.size) = Real(ht)
  BY <1>6 DEF RealBelow, Real
<1>12. WellFormed(b) /\ Counted(b)
  BY <1>3, <1>10, <1>11 DEF Moved, Counted
<1>13. b.size = Pow2[shift] /\ b.nnodes = ht.nnodes /\ b.noccupied = ht.nnodes
  BY <1>3, <1>10 DEF Moved
<1>14. b.mod = prime_mod[shift + 1]
  BY <1>3, <1>10 DEF Moved
<1>15. Fits(b)
  BY <1>1, <1>2, <1>13, <1>14, Pow2Equation DEF Fits
<1>16. \A key, val : Holds(b, key, val) <=> Holds(ht, key, val)
  BY <1>10, <1>11 DEF Moved, Holds
<1> QED
  BY <1>4, <1>12, <1>15, <1>16

-----------------------------------------------------------------------------
(* The operations keep the invariant and do to the map what they promise.  *)

TableInv(ht) == WellFormed(ht) /\ Counted(ht) /\ Fits(ht)

LEMMA MaybeResizeKeepsMap ==
    ASSUME NEW a, WellFormed(a), Counted(a),
           \E shift \in MinShift .. 30 : a.size = Pow2[shift] /\ a.mod = prime_mod[shift + 1]
    PROVE  /\ TableInv(maybe_resize(a))
           /\ \A key, val : Holds(maybe_resize(a), key, val) <=> Holds(a, key, val)
<1>1. CASE \/ a.size > a.nnodes * 4 /\ a.size > Pow2[MinShift]
           \/ a.size <= a.noccupied + (a.noccupied \div 16)
  <2>1. maybe_resize(a) = resize(a)
    BY <1>1 DEF maybe_resize
  <2> QED
    BY <2>1, ResizeKeepsMap DEF TableInv, Counted
<1>2. CASE ~ \/ a.size > a.nnodes * 4 /\ a.size > Pow2[MinShift]
             \/ a.size <= a.noccupied + (a.noccupied \div 16)
  <2>1. maybe_resize(a) = a
    BY <1>2 DEF maybe_resize
  <2>2. a.size \in Nat /\ a.nnodes \in Nat /\ a.noccupied \in Nat
    BY TableType
  <2>3. a.noccupied < a.size /\ (a.size > Pow2[MinShift] => a.size <= 4 * a.nnodes)
    <3>1. a.noccupied \div 16 \in Nat
      BY <2>2
    <3> QED
      BY <1>2, <2>2, <3>1
  <2> QED
    BY <2>1, <2>3 DEF TableInv, Fits
<1> QED
  BY <1>1, <1>2

LEMMA NotFull ==
    ASSUME NEW ht, TableInv(ht)
    PROVE  Used(ht) # Slots(ht)
<1>1. Cardinality(Used(ht)) < ht.size /\ Cardinality(Slots(ht)) = ht.size /\ ht.size \in Nat
  BY SlotsFinite, TableType DEF TableInv, Counted, Fits
<1> QED
  BY <1>1

LEMMA InsertNode ==
    ASSUME NEW ht, TableInv(ht), NEW k \in Keys, NEW v \in Values
    PROVE  LET b == insert_node(ht, lookup_node(ht, k), k, v)
           IN  /\ TableInv(b)
               /\ \A key, val : Holds(b, key, val)
                    <=> IF key = k THEN val = v ELSE Holds(ht, key, val)
<1> DEFINE i == lookup_node(ht, k)
           b == insert_node(ht, i, k, v)
           h == HashOf(k)
           c == [ht EXCEPT !.hashes[i] = h, !.keys[i] = k, !.values[i] = v,
                           !.nnodes = @ + 1]
           d == [c EXCEPT !.noccupied = @ + 1]
           e == [ht EXCEPT !.values[i] = v]
<1> SUFFICES /\ TableInv(b)
             /\ \A key, val : Holds(b, key, val)
                  <=> IF key = k THEN val = v ELSE Holds(ht, key, val)
  OBVIOUS
<1>1. /\ i \in Slots(ht) /\ PathTo(ht, h, i)
      /\ \A j \in Real(ht) : ht.keys[j] = k => i = j
      /\ HASH_IS_REAL(ht.hashes[i]) => ht.keys[i] = k
  BY NotFull, LookupNode DEF TableInv
<1>2. ht \in TableOf(ht.size) /\ WellFormed(ht) /\ ht.nnodes \in Nat /\ ht.noccupied \in Nat
  BY TableType DEF TableInv, WellFormed
<1>3. h \in Nat
  BY HashType
<1> HIDE DEF i, h, b
<1>4. CASE HASH_IS_REAL(ht.hashes[i])
  <2>1. b = e
    BY <1>4 DEF b, h, insert_node
  <2>2. /\ e \in TableOf(ht.size) /\ e.size = ht.size /\ e.mod = ht.mod
        /\ e.nnodes = ht.nnodes /\ e.noccupied = ht.noccupied
        /\ e.hashes = ht.hashes /\ e.keys = ht.keys
        /\ e.values = [ht.values EXCEPT ![i] = v]
    BY <1>2 DEF TableOf
  <2> HIDE DEF e
  <2>3. i \in Real(ht) /\ SameShape(ht, e)
    BY <1>1, <1>4, <2>2 DEF Real, SameShape
  <2>4. /\ WellFormed(e) /\ Real(e) = Real(ht) /\ Used(e) = Used(ht)
        /\ \A key, val : Holds(e, key, val)
             <=> IF key = ht.keys[i] THEN val = v ELSE Holds(ht, key, val)
    BY <1>2, <2>2, <2>3, ChangeKeepsWellFormed
  <2> QED
    BY <1>1, <1>4, <2>1, <2>2, <2>4 DEF TableInv, Counted, Fits
<1>5. CASE ~ HASH_IS_REAL(ht.hashes[i])
  <2>1. i \notin Real(ht) /\ \A j \in Real(ht) : ht.keys[j] # k
    BY <1>1, <1>5 DEF Real
  <2>2. /\ c \in TableOf(ht.size) /\ c.size = ht.size /\ c.mod = ht.mod
        /\ c.nnodes = ht.nnodes + 1 /\ c.noccupied = ht.noccupied
        /\ c.hashes = [ht.hashes EXCEPT ![i] = h]
        /\ c.keys = [ht.keys EXCEPT ![i] = k]
        /\ c.values = [ht.values EXCEPT ![i] = v]
    <3>1. k \in Keys \cup {Nil} /\ v \in Values \cup {Nil} /\ ht.nnodes + 1 \in Nat
      BY <1>2
    <3>2. /\ c.size = ht.size /\ c.mod = ht.mod
          /\ c.nnodes = ht.nnodes + 1 /\ c.noccupied = ht.noccupied
      BY <1>2 DEF TableOf
    <3>3. /\ c.hashes = [ht.hashes EXCEPT ![i] = h]
          /\ c.keys = [ht.keys EXCEPT ![i] = k]
          /\ c.values = [ht.values EXCEPT ![i] = v]
      BY <1>2 DEF TableOf
    <3>4. c \in TableOf(ht.size)
      BY <1>2, <1>3, <3>1 DEF TableOf
    <3> QED
      BY <3>2, <3>3, <3>4
  <2> HIDE DEF c
  <2>3. /\ d \in TableOf(ht.size) /\ d.size = c.size /\ d.mod = c.mod
        /\ d.nnodes = c.nnodes /\ d.noccupied = c.noccupied + 1
        /\ d.hashes = c.hashes /\ d.keys = c.keys /\ d.values = c.values
    BY <2>2 DEF TableOf
  <2> HIDE DEF d
  <2>4. ASSUME NEW t, t = c \/ t = d
        PROVE  /\ WellFormed(t)
               /\ Real(t) = Real(ht) \cup {i} /\ Used(t) = Used(ht) \cup {i}
               /\ \A key, val : Holds(t, key, val) <=> Holds(ht, key, val) \/ (key = k /\ val = v)
    <3>1. SameShape(ht, t)
      BY <2>2, <2>3, <2>4 DEF SameShape
    <3>2. /\ t.hashes = [ht.hashes EXCEPT ![i] = h]
          /\ t.keys = [ht.keys EXCEPT ![i] = k]
          /\ t.values = [ht.values EXCEPT ![i] = v]
      BY <2>2, <2>3, <2>4
    <3> QED
      BY <1>1, <1>2, <1>5, <2>1, <3>1, <3>2, PutKeepsWellFormed DEF h
  <2>5. ASSUME NEW t, t = c \/ t = d
        PROVE  \A key, val : Holds(t, key, val)
                 <=> IF key = k THEN val = v ELSE Holds(ht, key, val)
    <3>1. \A val : ~ Holds(ht, k, val)
      BY <2>1 DEF Holds
    <3> QED
      BY <2>4, <2>5, <3>1
  <2>6. IsFiniteSet(Real(ht)) /\ IsFiniteSet(Used(ht))
    BY <1>2, SlotsFinite
  <2>7. CASE ht.hashes[i] = UNUSED_HASH_VALUE
    <3>1. b = maybe_resize(d)
      BY <1>5, <2>7 DEF b, h, insert_node, d, c
    <3>2. i \notin Used(ht)
      BY <2>7 DEF Used
    <3>3. Counted(d)
      <4>1. Cardinality(Real(d)) = Cardinality(Real(ht)) + 1
        BY <2>1, <2>4, <2>6, CardinalityAdd
      <4>2. Cardinality(Used(d)) = Cardinality(Used(ht)) + 1
        BY <2>4, <2>6, <3>2, CardinalityAdd
      <4> QED
        BY <2>2, <2>3, <4>1, <4>2 DEF TableInv, Counted
    <3>4. \E shift \in MinShift .. 30 : d.size = Pow2[shift] /\ d.mod = prime_mod[shift + 1]
      BY <2>2, <2>3 DEF TableInv, Fits
    <3>5. WellFormed(d)
      BY <2>4
    <3> QED
      BY <2>5, <3>1, <3>3, <3>4, <3>5, MaybeResizeKeepsMap
  <2>8. CASE ht.hashes[i] # UNUSED_HASH_VALUE
    <3>1. b = c
      BY <1>5, <2>8 DEF b, h, insert_node, c
    <3>2. Used(c) = Used(ht)
      BY <1>1, <2>4, <2>8 DEF Used
    <3>3. Counted(c)
      <4>1. Cardinality(Real(c)) = Cardinality(Real(ht)) + 1
        BY <2>1, <2>4, <2>6, CardinalityAdd
      <4> QED
        BY <2>2, <3>2, <4>1 DEF TableInv, Counted
    <3>4. Fits(c)
      <4>1. ht.size \in Nat
        BY <1>2, TableType
      <4> QED
        BY <1>2, <2>2, <4>1 DEF TableInv, Fits
    <3>5. TableInv(c)
      BY <2>4, <3>3, <3>4 DEF TableInv
    <3> QED
      BY <2>5, <3>1, <3>5
  <2> QED
    BY <2>7, <2>8
<1> QED
  BY <1>4, <1>5

LEMMA RemoveNode ==
    ASSUME NEW ht, TableInv(ht), NEW k \in Keys,
           HASH_IS_REAL(ht.hashes[lookup_node(ht, k)])
    PROVE  LET b == maybe_resize(remove_node(ht, lookup_node(ht, k)))
           IN  /\ TableInv(b)
               /\ \A key, val : Holds(b, key, val) <=> Holds(ht, key, val) /\ key # k
<1> DEFINE i == lookup_node(ht, k)
           c == remove_node(ht, i)
<1>1. i \in Real(ht) /\ ht.keys[i] = k
  BY NotFull, LookupNode DEF TableInv, Real
<1>2. ht \in TableOf(ht.size) /\ WellFormed(ht) /\ ht.nnodes \in Nat
  BY TableType DEF TableInv, WellFormed
<1>3. Cardinality(Real(ht) \ {i}) = ht.nnodes - 1 /\ ht.nnodes - 1 \in Nat
  <2>1. IsFiniteSet(Real(ht) \ {i}) /\ Cardinality(Real(ht) \ {i}) = Cardinality(Real(ht)) - 1
    <3> HIDE DEF i
    <3> QED
      BY <1>1, <1>2, SlotsFinite, FS_RemoveElement
  <2> QED
    BY <2>1, FS_CardinalityType DEF TableInv, Counted
<1> HIDE DEF i
<1>4. /\ c \in TableOf(ht.size) /\ c.size = ht.size /\ c.mod = ht.mod
      /\ c.nnodes = ht.nnodes - 1 /\ c.noccupied = ht.noccupied
      /\ c.hashes = [ht.hashes EXCEPT ![i] = TOMBSTONE_HASH_VALUE]
      /\ c.keys = [ht.keys EXCEPT ![i] = Nil]
      /\ c.values = [ht.values EXCEPT ![i] = Nil]
  BY <1>2, <1>3 DEF TableOf, remove_node, TOMBSTONE_HASH_VALUE
<1> HIDE DEF c
<1>5. SameShape(ht, c)
  BY <1>4 DEF SameShape
<1>6. /\ WellFormed(c) /\ Real(c) = Real(ht) \ {i} /\ Used(c) = Used(ht)
      /\ \A key, val : Holds(c, key, val) <=> Holds(ht, key, val) /\ key # k
  BY <1>1, <1>2, <1>4, <1>5, BuryKeepsWellFormed
<1>7. Counted(c)
  BY <1>3, <1>4, <1>6 DEF TableInv, Counted
<1>8. \E shift \in MinShift .. 30 : c.size = Pow2[shift] /\ c.mod = prime_mod[shift + 1]
  BY <1>4 DEF TableInv, Fits
<1> QED
  BY <1>6, <1>7, <1>8, MaybeResizeKeepsMap DEF i, c

(* lookup reads the map.                                                   *)
LEMMA LookupReads ==
    ASSUME NEW ht, TableInv(ht), NEW k \in Keys
    PROVE  /\ lookup(ht, k) \in Values \cup {Nil}
           /\ \A v \in Values : lookup(ht, k) = v <=> Holds(ht, k, v)
<1> DEFINE i == lookup_node(ht, k)
<1>1. /\ i \in Slots(ht)
      /\ \A j \in Real(ht) : ht.keys[j] = k => i = j
      /\ HASH_IS_REAL(ht.hashes[i]) => ht.keys[i] = k
  BY NotFull, LookupNode DEF TableInv
<1> HIDE DEF i
<1>2. Nil \notin Values
  BY HashKeyAssumption
<1>3. CASE HASH_IS_REAL(ht.hashes[i])
  <2>1. lookup(ht, k) = ht.values[i] /\ ht.values[i] \in Values /\ i \in Real(ht)
    BY <1>1, <1>3 DEF lookup, i, Real, TableInv, WellFormed, Filled
  <2> QED
    BY <1>1, <1>3, <2>1 DEF Holds
<1>4. CASE ~ HASH_IS_REAL(ht.hashes[i])
  <2>1. lookup(ht, k) = Nil
    BY <1>4 DEF lookup, i
  <2>2. \A j \in Real(ht) : ht.keys[j] # k
    BY <1>1, <1>4 DEF Real
  <2> QED
    BY <1>2, <2>1, <2>2 DEF Holds
<1> QED
  BY <1>3, <1>4

LEMMA LookupAgrees ==
    ASSUME NEW a, NEW b, TableInv(a), TableInv(b), NEW k \in Keys,
           \A v \in Values : Holds(b, k, v) <=> Holds(a, k, v)
    PROVE  lookup(b, k) = lookup(a, k)
<1>1. lookup(a, k) \in Values \cup {Nil} /\ lookup(b, k) \in Values \cup {Nil}
  BY LookupReads
<1>2. \A v \in Values : lookup(b, k) = v <=> lookup(a, k) = v
  BY LookupReads
<1> QED
  BY <1>1, <1>2

-----------------------------------------------------------------------------
(* The theorems.                                                           *)

Inv == TableInv(hash_table)

(* A new table satisfies the invariant and holds nothing.                  *)
LEMMA InitInv ==
    ASSUME Init
    PROVE  Inv /\ \A key, val : ~ Holds(hash_table, key, val)
<1> DEFINE ht == [Empty(MinShift) EXCEPT !.nnodes = 0, !.noccupied = 0]
<1>1. MinShift \in 0 .. 30 /\ MinShift \in MinShift .. 30 /\ MinShift \in Nat
  BY HashSizeAssumption
<1>2. ht = Empty(MinShift)
  <2> DEFINE e == Empty(MinShift)
  <2>1. e \in TableOf(Pow2[MinShift]) /\ e.nnodes = 0 /\ e.noccupied = 0
    BY <1>1, EmptyType
  <2> HIDE DEF e
  <2>2. [e EXCEPT !.nnodes = 0, !.noccupied = 0] = e
    BY <2>1 DEF TableOf
  <2> QED
    BY <2>2 DEF e
<1>3. /\ WellFormed(ht) /\ Real(ht) = {} /\ Used(ht) = {}
      /\ ht.size = Pow2[MinShift] /\ ht.mod = prime_mod[MinShift + 1]
      /\ ht.nnodes = 0 /\ ht.noccupied = 0
  BY <1>1, EmptyWellFormed
<1> HIDE DEF ht
<1>4. Counted(ht)
  BY <1>3, FS_EmptySet DEF Counted
<1>5. Fits(ht)
  BY <1>1, <1>3, Pow2Grows DEF Fits
<1>6. hash_table = ht
  BY <1>2 DEF Init
<1> QED
  BY <1>3, <1>4, <1>5, <1>6 DEF Inv, TableInv, Holds

LEMMA InsertStep ==
    ASSUME Inv, NEW k \in Keys, NEW v \in Values, g_hash_table_insert(k, v)
    PROVE  /\ Inv'
           /\ \A key, val : Holds(hash_table', key, val)
                <=> IF key = k THEN val = v ELSE Holds(hash_table, key, val)
<1>1. hash_table' = insert_node(hash_table, lookup_node(hash_table, k), k, v)
  BY DEF g_hash_table_insert
<1>2. TableInv(hash_table)
  BY DEF Inv
<1> QED
  BY <1>1, <1>2, InsertNode DEF Inv

LEMMA RemoveStep ==
    ASSUME Inv, NEW k \in Keys, g_hash_table_remove(k)
    PROVE  /\ Inv'
           /\ \A key, val : Holds(hash_table', key, val) <=> Holds(hash_table, key, val) /\ key # k
<1>1. /\ HASH_IS_REAL(hash_table.hashes[lookup_node(hash_table, k)])
      /\ hash_table' = maybe_resize(remove_node(hash_table, lookup_node(hash_table, k)))
  BY DEF g_hash_table_remove
<1>2. TableInv(hash_table)
  BY DEF Inv
<1> QED
  BY <1>1, <1>2, RemoveNode DEF Inv

THEOREM TableInvariant == Spec => []Inv
<1>1. Init => Inv
  BY InitInv
<1>2. Inv /\ [Next]_hash_table => Inv'
  <2> SUFFICES ASSUME Inv, [Next]_hash_table PROVE Inv'
    OBVIOUS
  <2>1. CASE \E k \in Keys : g_hash_table_remove(k)
    BY <2>1, RemoveStep
  <2>2. CASE \E k \in Keys, v \in Values : g_hash_table_insert(k, v)
    BY <2>2, InsertStep
  <2>3. CASE UNCHANGED hash_table
    BY <2>3 DEF Inv
  <2> QED
    BY <2>1, <2>2, <2>3 DEF Next
<1> QED
  BY <1>1, <1>2, PTL DEF Spec

(* The arrays, the size and the prime always agree, and the size stays a   *)
(* gint.                                                                   *)
THEOREM TableTypeCorrect == Spec => []TypeOK
<1>1. Inv => TypeOK
  <2> SUFFICES ASSUME Inv PROVE TypeOK
    OBVIOUS
  <2> DEFINE ht == hash_table
  <2>1. WellFormed(ht) /\ Fits(ht)
    BY DEF Inv, TableInv
  <2> HIDE DEF ht
  <2>2. /\ ht.nnodes \in Nat /\ ht.noccupied \in Nat
        /\ ht.hashes \in [Slots(ht) -> Nat]
        /\ ht.keys \in [Slots(ht) -> Keys \cup {Nil}]
        /\ ht.values \in [Slots(ht) -> Values \cup {Nil}]
    BY <2>1, TableType
  <2>3. \A i \in Slots(ht) :
            IF HASH_IS_REAL(ht.hashes[i])
            THEN ht.keys[i] # Nil /\ ht.values[i] # Nil
            ELSE ht.keys[i] = Nil /\ ht.values[i] = Nil
    BY <2>1, HashKeyAssumption DEF WellFormed, Filled
  <2>4. \E shift \in MinShift .. 30 : ht.size = Pow2[shift] /\ ht.mod = prime_mod[shift + 1]
    BY <2>1 DEF Fits
  <2> QED
    BY <2>2, <2>3, <2>4 DEF TypeOK, ht
<1> QED
  BY <1>1, TableInvariant, PTL

(* The counters count, every probe ends, and memory is given back, whatever *)
(* the keys, their hashes and the order of the calls.                      *)
THEOREM SizeAlwaysFits == Spec => []SizeFits
<1>1. Inv => SizeFits
  <2> SUFFICES ASSUME Inv PROVE SizeFits
    OBVIOUS
  <2> DEFINE ht == hash_table
  <2>1. WellFormed(ht) /\ Counted(ht) /\ Fits(ht) /\ TableInv(ht)
    BY DEF Inv, TableInv
  <2>2. RealSlots = Real(ht)
    BY DEF RealSlots, Real
  <2>3. RealSlots \cup Tombs = Used(ht)
    <3>1. \A i \in Slots(ht) : ht.hashes[i] \in Nat
      BY <2>1, TableType
    <3> QED
      BY <3>1 DEF RealSlots, Tombs, Used, HASH_IS_REAL, UNUSED_HASH_VALUE, TOMBSTONE_HASH_VALUE
  <2> HIDE DEF ht
  <2>4. ASSUME NEW k \in Keys
        PROVE  \E n \in Slots(ht) : ht.hashes[Probe(ht, HashOf(k), n)] = UNUSED_HASH_VALUE
    <3>1. PICK i \in Slots(ht) : ht.hashes[i] = UNUSED_HASH_VALUE
      BY <2>1, NotFull DEF Used
    <3>2. HashOf(k) \in Nat /\ Sized(ht)
      BY <2>1, HashType DEF WellFormed
    <3>3. \E n \in Slots(ht) : Probe(ht, HashOf(k), n) = i
      BY <3>2, ProbeReaches
    <3> QED
      BY <3>1, <3>3
  <2> QED
    BY <2>1, <2>2, <2>3, <2>4 DEF SizeFits, Counted, Fits, ht
<1> QED
  BY <1>1, TableInvariant, PTL

(* foreach and lookup see the same map.                                    *)
THEOREM ForeachAgreesWithLookup == Spec => []ForeachIsLookup
<1>1. Inv => ForeachIsLookup
  <2> SUFFICES ASSUME Inv PROVE ForeachIsLookup
    OBVIOUS
  <2> DEFINE ht == hash_table
  <2>1. WellFormed(ht) /\ TableInv(ht)
    BY DEF Inv, TableInv
  <2>2. RealSlots = Real(ht)
    BY DEF RealSlots, Real
  <2>3. \A i, j \in Real(ht) : ht.keys[i] = ht.keys[j] => i = j
    BY <2>1 DEF WellFormed, Distinct
  <2>4. ASSUME NEW k \in Keys
        PROVE  {ht.values[i] : i \in {j \in Real(ht) : ht.keys[j] = k}} = {lookup(ht, k)} \ {Nil}
    <3>1. /\ lookup(ht, k) \in Values \cup {Nil}
          /\ \A v \in Values : lookup(ht, k) = v <=> Holds(ht, k, v)
      BY <2>1, LookupReads
    <3>2. \A i \in Real(ht) : ht.values[i] \in Values /\ ht.values[i] # Nil
      BY <2>1, HashKeyAssumption DEF WellFormed, Filled, Real
    <3> HIDE DEF ht
    <3>3. \A v : Holds(ht, k, v) => v \in Values
      BY <3>2 DEF Holds
    <3>4. \A v : v \in {ht.values[i] : i \in {j \in Real(ht) : ht.keys[j] = k}} <=> Holds(ht, k, v)
      BY DEF Holds
    <3>5. \A v : v \in {lookup(ht, k)} \ {Nil} <=> Holds(ht, k, v)
      BY <3>1, <3>2, <3>3, HashKeyAssumption
    <3> QED
      BY <3>4, <3>5
  <2> QED
    BY <2>2, <2>3, <2>4 DEF ForeachIsLookup
<1> QED
  BY <1>1, TableInvariant, PTL

(* The table is a map: it implements MapSpec.                              *)
THEOREM TableImplementsMap == Spec => MapSpecHolds
<1> DEFINE m == [k \in Keys |-> lookup(hash_table, k)]
<1>1. Init => Map!Init
  <2> SUFFICES ASSUME Init PROVE Map!Init
    OBVIOUS
  <2>1. Inv /\ \A key, val : ~ Holds(hash_table, key, val)
    BY InitInv
  <2>2. \A k \in Keys : lookup(hash_table, k) = Nil
    BY <2>1, LookupReads DEF Inv
  <2> QED
    BY <2>2 DEF Map!Init
<1>2. Inv /\ Inv' /\ [Next]_hash_table => [Map!Next]_m
  <2> SUFFICES ASSUME Inv, Inv', [Next]_hash_table
               PROVE  [Map!Next]_m
    OBVIOUS
  <2>1. ASSUME NEW k \in Keys, g_hash_table_remove(k)
        PROVE  Map!Remove(k)
    <3>1. \A key, val : Holds(hash_table', key, val) <=> Holds(hash_table, key, val) /\ key # k
      BY <2>1, RemoveStep
    <3>2. lookup(hash_table', k) = Nil
      BY <3>1, LookupReads DEF Inv
    <3>3. \A key \in Keys : key # k => lookup(hash_table', key) = lookup(hash_table, key)
      BY <3>1, LookupAgrees DEF Inv
    <3> QED
      BY <3>2, <3>3 DEF Map!Remove
  <2>2. ASSUME NEW k \in Keys, NEW v \in Values, g_hash_table_insert(k, v)
        PROVE  Map!Insert(k, v)
    <3>1. \A key, val : Holds(hash_table', key, val)
             <=> IF key = k THEN val = v ELSE Holds(hash_table, key, val)
      BY <2>2, InsertStep
    <3>2. lookup(hash_table', k) = v
      BY <3>1, LookupReads DEF Inv
    <3>3. \A key \in Keys : key # k => lookup(hash_table', key) = lookup(hash_table, key)
      BY <3>1, LookupAgrees DEF Inv
    <3> QED
      BY <3>2, <3>3 DEF Map!Insert
  <2>3. CASE Next
    BY <2>1, <2>2, <2>3 DEF Next, Map!Next
  <2>4. CASE UNCHANGED hash_table
    BY <2>4
  <2> QED
    BY <2>3, <2>4
<1> QED
  BY <1>1, <1>2, TableInvariant, PTL DEF Spec, MapSpecHolds, Map!Spec
=============================================================================
