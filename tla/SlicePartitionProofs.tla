------------------------ MODULE SlicePartitionProofs ------------------------
(***************************************************************************)
(* The slices of a plane tile it: for every height and every slice count   *)
(* they are consecutive, disjoint, and cover all rows, also when there are *)
(* more slices than rows.  The same for the chunks of the threads.  Before *)
(* that, facts that proofs about other modules cite too: division,         *)
(* products, wrapping, the least and the greatest element of a set,        *)
(* induction over a set of numbers or of subsets, powers of two, functions *)
(* defined by recursion, and sums.  An induction hypothesis is a set here, *)
(* because no prover takes the operator that the library's theorems take.  *)
(***************************************************************************)
EXTENDS SlicePartition, WellFoundedInduction, FiniteSetTheorems, FunctionTheorems,
        FiniteSetsExt, TLAPS

-----------------------------------------------------------------------------
(* Numbers *)

\* What a \div n is, in terms of multiplication.
LEMMA DivDef ==
  ASSUME NEW a \in Nat, NEW n \in Nat \ {0}
  PROVE  /\ a \div n \in Nat
         /\ n * (a \div n) <= a
         /\ a < n * (a \div n) + n
  OBVIOUS

\* Division is monotone in the dividend.
LEMMA DivMono ==
  ASSUME NEW a \in Nat, NEW b \in Nat, NEW n \in Nat \ {0}, a <= b
  PROVE  a \div n <= b \div n
  OBVIOUS

\* Products of naturals are naturals.
LEMMA MulNat == ASSUME NEW a \in Nat, NEW b \in Nat PROVE a * b \in Nat
  OBVIOUS

\* Multiplication is monotone.
LEMMA MulMono ==
  ASSUME NEW c \in Nat, NEW a \in Nat, NEW b \in Nat, a <= b
  PROVE  c * a <= c * b
  OBVIOUS

\* Dividing undoes multiplying.
LEMMA DivCancel ==
  ASSUME NEW a \in Nat, NEW n \in Nat \ {0}
  PROVE  (a * n) \div n = a
  OBVIOUS

\* A set of naturals that is not empty has a least element.  Together with a
\* set of counterexamples it stands in for induction.
LEMMA LeastNat ==
  ASSUME NEW T \in SUBSET Nat, T # {}
  PROVE  \E m \in T : \A k \in T : m <= k
<1> DEFINE R == OpToRel(<, Nat)
<1>1. IsWellFoundedOn(R, Nat)
  BY NatLessThanWellFounded
<1>2. R = {ss \in Nat \X Nat : ss[1] < ss[2]}
  BY DEF OpToRel
<1> HIDE DEF R
<1>3. PICK m \in T : \A k \in T : ~ (<<k, m>> \in R)
  BY <1>1, WFMin
<1>4. ASSUME NEW k \in T
      PROVE  m <= k
  <2>1. m \in Nat /\ k \in Nat
    OBVIOUS
  <2>2. ~(k < m)
    BY <1>2, <1>3, <2>1
  <2> QED
    BY <2>1, <2>2
<1> QED
  BY <1>3, <1>4

\* A remainder, in terms of multiplication.
LEMMA ModDef ==
  ASSUME NEW x \in Int, NEW m \in Nat \ {0}
  PROVE  /\ x % m \in 0 .. m - 1
         /\ \E q \in Int : x = m * q + (x % m)
<1>1. x % m \in 0 .. m - 1
  OBVIOUS
<1>2. x \div m \in Int /\ x = m * (x \div m) + (x % m)
  OBVIOUS
<1> QED
  BY <1>1, <1>2

\* A multiple of m that is smaller than m in size is 0.
LEMMA SmallMultiple ==
  ASSUME NEW m \in Nat \ {0}, NEW q \in Int, -m < m * q, m * q < m
  PROVE  q = 0
<1>1. CASE q >= 1
  <2>1. m * q >= m
    BY <1>1
  <2> QED
    BY <2>1
<1>2. CASE q <= -1
  <2>1. m * q <= -m
    BY <1>2
  <2> QED
    BY <2>1
<1> QED
  BY <1>1, <1>2

\* wrapping_add undoes wrapping_sub.
LEMMA WrapCancel ==
  ASSUME NEW m \in Nat \ {0}, NEW x \in 0 .. m - 1, NEW p \in Int
  PROVE  (((x - p) % m) + p) % m = x
<1> DEFINE y == (x - p) % m
           z == (y + p) % m
<1>1. y \in 0 .. m - 1 /\ \E q \in Int : x - p = m * q + y
  <2>1. x - p \in Int
    OBVIOUS
  <2> QED
    BY <2>1, ModDef
<1>2. PICK q \in Int : x - p = m * q + y
  BY <1>1
<1>3. z \in 0 .. m - 1 /\ \E r \in Int : y + p = m * r + z
  <2>1. y + p \in Int
    BY <1>1
  <2> HIDE DEF y
  <2> QED
    BY <2>1, ModDef
<1>4. PICK r \in Int : y + p = m * r + z
  BY <1>3
<1> HIDE DEF y, z
<1>5. x - z = m * q + m * r
  BY <1>1, <1>2, <1>3, <1>4
<1>6. m * q + m * r = m * (q + r) /\ q + r \in Int
  OBVIOUS
<1>7. -m < m * (q + r) /\ m * (q + r) < m
  BY <1>3, <1>5, <1>6
<1>8. q + r = 0
  BY <1>6, <1>7, SmallMultiple
<1>9. x = z
  BY <1>3, <1>5, <1>6, <1>8
<1> QED
  BY <1>9 DEF y, z

\* What never falls from one place to the next never falls at all.
LEMMA Rising ==
  ASSUME NEW n \in Nat, NEW f,
         \A i \in 1 .. n : f[i] \in Int,
         \A i \in 1 .. n - 1 : f[i] <= f[i + 1]
  PROVE  \A i, j \in 1 .. n : i <= j => f[i] <= f[j]
<1> SUFFICES ASSUME NEW i \in 1 .. n PROVE \A j \in 1 .. n : i <= j => f[i] <= f[j]
  OBVIOUS
<1> DEFINE T == {j \in Nat : i <= j /\ j <= n /\ ~(f[i] <= f[j])}
<1>1. ASSUME T # {} PROVE FALSE
  <2>1. PICK m \in T : \A k \in T : m <= k
    <3>1. T \in SUBSET Nat
      OBVIOUS
    <3> HIDE DEF T
    <3> QED
      BY <1>1, <3>1, LeastNat
  <2>2. m \in Nat /\ i <= m /\ m <= n /\ ~(f[i] <= f[m])
    BY <2>1
  <2>3. m # i /\ f[i] \in Int
    BY <2>2
  <2>4. /\ m - 1 \in Nat /\ i <= m - 1 /\ m - 1 <= n /\ m - 1 \in 1 .. n - 1
        /\ (m - 1) + 1 = m /\ ~(m <= m - 1) /\ m - 1 \in 1 .. n /\ m \in 1 .. n
    BY <2>2, <2>3
  <2>5. f[i] <= f[m - 1]
    BY <2>1, <2>4
  <2>6. f[m - 1] <= f[m]
    BY <2>4
  <2> QED
    BY <2>2, <2>3, <2>4, <2>5, <2>6
<1>2. ASSUME NEW j \in 1 .. n, i <= j PROVE f[i] <= f[j]
  <2>1. j \notin T /\ j \in Nat /\ j <= n
    BY <1>1
  <2> QED
    BY <1>2, <2>1
<1> QED
  BY <1>2

\* The number of elements of two disjoint sets.
LEMMA CountBoth ==
  ASSUME NEW S, IsFiniteSet(S), NEW T, IsFiniteSet(T), S \cap T = {}
  PROVE  IsFiniteSet(S \cup T) /\ Cardinality(S \cup T) = Cardinality(S) + Cardinality(T)
<1> DEFINE a == Cardinality(S)
           b == Cardinality(T)
           u == Cardinality(S \cup T)
           e == Cardinality(S \cap T)
<1>1. IsFiniteSet(S \cup T) /\ u = a + b - e
  BY FS_Union
<1>2. e = 0 /\ a \in Nat /\ b \in Nat
  BY FS_EmptySet, FS_CardinalityType
<1> HIDE DEF a, b, u, e
<1>3. u = a + b
  BY <1>1, <1>2
<1> QED
  BY <1>1, <1>3 DEF u, a, b

\* The numbers up to n are finitely many.
LEMMA OneToN ==
  ASSUME NEW n \in Nat PROVE IsFiniteSet(1 .. n)
<1>1. 1 \in Int /\ n \in Int
  OBVIOUS
<1> QED
  BY <1>1, FS_Interval

\* A set of naturals with a bound, and something in it, has a greatest element.
LEMMA MaxIsGreatest ==
  ASSUME NEW n \in Nat, NEW S \in SUBSET (0 .. n), S # {}
  PROVE  Max(S) \in S /\ \A x \in S : x <= Max(S)
<1> DEFINE T == {n - x : x \in S}
<1>1. T \in SUBSET Nat /\ T # {}
  <2>1. \A x \in S : n - x \in Nat
    <3> TAKE x \in S
    <3>1. x \in 0 .. n
      OBVIOUS
    <3> QED
      BY <3>1
  <2> QED
    BY <2>1
<1>2. PICK m \in T : \A k \in T : m <= k
  <2> HIDE DEF T
  <2> QED
    BY <1>1, LeastNat
<1>3. PICK x \in S : m = n - x
  BY <1>2
<1>4. \A y \in S : x >= y
  <2> TAKE y \in S
  <2>1. n - y \in T /\ x \in 0 .. n /\ y \in 0 .. n
    OBVIOUS
  <2>2. n - x <= n - y
    BY <1>2, <1>3, <2>1
  <2> QED
    BY <2>1, <2>2
<1>5. Max(S) \in S /\ \A y \in S : Max(S) >= y
  BY <1>4 DEF Max
<1> QED
  BY <1>5

-----------------------------------------------------------------------------
(* Induction: over a set of numbers, over a set of subsets *)

\* A set that holds 0 and with every number the next holds all of them.
LEMMA NatInduct ==
  ASSUME NEW G, 0 \in G, \A n \in Nat : n \in G => n + 1 \in G
  PROVE  \A n \in Nat : n \in G
<1> DEFINE T == {n \in Nat : n \notin G}
<1>1. ASSUME T # {} PROVE FALSE
  <2>1. PICK m \in T : \A k \in T : m <= k
    <3>1. T \in SUBSET Nat
      OBVIOUS
    <3> HIDE DEF T
    <3> QED
      BY <1>1, <3>1, LeastNat
  <2>2. m # 0
    OBVIOUS
  <2>3. m - 1 \in Nat /\ m - 1 \notin T
    BY <2>1, <2>2
  <2>4. m - 1 \in G
    BY <2>3
  <2>5. (m - 1) + 1 \in G
    BY <2>3, <2>4
  <2> QED
    BY <2>5
<1> QED
  BY <1>1

\* A set of subsets that holds {} and with every subset those with one element
\* more holds all of them.
LEMMA SubsetInduct ==
  ASSUME NEW U, IsFiniteSet(U), NEW G, {} \in G,
         \A T \in SUBSET U, x \in U : T \in G /\ x \notin T => T \cup {x} \in G
  PROVE  \A T \in SUBSET U : T \in G
<1> DEFINE H == {n \in Nat : \A T \in SUBSET U : Cardinality(T) = n => T \in G}
<1>1. \A T \in SUBSET U : IsFiniteSet(T) /\ Cardinality(T) \in Nat
  BY FS_Subset, FS_CardinalityType
<1>2. 0 \in H
  BY <1>1, FS_EmptySet
<1>3. \A n \in Nat : n \in H => n + 1 \in H
  <2> SUFFICES ASSUME NEW n \in Nat, n \in H, NEW T \in SUBSET U, Cardinality(T) = n + 1
               PROVE  T \in G
    OBVIOUS
  <2>1. T # {}
    <3>1. Cardinality({}) = 0
      BY FS_EmptySet
    <3> QED
      BY <3>1
  <2>2. PICK x \in T : TRUE
    BY <2>1
  <2>3. Cardinality(T \ {x}) = n
    <3>1. Cardinality(T \ {x}) = Cardinality(T) - 1
      BY <1>1, <2>2, FS_RemoveElement
    <3> QED
      BY <3>1
  <2>4. T \ {x} \in G
    BY <2>3
  <2>5. T = (T \ {x}) \cup {x}
    BY <2>2
  <2> QED
    BY <2>2, <2>4, <2>5
<1>4. \A n \in Nat : n \in H
  <2> HIDE DEF H
  <2> QED
    BY <1>2, <1>3, NatInduct
<1> QED
  BY <1>1, <1>4

-----------------------------------------------------------------------------
(* Powers of two *)

\* 2 ^ n is the number of subsets of a set of n elements.
LEMMA PowIsCount ==
  ASSUME NEW n \in Nat
  PROVE  /\ IsFiniteSet(SUBSET (1 .. n)) /\ Cardinality(SUBSET (1 .. n)) = 2 ^ n
<1>1. IsFiniteSet(1 .. n) /\ Cardinality(1 .. n) = n
  <2>1. 1 \in Int /\ n \in Int
    OBVIOUS
  <2>2. IsFiniteSet(1 .. n) /\ Cardinality(1 .. n) = IF 1 > n THEN 0 ELSE n - 1 + 1
    BY <2>1, FS_Interval
  <2> QED
    BY <2>2
<1> QED
  BY <1>1, FS_SUBSET

\* The power that ends the recursion.
LEMMA PowZero == 2 ^ 0 = 1
<1>1. SUBSET (1 .. 0) = {{}}
  OBVIOUS
<1>2. Cardinality({{}}) = 1
  BY FS_Singleton
<1> QED
  BY <1>1, <1>2, PowIsCount

\* Powers of two are naturals.
LEMMA PowNat == ASSUME NEW n \in Nat PROVE 2 ^ n \in Nat
  BY PowIsCount, FS_CardinalityType

\* The powers of two double: the subsets of 1 .. n + 1 are those of 1 .. n,
\* and the same with n + 1 in them.
LEMMA PowStep ==
  ASSUME NEW n \in Nat
  PROVE  2 ^ (n + 1) = 2 * 2 ^ n
<1> DEFINE A == SUBSET (1 .. n)
           B == {x \cup {n + 1} : x \in A}
           f == [x \in A |-> x \cup {n + 1}]
<1>1. SUBSET (1 .. n + 1) = A \cup B
  <2>1. ASSUME NEW y \in SUBSET (1 .. n + 1) PROVE y \in A \cup B
    <3>1. CASE n + 1 \in y
      <4>1. y \ {n + 1} \in A
        OBVIOUS
      <4>2. y = (y \ {n + 1}) \cup {n + 1}
        BY <3>1
      <4> QED
        BY <4>1, <4>2
    <3>2. CASE n + 1 \notin y
      BY <3>2
    <3> QED
      BY <3>1, <3>2
  <2>2. A \subseteq SUBSET (1 .. n + 1)
    OBVIOUS
  <2>3. B \subseteq SUBSET (1 .. n + 1)
    <3>1. \A x \in A : x \cup {n + 1} \subseteq 1 .. n + 1
      OBVIOUS
    <3> QED
      BY <3>1
  <2> QED
    BY <2>1, <2>2, <2>3
<1>2. A \cap B = {}
  OBVIOUS
<1>3. f \in Bijection(A, B)
  <2>1. \A x \in A, y \in A : f[x] = f[y] => x = y
    <3> SUFFICES ASSUME NEW x \in A, NEW y \in A, f[x] = f[y] PROVE x = y
      OBVIOUS
    <3>1. x = f[x] \ {n + 1} /\ y = f[y] \ {n + 1}
      OBVIOUS
    <3> QED
      BY <3>1
  <2>2. f \in [A -> B] /\ \A z \in B : \E x \in A : f[x] = z
    OBVIOUS
  <2> HIDE DEF f, A, B
  <2>3. f \in Surjection(A, B) /\ f \in Injection(A, B)
    BY <2>1, <2>2, Fun_IsSurj, Fun_IsInj
  <2> QED
    BY <2>3 DEF Bijection
<1>4. IsFiniteSet(A) /\ Cardinality(A) = 2 ^ n
  BY PowIsCount
<1>5. Cardinality(SUBSET (1 .. n + 1)) = 2 ^ (n + 1)
  <2>1. n + 1 \in Nat
    OBVIOUS
  <2> QED
    BY <2>1, PowIsCount
<1> HIDE DEF A, B
<1>6. IsFiniteSet(B) /\ Cardinality(B) = 2 ^ n
  <2>1. ExistsBijection(A, B)
    BY <1>3 DEF ExistsBijection
  <2> QED
    BY <1>4, <2>1, FS_Bijection
<1>7. Cardinality(A \cup B) = 2 ^ n + 2 ^ n - Cardinality({})
  BY <1>2, <1>4, <1>6, FS_Union
<1>8. Cardinality({}) = 0
  BY FS_EmptySet
<1>9. 2 ^ n \in Nat
  BY PowNat
<1>10. Cardinality(A \cup B) = 2 ^ n + 2 ^ n
  BY <1>7, <1>8, <1>9
<1>11. 2 ^ (n + 1) = Cardinality(A \cup B)
  BY <1>1, <1>5
<1> DEFINE p == 2 ^ n
           q == 2 ^ (n + 1)
<1>12. p \in Nat /\ q = p + p
  BY <1>9, <1>10, <1>11
<1>13. q = 2 * p
  <2> HIDE DEF p, q
  <2> QED
    BY <1>12
<1> QED
  BY <1>13

\* Powers of two are positive.
LEMMA PowPos == ASSUME NEW n \in Nat PROVE 2 ^ n \in Nat /\ 2 ^ n >= 1
<1> DEFINE G == {k \in Nat : 2 ^ k >= 1}
<1>1. 0 \in G
  BY PowZero
<1>2. \A k \in Nat : k \in G => k + 1 \in G
  <2> SUFFICES ASSUME NEW k \in Nat, k \in G PROVE 2 ^ (k + 1) >= 1
    OBVIOUS
  <2> DEFINE p == 2 ^ k
  <2>1. 2 ^ (k + 1) = 2 * p /\ p \in Nat /\ p >= 1
    BY PowStep, PowNat
  <2>2. 2 * p >= 1
    <3> HIDE DEF p
    <3> QED
      BY <2>1
  <2> QED
    BY <2>1, <2>2
<1>3. n \in G
  <2> HIDE DEF G
  <2> QED
    BY <1>1, <1>2, NatInduct
<1> QED
  BY <1>3, PowNat

\* Exponents add.
LEMMA PowAdd ==
  ASSUME NEW a \in Nat, NEW b \in Nat
  PROVE  2 ^ (a + b) = 2 ^ a * 2 ^ b
<1> DEFINE G == {k \in Nat : 2 ^ (a + k) = 2 ^ a * 2 ^ k}
           p == 2 ^ a
<1>0. p \in Nat
  BY PowNat
<1>1. 0 \in G
  <2>1. p = p * 1 /\ a + 0 = a
    <3> HIDE DEF p
    <3> QED
      BY <1>0
  <2> QED
    BY <2>1, PowZero
<1>2. \A k \in Nat : k \in G => k + 1 \in G
  <2> SUFFICES ASSUME NEW k \in Nat, k \in G PROVE 2 ^ (a + (k + 1)) = 2 ^ a * 2 ^ (k + 1)
    OBVIOUS
  <2> DEFINE q == 2 ^ k
             r == 2 ^ (a + k)
  <2>1. q \in Nat /\ r \in Nat /\ 2 ^ (k + 1) = 2 * q /\ r = p * q
    <3>1. a + k \in Nat
      OBVIOUS
    <3> QED
      BY <3>1, PowNat, PowStep
  <2>2. 2 ^ (a + (k + 1)) = 2 * r
    <3>1. a + (k + 1) = (a + k) + 1 /\ a + k \in Nat
      OBVIOUS
    <3> QED
      BY <3>1, PowStep
  <2>3. 2 * r = p * (2 * q)
    <3> HIDE DEF p, q, r
    <3> QED
      BY <1>0, <2>1
  <2> QED
    BY <2>1, <2>2, <2>3
<1>3. b \in G
  <2> HIDE DEF G
  <2> QED
    BY <1>1, <1>2, NatInduct
<1> QED
  BY <1>3

\* A power is twice the one before.
LEMMA PowSucc ==
  ASSUME NEW n \in Nat, n > 0
  PROVE  2 ^ n = 2 * 2 ^ (n - 1) /\ 2 ^ (n - 1) \in Nat /\ 2 ^ (n - 1) >= 1
<1>1. n - 1 \in Nat /\ (n - 1) + 1 = n
  OBVIOUS
<1> QED
  BY <1>1, PowStep, PowPos

\* Halving a quotient is dividing by twice as much.
LEMMA HalfStep ==
  ASSUME NEW a \in Nat, NEW p \in Nat, p >= 1
  PROVE  2 * (a \div (2 * p)) + ((a \div p) % 2) = a \div p
<1> DEFINE q == a \div p
           h == q \div 2
<1>1. q \in Nat /\ p * q <= a /\ a < p * (q + 1)
  OBVIOUS
<1> HIDE DEF q
<1>2. h \in Nat /\ 2 * h <= q /\ q <= 2 * h + 1 /\ q = 2 * h + (q % 2)
  BY <1>1
<1> HIDE DEF h
<1>3. (2 * p) * h <= a
  <2>1. p * (2 * h) <= p * q
    BY <1>1, <1>2
  <2>2. (2 * p) * h = p * (2 * h)
    BY <1>2
  <2> DEFINE x == p * (2 * h)
             y == p * q
             z == (2 * p) * h
  <2>3. x <= y /\ y <= a /\ z = x /\ x \in Nat /\ y \in Nat
    BY <1>1, <1>2, <2>1, <2>2
  <2> HIDE DEF x, y, z
  <2>4. z <= a
    BY <2>3
  <2> QED
    BY <2>4 DEF z
<1>4. a < (2 * p) * (h + 1)
  <2>1. p * (q + 1) <= p * (2 * h + 2)
    BY <1>1, <1>2
  <2>2. (2 * p) * (h + 1) = p * (2 * h + 2)
    BY <1>2
  <2> DEFINE x == p * (2 * h + 2)
             y == p * (q + 1)
             z == (2 * p) * (h + 1)
  <2>3. y <= x /\ a < y /\ z = x /\ x \in Nat /\ y \in Nat
    BY <1>1, <1>2, <2>1, <2>2
  <2> HIDE DEF x, y, z
  <2>4. a < z
    BY <2>3
  <2> QED
    BY <2>4 DEF z
<1>5. a \div (2 * p) = h
  <2> DEFINE P == 2 * p
  <2>1. P \in Nat /\ P >= 1 /\ P * h <= a /\ a < P * (h + 1)
    BY <1>3, <1>4
  <2> HIDE DEF P
  <2>2. a \div P = h
    BY <1>2, <2>1
  <2> QED
    BY <2>2 DEF P
<1> QED
  BY <1>2, <1>5 DEF q

-----------------------------------------------------------------------------
(* Functions defined by recursion over an interval *)

\* f starts with `start`, and `step` makes each value from the one before.
Recurs(f, m, n, start, step) ==
  f = [i \in m .. n |-> IF i = m THEN start ELSE step[<<f[i - 1], i>>]]

\* There is one.
LEMMA RecursionExists ==
  ASSUME NEW m \in Int, NEW n \in Int, NEW V, NEW start \in V, NEW step,
         \A v \in V, i \in m + 1 .. n : step[<<v, i>>] \in V
  PROVE  \E f \in [m .. n -> V] : Recurs(f, m, n, start, step)
<1> DEFINE Good(k, f) == f \in [m .. m + k -> V] /\ Recurs(f, m, m + k, start, step)
           G == {k \in Nat : m + k <= n => \E f : Good(k, f)}
<1>1. CASE n < m
  <2> DEFINE f == [i \in m .. n |-> start]
  <2>1. f \in [m .. n -> V] /\ Recurs(f, m, n, start, step)
    BY <1>1 DEF Recurs
  <2> QED
    BY <2>1
<1>2. CASE n >= m
  <2>1. 0 \in G
    <3> DEFINE f == [i \in m .. m |-> start]
    <3>1. Good(0, f)
      BY DEF Recurs
    <3> QED
      BY <3>1
  <2>2. \A k \in Nat : k \in G => k + 1 \in G
    <3> SUFFICES ASSUME NEW k \in Nat, k \in G, m + (k + 1) <= n
                 PROVE  \E f : Good(k + 1, f)
      OBVIOUS
    <3>1. PICK g : Good(k, g)
      OBVIOUS
    <3> DEFINE h == [i \in m .. m + (k + 1) |->
                       IF i = m + (k + 1) THEN step[<<g[i - 1], i>>] ELSE g[i]]
    <3>2. \A i \in m .. m + k : h[i] = g[i]
      OBVIOUS
    <3>3. \A i \in m .. m + k : g[i] \in V /\ g[i] = IF i = m THEN start ELSE step[<<g[i - 1], i>>]
      BY <3>1 DEF Recurs
    <3>4. g[m + k] \in V /\ h[m + (k + 1)] = step[<<g[m + k], m + (k + 1)>>]
      <4>1. m + k \in m .. m + k /\ m + (k + 1) \in m .. m + (k + 1)
            /\ (m + (k + 1)) - 1 = m + k
        OBVIOUS
      <4> DEFINE top == m + (k + 1)
      <4>2. h[top] = step[<<g[top - 1], top>>]
        BY <4>1
      <4> QED
        BY <3>3, <4>1, <4>2
    <3>5. h[m + (k + 1)] \in V
      <4>1. m + (k + 1) \in m + 1 .. n
        OBVIOUS
      <4> HIDE DEF h
      <4> QED
        BY <3>4, <4>1
    <3>6. \A i \in m .. m + (k + 1) :
            h[i] \in V /\ h[i] = IF i = m THEN start ELSE step[<<h[i - 1], i>>]
      <4> TAKE i \in m .. m + (k + 1)
      <4>1. CASE i = m + (k + 1)
        <5>1. i - 1 \in m .. m + k /\ i - 1 = m + k /\ i # m
          BY <4>1
        <5>2. h[i - 1] = g[m + k]
          BY <3>2, <5>1
        <5> HIDE DEF h
        <5> QED
          BY <3>4, <3>5, <4>1, <5>1, <5>2
      <4>2. CASE i # m + (k + 1)
        <5>1. i \in m .. m + k
          BY <4>2
        <5>2. i = m \/ h[i - 1] = g[i - 1]
          BY <3>2, <5>1
        <5> HIDE DEF h
        <5> QED
          BY <3>2, <3>3, <5>1, <5>2
      <4> QED
        BY <4>1, <4>2
    <3>7. h = [i \in m .. m + (k + 1) |-> h[i]]
      OBVIOUS
    <3> HIDE DEF h
    <3>8. h \in [m .. m + (k + 1) -> V]
      BY <3>6, <3>7
    <3>9. h = [i \in m .. m + (k + 1) |-> IF i = m THEN start ELSE step[<<h[i - 1], i>>]]
      BY <3>6, <3>7
    <3>10. Good(k + 1, h)
      BY <3>8, <3>9 DEF Recurs
    <3> QED
      BY <3>10
  <2>3. n - m \in Nat /\ m + (n - m) = n
    BY <1>2
  <2>4. n - m \in G
    <3> HIDE DEF G
    <3> QED
      BY <2>1, <2>2, <2>3, NatInduct
  <2>5. \E f : Good(n - m, f)
    BY <2>3, <2>4
  <2> QED
    BY <2>3, <2>5
<1> QED
  BY <1>1, <1>2

-----------------------------------------------------------------------------
(* Sums over a finite set *)

\* The library's sum, of the terms that a function gives.
SumOf(w, S) == MapThenSumSet(LAMBDA x : w[x], S)

\* g adds up the terms of w over every subset of S, in the order of CHOOSE.
Adds(g, w, S) ==
  g = [s \in SUBSET S |->
         IF s = {} THEN 0
         ELSE w[CHOOSE x \in s : TRUE] + g[s \ {CHOOSE x \in s : TRUE}]]

\* There is a function that adds up the terms over every subset.
LEMMA AddsExists ==
  ASSUME NEW S, IsFiniteSet(S), NEW w
  PROVE  \E g : Adds(g, w, S)
<1> DEFINE Sub(n) == {s \in SUBSET S : Cardinality(s) <= n}
           Good(n, g) ==
             g = [s \in Sub(n) |->
                    IF s = {} THEN 0
                    ELSE w[CHOOSE x \in s : TRUE] + g[s \ {CHOOSE x \in s : TRUE}]]
           H == {n \in Nat : \E g : Good(n, g)}
<1>1. \A s \in SUBSET S : IsFiniteSet(s) /\ Cardinality(s) \in Nat
  BY FS_Subset, FS_CardinalityType
<1>2. 0 \in H
  <2> DEFINE g == [s \in Sub(0) |-> 0]
  <2>1. \A s \in Sub(0) : s = {}
    BY <1>1, FS_EmptySet
  <2>2. Good(0, g)
    BY <2>1
  <2> QED
    BY <2>2
<1>3. \A n \in Nat : n \in H => n + 1 \in H
  <2> SUFFICES ASSUME NEW n \in Nat, n \in H PROVE n + 1 \in H
    OBVIOUS
  <2>1. PICK g : Good(n, g)
    OBVIOUS
  <2> DEFINE h == [s \in Sub(n + 1) |->
                     IF s = {} THEN 0
                     ELSE w[CHOOSE x \in s : TRUE] + g[s \ {CHOOSE x \in s : TRUE}]]
  <2>2. \A s \in Sub(n) : h[s] = g[s]
    <3>1. \A s \in Sub(n) : s \in Sub(n + 1)
      BY <1>1
    <3> QED
      BY <2>1, <3>1
  <2>3. \A s \in Sub(n + 1) : s # {} => s \ {CHOOSE x \in s : TRUE} \in Sub(n)
    <3> TAKE s \in Sub(n + 1)
    <3> HAVE s # {}
    <3> DEFINE c == CHOOSE x \in s : TRUE
    <3>1. c \in s
      OBVIOUS
    <3> HIDE DEF c
    <3>2. Cardinality(s \ {c}) = Cardinality(s) - 1
      BY <1>1, <3>1, FS_RemoveElement
    <3>3. s \ {c} \in Sub(n)
      BY <1>1, <3>2
    <3> QED
      BY <3>3 DEF c
  <2>4. Good(n + 1, h)
    <3>1. \A s \in Sub(n + 1) : s # {} =>
            g[s \ {CHOOSE x \in s : TRUE}] = h[s \ {CHOOSE x \in s : TRUE}]
      <4> HIDE DEF h, Sub
      <4> QED
        BY <2>2, <2>3
    <3> DEFINE A == [s \in Sub(n + 1) |->
                       IF s = {} THEN 0
                       ELSE w[CHOOSE x \in s : TRUE] + g[s \ {CHOOSE x \in s : TRUE}]]
               B == [s \in Sub(n + 1) |->
                       IF s = {} THEN 0
                       ELSE w[CHOOSE x \in s : TRUE] + h[s \ {CHOOSE x \in s : TRUE}]]
    <3>2. A = B
      <4> HIDE DEF h, Sub
      <4> QED
        BY <3>1
    <3>3. h = A
      OBVIOUS
    <3> HIDE DEF A, h
    <3> QED
      BY <3>2, <3>3
  <2>5. n + 1 \in Nat
    OBVIOUS
  <2> HIDE DEF Good, h
  <2> QED
    BY <2>4, <2>5
<1>4. \A n \in Nat : n \in H
  <2> HIDE DEF H
  <2> QED
    BY <1>2, <1>3, NatInduct
<1>5. Sub(Cardinality(S)) = SUBSET S
  BY <1>1, FS_Subset
<1>6. \E g : Good(Cardinality(S), g)
  BY <1>1, <1>4
<1> QED
  BY <1>5, <1>6 DEF Adds

\* Two sums of the same terms agree, whatever set they were made for.
LEMMA AddsAgree ==
  ASSUME NEW S, NEW R, NEW g, NEW h, NEW v, NEW w, Adds(g, v, S), Adds(h, w, R),
         NEW U \in SUBSET S, U \in SUBSET R, IsFiniteSet(U), \A x \in U : v[x] = w[x]
  PROVE  g[U] = h[U]
<1> DEFINE G == {T \in SUBSET U : g[T] = h[T]}
           H == {n \in Nat : \A T \in SUBSET U : Cardinality(T) = n => g[T] = h[T]}
<1>1. \A s \in SUBSET U : IsFiniteSet(s) /\ Cardinality(s) \in Nat
  BY FS_Subset, FS_CardinalityType
<1>2. 0 \in H
  <2> SUFFICES ASSUME NEW T \in SUBSET U, Cardinality(T) = 0 PROVE g[T] = h[T]
    OBVIOUS
  <2>1. T = {}
    BY <1>1, FS_EmptySet
  <2> QED
    BY <2>1 DEF Adds
<1>3. \A n \in Nat : n \in H => n + 1 \in H
  <2> SUFFICES ASSUME NEW n \in Nat, n \in H, NEW T \in SUBSET U, Cardinality(T) = n + 1
               PROVE  g[T] = h[T]
    OBVIOUS
  <2>1. T # {}
    <3>1. Cardinality({}) = 0
      BY FS_EmptySet
    <3> QED
      BY <3>1
  <2> DEFINE c == CHOOSE x \in T : TRUE
  <2>2. c \in T
    BY <2>1
  <2>3. g[T] = v[c] + g[T \ {c}] /\ h[T] = w[c] + h[T \ {c}]
    BY <2>1 DEF Adds
  <2> HIDE DEF c
  <2>4. Cardinality(T \ {c}) = n
    <3>1. Cardinality(T \ {c}) = Cardinality(T) - 1
      BY <1>1, <2>2, FS_RemoveElement
    <3> QED
      BY <3>1
  <2>5. g[T \ {c}] = h[T \ {c}]
    BY <2>4
  <2> QED
    BY <2>2, <2>3, <2>5
<1>4. \A n \in Nat : n \in H
  <2> HIDE DEF H
  <2> QED
    BY <1>2, <1>3, NatInduct
<1> QED
  BY <1>1, <1>4

\* MapThenSumSet is such a sum.
LEMMA SumIsAdds ==
  ASSUME NEW S, IsFiniteSet(S), NEW w
  PROVE  \E g : Adds(g, w, S) /\ SumOf(w, S) = g[S]
<1> DEFINE c == CHOOSE g : Adds(g, w, S)
<1>1. Adds(c, w, S)
  BY AddsExists
<1>2. SumOf(w, S) = c[S]
  BY DEF SumOf, MapThenSumSet, MapThenFoldSet, Adds
<1> QED
  BY <1>1, <1>2

\* Any function that adds up the terms gives the sum.
LEMMA SumBy ==
  ASSUME NEW S, NEW R, NEW g, NEW v, NEW w, Adds(g, v, R),
         S \in SUBSET R, IsFiniteSet(S), \A x \in S : v[x] = w[x]
  PROVE  g[S] = SumOf(w, S)
<1>1. PICK h : Adds(h, w, S) /\ SumOf(w, S) = h[S]
  BY SumIsAdds
<1>2. S \in SUBSET S
  OBVIOUS
<1> QED
  BY <1>1, <1>2, AddsAgree

\* Equal terms have equal sums.
LEMMA SumSame ==
  ASSUME NEW S, IsFiniteSet(S), NEW v, NEW w, \A x \in S : v[x] = w[x]
  PROVE  SumOf(v, S) = SumOf(w, S)
<1>1. PICK h : Adds(h, v, S) /\ SumOf(v, S) = h[S]
  BY SumIsAdds
<1>2. PICK k : Adds(k, w, S) /\ SumOf(w, S) = k[S]
  BY SumIsAdds
<1>3. S \in SUBSET S
  OBVIOUS
<1>4. h[S] = k[S]
  BY <1>1, <1>2, <1>3, AddsAgree
<1> QED
  BY <1>1, <1>2, <1>4

\* The empty sum.
LEMMA SumEmpty ==
  ASSUME NEW w PROVE SumOf(w, {}) = 0
<1>1. PICK h : Adds(h, w, {}) /\ SumOf(w, {}) = h[{}]
  BY SumIsAdds, FS_EmptySet
<1> QED
  BY <1>1 DEF Adds

\* One element taken out: whichever the fold takes first.
LEMMA SumChosen ==
  ASSUME NEW S, IsFiniteSet(S), S # {}, NEW w
  PROVE  \E c \in S : SumOf(w, S) = w[c] + SumOf(w, S \ {c})
<1>1. PICK h : Adds(h, w, S) /\ SumOf(w, S) = h[S]
  BY SumIsAdds
<1> DEFINE c == CHOOSE x \in S : TRUE
<1>2. c \in S
  OBVIOUS
<1>3. h[S] = w[c] + h[S \ {c}]
  BY <1>1 DEF Adds
<1> HIDE DEF c
<1>4. S \ {c} \in SUBSET S /\ IsFiniteSet(S \ {c})
  BY FS_RemoveElement
<1>5. h[S \ {c}] = SumOf(w, S \ {c})
  BY <1>1, <1>4, SumBy
<1> QED
  BY <1>1, <1>2, <1>3, <1>5

\* Sums of integers are integers, and whichever element is added last, the
\* sum grows by its term.
LEMMA SumInt ==
  ASSUME NEW U, IsFiniteSet(U), NEW w, \A x \in U : w[x] \in Int
  PROVE  /\ \A T \in SUBSET U : SumOf(w, T) \in Int
         /\ \A T \in SUBSET U, x \in U : x \notin T =>
              SumOf(w, T \cup {x}) = w[x] + SumOf(w, T)
<1> DEFINE Bigger(T) == \A x \in U : x \notin T => SumOf(w, T \cup {x}) = w[x] + SumOf(w, T)
           H == {n \in Nat : \A T \in SUBSET U : Cardinality(T) = n =>
                                SumOf(w, T) \in Int /\ Bigger(T)}
<1>1. \A s \in SUBSET U : IsFiniteSet(s) /\ Cardinality(s) \in Nat
  BY FS_Subset, FS_CardinalityType
<1>2. \A n \in Nat : (\A m \in 0 .. n - 1 : m \in H) => n \in H
  <2> SUFFICES ASSUME NEW n \in Nat, \A m \in 0 .. n - 1 : m \in H,
                      NEW T \in SUBSET U, Cardinality(T) = n
               PROVE  SumOf(w, T) \in Int /\ Bigger(T)
    OBVIOUS
  <2>1. \A x \in T : /\ SumOf(w, T \ {x}) \in Int
                     /\ \A y \in U : y \notin T \ {x} =>
                          SumOf(w, (T \ {x}) \cup {y}) = w[y] + SumOf(w, T \ {x})
    <3> TAKE x \in T
    <3>1. Cardinality(T \ {x}) = Cardinality(T) - 1 /\ Cardinality(T \ {x}) \in Nat
      BY <1>1, FS_RemoveElement
    <3>2. Cardinality(T \ {x}) \in 0 .. n - 1
      BY <3>1
    <3>3. T \ {x} \in SUBSET U
      OBVIOUS
    <3> QED
      BY <3>2, <3>3
  <2>2. SumOf(w, T) \in Int
    <3>1. CASE T = {}
      BY <3>1, SumEmpty
    <3>2. CASE T # {}
      <4>1. PICK c \in T : SumOf(w, T) = w[c] + SumOf(w, T \ {c})
        BY <1>1, <3>2, SumChosen
      <4>2. w[c] \in Int /\ SumOf(w, T \ {c}) \in Int
        BY <2>1
      <4> QED
        BY <4>1, <4>2
    <3> QED
      BY <3>1, <3>2
  <2>3. ASSUME NEW x \in U, x \notin T
        PROVE  SumOf(w, T \cup {x}) = w[x] + SumOf(w, T)
    <3>1. T \cup {x} # {} /\ IsFiniteSet(T \cup {x})
      BY <1>1
    <3>2. PICK c \in T \cup {x} :
            SumOf(w, T \cup {x}) = w[c] + SumOf(w, (T \cup {x}) \ {c})
      BY <3>1, SumChosen
    <3>3. CASE c = x
      <4>1. (T \cup {x}) \ {c} = T
        BY <2>3, <3>3
      <4> QED
        BY <3>2, <3>3, <4>1
    <3>4. CASE c # x
      <4>1. c \in T /\ c \in U /\ x \notin T \ {c} /\ c \notin T \ {c}
        BY <2>3, <3>4
      <4>2. (T \cup {x}) \ {c} = (T \ {c}) \cup {x} /\ T = (T \ {c}) \cup {c}
        BY <2>3, <3>4, <4>1
      <4>3. SumOf(w, (T \ {c}) \cup {x}) = w[x] + SumOf(w, T \ {c})
        BY <2>1, <4>1
      <4>4. SumOf(w, (T \ {c}) \cup {c}) = w[c] + SumOf(w, T \ {c})
        BY <2>1, <4>1
      <4> DEFINE r == SumOf(w, T \ {c})
                 a == SumOf(w, T)
                 b == SumOf(w, T \cup {x})
      <4>5. b = w[c] + (w[x] + r) /\ a = w[c] + r
        BY <3>2, <4>2, <4>3, <4>4
      <4>6. r \in Int /\ w[c] \in Int /\ w[x] \in Int
        BY <2>1, <4>1
      <4>7. b = w[x] + a
        <5> HIDE DEF r, a, b
        <5> QED
          BY <4>5, <4>6
      <4> QED
        BY <4>7
    <3> QED
      BY <3>3, <3>4
  <2> QED
    BY <2>2, <2>3
<1>3. \A n \in Nat : n \in H
  <2> DEFINE G == {n \in Nat : \A m \in 0 .. n : m \in H}
  <2>1. 0 \in G
    <3>1. 0 \in H
      <4> HIDE DEF H
      <4> QED
        BY <1>2
    <3> QED
      BY <3>1
  <2>2. \A n \in Nat : n \in G => n + 1 \in G
    <3> SUFFICES ASSUME NEW n \in Nat, n \in G PROVE n + 1 \in G
      OBVIOUS
    <3> HIDE DEF H
    <3>1. n + 1 \in Nat /\ (n + 1) - 1 = n
      OBVIOUS
    <3>2. n + 1 \in H
      BY <1>2, <3>1
    <3> QED
      BY <3>1, <3>2
  <2>3. \A n \in Nat : n \in G
    <3> HIDE DEF G
    <3> QED
      BY <2>1, <2>2, NatInduct
  <2> HIDE DEF H
  <2> QED
    BY <2>3
<1> QED
  BY <1>1, <1>3

\* One element more.
LEMMA SumAdd ==
  ASSUME NEW T, IsFiniteSet(T), NEW x, x \notin T, NEW w,
         \A y \in T \cup {x} : w[y] \in Int
  PROVE  SumOf(w, T \cup {x}) = w[x] + SumOf(w, T) /\ SumOf(w, T) \in Int
<1>1. IsFiniteSet(T \cup {x}) /\ T \in SUBSET (T \cup {x}) /\ x \in T \cup {x}
  BY FS_AddElement
<1> QED
  BY <1>1, SumInt

\* Sums of naturals are naturals.
LEMMA SumNat ==
  ASSUME NEW U, IsFiniteSet(U), NEW w, \A x \in U : w[x] \in Nat
  PROVE  SumOf(w, U) \in Nat
<1> DEFINE G == {T \in SUBSET U : SumOf(w, T) \in Nat}
<1>1. {} \in G
  BY SumEmpty
<1>2. \A T \in SUBSET U, x \in U : T \in G /\ x \notin T => T \cup {x} \in G
  <2> SUFFICES ASSUME NEW T \in SUBSET U, NEW x \in U, T \in G, x \notin T
               PROVE  SumOf(w, T \cup {x}) \in Nat
    OBVIOUS
  <2>1. SumOf(w, T \cup {x}) = w[x] + SumOf(w, T)
    BY SumInt
  <2> QED
    BY <2>1
<1>3. \A T \in SUBSET U : T \in G
  <2> HIDE DEF G
  <2> QED
    BY <1>1, <1>2, SubsetInduct
<1> QED
  BY <1>3

\* Sums of sums, differences, multiples.
LEMMA SumPlus ==
  ASSUME NEW U, IsFiniteSet(U), NEW u, NEW v, NEW w,
         \A x \in U : v[x] \in Int /\ w[x] \in Int /\ u[x] = v[x] + w[x]
  PROVE  SumOf(u, U) = SumOf(v, U) + SumOf(w, U)
<1> DEFINE G == {T \in SUBSET U : SumOf(u, T) = SumOf(v, T) + SumOf(w, T)}
<1>1. {} \in G
  BY SumEmpty
<1>2. \A T \in SUBSET U, x \in U : T \in G /\ x \notin T => T \cup {x} \in G
  <2> SUFFICES ASSUME NEW T \in SUBSET U, NEW x \in U, T \in G, x \notin T
               PROVE  SumOf(u, T \cup {x}) = SumOf(v, T \cup {x}) + SumOf(w, T \cup {x})
    OBVIOUS
  <2>1. SumOf(u, T \cup {x}) = u[x] + SumOf(u, T)
    <3>1. \A y \in U : u[y] \in Int
      OBVIOUS
    <3> QED
      BY <3>1, SumInt
  <2>2. SumOf(v, T \cup {x}) = v[x] + SumOf(v, T) /\ SumOf(v, T) \in Int
    BY SumInt
  <2>3. SumOf(w, T \cup {x}) = w[x] + SumOf(w, T) /\ SumOf(w, T) \in Int
    BY SumInt
  <2>4. SumOf(u, T) = SumOf(v, T) + SumOf(w, T)
    OBVIOUS
  <2> QED
    BY <2>1, <2>2, <2>3, <2>4
<1>3. \A T \in SUBSET U : T \in G
  <2> HIDE DEF G
  <2> QED
    BY <1>1, <1>2, SubsetInduct
<1> QED
  BY <1>3

\* A common factor comes out of a sum.
LEMMA SumTimes ==
  ASSUME NEW U, IsFiniteSet(U), NEW c \in Int, NEW u, NEW v,
         \A x \in U : v[x] \in Int /\ u[x] = c * v[x]
  PROVE  SumOf(u, U) = c * SumOf(v, U)
<1> DEFINE G == {T \in SUBSET U : SumOf(u, T) = c * SumOf(v, T)}
<1>1. {} \in G
  BY SumEmpty
<1>2. \A T \in SUBSET U, x \in U : T \in G /\ x \notin T => T \cup {x} \in G
  <2> SUFFICES ASSUME NEW T \in SUBSET U, NEW x \in U, T \in G, x \notin T
               PROVE  SumOf(u, T \cup {x}) = c * SumOf(v, T \cup {x})
    OBVIOUS
  <2>1. SumOf(u, T \cup {x}) = u[x] + SumOf(u, T)
    <3>1. \A y \in U : u[y] \in Int
      OBVIOUS
    <3> QED
      BY <3>1, SumInt
  <2>2. SumOf(v, T \cup {x}) = v[x] + SumOf(v, T) /\ SumOf(v, T) \in Int
    BY SumInt
  <2>3. SumOf(u, T) = c * SumOf(v, T) /\ u[x] = c * v[x] /\ v[x] \in Int
    OBVIOUS
  <2> DEFINE a == SumOf(v, T)
             b == v[x]
  <2>4. c * (b + a) = c * b + c * a
    <3> HIDE DEF a, b
    <3>1. a \in Int /\ b \in Int
      BY <2>2, <2>3 DEF a, b
    <3> QED
      BY <3>1
  <2> QED
    BY <2>1, <2>2, <2>3, <2>4
<1>3. \A T \in SUBSET U : T \in G
  <2> HIDE DEF G
  <2> QED
    BY <1>1, <1>2, SubsetInduct
<1> QED
  BY <1>3

\* A sum of terms that are at most others.
LEMMA SumAtMost ==
  ASSUME NEW U, IsFiniteSet(U), NEW v, NEW w,
         \A x \in U : v[x] \in Int /\ w[x] \in Int /\ v[x] <= w[x]
  PROVE  SumOf(v, U) <= SumOf(w, U)
<1> DEFINE G == {T \in SUBSET U : SumOf(v, T) <= SumOf(w, T)}
<1>1. {} \in G
  BY SumEmpty
<1>2. \A T \in SUBSET U, x \in U : T \in G /\ x \notin T => T \cup {x} \in G
  <2> SUFFICES ASSUME NEW T \in SUBSET U, NEW x \in U, T \in G, x \notin T
               PROVE  SumOf(v, T \cup {x}) <= SumOf(w, T \cup {x})
    OBVIOUS
  <2>1. SumOf(v, T \cup {x}) = v[x] + SumOf(v, T) /\ SumOf(v, T) \in Int
    BY SumInt
  <2>2. SumOf(w, T \cup {x}) = w[x] + SumOf(w, T) /\ SumOf(w, T) \in Int
    BY SumInt
  <2>3. SumOf(v, T) <= SumOf(w, T)
    OBVIOUS
  <2> QED
    BY <2>1, <2>2, <2>3
<1>3. \A T \in SUBSET U : T \in G
  <2> HIDE DEF G
  <2> QED
    BY <1>1, <1>2, SubsetInduct
<1> QED
  BY <1>3

\* A sum of equal terms.
LEMMA SumOfEqual ==
  ASSUME NEW U, IsFiniteSet(U), NEW c \in Int, NEW w, \A x \in U : w[x] = c
  PROVE  SumOf(w, U) = c * Cardinality(U)
<1> DEFINE G == {T \in SUBSET U : SumOf(w, T) = c * Cardinality(T)}
<1>1. {} \in G
  BY SumEmpty, FS_EmptySet
<1>2. \A T \in SUBSET U, x \in U : T \in G /\ x \notin T => T \cup {x} \in G
  <2> SUFFICES ASSUME NEW T \in SUBSET U, NEW x \in U, T \in G, x \notin T
               PROVE  SumOf(w, T \cup {x}) = c * Cardinality(T \cup {x})
    OBVIOUS
  <2>1. SumOf(w, T \cup {x}) = w[x] + SumOf(w, T) /\ SumOf(w, T) \in Int
    BY SumInt
  <2>2. IsFiniteSet(T) /\ Cardinality(T) \in Nat
    BY FS_Subset, FS_CardinalityType
  <2>3. Cardinality(T \cup {x}) = Cardinality(T) + 1
    BY <2>2, FS_AddElement
  <2>4. SumOf(w, T) = c * Cardinality(T) /\ w[x] = c
    OBVIOUS
  <2> DEFINE k == Cardinality(T)
  <2>5. c + c * k = c * (k + 1)
    <3>1. k \in Int
      BY <2>2
    <3> HIDE DEF k
    <3> QED
      BY <3>1
  <2> QED
    BY <2>1, <2>3, <2>4, <2>5
<1>3. \A T \in SUBSET U : T \in G
  <2> HIDE DEF G
  <2> QED
    BY <1>1, <1>2, SubsetInduct
<1> QED
  BY <1>3

\* The sum over two disjoint sets.
LEMMA SumUnion ==
  ASSUME NEW A, IsFiniteSet(A), NEW B, IsFiniteSet(B), A \cap B = {}, NEW w,
         \A x \in A \cup B : w[x] \in Int
  PROVE  SumOf(w, A \cup B) = SumOf(w, A) + SumOf(w, B)
<1> DEFINE G == {T \in SUBSET B : SumOf(w, A \cup T) = SumOf(w, A) + SumOf(w, T)}
<1>1. SumOf(w, A) \in Int /\ IsFiniteSet(A \cup B)
  BY SumInt, FS_Union
<1>2. {} \in G
  BY <1>1, SumEmpty
<1>3. \A T \in SUBSET B, x \in B : T \in G /\ x \notin T => T \cup {x} \in G
  <2> SUFFICES ASSUME NEW T \in SUBSET B, NEW x \in B, T \in G, x \notin T
               PROVE  SumOf(w, A \cup (T \cup {x})) = SumOf(w, A) + SumOf(w, T \cup {x})
    OBVIOUS
  <2>1. SumOf(w, T \cup {x}) = w[x] + SumOf(w, T) /\ SumOf(w, T) \in Int
    BY SumInt
  <2>2. SumOf(w, (A \cup T) \cup {x}) = w[x] + SumOf(w, A \cup T)
    <3> DEFINE C == A \cup T
               D == A \cup B
    <3>1. C \in SUBSET D /\ x \in D /\ x \notin C
      OBVIOUS
    <3>2. IsFiniteSet(D) /\ \A y \in D : w[y] \in Int
      BY <1>1
    <3> HIDE DEF C, D
    <3>3. SumOf(w, C \cup {x}) = w[x] + SumOf(w, C)
      BY <3>1, <3>2, SumInt
    <3> QED
      BY <3>3 DEF C
  <2>3. (A \cup T) \cup {x} = A \cup (T \cup {x})
    OBVIOUS
  <2>4. SumOf(w, A \cup T) = SumOf(w, A) + SumOf(w, T) /\ w[x] \in Int
    OBVIOUS
  <2> DEFINE a == SumOf(w, A)
             t == SumOf(w, T)
  <2>5. w[x] + (a + t) = a + (w[x] + t)
    <3>1. a \in Int /\ t \in Int /\ w[x] \in Int
      BY <1>1, <2>1, <2>4
    <3> HIDE DEF a, t
    <3> QED
      BY <3>1
  <2> QED
    BY <2>1, <2>2, <2>3, <2>4, <2>5
<1>4. \A T \in SUBSET B : T \in G
  <2> HIDE DEF G
  <2> QED
    BY <1>2, <1>3, SubsetInduct
<1> QED
  BY <1>4

\* Sums over a sequence, as it grows.
LEMMA SumGrows ==
  ASSUME NEW n \in Nat, NEW v, NEW w, \A i \in 1 .. n + 1 : w[i] \in Int,
         \A i \in 1 .. n : v[i] = w[i]
  PROVE  SumOf(w, 1 .. n + 1) = SumOf(v, 1 .. n) + w[n + 1]
<1> DEFINE A == 1 .. n
           x == n + 1
<1>1. A \cup {x} = 1 .. n + 1 /\ x \notin A /\ IsFiniteSet(A)
  BY OneToN
<1>2. \A i \in A \cup {x} : w[i] \in Int
  BY <1>1
<1>3. \A i \in A : v[i] = w[i]
  OBVIOUS
<1> HIDE DEF A, x
<1>4. SumOf(w, A \cup {x}) = w[x] + SumOf(w, A) /\ SumOf(w, A) \in Int
  BY <1>1, <1>2, SumAdd
<1>5. SumOf(v, A) = SumOf(w, A)
  BY <1>1, <1>3, SumSame
<1>6. w[x] \in Int
  BY <1>2
<1> DEFINE a == SumOf(w, A)
<1>7. SumOf(w, A \cup {x}) = a + w[x]
  <2>1. a \in Int /\ SumOf(w, A \cup {x}) = w[x] + a
    BY <1>4
  <2> HIDE DEF a
  <2> QED
    BY <1>6, <2>1
<1> QED
  BY <1>1, <1>5, <1>7 DEF A, x

\* One term less makes the sum less.
LEMMA SumBelow ==
  ASSUME NEW U, IsFiniteSet(U), NEW v, NEW w,
         \A x \in U : v[x] \in Int /\ w[x] \in Int /\ v[x] <= w[x],
         NEW c \in U, v[c] < w[c]
  PROVE  SumOf(v, U) < SumOf(w, U)
<1> DEFINE T == U \ {c}
<1>1. /\ IsFiniteSet(T) /\ T \cup {c} = U /\ c \notin T
  BY FS_RemoveElement
<1> HIDE DEF T
<1>2. /\ \A y \in T \cup {c} : v[y] \in Int /\ w[y] \in Int
      /\ \A y \in T : v[y] <= w[y]
  BY <1>1
<1>3. SumOf(v, U) = v[c] + SumOf(v, T) /\ SumOf(v, T) \in Int
  BY <1>1, <1>2, SumAdd
<1>4. SumOf(w, U) = w[c] + SumOf(w, T) /\ SumOf(w, T) \in Int
  BY <1>1, <1>2, SumAdd
<1>5. SumOf(v, T) <= SumOf(w, T)
  BY <1>1, <1>2, SumAtMost
<1>6. v[c] \in Int /\ w[c] \in Int
  OBVIOUS
<1> QED
  BY <1>3, <1>4, <1>5, <1>6

\* The differences of successive values add up to that of the ends.
LEMMA Telescopes ==
  ASSUME NEW n \in Nat, NEW f, \A i \in 0 .. n : f[i] \in Int,
         NEW w, \A i \in 1 .. n : w[i] = f[i] - f[i - 1]
  PROVE  SumOf(w, 1 .. n) = f[n] - f[0]
<1> DEFINE G == {j \in Nat : j <= n => SumOf(w, 1 .. j) = f[j] - f[0]}
<1>1. 0 \in G
  <2>1. 1 .. 0 = {}
    OBVIOUS
  <2> QED
    BY <2>1, SumEmpty
<1>2. ASSUME NEW j \in Nat, j \in G PROVE j + 1 \in G
  <2> SUFFICES ASSUME j + 1 <= n PROVE SumOf(w, 1 .. j + 1) = f[j + 1] - f[0]
    OBVIOUS
  <2>1. \A i \in 1 .. j + 1 : i \in 1 .. n /\ i \in 0 .. n /\ i - 1 \in 0 .. n
    OBVIOUS
  <2>2. \A i \in 1 .. j + 1 : w[i] \in Int
    BY <2>1
  <2>3. SumOf(w, 1 .. j + 1) = SumOf(w, 1 .. j) + w[j + 1]
    BY <2>2, SumGrows
  <2>4. j + 1 \in 1 .. n /\ (j + 1) - 1 = j
    OBVIOUS
  <2>5. w[j + 1] = f[j + 1] - f[j]
    BY <2>4
  <2>6. f[0] \in Int /\ f[j] \in Int /\ f[j + 1] \in Int
    OBVIOUS
  <2>7. SumOf(w, 1 .. j) = f[j] - f[0]
    BY <1>2
  <2> QED
    BY <2>3, <2>5, <2>6, <2>7
<1> HIDE DEF G
<1>3. n \in G
  BY <1>1, <1>2, NatInduct
<1> QED
  BY <1>3 DEF G

\* The sum over one row of a table, and over the table row by row.
Cell(a, i) == <<a, i>>
RowCells(a, n) == {a} \X (1 .. n)
AllCells(m, n) == (1 .. m) \X (1 .. n)

LEMMA SumOfRow ==
  ASSUME NEW a, NEW n \in Nat, NEW w, NEW v,
         \A i \in 1 .. n : w[Cell(a, i)] \in Int /\ v[i] = w[Cell(a, i)]
  PROVE  SumOf(w, RowCells(a, n)) = SumOf(v, 1 .. n)
<1> DEFINE R(j) == {a} \X (1 .. j)
           G == {j \in Nat : j <= n => /\ IsFiniteSet(R(j))
                                       /\ SumOf(w, R(j)) = SumOf(v, 1 .. j)}
<1>1. 0 \in G
  <2>1. R(0) = {} /\ 1 .. 0 = {}
    OBVIOUS
  <2> QED
    BY <2>1, SumEmpty, FS_EmptySet
<1>2. ASSUME NEW j \in Nat, j \in G PROVE j + 1 \in G
  <2> SUFFICES ASSUME j + 1 <= n
               PROVE  IsFiniteSet(R(j + 1)) /\ SumOf(w, R(j + 1)) = SumOf(v, 1 .. j + 1)
    OBVIOUS
  <2>1. R(j + 1) = R(j) \cup {Cell(a, j + 1)} /\ Cell(a, j + 1) \notin R(j)
    BY DEF Cell
  <2>2. \A i \in 1 .. j + 1 : v[i] \in Int /\ w[Cell(a, i)] \in Int /\ v[i] = w[Cell(a, i)]
    OBVIOUS
  <2>3. \A y \in R(j + 1) : w[y] \in Int
    BY <2>2 DEF Cell
  <2>4. IsFiniteSet(R(j)) /\ SumOf(w, R(j)) = SumOf(v, 1 .. j)
    BY <1>2
  <2> DEFINE r == R(j)
             x == Cell(a, j + 1)
  <2> HIDE DEF r, x
  <2>5. IsFiniteSet(r) /\ x \notin r /\ R(j + 1) = r \cup {x} /\ \A y \in r \cup {x} : w[y] \in Int
    BY <2>1, <2>3, <2>4 DEF r, x
  <2>6. SumOf(w, r \cup {x}) = w[x] + SumOf(w, r) /\ SumOf(w, r) \in Int
    BY <2>5, SumAdd
  <2>7. SumOf(v, 1 .. j + 1) = SumOf(v, 1 .. j) + v[j + 1]
    BY <2>2, SumGrows
  <2>8. IsFiniteSet(r \cup {x})
    BY <2>5, FS_AddElement
  <2>9. w[x] = v[j + 1] /\ v[j + 1] \in Int /\ SumOf(w, r) = SumOf(v, 1 .. j)
    BY <2>2, <2>4 DEF x, r
  <2> DEFINE vs == SumOf(v, 1 .. j)
             ws == SumOf(w, r)
             top == SumOf(v, 1 .. j + 1)
  <2>10. w[x] + ws = top
    <3>1. top = vs + v[j + 1] /\ w[x] = v[j + 1] /\ v[j + 1] \in Int /\ ws = vs /\ ws \in Int
      BY <2>6, <2>7, <2>9
    <3> HIDE DEF vs, ws, top
    <3> QED
      BY <3>1
  <2> HIDE DEF R
  <2> QED
    BY <2>5, <2>6, <2>8, <2>10, Zenon
<1> HIDE DEF G
<1>3. n \in G
  BY <1>1, <1>2, NatInduct
<1> QED
  BY <1>3 DEF G, RowCells

LEMMA SumOfTable ==
  ASSUME NEW m \in Nat, NEW n \in Nat, NEW w, NEW u,
         \A a \in 1 .. m, i \in 1 .. n : w[Cell(a, i)] \in Int,
         \A a \in 1 .. m : u[a] = SumOf(w, RowCells(a, n))
  PROVE  SumOf(w, AllCells(m, n)) = SumOf(u, 1 .. m)
<1> DEFINE R(a) == {a} \X (1 .. n)
           T(j) == (1 .. j) \X (1 .. n)
           G == {j \in Nat : j <= m => /\ IsFiniteSet(T(j))
                                       /\ SumOf(w, T(j)) = SumOf(u, 1 .. j)}
<1>1. 0 \in G
  <2>1. T(0) = {} /\ 1 .. 0 = {}
    OBVIOUS
  <2> QED
    BY <2>1, SumEmpty, FS_EmptySet
<1>2. ASSUME NEW a \in 1 .. m PROVE IsFiniteSet(R(a)) /\ u[a] \in Int
  <2>1. IsFiniteSet({a}) /\ IsFiniteSet(1 .. n)
    BY OneToN, FS_Singleton
  <2>2. IsFiniteSet(R(a))
    BY <2>1, FS_Product
  <2>3. \A y \in R(a) : w[y] \in Int
    BY DEF Cell
  <2> DEFINE r == R(a)
  <2>4. r \in SUBSET r /\ IsFiniteSet(r) /\ \A y \in r : w[y] \in Int
    BY <2>2, <2>3
  <2>5. u[a] = SumOf(w, r)
    BY DEF RowCells
  <2> HIDE DEF r
  <2>6. SumOf(w, r) \in Int
    BY <2>4, SumInt
  <2> QED
    BY <2>2, <2>5, <2>6
<1>3. ASSUME NEW j \in Nat, j \in G PROVE j + 1 \in G
  <2> SUFFICES ASSUME j + 1 <= m
               PROVE  IsFiniteSet(T(j + 1)) /\ SumOf(w, T(j + 1)) = SumOf(u, 1 .. j + 1)
    OBVIOUS
  <2>1. T(j + 1) = T(j) \cup R(j + 1) /\ T(j) \cap R(j + 1) = {}
    OBVIOUS
  <2>2. \A y \in T(j + 1) : w[y] \in Int
    BY DEF Cell
  <2>3. IsFiniteSet(T(j)) /\ SumOf(w, T(j)) = SumOf(u, 1 .. j)
    BY <1>3
  <2>4. IsFiniteSet(R(j + 1)) /\ u[j + 1] = SumOf(w, R(j + 1))
    BY <1>2 DEF RowCells
  <2> DEFINE t == T(j)
             r == R(j + 1)
  <2>5. /\ IsFiniteSet(t) /\ IsFiniteSet(r) /\ t \cap r = {} /\ T(j + 1) = t \cup r
        /\ \A y \in t \cup r : w[y] \in Int
        /\ SumOf(w, t) = SumOf(u, 1 .. j) /\ u[j + 1] = SumOf(w, r)
    BY <2>1, <2>2, <2>3, <2>4
  <2> HIDE DEF t, r, T
  <2>6. SumOf(w, t \cup r) = SumOf(w, t) + SumOf(w, r)
    BY <2>5, SumUnion
  <2>7. IsFiniteSet(t \cup r)
    BY <2>5, FS_Union
  <2>8. \A a \in 1 .. j + 1 : u[a] \in Int
    <3> TAKE a \in 1 .. j + 1
    <3>1. a \in 1 .. m
      OBVIOUS
    <3> QED
      BY <1>2, <3>1
  <2>9. SumOf(u, 1 .. j + 1) = SumOf(u, 1 .. j) + u[j + 1]
    BY <2>8, SumGrows
  <2> QED
    BY <2>5, <2>6, <2>7, <2>9
<1> HIDE DEF G
<1>4. m \in G
  BY <1>1, <1>3, NatInduct
<1> QED
  BY <1>4 DEF G, AllCells

-----------------------------------------------------------------------------
(* Slices *)

\* A slice's first row is a row number or the plane's height, and slices
\* follow each other in slice order.
LEMMA RowStartMonotone ==
  ASSUME NEW ph \in Nat, NEW n \in Nat \ {0}, NEW s \in Nat, NEW q \in Nat,
         s <= q
  PROVE  /\ RowStart(ph, n, s) \in Nat
         /\ RowStart(ph, n, q) \in Nat
         /\ RowStart(ph, n, s) <= RowStart(ph, n, q)
<1>1. ph * s \in Nat /\ ph * q \in Nat /\ ph * s <= ph * q
  BY MulNat, MulMono
<1> QED
  BY <1>1, DivDef, DivMono DEF RowStart

\* A slice has no negative number of rows and ends where the next begins.
LEMMA RowCountNat ==
  ASSUME NEW ph \in Nat, NEW n \in Nat \ {0}, NEW s \in Nat
  PROVE  /\ RowCount(ph, n, s) \in Nat
         /\ RowStart(ph, n, s) + RowCount(ph, n, s) = RowStart(ph, n, s + 1)
         /\ SliceRows(ph, n, s) =
              RowStart(ph, n, s) .. RowStart(ph, n, s) + RowCount(ph, n, s) - 1
<1>0. s + 1 \in Nat /\ s <= s + 1
  OBVIOUS
<1>1. RowStart(ph, n, s) \in Nat /\ RowStart(ph, n, s + 1) \in Nat
      /\ RowStart(ph, n, s) <= RowStart(ph, n, s + 1)
  BY <1>0, RowStartMonotone
<1>2. RowEnd(ph, n, s) = RowStart(ph, n, s + 1)
  BY DEF RowEnd, RowStart
<1> QED
  BY <1>1, <1>2 DEF RowCount, SliceRows

\* The first slice starts at row 0 and the last one ends with the plane.
LEMMA SlicesSpanPlane ==
  ASSUME NEW ph \in Nat, NEW n \in Nat \ {0}
  PROVE  RowStart(ph, n, 0) = 0 /\ RowStart(ph, n, n) = ph
  BY DivCancel DEF RowStart

\* No row belongs to two slices.
LEMMA SlicesDisjoint ==
  ASSUME NEW ph \in Nat, NEW n \in Nat \ {0}, NEW s \in Nat, NEW q \in Nat,
         NEW r, r \in SliceRows(ph, n, s), r \in SliceRows(ph, n, q)
  PROVE  s = q
<1>1. ASSUME NEW a \in Nat, NEW b \in Nat, a < b,
             r \in SliceRows(ph, n, a), r \in SliceRows(ph, n, b)
      PROVE  FALSE
  <2>1. RowStart(ph, n, a + 1) <= RowStart(ph, n, b)
    BY <1>1, RowStartMonotone
  <2>2. /\ RowStart(ph, n, a + 1) \in Nat
        /\ RowStart(ph, n, b) \in Nat
        /\ RowStart(ph, n, a) \in Nat
    <3>1. a + 1 \in Nat /\ a <= a + 1 /\ b <= b
      OBVIOUS
    <3> QED
      BY <3>1, RowStartMonotone
  <2>3. RowEnd(ph, n, a) = RowStart(ph, n, a + 1)
    BY DEF RowEnd, RowStart
  <2>4. RowEnd(ph, n, b) \in Int
    <3>1. RowEnd(ph, n, b) = RowStart(ph, n, b + 1)
      BY DEF RowEnd, RowStart
    <3> QED
      BY <3>1, RowStartMonotone
  <2> QED
    BY <1>1, <2>1, <2>2, <2>3, <2>4 DEF SliceRows
<1> QED
  BY <1>1

\* Every row belongs to a slice.
LEMMA RowInSlice ==
  ASSUME NEW ph \in Nat, NEW n \in Nat \ {0}, NEW r \in 0 .. ph - 1
  PROVE  \E s \in 0 .. n - 1 : r \in SliceRows(ph, n, s)
<1> DEFINE a == (r + 1) * n - 1
           s == a \div ph
<1>1. ph \in Nat \ {0} /\ r + 1 \in Nat /\ r + 1 <= ph
  OBVIOUS
<1>2. (r + 1) * n \in Nat /\ (r + 1) * n >= 1 /\ (r + 1) * n <= ph * n
  BY <1>1
<1>3. a \in Nat /\ s \in Nat /\ ph * s <= a /\ a < ph * s + ph
  BY <1>1, <1>2, DivDef
<1> HIDE DEF s
<1>4. s < n
  <2>1. SUFFICES ASSUME n <= s PROVE FALSE
    BY <1>3
  <2>2. ph * n <= ph * s
    BY <2>1, <1>3, MulMono
  <2> QED
    BY <2>2, <1>2, <1>3
<1>5. RowStart(ph, n, s) <= r
  <2>1. ph * s \in Nat /\ ph * s < (r + 1) * n
    BY <1>3
  <2>2. RowStart(ph, n, s) \in Nat /\ n * RowStart(ph, n, s) <= ph * s
    BY <2>1, DivDef DEF RowStart
  <2>3. SUFFICES ASSUME r + 1 <= RowStart(ph, n, s) PROVE FALSE
    BY <2>2
  <2>4. n * (r + 1) <= n * RowStart(ph, n, s)
    BY <2>2, <2>3, <1>1, MulMono
  <2> QED
    BY <2>1, <2>2, <2>4
<1>6. r < RowEnd(ph, n, s)
  <2>1. ph * (s + 1) \in Nat /\ (r + 1) * n <= ph * (s + 1)
    BY <1>3
  <2>2. ((r + 1) * n) \div n <= (ph * (s + 1)) \div n
    BY <2>1, <1>2, DivMono
  <2>3. (ph * (s + 1)) \div n \in Nat
    BY <2>1, DivDef
  <2> QED
    BY <2>2, <2>3, <1>1, DivCancel DEF RowEnd
<1>7. RowStart(ph, n, s) \in Nat /\ RowEnd(ph, n, s) \in Nat
  BY <1>3, RowStartMonotone DEF RowEnd, RowStart
<1> QED
  BY <1>3, <1>4, <1>5, <1>6, <1>7 DEF SliceRows

\* The slices partition the plane: their rows are its rows, all of them and no
\* others, and no two slices share one.  This is what makes the vec![0u8] the
\* planes start from invisible to the caller, and the strips safe to hand out.
THEOREM SlicesPartitionPlane ==
  ASSUME NEW ph \in Nat, NEW n \in Nat \ {0}
  PROVE  /\ UNION {SliceRows(ph, n, s) : s \in 0 .. n - 1} = 0 .. ph - 1
         /\ \A s, q \in 0 .. n - 1 :
              s # q => SliceRows(ph, n, s) \cap SliceRows(ph, n, q) = {}
<1>1. ASSUME NEW s \in 0 .. n - 1, NEW r \in SliceRows(ph, n, s)
      PROVE  r \in 0 .. ph - 1
  <2>1. RowEnd(ph, n, s) = RowStart(ph, n, s + 1)
    BY DEF RowEnd, RowStart
  <2>2. /\ RowStart(ph, n, s) \in Nat
        /\ RowStart(ph, n, s + 1) \in Nat
        /\ RowStart(ph, n, s + 1) <= RowStart(ph, n, n)
    <3>1. s \in Nat /\ s + 1 \in Nat /\ n \in Nat /\ s <= s + 1 /\ s + 1 <= n
      OBVIOUS
    <3> QED
      BY <3>1, RowStartMonotone
  <2>3. RowStart(ph, n, n) = ph
    BY SlicesSpanPlane
  <2> QED
    BY <1>1, <2>1, <2>2, <2>3 DEF SliceRows
<1>2. \A r \in 0 .. ph - 1 : \E s \in 0 .. n - 1 : r \in SliceRows(ph, n, s)
  BY RowInSlice
<1>3. ASSUME NEW s \in 0 .. n - 1, NEW q \in 0 .. n - 1, s # q,
             NEW r \in SliceRows(ph, n, s), r \in SliceRows(ph, n, q)
      PROVE  FALSE
  BY <1>3, SlicesDisjoint
<1> QED
  BY <1>1, <1>2, <1>3, Zenon

-----------------------------------------------------------------------------
(* Chunks *)

\* At least one thread and never more threads than slices.
LEMMA ParallelDegreeBounds ==
  ASSUME NEW w \in Nat, NEW n \in Nat \ {0}
  PROVE  ParallelDegree(w, n) \in 1 .. n
  BY DEF ParallelDegree, AtLeastOne, Lesser

\* Every work unit lands in the chunk of an existing thread; the `.min(par -
\* 1)` of the code never changes the bucket, so chunks are contiguous.
THEOREM BucketExists ==
  ASSUME NEW n \in Nat \ {0}, NEW par \in 1 .. n, NEW i \in 0 .. n - 1
  PROVE  /\ BucketOf(i, n, par) \in 0 .. par - 1
         /\ BucketOf(i, n, par) = i \div ChunkSize(n, par)
<1> DEFINE c == ChunkSize(n, par)
<1>1. n + par - 1 \in Nat /\ par \in Nat \ {0}
  OBVIOUS
<1>0. c = ChunkSize(n, par)
  OBVIOUS
<1>2. c \in Nat /\ n + par - 1 < par * c + par
  BY <1>1, DivDef DEF ChunkSize
<1>3. c >= 1 /\ i < par * c
  BY <1>1, <1>2
<1>4. c \in Nat \ {0}
  BY <1>2, <1>3
<1> HIDE DEF c
<1>5. i \div c \in Nat /\ c * (i \div c) <= i
  BY <1>4, DivDef
<1>6. i \div c < par
  <2>1. SUFFICES ASSUME par <= i \div c PROVE FALSE
    BY <1>1, <1>5
  <2>2. c * par <= c * (i \div c)
    BY <2>1, <1>1, <1>4, <1>5, MulMono
  <2> QED
    BY <2>2, <1>3, <1>4, <1>5
<1>7. AtLeastOne(c) = c
  BY <1>4 DEF AtLeastOne
<1>8. BucketOf(i, n, par) = Lesser(i \div c, par - 1)
  BY <1>0, <1>7 DEF BucketOf
<1>9. Lesser(i \div c, par - 1) = i \div c
  BY <1>1, <1>5, <1>6 DEF Lesser
<1> QED
  BY <1>0, <1>1, <1>5, <1>6, <1>8, <1>9
=============================================================================
