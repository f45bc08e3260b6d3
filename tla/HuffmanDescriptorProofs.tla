----------------------- MODULE HuffmanDescriptorProofs -----------------------
(***************************************************************************)
(* For every alphabet, every limit on the lengths and every descriptor:    *)
(* the codes that build assigns to an accepted descriptor read every       *)
(* stream in exactly one way, the inspector's node merge and its numerator *)
(* decide the same as exact arithmetic, and its one pass over the          *)
(* descriptor keeps what the descriptor holds.                             *)
(*                                                                         *)
(* The codebook.  Order the symbols as build numbers them and let each     *)
(* take 2^(longest - length) of the 2^longest strings of bits.  A symbol   *)
(* starts where those before it end, which is a multiple of what it takes; *)
(* the quotient is its code number.  By the Kraft equality the last one    *)
(* ends at 2^longest, so every string lies with exactly one symbol, and it *)
(* lies with s when its first bits are the number of s.                    *)
(***************************************************************************)
EXTENDS HuffmanDescriptor, SlicePartitionProofs, SequenceTheorems

\* A descriptor that kraft_check accepts.
Accepted(d) == d \in Descriptors /\ Coded(d) # {} /\ KraftHolds(d)

\* What a code of each length takes of 2^L.
Share(d, L) == [s \in Coded(d) |-> 2 ^ (L - d[s])]

\* The bits of the longest code's length that begin with the code of s.
Weight(d) == [s \in Coded(d) |-> 2 ^ (LongestCode(d) - d[s])]

\* The coded symbols are finitely many, and their lengths go up to the longest.
LEMMA CodedFacts ==
  ASSUME NEW d \in Descriptors, Coded(d) # {}
  PROVE  /\ IsFiniteSet(Coded(d)) /\ Cardinality(Coded(d)) \in Nat \ {0}
         /\ Coded(d) \subseteq Symbols
         /\ LongestCode(d) \in Nat
         /\ \A s \in Coded(d) : d[s] \in 1 .. LongestCode(d)
         /\ \E s \in Coded(d) : d[s] = LongestCode(d)
<1>1. IsFiniteSet(Symbols)
  <2>1. 0 \in Int /\ NumSymbols - 1 \in Int
    BY TableAssumption
  <2>2. IsFiniteSet(0 .. NumSymbols - 1)
    BY <2>1, FS_Interval, Zenon
  <2> QED
    BY <2>2, Zenon DEF Symbols
<1>2. Coded(d) \in SUBSET Symbols
  BY DEF Coded
<1>3. IsFiniteSet(Coded(d)) /\ Cardinality(Coded(d)) \in Nat \ {0}
  <2>1. IsFiniteSet(Coded(d))
    BY <1>1, <1>2, FS_Subset
  <2> QED
    BY <2>1, FS_CardinalityType, FS_EmptySet
<1>4. \A s \in Coded(d) : d[s] \in 1 .. Unused
  BY TableAssumption DEF Coded, Descriptors
<1> DEFINE S == {d[s] : s \in Coded(d)}
<1>5. LongestCode(d) = Max(S)
  BY DEF LongestCode
<1>6. S \in SUBSET (0 .. Unused) /\ S # {} /\ Unused \in Nat
  BY <1>4, TableAssumption
<1>7. Max(S) \in S /\ \A x \in S : x <= Max(S)
  <2> HIDE DEF S
  <2> QED
    BY <1>6, MaxIsGreatest
<1> QED
  BY <1>2, <1>3, <1>4, <1>5, <1>7

\* A sum over the lengths, as a sum over a function.
LEMMA ShareSum ==
  ASSUME NEW d \in Descriptors, Coded(d) # {}, NEW L
  PROVE  MapThenSumSet(LAMBDA s : 2 ^ (L - d[s]), Coded(d)) = SumOf(Share(d, L), Coded(d))
<1> DEFINE C == Coded(d)
           w == Share(d, L)
           A(g) == g = [s \in SUBSET C |->
                     IF s = {} THEN 0
                     ELSE 2 ^ (L - d[CHOOSE x \in s : TRUE])
                            + g[s \ {CHOOSE x \in s : TRUE}]]
           c == CHOOSE g : A(g)
<1>1. IsFiniteSet(C)
  BY CodedFacts
<1>2. \A g : A(g) <=> Adds(g, w, C)
  <2> TAKE g
  <2>1. \A s \in SUBSET C : s # {} =>
          w[CHOOSE x \in s : TRUE] = 2 ^ (L - d[CHOOSE x \in s : TRUE])
    BY DEF Share
  <2> HIDE DEF w, C
  <2>2. [s \in SUBSET C |->
           IF s = {} THEN 0
           ELSE w[CHOOSE x \in s : TRUE] + g[s \ {CHOOSE x \in s : TRUE}]]
        = [s \in SUBSET C |->
             IF s = {} THEN 0
             ELSE 2 ^ (L - d[CHOOSE x \in s : TRUE])
                    + g[s \ {CHOOSE x \in s : TRUE}]]
    BY <2>1
  <2> QED
    BY <2>2 DEF Adds
<1>3. A(c)
  <2>1. \E g : A(g)
    <3> HIDE DEF A, w, C
    <3> QED
      BY <1>1, <1>2, AddsExists
  <2> QED
    BY <2>1
<1>4. MapThenSumSet(LAMBDA s : 2 ^ (L - d[s]), C) = c[C]
  BY DEF MapThenSumSet, MapThenFoldSet
<1>5. Adds(c, w, C)
  BY <1>2, <1>3
<1>6. c[C] = SumOf(w, C)
  <2>1. C \in SUBSET C
    OBVIOUS
  <2>2. PICK h : Adds(h, w, C) /\ SumOf(w, C) = h[C]
    BY <1>1, SumIsAdds
  <2> HIDE DEF c, w, C
  <2>3. c[C] = h[C]
    BY <1>1, <1>5, <2>1, <2>2, AddsAgree
  <2> QED
    BY <2>2, <2>3
<1> QED
  BY <1>4, <1>6

\* The sum that kraft_check compares.
LEMMA KraftSum ==
  ASSUME NEW d \in Descriptors, Coded(d) # {}
  PROVE  MapThenSumSet(LAMBDA s : 2 ^ (LongestCode(d) - d[s]), Coded(d))
           = SumOf(Weight(d), Coded(d))
<1> DEFINE L == LongestCode(d)
<1>1. MapThenSumSet(LAMBDA s : 2 ^ (L - d[s]), Coded(d)) = SumOf(Share(d, L), Coded(d))
  BY ShareSum
<1> QED
  BY <1>1 DEF Share, Weight

\* KraftHolds by the same sum.
LEMMA KraftByShare ==
  ASSUME NEW d \in Descriptors, Coded(d) # {}
  PROVE  KraftHolds(d) <=> /\ LongestCode(d) <= WordBits
                           /\ SumOf(Share(d, LongestCode(d)), Coded(d)) = 2 ^ LongestCode(d)
<1> DEFINE L == LongestCode(d)
<1>1. MapThenSumSet(LAMBDA s : 2 ^ (L - d[s]), Coded(d)) = SumOf(Share(d, L), Coded(d))
  BY ShareSum
<1> QED
  BY <1>1 DEF KraftHolds

-----------------------------------------------------------------------------
(* The order in which codes are numbered *)

\* The symbols numbered before s, and the bits they take up of the code space.
Earlier(d, s) == {t \in Coded(d) : Before(d, t, s)}
StartOf(d, s) == SumOf(Weight(d), Earlier(d, s))

\* Being numbered before is a strict total order.
LEMMA EarlierFacts ==
  ASSUME NEW d \in Descriptors, Coded(d) # {}
  PROVE  /\ \A s \in Coded(d) : /\ IsFiniteSet(Earlier(d, s))
                                /\ Cardinality(Earlier(d, s)) \in 0 .. Cardinality(Coded(d)) - 1
         /\ \A s, t \in Coded(d) : s = t \/ Before(d, s, t) \/ Before(d, t, s)
         /\ \A s, t \in Coded(d) : Before(d, s, t) =>
              /\ s \in Earlier(d, t) /\ Earlier(d, s) \subseteq Earlier(d, t)
              /\ s \notin Earlier(d, s)
              /\ Cardinality(Earlier(d, s)) < Cardinality(Earlier(d, t))
<1> DEFINE C == Coded(d)
<1>1. \A s \in C : s \in Int /\ d[s] \in Int
  BY CodedFacts, TableAssumption DEF Symbols
<1>2. IsFiniteSet(C) /\ Cardinality(C) \in Nat
  BY CodedFacts
<1>3. \A s, t \in C : s = t \/ Before(d, s, t) \/ Before(d, t, s)
  BY <1>1 DEF Before
<1>4. \A s \in C : ~Before(d, s, s)
  BY <1>1 DEF Before
<1>5. \A r, s, t \in C : Before(d, r, s) /\ Before(d, s, t) => Before(d, r, t)
  BY <1>1 DEF Before
<1>6. \A s \in C : /\ IsFiniteSet(Earlier(d, s)) /\ Cardinality(Earlier(d, s)) \in Nat
                   /\ Cardinality(Earlier(d, s)) < Cardinality(C)
                   /\ s \notin Earlier(d, s)
  <2> TAKE s \in C
  <2>1. Earlier(d, s) \in SUBSET C /\ s \notin Earlier(d, s)
    BY <1>4 DEF Earlier
  <2>2. IsFiniteSet(Earlier(d, s)) /\ Cardinality(Earlier(d, s)) <= Cardinality(C)
        /\ (Cardinality(C) = Cardinality(Earlier(d, s)) => C = Earlier(d, s))
    BY <1>2, <2>1, FS_Subset
  <2>3. Cardinality(Earlier(d, s)) \in Nat
    BY <2>2, FS_CardinalityType
  <2>4. C # Earlier(d, s)
    BY <2>1
  <2> QED
    BY <1>2, <2>1, <2>2, <2>3, <2>4
<1>7. ASSUME NEW s \in C, NEW t \in C, Before(d, s, t)
      PROVE  /\ s \in Earlier(d, t) /\ Earlier(d, s) \subseteq Earlier(d, t)
             /\ Cardinality(Earlier(d, s)) < Cardinality(Earlier(d, t))
  <2>1. s \in Earlier(d, t)
    BY <1>7 DEF Earlier
  <2>2. Earlier(d, s) \subseteq Earlier(d, t)
    BY <1>5, <1>7 DEF Earlier
  <2> DEFINE A == Earlier(d, s)
             B == Earlier(d, t)
  <2>3. IsFiniteSet(B) /\ A \in SUBSET B /\ s \in B /\ s \notin A
    BY <1>6, <2>1, <2>2
  <2>4. Cardinality(A) \in Nat /\ Cardinality(B) \in Nat
    BY <1>6
  <2>5. Cardinality(A) < Cardinality(B)
    <3> HIDE DEF A, B
    <3>1. Cardinality(A) <= Cardinality(B) /\ (Cardinality(B) = Cardinality(A) => B = A)
      BY <2>3, FS_Subset
    <3>2. B # A
      BY <2>3
    <3> QED
      BY <2>4, <3>1, <3>2
  <2> QED
    BY <2>1, <2>2, <2>5
<1>8. \A s \in C : Cardinality(Earlier(d, s)) \in 0 .. Cardinality(C) - 1
  BY <1>2, <1>6
<1> QED
  BY <1>3, <1>6, <1>7, <1>8

\* Item enumerates the coded symbols in that order.
LEMMA ItemFacts ==
  ASSUME NEW d \in Descriptors, Coded(d) # {}
  PROVE  /\ \A i \in 1 .. Cardinality(Coded(d)) :
              Item(d, i) \in Coded(d) /\ Cardinality(Earlier(d, Item(d, i))) = i - 1
         /\ \A s \in Coded(d) : \A i \in 1 .. Cardinality(Coded(d)) :
              Item(d, i) = s <=> Cardinality(Earlier(d, s)) = i - 1
<1> DEFINE C == Coded(d)
           n == Cardinality(C)
           r(s) == Cardinality(Earlier(d, s))
           f == [s \in C |-> r(s) + 1]
<1>1. IsFiniteSet(C) /\ n \in Nat
  BY CodedFacts
<1>2. \A s \in C : r(s) \in 0 .. n - 1
  BY EarlierFacts
<1>3. \A s, t \in C : r(s) = r(t) => s = t
  <2> SUFFICES ASSUME NEW s \in C, NEW t \in C, r(s) = r(t), s # t PROVE FALSE
    OBVIOUS
  <2>1. Before(d, s, t) \/ Before(d, t, s)
    BY EarlierFacts
  <2>2. r(s) < r(t) \/ r(t) < r(s)
    BY <2>1, EarlierFacts
  <2>3. r(s) \in Int /\ r(t) \in Int
    BY <1>1, <1>2
  <2> QED
    BY <2>2, <2>3
<1>4. f \in Injection(C, 1 .. n)
  <2>1. f \in [C -> 1 .. n]
    <3>1. \A s \in C : r(s) + 1 \in 1 .. n
      BY <1>1, <1>2
    <3> HIDE DEF C, n, r
    <3> QED
      BY <3>1
  <2>2. \A s, t \in C : f[s] = f[t] => s = t
    <3> SUFFICES ASSUME NEW s \in C, NEW t \in C, f[s] = f[t] PROVE s = t
      OBVIOUS
    <3>1. r(s) + 1 = r(t) + 1 /\ r(s) \in Int /\ r(t) \in Int
      BY <1>1, <1>2
    <3>2. r(s) = r(t)
      <4> HIDE DEF r
      <4> QED
        BY <3>1
    <3> QED
      BY <1>3, <3>2
  <2> HIDE DEF f
  <2> QED
    BY <2>1, <2>2, Fun_IsInj
<1>5. IsFiniteSet(1 .. n) /\ Cardinality(1 .. n) = n
  <2>1. 1 \in Int /\ n \in Int
    BY <1>1
  <2>2. IsFiniteSet(1 .. n) /\ Cardinality(1 .. n) = IF 1 > n THEN 0 ELSE n - 1 + 1
    BY <2>1, FS_Interval
  <2> QED
    BY <1>1, <2>2
<1>6. f \in Surjection(C, 1 .. n)
  <2> HIDE DEF f
  <2> QED
    BY <1>4, <1>5, FS_Injection
<1>7. \A i \in 1 .. n : \E s \in C : f[s] = i
  BY <1>6 DEF Surjection
<1>8. \A i \in 1 .. n : \E s \in C : r(s) = i - 1
  <2> TAKE i \in 1 .. n
  <2>1. PICK s \in C : f[s] = i
    BY <1>7
  <2>2. r(s) + 1 = i /\ r(s) \in Int
    BY <1>1, <1>2, <2>1
  <2>3. r(s) = i - 1
    <3> HIDE DEF r
    <3> QED
      BY <2>2
  <2> QED
    BY <2>3
<1>9. \A i \in 1 .. n : Item(d, i) \in C /\ r(Item(d, i)) = i - 1
  <2> TAKE i \in 1 .. n
  <2>1. Item(d, i) = CHOOSE s \in C : r(s) = i - 1
    BY DEF Item, Earlier
  <2>2. \E s \in C : r(s) = i - 1
    BY <1>8
  <2> HIDE DEF r, C
  <2> QED
    BY <2>1, <2>2
<1> QED
  BY <1>3, <1>9

\* Each item starts where the one before it ends.
LEMMA ItemStarts ==
  ASSUME NEW d \in Descriptors, Coded(d) # {}
  PROVE  /\ StartOf(d, Item(d, 1)) = 0
         /\ \A i \in 1 .. Cardinality(Coded(d)) - 1 :
              /\ Earlier(d, Item(d, i + 1)) = Earlier(d, Item(d, i)) \cup {Item(d, i)}
              /\ StartOf(d, Item(d, i + 1)) =
                   StartOf(d, Item(d, i)) + Weight(d)[Item(d, i)]
              /\ Before(d, Item(d, i), Item(d, i + 1))
<1> DEFINE C == Coded(d)
           n == Cardinality(C)
<1>1. IsFiniteSet(C) /\ n \in Nat \ {0}
  BY CodedFacts
<1>2. \A s \in C : Weight(d)[s] \in Int
  <2> TAKE s \in C
  <2>1. LongestCode(d) - d[s] \in Nat
    BY CodedFacts
  <2> QED
    BY <2>1, PowPos DEF Weight
<1>3. StartOf(d, Item(d, 1)) = 0
  <2>1. 1 \in 1 .. n /\ 1 - 1 = 0
    BY <1>1
  <2>2. Item(d, 1) \in C /\ Cardinality(Earlier(d, Item(d, 1))) = 0
    BY <2>1, ItemFacts
  <2>3. IsFiniteSet(Earlier(d, Item(d, 1)))
    BY <2>2, EarlierFacts
  <2>4. Earlier(d, Item(d, 1)) = {}
    BY <2>2, <2>3, FS_EmptySet
  <2> QED
    BY <2>4, SumEmpty DEF StartOf
<1>4. ASSUME NEW i \in 1 .. n - 1
      PROVE  /\ Earlier(d, Item(d, i + 1)) = Earlier(d, Item(d, i)) \cup {Item(d, i)}
             /\ StartOf(d, Item(d, i + 1)) =
                  StartOf(d, Item(d, i)) + Weight(d)[Item(d, i)]
             /\ Before(d, Item(d, i), Item(d, i + 1))
  <2> DEFINE s == Item(d, i)
             t == Item(d, i + 1)
  <2>1. /\ s \in C /\ t \in C
        /\ Cardinality(Earlier(d, s)) = i - 1 /\ Cardinality(Earlier(d, t)) = i
        /\ i \in Nat
    <3>1. i \in 1 .. n /\ i + 1 \in 1 .. n /\ (i + 1) - 1 = i
      BY <1>1
    <3> QED
      BY <3>1, ItemFacts
  <2> HIDE DEF s, t
  <2>2. Before(d, s, t)
    <3>1. s # t
      BY <2>1
    <3>2. Before(d, t, s) => Cardinality(Earlier(d, t)) < Cardinality(Earlier(d, s))
      BY <2>1, EarlierFacts
    <3>3. s = t \/ Before(d, s, t) \/ Before(d, t, s)
      BY <2>1, EarlierFacts
    <3> QED
      BY <2>1, <3>1, <3>2, <3>3
  <2>3. Earlier(d, s) \cup {s} \subseteq Earlier(d, t) /\ s \notin Earlier(d, s)
    BY <2>1, <2>2, EarlierFacts
  <2>4. Earlier(d, t) \subseteq Earlier(d, s) \cup {s}
    <3> SUFFICES ASSUME NEW u \in Earlier(d, t), u # s PROVE u \in Earlier(d, s)
      OBVIOUS
    <3>1. u \in C /\ Before(d, u, t)
      BY DEF Earlier
    <3>2. Cardinality(Earlier(d, u)) < i /\ Cardinality(Earlier(d, u)) \in Nat
      BY <1>1, <2>1, <3>1, EarlierFacts
    <3>3. CASE Before(d, s, u)
      <4>1. i - 1 < Cardinality(Earlier(d, u))
        BY <2>1, <3>1, <3>3, EarlierFacts
      <4> QED
        BY <2>1, <3>2, <4>1
    <3>4. CASE Before(d, u, s)
      BY <3>1, <3>4 DEF Earlier
    <3>5. u = s \/ Before(d, s, u) \/ Before(d, u, s)
      BY <2>1, <3>1, EarlierFacts
    <3> QED
      BY <3>3, <3>4, <3>5
  <2>5. Earlier(d, t) = Earlier(d, s) \cup {s}
    BY <2>3, <2>4
  <2>6. SumOf(Weight(d), Earlier(d, s) \cup {s}) =
          Weight(d)[s] + SumOf(Weight(d), Earlier(d, s))
        /\ SumOf(Weight(d), Earlier(d, s)) \in Int
    <3>1. Earlier(d, s) \in SUBSET C
      BY DEF Earlier
    <3> QED
      BY <1>1, <1>2, <2>1, <2>3, <3>1, SumInt
  <2>7. StartOf(d, t) = StartOf(d, s) + Weight(d)[s]
    BY <1>2, <2>1, <2>5, <2>6 DEF StartOf
  <2> QED
    BY <2>2, <2>5, <2>7 DEF s, t
<1> QED
  BY <1>3, <1>4

-----------------------------------------------------------------------------
(* Every code starts at a multiple of the space it takes *)

\* The space a code takes, times the number of such codes, is all the space.
LEMMA WeightFacts ==
  ASSUME NEW d \in Descriptors, Coded(d) # {}
  PROVE  \A s \in Coded(d) : /\ Weight(d)[s] \in Nat /\ Weight(d)[s] >= 1
                             /\ d[s] \in Nat /\ LongestCode(d) - d[s] \in Nat
                             /\ 2 ^ d[s] \in Nat
                             /\ Weight(d)[s] = 2 ^ (LongestCode(d) - d[s])
                             /\ 2 ^ LongestCode(d) = Weight(d)[s] * 2 ^ d[s]
<1> TAKE s \in Coded(d)
<1>1. d[s] \in Nat /\ LongestCode(d) - d[s] \in Nat
  BY CodedFacts
<1>2. Weight(d)[s] = 2 ^ (LongestCode(d) - d[s])
  BY DEF Weight
<1>3. (LongestCode(d) - d[s]) + d[s] = LongestCode(d)
  BY CodedFacts
<1>4. 2 ^ LongestCode(d) = 2 ^ (LongestCode(d) - d[s]) * 2 ^ d[s]
  BY <1>1, <1>3, PowAdd
<1> QED
  BY <1>1, <1>2, <1>4, PowPos

\* The codes not numbered before s are no longer than it, so they take a
\* multiple of its space, and so do those before it.
LEMMA StartAligned ==
  ASSUME NEW d, Accepted(d), NEW s \in Coded(d)
  PROVE  \E N \in Nat : N < 2 ^ d[s] /\ StartOf(d, s) = Weight(d)[s] * N
<1> USE DEF Accepted
<1> DEFINE C == Coded(d)
           E == Earlier(d, s)
           R == C \ E
           w == Weight(d)
           q == [t \in R |-> 2 ^ (d[s] - d[t])]
<1>1. IsFiniteSet(C) /\ \A t \in C : w[t] \in Nat /\ w[t] >= 1
  BY CodedFacts, WeightFacts
<1>2. E \in SUBSET C /\ s \in R /\ IsFiniteSet(E) /\ IsFiniteSet(R)
  <2>1. E \in SUBSET C /\ IsFiniteSet(E)
    BY EarlierFacts DEF Earlier
  <2>2. s \notin E
    <3>1. s \in Int /\ d[s] \in Int
      BY CodedFacts, TableAssumption DEF Symbols
    <3> QED
      BY <3>1 DEF Earlier, Before
  <2> QED
    BY <1>1, <2>1, <2>2, FS_Difference
<1>3. \A t \in R : d[s] - d[t] \in Nat
  <2> TAKE t \in R
  <2>1. ~Before(d, t, s) /\ t \in C
    BY DEF Earlier
  <2>2. d[t] \in Int /\ d[s] \in Int
    BY <2>1, CodedFacts
  <2> QED
    BY <2>1, <2>2 DEF Before
<1>4. \A t \in R : q[t] \in Nat /\ w[t] = w[s] * q[t]
  <2> TAKE t \in R
  <2>1. q[t] = 2 ^ (d[s] - d[t]) /\ t \in C
    OBVIOUS
  <2>2. LongestCode(d) - d[s] \in Nat
    BY WeightFacts
  <2>3. (LongestCode(d) - d[s]) + (d[s] - d[t]) = LongestCode(d) - d[t]
    BY <2>1, CodedFacts
  <2>4. 2 ^ (LongestCode(d) - d[t]) = 2 ^ (LongestCode(d) - d[s]) * 2 ^ (d[s] - d[t])
    BY <1>3, <2>2, <2>3, PowAdd
  <2>5. 2 ^ (d[s] - d[t]) \in Nat
    BY <1>3, PowNat
  <2>6. w[t] = 2 ^ (LongestCode(d) - d[t]) /\ w[s] = 2 ^ (LongestCode(d) - d[s])
    BY <2>1, WeightFacts
  <2> QED
    BY <2>1, <2>4, <2>5, <2>6
<1>5. q[s] = 1
  <2>1. d[s] - d[s] = 0
    BY CodedFacts
  <2> QED
    BY <1>2, <2>1, PowZero
<1> HIDE DEF q, R, E, w
<1> DEFINE Q == SumOf(q, R)
           P == SumOf(w, E)
           D == 2 ^ d[s]
           c == w[s]
<1>6. Q \in Nat /\ Q >= 1
  <2>1. SumOf(q, R \ {s}) \in Nat
    <3>1. IsFiniteSet(R \ {s})
      BY <1>2, FS_RemoveElement
    <3> QED
      BY <1>4, <3>1, SumNat
  <2> DEFINE A == R \ {s}
             r == SumOf(q, A)
  <2>2. A \cup {s} = R /\ s \notin A /\ IsFiniteSet(A)
    BY <1>2, FS_RemoveElement
  <2>3. \A t \in A \cup {s} : q[t] \in Int
    BY <1>4, <2>2
  <2> HIDE DEF A
  <2>4. SumOf(q, A \cup {s}) = q[s] + SumOf(q, A)
    BY <2>2, <2>3, SumAdd
  <2>5. Q = 1 + r /\ r \in Nat
    BY <1>5, <2>1, <2>2, <2>4 DEF A
  <2> HIDE DEF Q, r
  <2> QED
    BY <2>5
<1>7. SumOf(w, R) = c * Q
  <2>1. c \in Int /\ \A t \in R : q[t] \in Int /\ w[t] = c * q[t]
    BY <1>1, <1>4
  <2> HIDE DEF c
  <2> QED
    BY <1>2, <2>1, SumTimes
<1>8. P \in Nat
  BY <1>1, <1>2, SumNat
<1>9. SumOf(w, C) = P + SumOf(w, R)
  <2>1. E \cap R = {} /\ E \cup R = C
    BY <1>2 DEF R
  <2>2. \A x \in E \cup R : w[x] \in Int
    BY <1>1, <2>1
  <2> QED
    BY <1>2, <2>1, <2>2, SumUnion
<1>10. SumOf(w, C) = 2 ^ LongestCode(d)
  BY KraftSum DEF KraftHolds, w
<1>11. SumOf(w, C) = c * D /\ D \in Nat
  BY <1>10, WeightFacts DEF w
<1>12. c \in Nat /\ c >= 1
  BY <1>1
<1>13. P + c * Q = c * D
  BY <1>7, <1>9, <1>11
<1>14. D - Q \in Nat /\ D - Q < D /\ P = c * (D - Q)
  <2> HIDE DEF P, Q, D, c
  <2>1. P = c * (D - Q)
    BY <1>6, <1>8, <1>11, <1>12, <1>13
  <2>2. ASSUME D < Q PROVE FALSE
    <3>1. c * (D - Q) <= c * (-1)
      <4>1. D - Q <= -1 /\ D - Q \in Int
        BY <1>6, <1>11, <2>2
      <4> DEFINE z == D - Q
      <4> HIDE DEF z
      <4>2. z \in Int /\ z <= -1 => c * z <= c * (-1)
        BY <1>12
      <4> QED
        BY <4>1, <4>2 DEF z
    <3> QED
      BY <1>8, <1>12, <2>1, <3>1
  <2> QED
    BY <1>6, <1>11, <2>1, <2>2
<1>15. StartOf(d, s) = P
  BY DEF StartOf, E, w
<1> QED
  BY <1>14, <1>15 DEF w

\* The code number of s.
NumberOf(d, s) == StartOf(d, s) \div Weight(d)[s]

\* The number of s times the space s takes is where s starts.
LEMMA NumberFacts ==
  ASSUME NEW d, Accepted(d)
  PROVE  \A s \in Coded(d) : /\ NumberOf(d, s) \in Nat /\ NumberOf(d, s) < 2 ^ d[s]
                             /\ StartOf(d, s) = Weight(d)[s] * NumberOf(d, s)
<1> TAKE s \in Coded(d)
<1>1. PICK N \in Nat : N < 2 ^ d[s] /\ StartOf(d, s) = Weight(d)[s] * N
  BY StartAligned
<1> DEFINE c == Weight(d)[s]
<1>2. c \in Nat /\ c >= 1
  BY WeightFacts DEF Accepted
<1>3. (c * N) \div c = N
  <2> HIDE DEF c
  <2> QED
    BY <1>2
<1> QED
  BY <1>1, <1>3 DEF NumberOf

\* One step of the numbering, in exact arithmetic.
LEMMA NextNumber ==
  ASSUME NEW a \in Nat, NEW b \in Nat, NEW c \in Nat, NEW e \in Nat, NEW D \in Nat,
         c >= 1, D >= 1, e = D * c, e * b = c * a + c
  PROVE  b * D = a + 1
<1>1. c * (D * b) = c * (a + 1)
  <2>1. e * b = (D * c) * b
    OBVIOUS
  <2>2. (D * c) * b = c * (D * b)
    OBVIOUS
  <2>3. c * a + c = c * (a + 1)
    OBVIOUS
  <2> QED
    BY <2>1, <2>2, <2>3
<1> DEFINE x == D * b
           y == a + 1
<1>2. x \in Nat /\ y \in Nat /\ c * x = c * y
  BY <1>1
<1>3. x = y
  <2> HIDE DEF x, y
  <2>1. c * (x - y) = 0
    BY <1>2
  <2> QED
    BY <1>2, <2>1
<1>4. b * D = D * b
  OBVIOUS
<1> QED
  BY <1>3, <1>4

\* The running code number is the start of the code over the space it takes.
LEMMA CodeNumbersAre ==
  ASSUME NEW d, Accepted(d)
  PROVE  CodeNumbers(d) = [s \in Coded(d) |-> NumberOf(d, s)]
<1> USE DEF Accepted
<1> DEFINE C == Coded(d)
           n == Cardinality(C)
           I(i) == Item(d, i)
           body(v, i) == LET next == v + 1
                             drop == d[Item(d, i - 1)] - d[Item(d, i)]
                         IN  IF drop > 0 THEN (next + 1) \div 2 ^ drop ELSE next
           A(g) == g = [i \in 1 .. n |-> IF i = 1 THEN 0 ELSE body(g[i - 1], i)]
           g == CHOOSE h : A(h)
           step == [p \in Nat \X (2 .. n) |-> body(p[1], p[2])]
<1>1. IsFiniteSet(C) /\ n \in Nat \ {0}
  BY CodedFacts
<1>2. \A i \in 1 .. n : I(i) \in C
  BY ItemFacts
<1>3. \A v \in Nat, i \in 2 .. n : body(v, i) \in Nat
  <2> TAKE v \in Nat, i \in 2 .. n
  <2>1. i \in 1 .. n /\ i - 1 \in 1 .. n
    BY <1>1
  <2>2. d[I(i)] \in Int /\ d[I(i - 1)] \in Int
    BY <1>2, <2>1, CodedFacts
  <2> DEFINE drop == d[I(i - 1)] - d[I(i)]
             D == 2 ^ drop
  <2>3. CASE drop > 0
    <3>1. drop \in Nat
      BY <2>2, <2>3
    <3>2. D \in Nat /\ D >= 1
      <4> HIDE DEF drop
      <4> QED
        BY <3>1, PowPos
    <3>3. (v + 2) \div D \in Nat
      <4> HIDE DEF D
      <4> QED
        BY <3>2
    <3>4. body(v, i) = ((v + 1) + 1) \div D /\ (v + 1) + 1 = v + 2
      BY <2>3
    <3> HIDE DEF D
    <3> QED
      BY <3>3, <3>4
  <2>4. CASE ~(drop > 0)
    BY <2>4
  <2> QED
    BY <2>3, <2>4
<1>4. \E h : A(h)
  <2>1. \A v \in Nat, i \in 1 + 1 .. n : step[<<v, i>>] \in Nat
    <3> TAKE v \in Nat, i \in 1 + 1 .. n
    <3>1. i \in 2 .. n
      BY <1>1
    <3>2. step[<<v, i>>] = body(v, i)
      BY <3>1
    <3> QED
      BY <1>3, <3>1, <3>2
  <2> HIDE DEF step
  <2>2. PICK h \in [1 .. n -> Nat] : Recurs(h, 1, n, 0, step)
    <3>1. 0 \in Nat /\ 1 \in Int /\ n \in Int
      BY <1>1
    <3> HIDE DEF n
    <3> QED
      BY <2>1, <3>1, RecursionExists
  <2>3. h = [i \in 1 .. n |-> IF i = 1 THEN 0 ELSE step[<<h[i - 1], i>>]]
    BY <2>2 DEF Recurs
  <2>4. \A i \in 1 .. n : i # 1 => step[<<h[i - 1], i>>] = body(h[i - 1], i)
    <3> TAKE i \in 1 .. n
    <3> HAVE i # 1
    <3>1. i - 1 \in 1 .. n /\ i \in 2 .. n
      BY <1>1
    <3>2. h[i - 1] \in Nat
      BY <2>2, <3>1
    <3> HIDE DEF body
    <3> QED
      BY <3>1, <3>2 DEF step
  <2>5. A(h)
    <3> HIDE DEF body, n, step
    <3> QED
      BY <2>3, <2>4
  <2> QED
    BY <2>5
<1>5. A(g)
  <2> HIDE DEF A
  <2> QED
    BY <1>4
<1>6. \A k \in Nat : k + 1 <= n => g[k + 1] = NumberOf(d, I(k + 1))
  <2> DEFINE G == {k \in Nat : k + 1 <= n => g[k + 1] = NumberOf(d, I(k + 1))}
  <2> HIDE DEF g
  <2>1. 0 \in G
    <3>1. g[1] = 0
      BY <1>1, <1>5
    <3>2. I(1) \in C /\ StartOf(d, I(1)) = 0
      BY <1>1, <1>2, ItemStarts
    <3>3. 0 \div Weight(d)[I(1)] = 0
      <4>1. Weight(d)[I(1)] \in Nat /\ Weight(d)[I(1)] >= 1
        BY <3>2, WeightFacts
      <4> DEFINE c == Weight(d)[I(1)]
      <4> HIDE DEF c
      <4> QED
        BY <4>1 DEF c
    <3> QED
      BY <3>1, <3>2, <3>3 DEF NumberOf
  <2>2. \A k \in Nat : k \in G => k + 1 \in G
    <3> SUFFICES ASSUME NEW k \in Nat, k \in G, (k + 1) + 1 <= n
                 PROVE  g[(k + 1) + 1] = NumberOf(d, I((k + 1) + 1))
      OBVIOUS
    <3> DEFINE i == k + 1
               s == I(i)
               t == I(i + 1)
               drop == d[s] - d[t]
    <3>1. i \in 1 .. n - 1 /\ i \in 1 .. n /\ i + 1 \in 1 .. n /\ (i + 1) - 1 = i /\ i + 1 # 1
      BY <1>1
    <3>2. g[i] = NumberOf(d, s)
      BY <1>1
    <3>3. g[i + 1] = body(g[i], i + 1)
      <4> HIDE DEF body, i, n
      <4> QED
        BY <1>5, <3>1
    <3>4. body(g[i], i + 1) =
            IF drop > 0 THEN ((g[i] + 1) + 1) \div 2 ^ drop ELSE g[i] + 1
      BY <3>1
    <3> HIDE DEF body
    <3>5. s \in C /\ t \in C
      BY <1>2, <3>1
    <3>6. StartOf(d, t) = StartOf(d, s) + Weight(d)[s] /\ Before(d, s, t)
      BY <3>1, ItemStarts
    <3> HIDE DEF i, s, t
    <3>7. drop \in Nat
      BY <3>5, <3>6, CodedFacts DEF Before
    <3> DEFINE a == NumberOf(d, s)
               b == NumberOf(d, t)
               c == Weight(d)[s]
               e == Weight(d)[t]
               D == 2 ^ drop
    <3>8. a \in Nat /\ b \in Nat /\ c \in Nat /\ c >= 1 /\ e \in Nat
          /\ StartOf(d, s) = c * a /\ StartOf(d, t) = e * b
      BY <3>5, NumberFacts, WeightFacts
    <3>9. D \in Nat /\ D >= 1 /\ (drop > 0 => D >= 2) /\ (drop = 0 => D = 1)
      <4> HIDE DEF drop
      <4>1. D \in Nat /\ D >= 1 /\ (drop = 0 => D = 1)
        BY <3>7, PowPos, PowZero
      <4>2. ASSUME drop > 0 PROVE D >= 2
        <5>1. drop - 1 \in Nat /\ (drop - 1) + 1 = drop
          BY <3>7, <4>2
        <5>2. 2 ^ drop = 2 * 2 ^ (drop - 1) /\ 2 ^ (drop - 1) >= 1 /\ 2 ^ (drop - 1) \in Nat
          BY <5>1, PowStep, PowPos
        <5> DEFINE z == 2 ^ (drop - 1)
        <5>3. D = 2 * z /\ z >= 1 /\ z \in Nat
          BY <5>2
        <5> HIDE DEF z, D
        <5> QED
          BY <5>3
      <4> QED
        BY <4>1, <4>2
    <3>10. e = D * c
      <4>1. e = 2 ^ (LongestCode(d) - d[t]) /\ c = 2 ^ (LongestCode(d) - d[s])
            /\ LongestCode(d) - d[s] \in Nat
        BY <3>5, WeightFacts
      <4>2. drop + (LongestCode(d) - d[s]) = LongestCode(d) - d[t]
        BY <3>5, CodedFacts
      <4> HIDE DEF drop
      <4> QED
        BY <3>7, <4>1, <4>2, PowAdd
    <3>11. b * D = a + 1
      <4>1. e * b = c * a + c
        BY <3>6, <3>8
      <4> HIDE DEF a, b, c, e, D
      <4> QED
        BY <3>8, <3>9, <3>10, <4>1, NextNumber
    <3>12. (IF drop > 0 THEN ((a + 1) + 1) \div D ELSE a + 1) = b
      <4>1. CASE drop > 0
        <5>1. D >= 2
          BY <3>9, <4>1
        <5>2. ((a + 1) + 1) \div D = b
          <6> HIDE DEF a, b, D
          <6>1. (a + 1) + 1 = b * D + 1
            BY <3>8, <3>11
          <6>2. (b * D + 1) \div D = b
            BY <3>8, <3>9, <5>1
          <6> QED
            BY <6>1, <6>2
        <5> HIDE DEF a, b, D
        <5> QED
          BY <4>1, <5>2
      <4>2. CASE drop = 0
        <5>1. b = a + 1
          <6> HIDE DEF a, b, D, drop
          <6> QED
            BY <3>8, <3>9, <3>11, <4>2
        <5> HIDE DEF a, b, D
        <5> QED
          BY <4>2, <5>1
      <4> QED
        BY <3>7, <4>1, <4>2
    <3>13. g[i + 1] = b
      BY <3>2, <3>3, <3>4, <3>12
    <3> QED
      BY <3>13 DEF i, t
  <2> HIDE DEF G
  <2>3. \A k \in Nat : k \in G
    BY <2>1, <2>2, NatInduct
  <2> QED
    BY <2>3 DEF G
<1>7. \A i \in 1 .. n : g[i] = NumberOf(d, I(i))
  <2> TAKE i \in 1 .. n
  <2>1. i - 1 \in Nat /\ (i - 1) + 1 = i /\ i <= n
    BY <1>1
  <2> HIDE DEF g
  <2> QED
    BY <1>6, <2>1
<1>8. CodeNumbers(d) = [s \in C |-> g[CHOOSE i \in 1 .. n : I(i) = s]]
  BY DEF CodeNumbers
<1>9. \A s \in C : g[CHOOSE i \in 1 .. n : I(i) = s] = NumberOf(d, s)
  <2> TAKE s \in C
  <2>1. \E i \in 1 .. n : I(i) = s
    <3>1. Cardinality(Earlier(d, s)) \in 0 .. n - 1
      BY EarlierFacts
    <3>2. Cardinality(Earlier(d, s)) + 1 \in 1 .. n
          /\ (Cardinality(Earlier(d, s)) + 1) - 1 = Cardinality(Earlier(d, s))
      BY <1>1, <3>1
    <3>3. I(Cardinality(Earlier(d, s)) + 1) = s
      BY <3>2, ItemFacts
    <3> QED
      BY <3>2, <3>3
  <2> DEFINE k == CHOOSE i \in 1 .. n : I(i) = s
  <2>2. k \in 1 .. n /\ I(k) = s
    <3> HIDE DEF n, I
    <3> QED
      BY <2>1
  <2> HIDE DEF k, g
  <2>3. g[k] = NumberOf(d, s)
    BY <1>7, <2>2
  <2> QED
    BY <2>3 DEF k
<1> HIDE DEF g
<1> QED
  BY <1>8, <1>9

-----------------------------------------------------------------------------
(* The codes cut the code space into intervals, without a gap *)

\* A code starts where those before it have ended.
LEMMA StartsApart ==
  ASSUME NEW d, Accepted(d), NEW s \in Coded(d), NEW t \in Coded(d), Before(d, s, t)
  PROVE  StartOf(d, s) + Weight(d)[s] <= StartOf(d, t)
<1> USE DEF Accepted
<1> DEFINE w == Weight(d)
           A == Earlier(d, s)
           B == Earlier(d, t)
           R == B \ (A \cup {s})
<1>1. \A x \in Coded(d) : w[x] \in Nat
  BY WeightFacts
<1>2. A \cup {s} \subseteq B /\ s \notin A /\ IsFiniteSet(A) /\ IsFiniteSet(B)
      /\ B \subseteq Coded(d)
  <2>1. A \subseteq B /\ s \in B /\ s \notin A
    BY EarlierFacts
  <2>2. IsFiniteSet(A) /\ IsFiniteSet(B)
    BY EarlierFacts
  <2>3. B \subseteq Coded(d)
    BY DEF Earlier
  <2> QED
    BY <2>1, <2>2, <2>3
<1>3. StartOf(d, s) = SumOf(w, A) /\ StartOf(d, t) = SumOf(w, B)
  BY DEF StartOf
<1> HIDE DEF A, B, w
<1>4. SumOf(w, A \cup {s}) = w[s] + SumOf(w, A) /\ SumOf(w, A) \in Int
  <2>1. \A x \in A \cup {s} : w[x] \in Int
    BY <1>1, <1>2
  <2> QED
    BY <1>2, <2>1, SumAdd
<1>5. SumOf(w, B) = SumOf(w, A \cup {s}) + SumOf(w, R)
  <2>1. IsFiniteSet(A \cup {s}) /\ IsFiniteSet(R)
    BY <1>2, FS_AddElement, FS_Difference
  <2> DEFINE E == A \cup {s}
  <2>2. E \cap R = {} /\ E \cup R = B /\ \A x \in E \cup R : w[x] \in Int
    BY <1>1, <1>2
  <2> HIDE DEF E, R
  <2>3. SumOf(w, E \cup R) = SumOf(w, E) + SumOf(w, R)
    BY <2>1, <2>2, SumUnion DEF E
  <2> QED
    BY <2>2, <2>3 DEF E
<1>6. SumOf(w, R) \in Nat
  <2>1. IsFiniteSet(R) /\ \A x \in R : w[x] \in Nat
    BY <1>1, <1>2, FS_Difference
  <2> HIDE DEF R
  <2> QED
    BY <2>1, SumNat
<1> DEFINE a == SumOf(w, A)
           b == SumOf(w, B)
           e == SumOf(w, A \cup {s})
           r == SumOf(w, R)
<1>7. a + w[s] <= b
  <2>1. e = w[s] + a /\ a \in Int /\ b = e + r /\ r \in Nat /\ w[s] \in Nat
    BY <1>1, <1>4, <1>5, <1>6
  <2> HIDE DEF a, b, e, r
  <2> QED
    BY <2>1
<1> QED
  BY <1>3, <1>7 DEF w

\* Exactly one code takes the space at v.
LEMMA IntervalOf ==
  ASSUME NEW d, Accepted(d), NEW v \in Nat, v < 2 ^ LongestCode(d)
  PROVE  \E s \in Coded(d) : /\ StartOf(d, s) <= v /\ v < StartOf(d, s) + Weight(d)[s]
                             /\ \A t \in Coded(d) :
                                  StartOf(d, t) <= v /\ v < StartOf(d, t) + Weight(d)[t] => t = s
<1> USE DEF Accepted
<1> DEFINE C == Coded(d)
           n == Cardinality(C)
           w == Weight(d)
           I(i) == Item(d, i)
           In(s) == StartOf(d, s) <= v /\ v < StartOf(d, s) + w[s]
<1>1. IsFiniteSet(C) /\ n \in Nat \ {0}
  BY CodedFacts
<1>2. \A i \in 1 .. n : I(i) \in C
  BY ItemFacts
<1>3. \A s \in C : StartOf(d, s) \in Nat /\ w[s] \in Nat
  <2> TAKE s \in C
  <2>1. w[s] \in Nat /\ \A t \in C : w[t] \in Nat
    BY WeightFacts
  <2>2. IsFiniteSet(Earlier(d, s)) /\ Earlier(d, s) \subseteq C
    BY EarlierFacts DEF Earlier
  <2>3. SumOf(w, Earlier(d, s)) \in Nat
    BY <2>1, <2>2, SumNat
  <2> QED
    BY <2>1, <2>3 DEF StartOf
<1>4. \A s, t \in C : In(s) /\ In(t) => t = s
  <2> SUFFICES ASSUME NEW s \in C, NEW t \in C, In(s), In(t), s # t PROVE FALSE
    OBVIOUS
  <2>1. Before(d, s, t) \/ Before(d, t, s)
    BY EarlierFacts
  <2>2. StartOf(d, s) + w[s] <= StartOf(d, t) \/ StartOf(d, t) + w[t] <= StartOf(d, s)
    BY <2>1, StartsApart
  <2>3. StartOf(d, s) \in Nat /\ StartOf(d, t) \in Nat /\ w[s] \in Nat /\ w[t] \in Nat
    BY <1>3
  <2> HIDE DEF w
  <2> QED
    BY <2>2, <2>3
<1>5. StartOf(d, I(n)) + w[I(n)] = 2 ^ LongestCode(d)
  <2>1. I(n) \in C /\ Cardinality(Earlier(d, I(n))) = n - 1
    BY <1>1, ItemFacts
  <2> DEFINE s == I(n)
             E == Earlier(d, s)
  <2>2. IsFiniteSet(E) /\ E \subseteq C /\ s \notin E
    <3>1. s \in Int /\ d[s] \in Int
      BY <2>1, CodedFacts, TableAssumption DEF Symbols
    <3>2. s \notin E
      BY <3>1 DEF Earlier, Before
    <3>3. IsFiniteSet(E) /\ E \subseteq C
      BY <2>1, EarlierFacts DEF Earlier
    <3> QED
      BY <3>2, <3>3
  <2>3. E \cup {s} = C
    <3>1. Cardinality(E \cup {s}) = n
      <4>1. Cardinality(E \cup {s}) = Cardinality(E) + 1
        BY <2>2, FS_AddElement
      <4> QED
        BY <1>1, <2>1, <4>1
    <3>2. E \cup {s} \in SUBSET C
      BY <2>1, <2>2
    <3> QED
      BY <1>1, <3>1, <3>2, FS_Subset
  <2>4. SumOf(w, E \cup {s}) = w[s] + SumOf(w, E) /\ SumOf(w, E) \in Int
    <3>1. \A x \in E \cup {s} : w[x] \in Int
      BY <1>3, <2>1, <2>2
    <3> HIDE DEF E, s, w
    <3> QED
      BY <2>2, <3>1, SumAdd
  <2>5. SumOf(w, C) = 2 ^ LongestCode(d)
    BY KraftSum DEF KraftHolds
  <2>6. StartOf(d, s) = SumOf(w, E)
    BY DEF StartOf
  <2> HIDE DEF E, s, w
  <2>7. w[s] \in Int
    BY <1>3, <2>1 DEF s
  <2> DEFINE a == SumOf(w, E)
  <2>8. a + w[s] = w[s] + a
    <3>1. a \in Int
      BY <2>4
    <3> HIDE DEF a
    <3> QED
      BY <2>7, <3>1
  <2>9. StartOf(d, s) + w[s] = 2 ^ LongestCode(d)
    BY <2>3, <2>4, <2>5, <2>6, <2>8
  <2> QED
    BY <2>9 DEF s, w
<1>6. \A k \in Nat : k + 1 <= n /\ v < StartOf(d, I(k + 1)) + w[I(k + 1)] => \E s \in C : In(s)
  <2> DEFINE G == {k \in Nat : k + 1 <= n /\ v < StartOf(d, I(k + 1)) + w[I(k + 1)]
                                  => \E s \in C : In(s)}
  <2>1. 0 \in G
    <3>1. StartOf(d, I(1)) = 0 /\ I(1) \in C
      BY <1>1, <1>2, ItemStarts
    <3> HIDE DEF w, I
    <3> QED
      BY <3>1
  <2>2. \A k \in Nat : k \in G => k + 1 \in G
    <3> SUFFICES ASSUME NEW k \in Nat, k \in G, (k + 1) + 1 <= n,
                        v < StartOf(d, I((k + 1) + 1)) + w[I((k + 1) + 1)]
                 PROVE  \E s \in C : In(s)
      OBVIOUS
    <3>1. k + 1 \in 1 .. n - 1 /\ (k + 1) + 1 \in 1 .. n
      BY <1>1
    <3>2. StartOf(d, I((k + 1) + 1)) = StartOf(d, I(k + 1)) + w[I(k + 1)]
      BY <3>1, ItemStarts
    <3>3. I((k + 1) + 1) \in C
      BY <1>2, <3>1
    <3>4. CASE StartOf(d, I((k + 1) + 1)) <= v
      BY <3>3, <3>4
    <3>5. CASE ~(StartOf(d, I((k + 1) + 1)) <= v)
      <4>1. v < StartOf(d, I(k + 1)) + w[I(k + 1)]
        <5> DEFINE a == StartOf(d, I((k + 1) + 1))
        <5>1. a \in Nat /\ ~(a <= v)
          BY <1>3, <3>3, <3>5
        <5>2. v < a
          <6> HIDE DEF a
          <6> QED
            BY <5>1
        <5> QED
          BY <3>2, <5>2
      <4>2. k + 1 <= n
        BY <1>1
      <4> QED
        BY <4>1, <4>2
    <3> QED
      BY <3>4, <3>5
  <2> HIDE DEF G
  <2>3. \A k \in Nat : k \in G
    BY <2>1, <2>2, NatInduct
  <2> QED
    BY <2>3 DEF G
<1>7. \E s \in C : In(s)
  <2>1. n - 1 \in Nat /\ (n - 1) + 1 = n /\ n <= n
    BY <1>1
  <2> HIDE DEF In, w, C, I
  <2>2. v < StartOf(d, I(n)) + w[I(n)]
    BY <1>5
  <2> QED
    BY <1>6, <2>1, <2>2
<1> QED
  BY <1>4, <1>7

-----------------------------------------------------------------------------
(* Reading bits *)

\* The numbers that the bits read so far make.
Reads(V, bits, L) ==
  /\ V \in [0 .. L -> Nat] /\ V[0] = 0
  /\ \A i \in 1 .. L : V[i] = 2 * V[i - 1] + bits[i]

\* The bits of a stream make numbers.
LEMMA ReadsExists ==
  ASSUME NEW L \in Nat, NEW bits \in [1 .. L -> Bit]
  PROVE  \E V : Reads(V, bits, L)
<1> DEFINE step == [p \in Nat \X (1 .. L) |-> 2 * p[1] + bits[p[2]]]
<1>1. \A v \in Nat, i \in 0 + 1 .. L : step[<<v, i>>] \in Nat
  BY DEF Bit
<1>2. 0 \in Int /\ L \in Int /\ 0 \in Nat
  OBVIOUS
<1>3. PICK V \in [0 .. L -> Nat] : Recurs(V, 0, L, 0, step)
  <2> HIDE DEF step
  <2> QED
    BY <1>1, <1>2, RecursionExists
<1>4. \A i \in 1 .. L : V[i] = 2 * V[i - 1] + bits[i]
  <2> TAKE i \in 1 .. L
  <2>1. i \in 0 .. L /\ i # 0 /\ i - 1 \in 0 .. L
    OBVIOUS
  <2>2. V[i] = step[<<V[i - 1], i>>] /\ V[i - 1] \in Nat
    BY <1>3, <2>1 DEF Recurs
  <2>3. step[<<V[i - 1], i>>] = 2 * V[i - 1] + bits[i]
    BY <2>2
  <2> QED
    BY <2>2, <2>3
<1>5. V[0] = 0
  BY <1>3 DEF Recurs
<1> QED
  BY <1>3, <1>4, <1>5 DEF Reads

\* What more bits add to a number.
LEMMA ReadsGrow ==
  ASSUME NEW L \in Nat, NEW bits \in [1 .. L -> Bit], NEW V, Reads(V, bits, L),
         NEW k \in Nat, NEW m \in Nat, k + m <= L
  PROVE  2 ^ m * V[k] <= V[k + m] /\ V[k + m] < 2 ^ m * (V[k] + 1)
<1> DEFINE v == V[k]
           G == {j \in Nat : k + j <= L => 2 ^ j * v <= V[k + j] /\ V[k + j] < 2 ^ j * (v + 1)}
<1>1. v \in Nat
  BY DEF Reads
<1>2. 0 \in G
  <2>1. k + 0 = k /\ 1 * v <= v /\ v < 1 * (v + 1)
    <3> HIDE DEF v
    <3> QED
      BY <1>1
  <2> QED
    BY <2>1, PowZero
<1>3. \A j \in Nat : j \in G => j + 1 \in G
  <2> SUFFICES ASSUME NEW j \in Nat, j \in G, k + (j + 1) <= L
               PROVE  2 ^ (j + 1) * v <= V[k + (j + 1)] /\ V[k + (j + 1)] < 2 ^ (j + 1) * (v + 1)
    OBVIOUS
  <2> DEFINE p == 2 ^ j
             a == V[k + j]
             b == V[k + (j + 1)]
             x == bits[k + (j + 1)]
  <2>1. p \in Nat /\ 2 ^ (j + 1) = 2 * p
    BY PowNat, PowStep
  <2>2. p * v <= a /\ a < p * (v + 1)
    OBVIOUS
  <2>3. b = 2 * a + x /\ x \in Bit /\ a \in Nat
    <3>1. k + (j + 1) \in 1 .. L /\ (k + (j + 1)) - 1 = k + j /\ k + j \in 0 .. L
      OBVIOUS
    <3> QED
      BY <3>1 DEF Reads
  <2>4. (2 * p) * v <= b /\ b < (2 * p) * (v + 1)
    <3> HIDE DEF p, a, b, x, v
    <3>1. (2 * p) * v = 2 * (p * v) /\ (2 * p) * (v + 1) = 2 * (p * (v + 1))
      BY <1>1, <2>1
    <3> DEFINE y == p * v
               z == p * (v + 1)
    <3>2. y \in Nat /\ z \in Nat /\ y <= a /\ a < z
      BY <1>1, <2>1, <2>2
    <3>3. 2 * y <= b /\ b < 2 * z
      <4> HIDE DEF y, z
      <4> QED
        BY <2>3, <3>2 DEF Bit
    <3> QED
      BY <3>1, <3>3
  <2> QED
    BY <2>1, <2>4
<1>4. m \in G
  <2> HIDE DEF G
  <2> QED
    BY <1>2, <1>3, NatInduct
<1> QED
  BY <1>4

\* The bits begin with a number written in n bits when they make that number.
LEMMA MatchesNumber ==
  ASSUME NEW L \in Nat, NEW bits \in [1 .. L -> Bit], NEW V, Reads(V, bits, L),
         NEW n \in Nat, n <= L, NEW N \in Nat, N < 2 ^ n
  PROVE  Matches(BitsOf(N, n), bits, 0) <=> V[n] = N
<1> DEFINE code == BitsOf(N, n)
           Q(i) == N \div 2 ^ (n - i)
<1>1. code = [i \in 1 .. n |-> Q(i) % 2] /\ Len(code) = n
  <2>1. code = [i \in 1 .. n |-> Q(i) % 2]
    BY DEF BitsOf
  <2> HIDE DEF Q, code
  <2> QED
    BY <2>1
<1>2. Matches(code, bits, 0) <=> \A i \in 1 .. n : bits[i] = Q(i) % 2
  <2> HIDE DEF Q, code
  <2>1. \A i \in 1 .. n : 0 + i = i
    OBVIOUS
  <2> QED
    BY <1>1, <2>1 DEF Matches
<1>3. \A i \in 1 .. n : /\ 2 * Q(i - 1) + (Q(i) % 2) = Q(i)
                        /\ Q(i) \in Nat
  <2> TAKE i \in 1 .. n
  <2> DEFINE p == 2 ^ (n - i)
  <2>1. n - (i - 1) \in Nat /\ n - (i - 1) > 0 /\ (n - (i - 1)) - 1 = n - i
    OBVIOUS
  <2>2. 2 ^ (n - (i - 1)) = 2 * p /\ p \in Nat /\ p >= 1
    BY <2>1, PowSucc
  <2> HIDE DEF p
  <2>3. 2 * (N \div (2 * p)) + ((N \div p) % 2) = N \div p
    BY <2>2, HalfStep
  <2>4. N \div p \in Nat
    BY <2>2
  <2> QED
    BY <2>2, <2>3, <2>4 DEF p
<1>4. Q(0) = 0
  <2>1. n - 0 = n /\ 2 ^ n \in Nat /\ 2 ^ n >= 1
    BY PowPos
  <2> DEFINE p == 2 ^ n
  <2>2. N \div p = 0
    <3>1. p \in Nat /\ p >= 1 /\ N < p
      BY <2>1
    <3> HIDE DEF p
    <3> QED
      BY <3>1
  <2> QED
    BY <2>1, <2>2
<1>5. Q(n) = N
  <2>1. n - n = 0 /\ N \div 1 = N
    OBVIOUS
  <2> QED
    BY <2>1, PowZero
<1> HIDE DEF Q, code
<1>6. ASSUME \A i \in 1 .. n : bits[i] = Q(i) % 2 PROVE V[n] = N
  <2> DEFINE G == {j \in Nat : j <= n => V[j] = Q(j)}
  <2>1. 0 \in G
    BY <1>4 DEF Reads
  <2>2. \A j \in Nat : j \in G => j + 1 \in G
    <3> SUFFICES ASSUME NEW j \in Nat, j \in G, j + 1 <= n PROVE V[j + 1] = Q(j + 1)
      OBVIOUS
    <3>1. V[j] = Q(j) /\ j + 1 \in 1 .. L /\ j + 1 \in 1 .. n /\ (j + 1) - 1 = j
      OBVIOUS
    <3>2. V[j + 1] = 2 * V[j] + bits[j + 1]
      BY <3>1 DEF Reads
    <3>3. bits[j + 1] = Q(j + 1) % 2
      BY <1>6, <3>1
    <3>4. 2 * Q(j) + (Q(j + 1) % 2) = Q(j + 1)
      BY <1>3, <3>1
    <3> QED
      BY <3>1, <3>2, <3>3, <3>4
  <2>3. n \in G
    <3> HIDE DEF G
    <3> QED
      BY <2>1, <2>2, NatInduct
  <2> QED
    BY <1>5, <2>3
<1>7. ASSUME V[n] = N, NEW i \in 1 .. n PROVE bits[i] = Q(i) % 2
  <2>1. i \in Nat /\ n - i \in Nat /\ i + (n - i) = n /\ i \in 0 .. L
    OBVIOUS
  <2> DEFINE p == 2 ^ (n - i)
             v == V[i]
  <2>2. p * v <= N /\ N < p * (v + 1)
    BY <1>7, <2>1, ReadsGrow
  <2>3. p \in Nat /\ p >= 1 /\ v \in Nat
    BY <2>1, PowPos DEF Reads
  <2>4. Q(i) = v
    <3>1. Q(i) = N \div p
      BY DEF Q
    <3> HIDE DEF p, v
    <3> QED
      BY <2>2, <2>3, <3>1
  <2>5. v = 2 * V[i - 1] + bits[i] /\ V[i - 1] \in Nat /\ bits[i] \in Bit
    <3>1. i \in 1 .. L /\ i - 1 \in 0 .. L
      OBVIOUS
    <3> QED
      BY <3>1 DEF Reads
  <2>6. v % 2 = bits[i]
    <3> HIDE DEF v
    <3> QED
      BY <2>5 DEF Bit
  <2> QED
    BY <2>4, <2>6
<1> QED
  BY <1>2, <1>6, <1>7 DEF code

-----------------------------------------------------------------------------
(* A complete code *)

\* A number written in n bits is n bits.
LEMMA BitsOfBits ==
  ASSUME NEW N \in Nat, NEW n \in Nat
  PROVE  BitsOf(N, n) \in Seq(Bit) /\ Len(BitsOf(N, n)) = n
<1> DEFINE Q(i) == N \div 2 ^ (n - i)
<1>1. \A i \in 1 .. n : Q(i) % 2 \in Bit
  <2> TAKE i \in 1 .. n
  <2> DEFINE p == 2 ^ (n - i)
  <2>1. n - i \in Nat
    OBVIOUS
  <2>2. p \in Nat /\ p >= 1
    BY <2>1, PowPos
  <2>3. (N \div p) % 2 \in {0, 1}
    <3> HIDE DEF p
    <3> QED
      BY <2>2
  <2> QED
    BY <2>3 DEF Bit
<1>2. BitsOf(N, n) = [i \in 1 .. n |-> Q(i) % 2]
  BY DEF BitsOf
<1> HIDE DEF Q
<1> QED
  BY <1>1, <1>2

\* Every codebook that kraft_check lets through reads every stream in one way.
LEMMA CompleteCode ==
  ASSUME NEW d, Accepted(d), Zeros(d) = {}
  PROVE  OneCodeFirst(Table(d))
<1> USE DEF Accepted
<1> DEFINE C == Coded(d)
           L == LongestCode(d)
           table == Table(d)
<1>1. /\ table.code = [s \in C |-> BitsOf(NumberOf(d, s), d[s])]
      /\ table.longest = L /\ DOMAIN table.code = C
  <2>1. table.code = Codebook(d) /\ table.longest = L
    BY DEF Table
  <2>2. Codebook(d) = [s \in C |-> BitsOf(CodeNumbers(d)[s], d[s])]
    BY DEF Codebook
  <2>3. \A s \in C : CodeNumbers(d)[s] = NumberOf(d, s)
    BY CodeNumbersAre
  <2> QED
    BY <2>1, <2>2, <2>3
<1>2. \A s \in C : /\ d[s] \in Nat /\ d[s] \in 1 .. WordBits /\ d[s] <= L
                   /\ NumberOf(d, s) \in Nat /\ NumberOf(d, s) < 2 ^ d[s]
                   /\ s \in Symbols
  <2> TAKE s \in C
  <2>1. d[s] \in 1 .. L /\ L \in Nat /\ L <= WordBits /\ s \in Symbols
    BY CodedFacts DEF KraftHolds
  <2>2. WordBits \in Nat
    BY TableAssumption
  <2> QED
    BY <2>1, <2>2, NumberFacts
<1>3. \A s \in C : /\ table.code[s] = BitsOf(NumberOf(d, s), d[s])
                   /\ table.code[s] \in Seq(Bit) /\ Len(table.code[s]) = d[s]
  BY <1>1, <1>2, BitsOfBits
<1>4. L \in Nat
  BY CodedFacts
<1> HIDE DEF table, L
<1>5. ASSUME NEW bits \in [1 .. L -> Bit]
      PROVE  \E s \in Symbols : Found(table, 1 .. WordBits, bits, 0) = {s}
  <2>1. PICK V : Reads(V, bits, L)
    BY <1>4, ReadsExists
  <2>2. V[L] \in Nat /\ V[L] < 2 ^ L
    <3>1. 2 ^ L * V[0] <= V[0 + L] /\ V[0 + L] < 2 ^ L * (V[0] + 1)
      <4>1. 0 \in Nat /\ 0 + L <= L
        BY <1>4
      <4> QED
        BY <1>4, <2>1, <4>1, ReadsGrow
    <3>2. V[0] = 0 /\ V[L] \in Nat /\ 0 + L = L
      BY <1>4, <2>1 DEF Reads
    <3> DEFINE p == 2 ^ L
    <3>3. p \in Nat /\ p * (0 + 1) = p
      <4>1. p \in Nat
        BY <1>4, PowNat
      <4> HIDE DEF p
      <4> QED
        BY <4>1
    <3> QED
      BY <3>1, <3>2, <3>3
  <2>3. PICK s \in C :
          /\ StartOf(d, s) <= V[L] /\ V[L] < StartOf(d, s) + Weight(d)[s]
          /\ \A t \in C : StartOf(d, t) <= V[L] /\ V[L] < StartOf(d, t) + Weight(d)[t]
                            => t = s
    <3> DEFINE v == V[L]
    <3>1. v \in Nat /\ v < 2 ^ LongestCode(d)
      BY <2>2 DEF L
    <3> HIDE DEF v
    <3>2. \E s \in C : /\ StartOf(d, s) <= v /\ v < StartOf(d, s) + Weight(d)[s]
                       /\ \A t \in C : StartOf(d, t) <= v /\ v < StartOf(d, t) + Weight(d)[t]
                            => t = s
      BY <3>1, IntervalOf
    <3> QED
      BY <3>2 DEF v
  <2>4. \A t \in C : (StartOf(d, t) <= V[L] /\ V[L] < StartOf(d, t) + Weight(d)[t])
                       <=> V[d[t]] = NumberOf(d, t)
    <3> TAKE t \in C
    <3> DEFINE k == d[t]
               m == L - k
               c == Weight(d)[t]
               N == NumberOf(d, t)
               x == V[k]
               v == V[L]
    <3>1. c = 2 ^ m /\ c \in Nat /\ c >= 1 /\ m \in Nat /\ k \in Nat /\ k + m = L
      BY <1>2, <1>4, WeightFacts DEF L
    <3>2. c * x <= v /\ v < c * (x + 1)
      <4>1. 2 ^ m * V[k] <= V[k + m] /\ V[k + m] < 2 ^ m * (V[k] + 1)
        <5> HIDE DEF k, m
        <5>1. k + m <= L
          BY <1>4, <3>1
        <5> QED
          BY <1>4, <2>1, <3>1, <5>1, ReadsGrow
      <4> QED
        BY <3>1, <4>1
    <3>3. StartOf(d, t) = c * N /\ N \in Nat
      BY NumberFacts
    <3>4. x \in Nat /\ v \in Nat
      <4>1. k \in 0 .. L /\ L \in 0 .. L
        BY <1>2, <1>4
      <4> QED
        BY <2>1, <4>1 DEF Reads
    <3>5. (c * N <= v /\ v < c * N + c) <=> x = N
      <4> HIDE DEF c, N, x, v, k, m
      <4>1. c * N + c = c * (N + 1)
        BY <3>1, <3>3
      <4>2. ASSUME x = N PROVE c * N <= v /\ v < c * N + c
        BY <3>2, <4>1, <4>2
      <4>3. ASSUME c * N <= v, v < c * N + c PROVE x = N
        <5>1. v \div c = N
          BY <3>1, <3>3, <3>4, <4>1, <4>3
        <5>2. v \div c = x
          BY <3>1, <3>2, <3>4
        <5> QED
          BY <5>1, <5>2
      <4> QED
        BY <4>2, <4>3
    <3> QED
      BY <3>3, <3>5
  <2>5. \A t \in C : Matches(table.code[t], bits, 0) <=> V[d[t]] = NumberOf(d, t)
    <3> TAKE t \in C
    <3>1. /\ d[t] \in Nat /\ d[t] <= L /\ NumberOf(d, t) \in Nat
          /\ NumberOf(d, t) < 2 ^ d[t]
          /\ table.code[t] = BitsOf(NumberOf(d, t), d[t])
      BY <1>2, <1>3
    <3> DEFINE n == d[t]
               N == NumberOf(d, t)
    <3>2. n \in Nat /\ n <= L /\ N \in Nat /\ N < 2 ^ n
      BY <3>1
    <3> HIDE DEF n, N
    <3>3. Matches(BitsOf(N, n), bits, 0) <=> V[n] = N
      BY <1>4, <2>1, <3>2, MatchesNumber
    <3> QED
      BY <3>1, <3>3 DEF n, N
  <2>6. Found(table, 1 .. WordBits, bits, 0) = {s}
    <3>1. \A t \in C : Len(table.code[t]) \in 1 .. WordBits
      BY <1>2, <1>3
    <3>2. \A t \in C : Matches(table.code[t], bits, 0) <=> t = s
      BY <2>3, <2>4, <2>5
    <3> QED
      BY <1>1, <3>1, <3>2 DEF Found
  <2> QED
    BY <1>2, <2>6
<1>6. OneCodeFirst(table)
  BY <1>1, <1>3, <1>5 DEF OneCodeFirst
<1> QED
  BY <1>6 DEF table

-----------------------------------------------------------------------------
(* What the one pass over the descriptor keeps *)

StatsSet ==
  [zeros : Nat, unused : Nat, longest : Nat, shortest : Nat, atShortest : Nat,
   counts : [CodeLengths -> Nat]]

\* The symbols below n that have length l.
At(d, n, l) == {s \in 0 .. n - 1 : d[s] = l}
Count(d, n, l) == Cardinality(At(d, n, l))

CodedBelow(d, n) == {s \in 0 .. n - 1 : d[s] \notin {0, Unused}}

Describes(stats, d, n) ==
  /\ stats \in StatsSet
  /\ stats.zeros = Count(d, n, 0) /\ stats.unused = Count(d, n, Unused)
  /\ \A l \in CodeLengths : stats.counts[l] = Count(d, n, l)
  /\ \A s \in CodedBelow(d, n) : stats.shortest <= d[s] /\ d[s] <= stats.longest
  /\ \/ /\ CodedBelow(d, n) = {}
        /\ stats.longest = 0 /\ stats.shortest = Unused /\ stats.atShortest = 0
     \/ /\ \E s \in CodedBelow(d, n) : d[s] = stats.longest
        /\ \E s \in CodedBelow(d, n) : d[s] = stats.shortest
        /\ stats.atShortest = Count(d, n, stats.shortest)

\* Counting one symbol more.
LEMMA CountStep ==
  ASSUME NEW n \in Nat, NEW d, NEW l
  PROVE  /\ IsFiniteSet(At(d, n, l)) /\ Count(d, n, l) \in Nat
         /\ Count(d, n + 1, l) = IF d[n] = l THEN Count(d, n, l) + 1 ELSE Count(d, n, l)
<1>1. IsFiniteSet(At(d, n, l)) /\ Count(d, n, l) \in Nat
  <2>1. IsFiniteSet(0 .. n - 1)
    <3>1. 0 \in Int /\ n - 1 \in Int
      OBVIOUS
    <3> QED
      BY <3>1, FS_Interval, Zenon
  <2>2. At(d, n, l) \in SUBSET (0 .. n - 1)
    BY DEF At
  <2> QED
    BY <2>1, <2>2, FS_Subset, FS_CardinalityType DEF Count
<1>2. n \notin At(d, n, l)
  BY DEF At
<1>3. At(d, n + 1, l) = IF d[n] = l THEN At(d, n, l) \cup {n} ELSE At(d, n, l)
  <2>1. \A s : s \in 0 .. (n + 1) - 1 <=> s \in 0 .. n - 1 \/ s = n
    OBVIOUS
  <2> QED
    BY <2>1 DEF At
<1>4. Cardinality(At(d, n, l) \cup {n}) = Cardinality(At(d, n, l)) + 1
  BY <1>1, <1>2, FS_AddElement
<1> QED
  BY <1>1, <1>3, <1>4 DEF Count

\* The statistics stay what they are.
LEMMA SeeByteType ==
  ASSUME NEW stats \in StatsSet, NEW b \in 0 .. Unused
  PROVE  SeeByte(stats, b) \in StatsSet
<1>1. Unused \in Nat
  BY TableAssumption
<1>2. CASE b = 0
  BY <1>2 DEF SeeByte, StatsSet
<1>3. CASE b # 0 /\ b = Unused
  BY <1>3 DEF SeeByte, StatsSet
<1>4. CASE b # 0 /\ b # Unused
  <2>1. b \in CodeLengths /\ b \in Nat
    BY <1>1, <1>4 DEF CodeLengths
  <2> DEFINE a == CASE b < stats.shortest -> 1
                    [] b = stats.shortest -> stats.atShortest + 1
                    [] b > stats.shortest -> stats.atShortest
             l == IF b > stats.longest THEN b ELSE stats.longest
             m == IF b < stats.shortest THEN b ELSE stats.shortest
             c == [stats.counts EXCEPT ![b] = stats.counts[b] + 1]
  <2>2. SeeByte(stats, b) =
          [stats EXCEPT !.counts = c, !.longest = l, !.shortest = m, !.atShortest = a]
    BY <1>4 DEF SeeByte, StatsSet
  <2>3. l \in Nat /\ m \in Nat
    BY <2>1 DEF StatsSet
  <2>4. a \in Nat
    <3>1. stats.shortest \in Nat /\ stats.atShortest \in Nat
      BY DEF StatsSet
    <3>2. CASE b < stats.shortest
      BY <2>1, <3>1, <3>2
    <3>3. CASE b = stats.shortest
      BY <2>1, <3>1, <3>3
    <3>4. CASE b > stats.shortest
      BY <2>1, <3>1, <3>4
    <3> QED
      BY <2>1, <3>1, <3>2, <3>3, <3>4
  <2>5. c \in [CodeLengths -> Nat]
    BY <2>1 DEF StatsSet
  <2> HIDE DEF a, l, m, c
  <2> QED
    BY <2>2, <2>3, <2>4, <2>5 DEF StatsSet
<1> QED
  BY <1>2, <1>3, <1>4

\* One byte more, and the statistics describe one symbol more.
LEMMA SeeByteDescribes ==
  ASSUME NEW d \in Descriptors, NEW n \in 0 .. NumSymbols - 1, NEW stats,
         Describes(stats, d, n)
  PROVE  Describes(SeeByte(stats, d[n]), d, n + 1)
<1> DEFINE b == d[n]
           new == SeeByte(stats, b)
           B == CodedBelow(d, n)
           C == CodedBelow(d, n + 1)
<1>1. n \in Nat /\ b \in 0 .. Unused /\ Unused \in Nat /\ b \in Nat /\ NumSymbols \in Nat
      /\ Unused # 0
  BY TableAssumption DEF Descriptors, Symbols
<1>2. /\ stats \in StatsSet /\ stats.zeros \in Nat /\ stats.unused \in Nat
      /\ stats.longest \in Nat /\ stats.shortest \in Nat /\ stats.atShortest \in Nat
      /\ stats.counts \in [CodeLengths -> Nat]
  BY DEF Describes, StatsSet
<1>3. new \in StatsSet
  BY <1>1, <1>2, SeeByteType
<1>4. \A s \in 0 .. n - 1 : d[s] \in Nat
  BY <1>1 DEF Descriptors, Symbols
<1>5. \A s : s \in 0 .. (n + 1) - 1 <=> s \in 0 .. n - 1 \/ s = n
  BY <1>1
<1>6. CASE b = 0
  <2>1. new = [stats EXCEPT !.zeros = stats.zeros + 1]
    BY <1>6 DEF SeeByte
  <2>2. C = B
    BY <1>1, <1>5, <1>6 DEF CodedBelow
  <2>3. /\ new.zeros = stats.zeros + 1 /\ new.unused = stats.unused
        /\ new.longest = stats.longest /\ new.shortest = stats.shortest
        /\ new.atShortest = stats.atShortest /\ new.counts = stats.counts
    BY <1>2, <2>1 DEF StatsSet
  <2>4. \A l : l # 0 => Count(d, n + 1, l) = Count(d, n, l)
    BY <1>1, <1>6, CountStep
  <2>5. Count(d, n + 1, 0) = Count(d, n, 0) + 1
    BY <1>1, <1>6, CountStep
  <2>6. \A l \in CodeLengths : l # 0
    BY <1>1 DEF CodeLengths
  <2>7. B = {} \/ stats.shortest # 0
    BY <1>1, <1>4 DEF Describes, CodedBelow
  <2> HIDE DEF new, B, C
  <2>8. /\ new.zeros = Count(d, n + 1, 0) /\ new.unused = Count(d, n + 1, Unused)
        /\ \A l \in CodeLengths : new.counts[l] = Count(d, n + 1, l)
    BY <1>1, <2>3, <2>4, <2>5, <2>6 DEF Describes
  <2>9. \A s \in C : new.shortest <= d[s] /\ d[s] <= new.longest
    BY <2>2, <2>3 DEF Describes, B
  <2>10. \/ C = {} /\ new.longest = 0 /\ new.shortest = Unused /\ new.atShortest = 0
         \/ /\ \E s \in C : d[s] = new.longest
            /\ \E s \in C : d[s] = new.shortest
            /\ new.atShortest = Count(d, n + 1, new.shortest)
    BY <2>2, <2>3, <2>4, <2>7 DEF Describes, B
  <2> QED
    BY <1>3, <2>8, <2>9, <2>10 DEF Describes, C, new
<1>7. CASE b = Unused
  <2>1. new = [stats EXCEPT !.unused = stats.unused + 1]
    BY <1>1, <1>7 DEF SeeByte
  <2>2. C = B
    BY <1>1, <1>5, <1>7 DEF CodedBelow
  <2>3. /\ new.zeros = stats.zeros /\ new.unused = stats.unused + 1
        /\ new.longest = stats.longest /\ new.shortest = stats.shortest
        /\ new.atShortest = stats.atShortest /\ new.counts = stats.counts
    BY <1>2, <2>1 DEF StatsSet
  <2>4. \A l : l # Unused => Count(d, n + 1, l) = Count(d, n, l)
    BY <1>1, <1>7, CountStep
  <2>5. Count(d, n + 1, Unused) = Count(d, n, Unused) + 1
    BY <1>1, <1>7, CountStep
  <2>6. \A l \in CodeLengths : l # Unused
    BY <1>1 DEF CodeLengths
  <2>7. B = {} \/ stats.shortest # Unused
    BY <1>1, <1>4 DEF Describes, CodedBelow
  <2> HIDE DEF new, B, C
  <2>8. /\ new.zeros = Count(d, n + 1, 0) /\ new.unused = Count(d, n + 1, Unused)
        /\ \A l \in CodeLengths : new.counts[l] = Count(d, n + 1, l)
    BY <1>1, <2>3, <2>4, <2>5, <2>6 DEF Describes
  <2>9. \A s \in C : new.shortest <= d[s] /\ d[s] <= new.longest
    BY <2>2, <2>3 DEF Describes, B
  <2>10. \/ C = {} /\ new.longest = 0 /\ new.shortest = Unused /\ new.atShortest = 0
         \/ /\ \E s \in C : d[s] = new.longest
            /\ \E s \in C : d[s] = new.shortest
            /\ new.atShortest = Count(d, n + 1, new.shortest)
    BY <2>2, <2>3, <2>4, <2>7 DEF Describes, B
  <2> QED
    BY <1>3, <2>8, <2>9, <2>10 DEF Describes, C, new
<1>8. CASE b # 0 /\ b # Unused
  <2> DEFINE a == CASE b < stats.shortest -> 1
                    [] b = stats.shortest -> stats.atShortest + 1
                    [] b > stats.shortest -> stats.atShortest
  <2>1. b \in CodeLengths
    BY <1>1, <1>8 DEF CodeLengths
  <2>2. C = B \cup {n}
    BY <1>1, <1>5, <1>8 DEF CodedBelow
  <2>3. /\ new.zeros = stats.zeros /\ new.unused = stats.unused
        /\ new.longest = (IF b > stats.longest THEN b ELSE stats.longest)
        /\ new.shortest = (IF b < stats.shortest THEN b ELSE stats.shortest)
        /\ new.atShortest = a
        /\ new.counts = [stats.counts EXCEPT ![b] = stats.counts[b] + 1]
    BY <1>2, <1>8 DEF StatsSet, SeeByte
  <2>4. \A l : l # b => Count(d, n + 1, l) = Count(d, n, l)
    BY <1>1, CountStep
  <2>5. Count(d, n + 1, b) = Count(d, n, b) + 1
    BY <1>1, CountStep
  <2>6. /\ new.zeros = Count(d, n + 1, 0) /\ new.unused = Count(d, n + 1, Unused)
        /\ \A l \in CodeLengths : new.counts[l] = Count(d, n + 1, l)
    <3> HIDE DEF new, a
    <3>1. new.zeros = Count(d, n + 1, 0) /\ new.unused = Count(d, n + 1, Unused)
      BY <1>8, <2>3, <2>4 DEF Describes
    <3>2. \A l \in CodeLengths : new.counts[l] =
            IF l = b THEN stats.counts[b] + 1 ELSE stats.counts[l]
      BY <1>2, <2>1, <2>3
    <3> QED
      BY <2>1, <2>4, <2>5, <3>1, <3>2 DEF Describes
  <2>7. \A s \in B : d[s] \in Nat
    BY <1>4 DEF CodedBelow
  <2> HIDE DEF new, B, C, b
  <2>8. \A s \in C : new.shortest <= d[s] /\ d[s] <= new.longest
    <3> TAKE s \in C
    <3>1. CASE s = n
      BY <1>1, <1>2, <2>3, <3>1 DEF b
    <3>2. CASE s \in B
      <4>1. stats.shortest <= d[s] /\ d[s] <= stats.longest /\ d[s] \in Nat
        BY <2>7, <3>2 DEF Describes, B
      <4> QED
        BY <1>1, <1>2, <2>3, <4>1
    <3> QED
      BY <2>2, <3>1, <3>2
  <2>9. n \in C /\ d[n] = b
    BY <2>2 DEF b
  <2>10. \E s \in C : d[s] = new.longest
    <3>1. CASE B = {}
      <4>1. new.longest = b
        BY <1>1, <1>8, <2>3, <3>1 DEF Describes, B
      <4> QED
        BY <2>9, <4>1
    <3>2. CASE B # {}
      <4>1. PICK s \in B : d[s] = stats.longest
        BY <3>2 DEF Describes, B
      <4> QED
        BY <2>2, <2>3, <2>9, <4>1
    <3> QED
      BY <3>1, <3>2
  <2>11. \E s \in C : d[s] = new.shortest
    <3>1. CASE B = {}
      <4>1. stats.shortest = Unused /\ b < Unused
        BY <1>1, <1>8, <3>1 DEF Describes, B
      <4> QED
        BY <2>3, <2>9, <4>1
    <3>2. CASE B # {}
      <4>1. PICK s \in B : d[s] = stats.shortest
        BY <3>2 DEF Describes, B
      <4> QED
        BY <2>2, <2>3, <2>9, <4>1
    <3> QED
      BY <3>1, <3>2
  <2>12. new.atShortest = Count(d, n + 1, new.shortest)
    <3>1. CASE b < stats.shortest
      <4>1. a = 1
        <5>1. b # stats.shortest /\ ~(b > stats.shortest)
          BY <1>1, <1>2, <3>1
        <5> QED
          BY <3>1, <5>1
      <4>2. new.shortest = b /\ new.atShortest = 1
        BY <2>3, <3>1, <4>1
      <4>3. At(d, n, b) = {}
        <5> SUFFICES ASSUME NEW s \in 0 .. n - 1, d[s] = b PROVE FALSE
          BY DEF At
        <5>1. s \in B
          BY <1>8 DEF B, CodedBelow
        <5>2. stats.shortest <= d[s]
          BY <5>1 DEF Describes, B
        <5> QED
          BY <1>1, <1>2, <3>1, <5>2
      <4>4. Count(d, n, b) = 0
        BY <4>3, FS_EmptySet DEF Count
      <4> QED
        BY <2>5, <4>2, <4>4
    <3>2. CASE b = stats.shortest
      <4>1. ~(b < stats.shortest) /\ ~(b > stats.shortest)
        BY <1>1, <1>2, <3>2
      <4>2. a = stats.atShortest + 1
        BY <3>2, <4>1
      <4>3. new.shortest = b /\ new.atShortest = stats.atShortest + 1
        BY <2>3, <3>2, <4>1, <4>2
      <4>4. B # {}
        BY <1>8, <3>2 DEF Describes, B
      <4>5. stats.atShortest = Count(d, n, b)
        BY <3>2, <4>4 DEF Describes, B
      <4> QED
        BY <2>5, <4>3, <4>5
    <3>3. CASE b > stats.shortest
      <4>1. ~(b < stats.shortest) /\ b # stats.shortest
        BY <1>1, <1>2, <3>3
      <4>2. a = stats.atShortest
        BY <3>3, <4>1
      <4>3. new.shortest = stats.shortest /\ new.atShortest = stats.atShortest
        BY <2>3, <4>1, <4>2
      <4>4. B # {}
        BY <1>1, <1>8, <3>3 DEF Describes, B
      <4>5. stats.atShortest = Count(d, n, stats.shortest)
        BY <4>4 DEF Describes, B
      <4> QED
        BY <2>4, <4>1, <4>3, <4>5
    <3> QED
      BY <1>1, <1>2, <3>1, <3>2, <3>3
  <2> QED
    BY <1>3, <2>6, <2>8, <2>10, <2>11, <2>12 DEF Describes, C, new, b
<1> QED
  BY <1>6, <1>7, <1>8

\* At the end they describe the descriptor.
LEMMA StatsDescribed ==
  ASSUME NEW d \in Descriptors
  PROVE  Describes(Stats(d), d, NumSymbols)
<1> DEFINE N == NumSymbols
           A(g) == g = [n \in 0 .. N |-> IF n = 0 THEN NoStats ELSE SeeByte(g[n - 1], d[n - 1])]
           g == CHOOSE h : A(h)
           step == [p \in StatsSet \X (1 .. N) |-> SeeByte(p[1], d[p[2] - 1])]
<1>1. N \in Nat \ {0} /\ Unused \in Nat
  BY TableAssumption
<1>2. Stats(d) = g[N]
  BY DEF Stats
<1>3. NoStats \in StatsSet
  BY <1>1 DEF NoStats, StatsSet
<1>4. \A i \in 1 .. N : i - 1 \in 0 .. N - 1 /\ d[i - 1] \in 0 .. Unused
  BY <1>1 DEF Descriptors, Symbols
<1>5. \E h : A(h)
  <2>1. \A v \in StatsSet, i \in 0 + 1 .. N : step[<<v, i>>] \in StatsSet
    <3> TAKE v \in StatsSet, i \in 0 + 1 .. N
    <3>1. i \in 1 .. N
      OBVIOUS
    <3>2. step[<<v, i>>] = SeeByte(v, d[i - 1])
      BY <3>1
    <3> QED
      BY <1>4, <3>1, <3>2, SeeByteType
  <2>2. PICK h \in [0 .. N -> StatsSet] : Recurs(h, 0, N, NoStats, step)
    <3>1. 0 \in Int /\ N \in Int
      BY <1>1
    <3> HIDE DEF N, step
    <3> QED
      BY <1>3, <2>1, <3>1, RecursionExists
  <2>3. h = [i \in 0 .. N |-> IF i = 0 THEN NoStats ELSE step[<<h[i - 1], i>>]]
    BY <2>2 DEF Recurs
  <2>4. \A i \in 0 .. N : i # 0 => step[<<h[i - 1], i>>] = SeeByte(h[i - 1], d[i - 1])
    <3> TAKE i \in 0 .. N
    <3> HAVE i # 0
    <3>1. i \in 1 .. N /\ i - 1 \in 0 .. N
      BY <1>1
    <3> QED
      BY <2>2, <3>1
  <2> HIDE DEF step, N
  <2>5. A(h)
    BY <2>3, <2>4
  <2> QED
    BY <2>5
<1>6. A(g)
  <2> HIDE DEF A
  <2> QED
    BY <1>5
<1> HIDE DEF g
<1>7. \A k \in Nat : k <= N => Describes(g[k], d, k)
  <2> DEFINE G == {k \in Nat : k <= N => Describes(g[k], d, k)}
  <2>1. 0 \in G
    <3>1. g[0] = NoStats
      BY <1>1, <1>6
    <3>2. \A l : At(d, 0, l) = {}
      BY DEF At
    <3>3. \A l : Count(d, 0, l) = 0
      BY <3>2, FS_EmptySet DEF Count
    <3>4. CodedBelow(d, 0) = {}
      BY DEF CodedBelow
    <3>5. Describes(NoStats, d, 0)
      BY <1>3, <3>3, <3>4 DEF Describes, NoStats
    <3> QED
      BY <3>1, <3>5
  <2>2. \A k \in Nat : k \in G => k + 1 \in G
    <3> SUFFICES ASSUME NEW k \in Nat, k \in G, k + 1 <= N PROVE Describes(g[k + 1], d, k + 1)
      OBVIOUS
    <3>1. Describes(g[k], d, k)
      BY <1>1
    <3>2. g[k + 1] = SeeByte(g[k], d[k])
      <4>1. k + 1 \in 0 .. N /\ k + 1 # 0 /\ (k + 1) - 1 = k
        BY <1>1
      <4> DEFINE j == k + 1
      <4> HIDE DEF j
      <4>2. g[j] = SeeByte(g[j - 1], d[j - 1])
        BY <1>6, <4>1 DEF j
      <4> QED
        BY <4>1, <4>2 DEF j
    <3>3. k \in 0 .. NumSymbols - 1
      BY <1>1
    <3> QED
      BY <3>1, <3>2, <3>3, SeeByteDescribes
  <2> HIDE DEF G
  <2>3. \A k \in Nat : k \in G
    BY <2>1, <2>2, NatInduct
  <2> QED
    BY <2>3 DEF G
<1> QED
  BY <1>1, <1>2, <1>7

\* The symbols of one length.
Tier(d, l) == {s \in Symbols : d[s] = l}

\* The same, without the order of the pass.
LEMMA StatsAre ==
  ASSUME NEW d \in Descriptors
  PROVE  /\ Stats(d).zeros = Cardinality(Zeros(d))
         /\ Stats(d).unused = Cardinality(Tier(d, Unused))
         /\ Stats(d).counts \in [CodeLengths -> Nat]
         /\ \A l \in CodeLengths : Stats(d).counts[l] = Cardinality(Tier(d, l))
         /\ \A l : IsFiniteSet(Tier(d, l)) /\ Cardinality(Tier(d, l)) \in Nat
         /\ ActiveSymbolCount(d) = Cardinality(Coded(d))
         /\ Cardinality(Zeros(d)) + Cardinality(Tier(d, Unused)) + Cardinality(Coded(d))
              = NumSymbols
         /\ \A s \in Coded(d) : d[s] \in CodeLengths
         /\ \A s \in Coded(d) : Stats(d).shortest <= d[s] /\ d[s] <= Stats(d).longest
         /\ \/ /\ Coded(d) = {}
               /\ MaxCodeLength(d) = 0 /\ MinCodeLength(d) = 0
               /\ MinCodeLengthSymbolCount(d) = 0
            \/ /\ Coded(d) # {}
               /\ \E s \in Coded(d) : d[s] = MaxCodeLength(d)
               /\ \E s \in Coded(d) : d[s] = MinCodeLength(d)
               /\ MinCodeLengthSymbolCount(d) = Cardinality(Tier(d, MinCodeLength(d)))
               /\ \A s \in Coded(d) : MinCodeLength(d) <= d[s] /\ d[s] <= MaxCodeLength(d)
<1> DEFINE st == Stats(d)
           C == Coded(d)
<1>1. Describes(st, d, NumSymbols)
  BY StatsDescribed
<1>2. NumSymbols \in Nat /\ Unused \in Nat /\ Unused # 0
  BY TableAssumption
<1>3. \A l : At(d, NumSymbols, l) = Tier(d, l)
  BY DEF At, Tier, Symbols
<1>4. \A l : IsFiniteSet(Tier(d, l)) /\ Cardinality(Tier(d, l)) \in Nat
  BY <1>2, <1>3, CountStep DEF Count
<1>5. Zeros(d) = Tier(d, 0)
  BY DEF Zeros, Tier
<1>6. CodedBelow(d, NumSymbols) = C
  BY DEF CodedBelow, Coded, Symbols
<1>7. st.zeros = Cardinality(Zeros(d)) /\ st.unused = Cardinality(Tier(d, Unused))
      /\ \A l \in CodeLengths : st.counts[l] = Cardinality(Tier(d, l))
  BY <1>1, <1>3, <1>5 DEF Describes, Count
<1>8. st \in StatsSet
  BY <1>1 DEF Describes
<1>9. \A s \in C : d[s] \in CodeLengths
  BY <1>2 DEF Coded, Descriptors, CodeLengths
<1>10. Cardinality(Zeros(d)) + Cardinality(Tier(d, Unused)) + Cardinality(C) = NumSymbols
       /\ Cardinality(C) \in Nat
  <2> DEFINE Z == Zeros(d)
             U == Tier(d, Unused)
  <2>1. IsFiniteSet(Symbols) /\ Cardinality(Symbols) = NumSymbols
    <3>1. 0 \in Int /\ NumSymbols - 1 \in Int
      BY <1>2
    <3> DEFINE top == NumSymbols - 1
    <3>2. top \in Nat /\ top + 1 = NumSymbols
      BY TableAssumption
    <3> HIDE DEF top
    <3>3. IsFiniteSet(0 .. top)
          /\ Cardinality(0 .. top) = IF 0 > top THEN 0 ELSE top - 0 + 1
      BY <3>2, FS_Interval
    <3>4. (IF 0 > top THEN 0 ELSE top - 0 + 1) = NumSymbols
      BY <3>2
    <3> QED
      BY <3>3, <3>4 DEF Symbols, top
  <2>2. Z \cup U \cup C = Symbols /\ Z \cap U = {} /\ (Z \cup U) \cap C = {}
    BY <1>2 DEF Zeros, Tier, Coded
  <2>3. IsFiniteSet(Z) /\ IsFiniteSet(U) /\ IsFiniteSet(C)
    <3>1. C \in SUBSET Symbols
      BY <2>2
    <3> QED
      BY <1>4, <1>5, <2>1, <3>1, FS_Subset
  <2> HIDE DEF Z, U, C
  <2>4. IsFiniteSet(Z \cup U) /\ Cardinality(Z \cup U) = Cardinality(Z) + Cardinality(U)
    BY <2>2, <2>3, CountBoth
  <2>5. Cardinality((Z \cup U) \cup C) = Cardinality(Z \cup U) + Cardinality(C)
    <3> DEFINE Y == Z \cup U
    <3> HIDE DEF Y
    <3>1. Cardinality(Y \cup C) = Cardinality(Y) + Cardinality(C)
      BY <2>2, <2>3, <2>4, CountBoth DEF Y
    <3> QED
      BY <3>1 DEF Y
  <2>6. Cardinality(C) \in Nat
    BY <2>3, FS_CardinalityType
  <2> QED
    BY <2>1, <2>2, <2>4, <2>5, <2>6 DEF Z, U
<1> HIDE DEF st, C
<1>11. ActiveSymbolCount(d) = Cardinality(C)
  <2> DEFINE z == Cardinality(Zeros(d))
             u == Cardinality(Tier(d, Unused))
             c == Cardinality(C)
  <2>1. z \in Nat /\ u \in Nat /\ c \in Nat /\ z + u + c = NumSymbols
    BY <1>4, <1>5, <1>10
  <2>2. NumSymbols - z - u = c
    <3> HIDE DEF z, u, c
    <3> QED
      BY <1>2, <2>1
  <2> QED
    BY <1>7, <2>2 DEF ActiveSymbolCount, st
<1>12. st.counts \in [CodeLengths -> Nat]
  BY <1>8 DEF StatsSet
<1>13. \A s \in C : st.shortest <= d[s] /\ d[s] <= st.longest
  BY <1>1, <1>6 DEF Describes
<1>14. \/ /\ C = {}
          /\ MaxCodeLength(d) = 0 /\ MinCodeLength(d) = 0
          /\ MinCodeLengthSymbolCount(d) = 0
       \/ /\ C # {}
          /\ \E s \in C : d[s] = MaxCodeLength(d)
          /\ \E s \in C : d[s] = MinCodeLength(d)
          /\ MinCodeLengthSymbolCount(d) = Cardinality(Tier(d, MinCodeLength(d)))
          /\ \A s \in C : MinCodeLength(d) <= d[s] /\ d[s] <= MaxCodeLength(d)
  <2>1. CASE C = {}
    <3>1. st.longest = 0 /\ st.shortest = Unused
      BY <1>1, <1>6, <2>1 DEF Describes
    <3> QED
      BY <2>1, <3>1 DEF MaxCodeLength, MinCodeLength, MinCodeLengthSymbolCount, st
  <2>2. CASE C # {}
    <3>1. /\ \E s \in C : d[s] = st.longest
          /\ \E s \in C : d[s] = st.shortest
          /\ st.atShortest = Count(d, NumSymbols, st.shortest)
      BY <1>1, <1>6, <2>2 DEF Describes
    <3>2. st.shortest # Unused
      BY <3>1 DEF C, Coded
    <3>3. MinCodeLength(d) = st.shortest /\ MaxCodeLength(d) = st.longest
          /\ MinCodeLengthSymbolCount(d) = st.atShortest
      BY <3>2 DEF MaxCodeLength, MinCodeLength, MinCodeLengthSymbolCount, st
    <3> QED
      BY <1>3, <1>13, <2>2, <3>1, <3>3 DEF Count
  <2> QED
    BY <2>1, <2>2
<1> QED
  BY <1>4, <1>7, <1>9, <1>10, <1>11, <1>12, <1>13, <1>14 DEF st, C

\* The longest length the pass has seen is the longest code.
LEMMA LongestIsMax ==
  ASSUME NEW d \in Descriptors, Coded(d) # {}
  PROVE  MaxCodeLength(d) = LongestCode(d) /\ LongestCode(d) \in CodeLengths
<1> DEFINE M == MaxCodeLength(d)
           L == LongestCode(d)
<1>1. PICK s \in Coded(d) : d[s] = M
  BY StatsAre
<1>2. PICK t \in Coded(d) : d[t] = L
  BY CodedFacts
<1>3. d[t] <= M /\ d[s] <= L /\ d[s] \in CodeLengths /\ d[t] \in CodeLengths
  BY StatsAre, CodedFacts
<1>4. M \in Nat /\ L \in Nat /\ L \in CodeLengths
  BY <1>1, <1>2, <1>3, TableAssumption DEF CodeLengths
<1> HIDE DEF M, L
<1>5. M = L
  BY <1>1, <1>2, <1>3, <1>4
<1> QED
  BY <1>4, <1>5 DEF M, L

\* The codes of the lengths above `depth`.
Below(d, depth_) == {s \in Coded(d) : d[s] > depth_}

\* The codes below a depth are finitely many, and each takes a whole share.
LEMMA BelowFacts ==
  ASSUME NEW d \in Descriptors, Coded(d) # {}
  PROVE  /\ \A T \in SUBSET Coded(d) : IsFiniteSet(T)
         /\ \A s \in Coded(d) : /\ d[s] \in Nat /\ d[s] > 0 /\ LongestCode(d) - d[s] \in Nat
                                /\ Share(d, LongestCode(d))[s] = 2 ^ (LongestCode(d) - d[s])
                                /\ Share(d, LongestCode(d))[s] \in Nat
<1>1. \A T \in SUBSET Coded(d) : IsFiniteSet(T)
  BY CodedFacts, FS_Subset
<1>2. \A s \in Coded(d) : d[s] \in Nat /\ d[s] > 0 /\ LongestCode(d) - d[s] \in Nat
  BY CodedFacts
<1>3. \A s \in Coded(d) : Share(d, LongestCode(d))[s] = 2 ^ (LongestCode(d) - d[s])
  BY DEF Share
<1> QED
  BY <1>1, <1>2, <1>3, PowNat

\* The leaves at a depth.
LEMMA LeavesAt ==
  ASSUME NEW d \in Descriptors, Coded(d) # {}, NEW k \in 1 .. LongestCode(d)
  PROVE  /\ Stats(d).counts[k] \in Nat
         /\ SumOf(Share(d, LongestCode(d)), Below(d, k - 1))
              = SumOf(Share(d, LongestCode(d)), Below(d, k))
                  + Stats(d).counts[k] * 2 ^ (LongestCode(d) - k)
<1> DEFINE L == LongestCode(d)
           w == Share(d, L)
           A == Below(d, k)
           T == Tier(d, k)
           p == 2 ^ (L - k)
<1>1. k \in CodeLengths /\ L \in Nat /\ L - k \in Nat /\ k \in Nat
  BY LongestIsMax, TableAssumption DEF CodeLengths
<1>2. Stats(d).counts[k] = Cardinality(T) /\ Cardinality(T) \in Nat
  BY <1>1, StatsAre
<1>3. T \subseteq Coded(d) /\ A \subseteq Coded(d) /\ A \cap T = {} /\ A \cup T = Below(d, k - 1)
  <2>1. k # 0 /\ k # Unused
    BY <1>1, TableAssumption DEF CodeLengths
  <2>2. \A s \in Coded(d) : d[s] \in Nat
    BY BelowFacts
  <2> QED
    BY <1>1, <2>1, <2>2 DEF Tier, Below, Coded
<1>4. IsFiniteSet(A) /\ IsFiniteSet(T) /\ \A s \in A \cup T : w[s] \in Int
  BY <1>3, BelowFacts
<1>5. SumOf(w, A \cup T) = SumOf(w, A) + SumOf(w, T)
  <2> HIDE DEF w, A, T
  <2> QED
    BY <1>3, <1>4, SumUnion
<1>6. p \in Int
  BY <1>1, PowNat
<1>7. \A s \in T : w[s] = p
  BY <1>3, BelowFacts DEF Tier
<1> HIDE DEF w, A, T, p
<1>8. SumOf(w, T) = p * Cardinality(T)
  BY <1>4, <1>6, <1>7, SumOfEqual
<1>9. p * Cardinality(T) = Cardinality(T) * p
  <2> DEFINE c == Cardinality(T)
  <2>1. c \in Int
    BY <1>2
  <2> HIDE DEF c
  <2>2. p * c = c * p
    BY <1>6, <2>1
  <2> QED
    BY <2>2 DEF c
<1> QED
  BY <1>2, <1>3, <1>5, <1>8, <1>9 DEF w, A, T, p

\* Sums of parts of the code.
PartOf(d, T) == SumOf(Share(d, LongestCode(d)), T)

\* One level up: siblings pair into nodes that stand for the same codes.
LEMMA MergeUp ==
  ASSUME NEW d \in Descriptors, Coded(d) # {}, NEW k \in 1 .. LongestCode(d), NEW n \in Nat,
         n * 2 ^ (LongestCode(d) - k) = PartOf(d, Below(d, k))
  PROVE  /\ n + Stats(d).counts[k] \in Nat
         /\ (n + Stats(d).counts[k]) * 2 ^ (LongestCode(d) - k) = PartOf(d, Below(d, k - 1))
         /\ (n + Stats(d).counts[k]) % 2 = 0 =>
              /\ (n + Stats(d).counts[k]) \div 2 \in Nat
              /\ ((n + Stats(d).counts[k]) \div 2) * 2 ^ (LongestCode(d) - (k - 1))
                   = PartOf(d, Below(d, k - 1))
<1> DEFINE L == LongestCode(d)
           c == Stats(d).counts[k]
           p == 2 ^ (L - k)
           a == PartOf(d, Below(d, k))
           b == PartOf(d, Below(d, k - 1))
           q == 2 ^ (L - (k - 1))
<1>1. L \in Nat
  BY CodedFacts
<1>2. p \in Nat /\ q = 2 * p
  <2>1. L - k \in Nat /\ L - (k - 1) = (L - k) + 1
    BY <1>1
  <2> HIDE DEF L
  <2> QED
    BY <2>1, PowNat, PowStep
<1>3. c \in Nat /\ b = a + c * p
  BY LeavesAt DEF PartOf
<1>4. n * p = a
  OBVIOUS
<1> HIDE DEF c, p, a, b, q
<1>5. n + c \in Nat /\ (n + c) * p = b
  <2>1. (n + c) * p = n * p + c * p
    BY <1>2, <1>3
  <2> QED
    BY <1>3, <1>4, <2>1
<1>6. ASSUME (n + c) % 2 = 0 PROVE (n + c) \div 2 \in Nat /\ ((n + c) \div 2) * q = b
  <2> DEFINE h == n + c
             m == h \div 2
  <2>1. h \in Nat /\ m \in Nat /\ h = 2 * m
    BY <1>3, <1>6
  <2> HIDE DEF m
  <2>2. m * q = (2 * m) * p
    BY <1>2, <2>1
  <2> QED
    BY <1>5, <2>1, <2>2 DEF m
<1> QED
  BY <1>5, <1>6 DEF c, p, b, q, L

\* A leaf without a sibling: nothing above it makes the sum a power of two.
LEMMA LeafAlone ==
  ASSUME NEW d \in Descriptors, Coded(d) # {}, NEW k \in 1 .. LongestCode(d), NEW h \in Nat,
         h * 2 ^ (LongestCode(d) - k) = PartOf(d, Below(d, k - 1)), h % 2 # 0
  PROVE  PartOf(d, Coded(d)) # 2 ^ LongestCode(d)
<1> DEFINE L == LongestCode(d)
           C == Coded(d)
           w == Share(d, L)
           B == Below(d, k - 1)
           A == C \ B
           p == 2 ^ (L - k)
           v == [s \in A |-> 2 ^ ((k - 1) - d[s])]
<1>1. L \in Nat /\ L - k \in Nat /\ k - 1 \in Nat
  BY CodedFacts
<1>2. p \in Nat /\ p >= 1 /\ 2 * p = 2 ^ ((L - k) + 1)
  BY <1>1, PowPos, PowStep
<1>3. B \subseteq C /\ IsFiniteSet(A) /\ IsFiniteSet(B) /\ A \cap B = {} /\ B \cup A = C
  <2>1. B \subseteq C
    BY DEF Below
  <2> QED
    BY <2>1, BelowFacts
<1>4. \A s \in A : (k - 1) - d[s] \in Nat /\ s \in C
  <2> TAKE s \in A
  <2>1. d[s] \in Nat /\ ~(d[s] > k - 1) /\ s \in C
    BY BelowFacts DEF Below
  <2> QED
    BY <1>1, <2>1
<1>5. \A s \in A : v[s] \in Nat /\ w[s] = (2 * p) * v[s]
  <2> TAKE s \in A
  <2>1. v[s] = 2 ^ ((k - 1) - d[s]) /\ w[s] = 2 ^ (L - d[s])
    BY <1>4 DEF Share
  <2>2. ((L - k) + 1) + ((k - 1) - d[s]) = L - d[s]
    BY <1>1, <1>4, BelowFacts
  <2> DEFINE x == (L - k) + 1
             y == (k - 1) - d[s]
  <2>3. x \in Nat /\ y \in Nat /\ x + y = L - d[s]
    BY <1>1, <1>4, <2>2
  <2> HIDE DEF x, y
  <2>4. 2 ^ (x + y) = 2 ^ x * 2 ^ y /\ 2 ^ y \in Nat
    BY <2>3, PowAdd, PowNat
  <2> QED
    BY <1>2, <2>1, <2>3, <2>4 DEF x, y
<1> DEFINE x == SumOf(v, A)
           y == 2 ^ (k - 1)
           b == SumOf(w, B)
<1>6. y \in Nat /\ 2 ^ L = (2 * p) * y
  <2>1. ((L - k) + 1) + (k - 1) = L /\ (L - k) + 1 \in Nat
    BY <1>1
  <2> QED
    BY <1>1, <1>2, <2>1, PowAdd, PowNat
<1>7. b = h * p
  BY DEF PartOf
<1> HIDE DEF w, v, p, A, B, C, y
<1>8. x \in Nat
  BY <1>3, <1>5, SumNat
<1>9. SumOf(w, A) = (2 * p) * x
  <2> DEFINE c == 2 * p
  <2>1. c \in Int /\ \A s \in A : v[s] \in Int /\ w[s] = c * v[s]
    BY <1>2, <1>5
  <2> HIDE DEF c
  <2>2. SumOf(w, A) = c * SumOf(v, A)
    BY <1>3, <2>1, SumTimes
  <2> QED
    BY <2>2 DEF c
<1>10. SumOf(w, C) = b + SumOf(w, A)
  <2>1. \A s \in B \cup A : w[s] \in Int
    BY <1>3, BelowFacts DEF w, L, C
  <2>2. B \cap A = {}
    BY <1>3
  <2> QED
    BY <1>3, <2>1, <2>2, SumUnion
<1>11. SumOf(w, C) = h * p + (2 * p) * x
  BY <1>7, <1>9, <1>10
<1>12. h * p + (2 * p) * x # (2 * p) * y
  <2> HIDE DEF x
  <2> SUFFICES ASSUME h * p + (2 * p) * x = (2 * p) * y PROVE FALSE
    OBVIOUS
  <2>1. p * (h + 2 * x) = p * (2 * y)
    BY <1>2, <1>6, <1>8
  <2> DEFINE e == h + 2 * x
             f == 2 * y
  <2>2. e \in Nat /\ f \in Nat /\ p * e = p * f
    BY <1>6, <1>8, <2>1
  <2>3. e = f
    <3> HIDE DEF e, f
    <3>1. (p * e) \div p = e /\ (p * f) \div p = f
      BY <1>2, <2>2
    <3> QED
      BY <2>2, <3>1
  <2>4. h = 2 * (y - x) /\ h % 2 = 1
    BY <1>6, <1>8, <2>3
  <2> QED
    BY <1>6, <1>8, <2>4
<1> QED
  BY <1>6, <1>11, <1>12 DEF PartOf, w, C, L

\* At the root every code is accounted for.
LEMMA AtTheRoot ==
  ASSUME NEW d \in Descriptors, Coded(d) # {}, NEW n \in Nat,
         n * 2 ^ LongestCode(d) = PartOf(d, Below(d, 0))
  PROVE  n = 1 <=> PartOf(d, Coded(d)) = 2 ^ LongestCode(d)
<1> DEFINE p == 2 ^ LongestCode(d)
<1>1. Below(d, 0) = Coded(d)
  BY BelowFacts DEF Below
<1>2. p \in Nat /\ p >= 1
  BY CodedFacts, PowPos
<1>3. n = 1 <=> n * p = p
  <2> HIDE DEF p
  <2>1. n >= 2 => n * p >= 2 * p
    BY <1>2
  <2>2. n = 0 \/ n = 1 \/ n >= 2
    OBVIOUS
  <2>3. n = 0 => n * p = 0
    BY <1>2
  <2>4. n = 1 => n * p = p
    BY <1>2
  <2> QED
    BY <1>2, <2>1, <2>2, <2>3, <2>4
<1> QED
  BY <1>1, <1>3

-----------------------------------------------------------------------------
(* The node merge *)

\* Of a descriptor with a code: while the merge runs, the nodes at this depth
\* stand for the codes below it; when it is done, the answer is the exact sum.
Accounted(d) ==
  LET L == LongestCode(d)
  IN  /\ phase = "merge" => /\ depth \in 0 .. L /\ nodes \in Nat
                            /\ nodes * 2 ^ (L - depth) = PartOf(d, Below(d, depth))
      /\ phase = "done" => (complete <=> PartOf(d, Coded(d)) = 2 ^ L)

DInv ==
  /\ descriptor \in Descriptors
  /\ phase \in {"merge", "done"}
  /\ complete \in BOOLEAN
  /\ Coded(descriptor) # {} => Accounted(descriptor)

\* The merge starts at the longest length, where nothing lies below.
LEMMA DInvInit == DescriptorInit => DInv
<1> SUFFICES ASSUME DescriptorInit PROVE DInv
  OBVIOUS
<1> USE DEF DescriptorInit
<1> DEFINE d == descriptor
<1>1. ASSUME Coded(d) # {} PROVE Accounted(d)
  <2> DEFINE L == LongestCode(d)
  <2>1. depth = L /\ L \in Nat
    BY <1>1, LongestIsMax, CodedFacts
  <2>2. Below(d, L) = {}
    <3>1. \A s \in Coded(d) : d[s] \in Nat /\ L - d[s] \in Nat
      BY <1>1, BelowFacts
    <3> HIDE DEF L
    <3> QED
      BY <2>1, <3>1 DEF Below
  <2>3. PartOf(d, Below(d, depth)) = 0
    BY <2>1, <2>2, SumEmpty DEF PartOf
  <2>4. nodes * 2 ^ (L - depth) = 0
    <3>1. L - depth \in Nat
      BY <2>1
    <3> DEFINE p == 2 ^ (L - depth)
    <3>2. p \in Nat /\ nodes = 0
      BY <3>1, PowNat
    <3> HIDE DEF p
    <3>3. nodes * p = 0
      BY <3>2
    <3> QED
      BY <3>3 DEF p
  <2> QED
    BY <2>1, <2>3, <2>4 DEF Accounted
<1> QED
  BY <1>1 DEF DInv

\* Every step of the merge keeps the account.
LEMMA DInvNext == DInv /\ [DescriptorNext]_descriptorVars => DInv'
<1> SUFFICES ASSUME DInv, [DescriptorNext]_descriptorVars PROVE DInv'
  OBVIOUS
<1>1. PICK d \in Descriptors : d = descriptor
  BY DEF DInv
<1> DEFINE C == Coded(d)
           L == LongestCode(d)
<1>2. ASSUME UNCHANGED descriptorVars PROVE DInv'
  BY <1>2 DEF DInv, Accounted, descriptorVars
<1>3. CASE JudgeInactive
  <2>1. descriptor' = d /\ phase' = "done" /\ complete' \in BOOLEAN
    BY <1>1, <1>3 DEF JudgeInactive, Judge, IsSingleSymbol
  <2>2. C = {}
    <3>1. IsSingleSymbol(d) \/ ActiveSymbolCount(d) = 0
      BY <1>1, <1>3 DEF JudgeInactive
    <3>2. Cardinality(C) = 0
      <4> DEFINE z == Cardinality(Zeros(d))
                 u == Cardinality(Tier(d, Unused))
                 c == Cardinality(C)
      <4>1. z + u + c = NumSymbols /\ NumSymbols \in Nat
        BY StatsAre, TableAssumption
      <4>2. c \in Nat
        <5>1. C = {} \/ Cardinality(C) \in Nat
          BY CodedFacts
        <5>2. Cardinality({}) = 0
          BY FS_EmptySet
        <5> QED
          BY <5>1, <5>2
      <4>3. IsSingleSymbol(d) => z = 1 /\ u = NumSymbols - 1
        BY StatsAre DEF IsSingleSymbol
      <4>4. ActiveSymbolCount(d) = c
        BY StatsAre
      <4> HIDE DEF z, u, c
      <4>5. c = 0
        BY <3>1, <4>1, <4>2, <4>3, <4>4
      <4> QED
        BY <4>5 DEF c
    <3>3. ASSUME C # {} PROVE FALSE
      <4>1. Cardinality(C) \in Nat \ {0}
        BY <3>3, CodedFacts
      <4> QED
        BY <3>2, <4>1
    <3> QED
      BY <3>3
  <2>3. (Coded(descriptor) # {} => Accounted(descriptor))'
    BY <2>1, <2>2
  <2> QED
    BY <2>1, <2>3 DEF DInv
<1>4. ASSUME ActiveSymbolCount(d) > 0 PROVE C # {}
  <2>1. ActiveSymbolCount(d) = Cardinality(C)
    BY StatsAre
  <2>2. Cardinality({}) = 0
    BY FS_EmptySet
  <2> QED
    BY <1>4, <2>1, <2>2
<1>5. CASE Ascend
  <2>1. C # {} /\ phase = "merge" /\ depth > 0 /\ Here % 2 = 0
        /\ nodes' = Here \div 2 /\ depth' = depth - 1
        /\ descriptor' = d /\ phase' = "merge" /\ complete' = complete
    BY <1>1, <1>4, <1>5 DEF Ascend
  <2>2. /\ depth \in 0 .. L /\ nodes \in Nat
        /\ nodes * 2 ^ (L - depth) = PartOf(d, Below(d, depth))
    BY <1>1, <2>1 DEF DInv, Accounted
  <2>3. L \in Nat
    BY <2>1, CodedFacts
  <2>4. depth \in 1 .. L /\ depth - 1 \in 0 .. L
    BY <2>1, <2>2, <2>3
  <2>5. Here = nodes + Stats(d).counts[depth]
    BY <1>1, <2>4 DEF Here
  <2>6. /\ Here \div 2 \in Nat
        /\ (Here \div 2) * 2 ^ (L - (depth - 1)) = PartOf(d, Below(d, depth - 1))
    <3> DEFINE k == depth
               n == nodes
    <3>1. k \in 1 .. L /\ n \in Nat /\ n * 2 ^ (L - k) = PartOf(d, Below(d, k))
      BY <2>2, <2>4
    <3> HIDE DEF k, n
    <3>2. (n + Stats(d).counts[k]) % 2 = 0 =>
              /\ (n + Stats(d).counts[k]) \div 2 \in Nat
              /\ ((n + Stats(d).counts[k]) \div 2) * 2 ^ (L - (k - 1))
                   = PartOf(d, Below(d, k - 1))
      BY <2>1, <3>1, MergeUp
    <3> QED
      BY <2>1, <2>5, <3>2 DEF k, n
  <2>7. nodes' \in Nat /\ depth' \in 0 .. L
        /\ nodes' * 2 ^ (L - depth') = PartOf(d, Below(d, depth'))
    BY <2>1, <2>4, <2>6
  <2>8. Accounted(descriptor)'
    BY <2>1, <2>7 DEF Accounted
  <2> QED
    BY <2>1, <2>8 DEF DInv
<1>6. CASE JudgeTree
  <2>1. C # {} /\ phase = "merge" /\ (depth = 0 \/ Here % 2 # 0)
        /\ descriptor' = d /\ phase' = "done" /\ complete' = (depth = 0 /\ Here = 1)
    BY <1>1, <1>4, <1>6 DEF JudgeTree, Judge
  <2>2. /\ depth \in 0 .. L /\ nodes \in Nat
        /\ nodes * 2 ^ (L - depth) = PartOf(d, Below(d, depth))
    BY <1>1, <2>1 DEF DInv, Accounted
  <2>3. L \in Nat
    BY <2>1, CodedFacts
  <2>4. complete' <=> PartOf(d, C) = 2 ^ L
    <3>1. CASE depth = 0
      <4>1. Here = nodes /\ L - 0 = L
        BY <2>2, <2>3, <3>1 DEF Here
      <4> DEFINE n == nodes
      <4>2. n \in Nat /\ n * 2 ^ L = PartOf(d, Below(d, 0))
        BY <2>2, <3>1, <4>1
      <4> HIDE DEF n
      <4>3. n = 1 <=> PartOf(d, C) = 2 ^ L
        BY <2>1, <4>2, AtTheRoot
      <4> QED
        BY <2>1, <3>1, <4>1, <4>3 DEF n
    <3>2. CASE depth # 0
      <4>1. depth \in 1 .. L /\ Here = nodes + Stats(d).counts[depth] /\ Here % 2 # 0
        BY <1>1, <2>1, <2>2, <2>3, <3>2 DEF Here
      <4> DEFINE k == depth
                 n == nodes
                 h == Here
      <4>2. k \in 1 .. L /\ n \in Nat /\ n * 2 ^ (L - k) = PartOf(d, Below(d, k))
            /\ h = n + Stats(d).counts[k] /\ h % 2 # 0
        BY <2>2, <4>1
      <4> HIDE DEF k, n, h
      <4>3. h \in Nat /\ h * 2 ^ (L - k) = PartOf(d, Below(d, k - 1))
        BY <2>1, <4>2, MergeUp
      <4>4. PartOf(d, C) # 2 ^ L
        BY <2>1, <4>2, <4>3, LeafAlone
      <4> QED
        BY <2>1, <3>2, <4>4
    <3> QED
      BY <3>1, <3>2
  <2>5. Accounted(descriptor)'
    BY <2>1, <2>4 DEF Accounted
  <2> QED
    BY <2>1, <2>5 DEF DInv
<1>7. CASE Judged
  BY <1>2, <1>7 DEF Judged
<1> QED
  BY <1>2, <1>3, <1>5, <1>6, <1>7 DEF DescriptorNext

\* While is_kraft_complete merges nodes, those it holds stand for exactly the
\* codes below its depth; when it is done its answer is the Kraft equality.
THEOREM MergeAccounts == DescriptorSpec => []DInv
BY DInvInit, DInvNext, PTL DEF DescriptorSpec

-----------------------------------------------------------------------------
(* The codebook *)

\* What build accepts.
LEMMA BuildOk ==
  ASSUME NEW d \in Descriptors
  PROVE  /\ Zeros(d) = {} => (BuildResult(d) = "Ok" <=> Coded(d) = {} \/ KraftHolds(d))
         /\ BuildResult(d) = "Ok" /\ Zeros(d) # {} => Coded(d) = {} /\ Cardinality(Zeros(d)) = 1
<1> DEFINE n == Cardinality(Zeros(d))
<1>1. n \in Nat /\ (n = 0 <=> Zeros(d) = {})
  <2>1. Zeros(d) = Tier(d, 0)
    BY DEF Zeros, Tier
  <2>2. IsFiniteSet(Zeros(d)) /\ n \in Nat
    BY <2>1, StatsAre
  <2> QED
    BY <2>2, FS_EmptySet
<1>2. CASE Zeros(d) = {}
  <2>1. ~(n > 1) /\ ~(n = 1)
    BY <1>1, <1>2
  <2>2. BuildResult(d) = IF Coded(d) = {} \/ KraftHolds(d) THEN "Ok" ELSE "KraftViolation"
    <3> HIDE DEF n
    <3> QED
      BY <1>2, <2>1 DEF BuildResult, n
  <2> QED
    BY <1>2, <2>2
<1>3. CASE Zeros(d) # {}
  <2>1. CASE n = 1
    <3>1. ~(n > 1) /\ n = 1
      BY <2>1
    <3>2. BuildResult(d) = IF Coded(d) = {} THEN "Ok" ELSE "KraftViolation"
      <4> HIDE DEF n
      <4> QED
        BY <1>3, <3>1 DEF BuildResult, n
    <3> QED
      BY <1>3, <2>1, <3>2
  <2>2. CASE n # 1
    <3>1. n > 1 /\ ~(n = 1)
      BY <1>1, <1>3, <2>2
    <3>2. BuildResult(d) = "MultipleSingleSymbolSentinels"
      <4> HIDE DEF n
      <4> QED
        BY <1>3, <3>1 DEF BuildResult, n
    <3> QED
      BY <1>3, <3>2
  <2> QED
    BY <2>1, <2>2
<1> QED
  BY <1>2, <1>3

\* Every codebook that build makes reads every stream of bits in one way
\* (HuffmanTable::build, kraft_check).
THEOREM StreamsReadOneWay == DescriptorSpec => []CodesPartitionStream
<1>1. DInv => CodesPartitionStream
  <2> SUFFICES ASSUME DInv, BuildResult(descriptor) = "Ok", Table(descriptor).longest > 0
               PROVE  OneCodeFirst(Table(descriptor))
    BY DEF CodesPartitionStream
  <2>1. PICK d \in Descriptors : d = descriptor
    BY DEF DInv
  <2>2. Zeros(d) = {} /\ Coded(d) # {}
    BY <2>1 DEF Table
  <2>3. Accepted(d)
    BY <2>1, <2>2, BuildOk DEF Accepted
  <2> QED
    BY <2>1, <2>2, <2>3, CompleteCode
<1> QED
  BY <1>1, MergeAccounts, PTL

\* The codes of a tier ascend and fit their length, so binary search finds
\* them (HuffmanTable::build, decode_symbol).
THEOREM TiersAreSorted == DescriptorSpec => []TiersSearchable
<1>1. DInv => TiersSearchable
  <2> SUFFICES ASSUME DInv, BuildResult(descriptor) = "Ok", Zeros(descriptor) = {},
                      NEW s \in Coded(descriptor), NEW t \in Coded(descriptor)
               PROVE  /\ CodeNumbers(descriptor)[s] < 2 ^ descriptor[s]
                      /\ descriptor[s] = descriptor[t] /\ s > t
                           => CodeNumbers(descriptor)[s] < CodeNumbers(descriptor)[t]
    BY DEF TiersSearchable
  <2>1. PICK d \in Descriptors : d = descriptor
    BY DEF DInv
  <2>2. Accepted(d)
    BY <2>1, BuildOk DEF Accepted
  <2> DEFINE a == NumberOf(d, s)
             b == NumberOf(d, t)
             c == Weight(d)[s]
             e == Weight(d)[t]
  <2>3. CodeNumbers(d)[s] = a /\ CodeNumbers(d)[t] = b
    BY <2>1, <2>2, CodeNumbersAre
  <2>4. /\ a \in Nat /\ b \in Nat /\ a < 2 ^ d[s]
        /\ StartOf(d, s) = c * a /\ StartOf(d, t) = e * b
        /\ c \in Nat /\ c >= 1
    BY <2>1, <2>2, NumberFacts, WeightFacts DEF Accepted
  <2>5. ASSUME d[s] = d[t], s > t PROVE a < b
    <3>1. c = e
      BY <2>1, <2>5 DEF Weight
    <3>2. Before(d, s, t)
      BY <2>5 DEF Before
    <3>3. c * a + c <= c * b
      BY <2>1, <2>2, <2>4, <3>1, <3>2, StartsApart
    <3> HIDE DEF a, b, c, e
    <3>4. ASSUME b <= a PROVE FALSE
      <4>1. c * b <= c * a
        BY <2>4, <3>4
      <4> DEFINE x == c * a
                 y == c * b
      <4>2. x \in Nat /\ y \in Nat /\ x + c <= y /\ y <= x
        BY <2>4, <3>3, <4>1
      <4> HIDE DEF x, y
      <4> QED
        BY <2>4, <4>2
    <3> QED
      BY <2>4, <3>4
  <2> QED
    BY <2>1, <2>3, <2>4, <2>5
<1> QED
  BY <1>1, MergeAccounts, PTL

-----------------------------------------------------------------------------
(* The histogram *)

\* The codes of the lengths up to l.
UpTo(d, l) == {s \in Coded(d) : d[s] <= l}

\* What a list of tiers adds up to, in 2^max-ths.
Addends(d, q) == [i \in 1 .. Len(q) |-> q[i][2] * 2 ^ (MaxCodeLength(d) - q[i][1])]

TiersUpTo(d, l, q) ==
  /\ q \in Seq(CodeLengths \X Nat)
  /\ {q[i] : i \in 1 .. Len(q)} = {<<d[s], Cardinality(Tier(d, d[s]))>> : s \in UpTo(d, l)}
  /\ \A i \in 1 .. Len(q) - 1 : q[i][1] < q[i + 1][1]
  /\ \A i \in 1 .. Len(q) : q[i][1] <= q[Len(q)][1] /\ q[1][1] <= q[i][1]
  /\ SumOf(Addends(d, q), 1 .. Len(q)) = SumOf(Share(d, MaxCodeLength(d)), UpTo(d, l))

\* One length more.
LEMMA TierStep ==
  ASSUME NEW d \in Descriptors, NEW l \in Nat, l + 1 \in CodeLengths, NEW q,
         TiersUpTo(d, l, q)
  PROVE  TiersUpTo(d, l + 1, IF Stats(d).counts[l + 1] = 0 THEN q
                             ELSE Append(q, <<l + 1, Stats(d).counts[l + 1]>>))
<1> DEFINE k == l + 1
           c == Stats(d).counts[k]
           M == MaxCodeLength(d)
           T == Tier(d, k)
<1>1. c = Cardinality(T) /\ c \in Nat /\ IsFiniteSet(T)
  BY StatsAre
<1>2. \A s \in Coded(d) : d[s] \in Nat
  BY StatsAre DEF CodeLengths
<1>3. UpTo(d, k) = UpTo(d, l) \cup T /\ UpTo(d, l) \cap T = {} /\ T \subseteq Coded(d)
  <2>1. k # 0 /\ k # Unused
    BY TableAssumption DEF CodeLengths
  <2>2. T \subseteq Coded(d)
    BY <2>1 DEF Tier, Coded
  <2> HIDE DEF T
  <2>3. \A s \in Coded(d) : s \in T <=> d[s] = k
    BY DEF T, Tier, Coded
  <2>4. \A s \in Coded(d) : /\ d[s] <= k <=> d[s] <= l \/ d[s] = k
                            /\ ~(d[s] <= l /\ d[s] = k)
    BY <1>2
  <2> QED
    BY <2>2, <2>3, <2>4 DEF UpTo
<1>4. CASE c = 0
  <2>1. T = {}
    BY <1>1, <1>4, FS_EmptySet
  <2>2. UpTo(d, k) = UpTo(d, l)
    BY <1>3, <2>1
  <2> QED
    BY <1>4, <2>2 DEF TiersUpTo
<1>5. CASE c # 0
  <2> DEFINE e == <<k, c>>
             p == Append(q, e)
             n == Len(q)
  <2>1. q \in Seq(CodeLengths \X Nat) /\ n \in Nat
    BY DEF TiersUpTo
  <2>2. e \in CodeLengths \X Nat
    BY <1>1
  <2>3. /\ p \in Seq(CodeLengths \X Nat) /\ Len(p) = n + 1
        /\ \A i \in 1 .. n : p[i] = q[i]
        /\ p[n + 1] = e
    BY <2>1, <2>2
  <2>4. \A i \in 1 .. n : q[i] \in CodeLengths \X Nat /\ q[i][1] \in Nat /\ q[i][2] \in Nat
    <3> TAKE i \in 1 .. n
    <3>1. q[i] \in CodeLengths \X Nat
      BY <2>1
    <3> QED
      BY <3>1 DEF CodeLengths
  <2>5. \A i \in 1 .. n : \E s \in UpTo(d, l) : q[i] = <<d[s], Cardinality(Tier(d, d[s]))>>
    BY DEF TiersUpTo
  <2>6. \A i \in 1 .. n : q[i][1] <= l
    BY <2>5 DEF UpTo
  <2>7. T # {} /\ k <= M /\ M \in Nat
    <3>1. T # {}
      BY <1>1, <1>5, FS_EmptySet
    <3>2. PICK s \in T : TRUE
      BY <3>1
    <3>3. d[s] = k /\ s \in Coded(d)
      BY <1>3, <3>2 DEF Tier
    <3>4. k <= M
      BY <3>3, StatsAre
    <3>5. M \in Nat
      BY <3>3, LongestIsMax, CodedFacts
    <3> QED
      BY <3>1, <3>4, <3>5
  <2>8. \A i \in 1 .. n : q[i][1] <= M
    BY <2>4, <2>6, <2>7
  <2> HIDE DEF e, p, n, M
  <2>9. {p[i] : i \in 1 .. Len(p)} =
          {<<d[s], Cardinality(Tier(d, d[s]))>> : s \in UpTo(d, k)}
    <3>1. {p[i] : i \in 1 .. Len(p)} = {q[i] : i \in 1 .. n} \cup {e}
      <4>1. 1 .. n + 1 = (1 .. n) \cup {n + 1}
        BY <2>1
      <4> QED
        BY <2>3, <4>1
    <3>2. {<<d[s], Cardinality(Tier(d, d[s]))>> : s \in T} = {e}
      <4>1. \A s \in T : <<d[s], Cardinality(Tier(d, d[s]))>> = e
        BY <1>1 DEF Tier, e
      <4> QED
        BY <2>7, <4>1
    <3>3. {q[i] : i \in 1 .. n} = {<<d[s], Cardinality(Tier(d, d[s]))>> : s \in UpTo(d, l)}
      BY DEF TiersUpTo, n
    <3> HIDE DEF T
    <3> QED
      BY <1>3, <3>1, <3>2, <3>3
  <2>10. \A i \in 1 .. Len(p) - 1 : p[i][1] < p[i + 1][1]
    <3> TAKE i \in 1 .. Len(p) - 1
    <3>1. i \in 1 .. n
      BY <2>1, <2>3
    <3>2. CASE i = n
      <4>1. p[i][1] <= l /\ p[i][1] \in Nat /\ p[i + 1][1] = k
        BY <2>3, <2>4, <2>6, <3>1, <3>2 DEF e
      <4> QED
        BY <4>1
    <3>3. CASE i # n
      <4>1. i \in 1 .. n - 1 /\ i + 1 \in 1 .. n
        BY <2>1, <3>1, <3>3
      <4>2. q[i][1] < q[i + 1][1]
        BY <4>1 DEF TiersUpTo, n
      <4> QED
        BY <2>3, <3>1, <4>1, <4>2
    <3> QED
      BY <3>2, <3>3
  <2>11. \A i \in 1 .. Len(p) : p[i][1] <= p[Len(p)][1] /\ p[1][1] <= p[i][1]
    <3> TAKE i \in 1 .. Len(p)
    <3>1. p[Len(p)][1] = k
      BY <2>3 DEF e
    <3>2. CASE n = 0
      <4>1. i = 1 /\ Len(p) = 1 /\ k \in Nat
        BY <2>1, <2>3, <3>2
      <4> QED
        BY <3>1, <4>1
    <3>3. CASE n # 0
      <4>1. 1 \in 1 .. n /\ p[1] = q[1] /\ q[1][1] \in Nat /\ q[1][1] <= l
        BY <2>1, <2>3, <2>4, <2>6, <3>3
      <4>2. CASE i \in 1 .. n
        <5>1. p[i] = q[i] /\ q[i][1] \in Nat /\ q[i][1] <= l /\ q[1][1] <= q[i][1]
          BY <2>3, <2>4, <2>6, <4>2 DEF TiersUpTo, n
        <5> QED
          BY <3>1, <4>1, <5>1
      <4>3. CASE i = n + 1
        BY <2>3, <3>1, <4>1, <4>3
      <4> QED
        BY <2>1, <2>3, <4>2, <4>3
    <3> QED
      BY <3>2, <3>3
  <2>12. SumOf(Addends(d, p), 1 .. Len(p)) = SumOf(Share(d, M), UpTo(d, k))
    <3> DEFINE v == Addends(d, q)
               w == Addends(d, p)
               x == 2 ^ (M - k)
               h == Share(d, M)
    <3>1. \A i \in 1 .. n + 1 : w[i] = p[i][2] * 2 ^ (M - p[i][1]) /\ w[i] \in Int
      <4> TAKE i \in 1 .. n + 1
      <4>1. w[i] = p[i][2] * 2 ^ (M - p[i][1])
        BY <2>3 DEF Addends, M
      <4>2. p[i][2] \in Nat /\ p[i][1] \in Nat /\ p[i][1] <= M
        <5>1. CASE i = n + 1
          BY <1>1, <2>3, <2>7, <5>1 DEF e
        <5>2. CASE i \in 1 .. n
          BY <2>3, <2>4, <2>8, <5>2
        <5> QED
          BY <2>1, <5>1, <5>2
      <4>3. M - p[i][1] \in Nat
        BY <2>7, <4>2
      <4> DEFINE a == p[i][2]
                 b == 2 ^ (M - p[i][1])
      <4>4. a \in Nat /\ b \in Nat
        BY <4>2, <4>3, PowNat
      <4> HIDE DEF a, b
      <4>5. a * b \in Int
        BY <4>4
      <4> QED
        BY <4>1, <4>5 DEF a, b
    <3>2. \A i \in 1 .. n : v[i] = w[i]
      <4> TAKE i \in 1 .. n
      <4>1. i \in 1 .. n + 1 /\ p[i] = q[i]
        BY <2>1, <2>3
      <4>2. v[i] = q[i][2] * 2 ^ (M - q[i][1])
        BY DEF Addends, M, n
      <4> HIDE DEF v, w
      <4> QED
        BY <3>1, <4>1, <4>2
    <3>3. w[n + 1] = c * x
      BY <2>1, <2>3, <3>1 DEF e
    <3> HIDE DEF v, w
    <3>4. SumOf(w, 1 .. n + 1) = SumOf(v, 1 .. n) + w[n + 1]
      BY <2>1, <3>1, <3>2, SumGrows
    <3>5. SumOf(v, 1 .. n) = SumOf(h, UpTo(d, l))
      BY DEF TiersUpTo, v, n, M
    <3>6. M - k \in Nat /\ x \in Int
      <4>1. M - k \in Nat
        BY <2>7
      <4> QED
        BY <4>1, PowNat
    <3>7. \A s \in T : h[s] = x
      BY <1>3 DEF Share, Tier
    <3>8. \A s \in Coded(d) : h[s] \in Int
      <4> TAKE s \in Coded(d)
      <4>1. M - d[s] \in Nat
        <5>1. d[s] <= M /\ d[s] \in Nat
          BY <1>2, StatsAre DEF M
        <5> QED
          BY <2>7, <5>1
      <4> QED
        BY <4>1, PowNat DEF Share
    <3> DEFINE U == UpTo(d, l)
    <3>9. U \subseteq Coded(d) /\ IsFiniteSet(U)
      <4>1. U \subseteq Coded(d) /\ Coded(d) # {}
        BY <1>3, <2>7 DEF UpTo
      <4> QED
        BY <4>1, BelowFacts
    <3> HIDE DEF h, x, T, U, c
    <3>10. SumOf(h, U \cup T) = SumOf(h, U) + SumOf(h, T)
      <4>1. \A s \in U \cup T : h[s] \in Int
        BY <1>3, <3>8, <3>9
      <4>2. U \cap T = {}
        BY <1>3 DEF U
      <4> QED
        BY <1>1, <3>9, <4>1, <4>2, SumUnion
    <3>11. SumOf(h, T) = x * Cardinality(T)
      BY <1>1, <3>6, <3>7, SumOfEqual
    <3>12. x * Cardinality(T) = c * x
      BY <1>1, <3>6
    <3> QED
      BY <1>3, <2>3, <3>3, <3>4, <3>5, <3>10, <3>11, <3>12 DEF U, h, w
  <2>13. TiersUpTo(d, k, p)
    BY <2>3, <2>9, <2>10, <2>11, <2>12 DEF TiersUpTo, M
  <2> QED
    BY <1>5, <2>13 DEF p, e
<1> QED
  BY <1>4, <1>5

\* The histogram lists the tiers of the descriptor.
LEMMA HistogramIs ==
  ASSUME NEW d \in Descriptors
  PROVE  TiersUpTo(d, Unused - 1, CodeLengthHistogram(d)) /\ UpTo(d, Unused - 1) = Coded(d)
<1> DEFINE N == Unused - 1
           counts == Stats(d).counts
           add(q, l) == IF counts[l] = 0 THEN q ELSE Append(q, <<l, counts[l]>>)
           A(g) == g = [l \in 0 .. N |->
                     IF l = 0 THEN << >>
                     ELSE IF counts[l] = 0 THEN g[l - 1]
                     ELSE Append(g[l - 1], <<l, counts[l]>>)]
           g == CHOOSE h : A(h)
           V == Seq(CodeLengths \X Nat)
           step == [p \in V \X (1 .. N) |-> add(p[1], p[2])]
<1>1. N \in Nat
  BY TableAssumption
<1>2. CodeLengthHistogram(d) = g[N]
  BY DEF CodeLengthHistogram
<1>3. counts \in [CodeLengths -> Nat]
  BY StatsAre
<1>4. \E h : A(h)
  <2>1. \A v \in V, i \in 0 + 1 .. N : step[<<v, i>>] \in V
    <3> TAKE v \in V, i \in 0 + 1 .. N
    <3>1. i \in 1 .. N /\ i \in CodeLengths
      BY DEF CodeLengths
    <3>2. step[<<v, i>>] = add(v, i)
      BY <3>1
    <3>3. <<i, counts[i]>> \in CodeLengths \X Nat
      BY <1>3, <3>1
    <3>4. Append(v, <<i, counts[i]>>) \in V
      BY <3>3
    <3> QED
      BY <3>2, <3>4
  <2>2. << >> \in V
    OBVIOUS
  <2>3. PICK h \in [0 .. N -> V] : Recurs(h, 0, N, << >>, step)
    <3>1. 0 \in Int /\ N \in Int
      BY <1>1
    <3> HIDE DEF N, step, V
    <3> QED
      BY <2>1, <2>2, <3>1, RecursionExists
  <2>4. h = [i \in 0 .. N |-> IF i = 0 THEN << >> ELSE step[<<h[i - 1], i>>]]
    BY <2>3 DEF Recurs
  <2>5. \A i \in 0 .. N : i # 0 => step[<<h[i - 1], i>>] = add(h[i - 1], i)
    <3> TAKE i \in 0 .. N
    <3> HAVE i # 0
    <3>1. i \in 1 .. N /\ i - 1 \in 0 .. N
      BY <1>1
    <3>2. h[i - 1] \in V
      BY <2>3, <3>1
    <3> HIDE DEF add, V, N
    <3> QED
      BY <3>1, <3>2
  <2>6. A(h)
    <3> HIDE DEF step, N, counts, V
    <3> QED
      BY <2>4, <2>5
  <2> QED
    BY <2>6
<1>5. A(g)
  <2> HIDE DEF A
  <2> QED
    BY <1>4
<1> HIDE DEF g
<1>6. \A l \in Nat : l <= N => TiersUpTo(d, l, g[l])
  <2> DEFINE G == {l \in Nat : l <= N => TiersUpTo(d, l, g[l])}
  <2>1. 0 \in G
    <3>1. g[0] = << >>
      BY <1>1, <1>5
    <3>2. UpTo(d, 0) = {}
      BY StatsAre DEF UpTo, CodeLengths
    <3>3. SumOf(Addends(d, << >>), 1 .. 0) = SumOf(Share(d, MaxCodeLength(d)), {})
      <4>1. 1 .. 0 = {}
        OBVIOUS
      <4> QED
        BY <4>1, SumEmpty
    <3>4. TiersUpTo(d, 0, << >>)
      <4>1. Len(<< >>) = 0 /\ << >> \in Seq(CodeLengths \X Nat)
        OBVIOUS
      <4> QED
        BY <3>2, <3>3, <4>1 DEF TiersUpTo
    <3> QED
      BY <3>1, <3>4
  <2>2. \A l \in Nat : l \in G => l + 1 \in G
    <3> SUFFICES ASSUME NEW l \in Nat, l \in G, l + 1 <= N PROVE TiersUpTo(d, l + 1, g[l + 1])
      OBVIOUS
    <3>1. TiersUpTo(d, l, g[l])
      BY <1>1
    <3>2. l + 1 \in CodeLengths
      BY <1>1 DEF CodeLengths
    <3>3. g[l + 1] = IF counts[l + 1] = 0 THEN g[l] ELSE Append(g[l], <<l + 1, counts[l + 1]>>)
      <4>1. l + 1 \in 0 .. N /\ l + 1 # 0 /\ (l + 1) - 1 = l
        BY <1>1
      <4> DEFINE j == l + 1
      <4> HIDE DEF j, counts, N
      <4>2. g[j] = IF counts[j] = 0 THEN g[j - 1] ELSE Append(g[j - 1], <<j, counts[j]>>)
        BY <1>5, <4>1 DEF j
      <4> QED
        BY <4>1, <4>2 DEF j
    <3> QED
      BY <3>1, <3>2, <3>3, TierStep
  <2> HIDE DEF G
  <2>3. \A l \in Nat : l \in G
    BY <2>1, <2>2, NatInduct
  <2> QED
    BY <2>3 DEF G
<1>7. UpTo(d, N) = Coded(d)
  BY StatsAre DEF UpTo, CodeLengths
<1> QED
  BY <1>1, <1>2, <1>6, <1>7

\* The terms of kraft_numerator add up to the sum over the symbols.
LEMMA TermsSum ==
  ASSUME NEW d \in Descriptors
  PROVE  Terms(d) = SumOf(Share(d, MaxCodeLength(d)), Coded(d))
<1> DEFINE q == CodeLengthHistogram(d)
           C == DOMAIN q
           M == MaxCodeLength(d)
           w == Addends(d, q)
           A(g) == g = [s \in SUBSET C |->
                     IF s = {} THEN 0
                     ELSE q[CHOOSE x \in s : TRUE][2] * 2 ^ (M - q[CHOOSE x \in s : TRUE][1])
                            + g[s \ {CHOOSE x \in s : TRUE}]]
           c == CHOOSE g : A(g)
<1>0. TiersUpTo(d, Unused - 1, q) /\ UpTo(d, Unused - 1) = Coded(d)
  BY HistogramIs
<1>1. C = 1 .. Len(q) /\ Len(q) \in Nat
  BY <1>0 DEF TiersUpTo
<1>2. IsFiniteSet(C)
  <2> HIDE DEF C, q
  <2> QED
    BY <1>1, OneToN
<1>3. \A g : A(g) <=> Adds(g, w, C)
  <2> TAKE g
  <2>1. \A s \in SUBSET C : s # {} =>
          w[CHOOSE x \in s : TRUE] =
            q[CHOOSE x \in s : TRUE][2] * 2 ^ (M - q[CHOOSE x \in s : TRUE][1])
    <3> TAKE s \in SUBSET C
    <3> HAVE s # {}
    <3> DEFINE x == CHOOSE y \in s : TRUE
    <3>1. x \in 1 .. Len(q)
      BY <1>1
    <3> HIDE DEF x
    <3>2. w[x] = q[x][2] * 2 ^ (M - q[x][1])
      BY <3>1 DEF Addends
    <3> QED
      BY <3>2 DEF x
  <2> HIDE DEF w, C, q, M
  <2>2. [s \in SUBSET C |->
           IF s = {} THEN 0
           ELSE w[CHOOSE x \in s : TRUE] + g[s \ {CHOOSE x \in s : TRUE}]]
        = [s \in SUBSET C |->
             IF s = {} THEN 0
             ELSE q[CHOOSE x \in s : TRUE][2] * 2 ^ (M - q[CHOOSE x \in s : TRUE][1])
                    + g[s \ {CHOOSE x \in s : TRUE}]]
    BY <2>1
  <2> QED
    BY <2>2 DEF Adds
<1>4. A(c)
  <2>1. \E g : A(g)
    <3> HIDE DEF A, w, C
    <3> QED
      BY <1>2, <1>3, AddsExists
  <2> QED
    BY <2>1
<1>5. Terms(d) = c[C]
  BY DEF Terms, MapThenSumSet, MapThenFoldSet
<1>6. Adds(c, w, C)
  BY <1>3, <1>4
<1>7. c[C] = SumOf(w, C)
  <2>1. C \in SUBSET C
    OBVIOUS
  <2>2. PICK h : Adds(h, w, C) /\ SumOf(w, C) = h[C]
    BY <1>2, SumIsAdds
  <2> HIDE DEF c, w, C
  <2>3. c[C] = h[C]
    BY <1>2, <1>6, <2>1, <2>2, AddsAgree
  <2> QED
    BY <2>2, <2>3
<1>8. SumOf(w, 1 .. Len(q)) = SumOf(Share(d, M), Coded(d))
  BY <1>0 DEF TiersUpTo
<1> HIDE DEF c, w, q
<1> QED
  BY <1>1, <1>5, <1>7, <1>8

-----------------------------------------------------------------------------
(* What the inspector answers *)

\* Scaling up by a power of two decides the same.
LEMMA ExactAtScale ==
  ASSUME NEW d \in Descriptors, Coded(d) # {}, NEW K \in Nat, LongestCode(d) <= K
  PROVE  SumOf(Share(d, K), Coded(d)) = 2 ^ K
           <=> SumOf(Share(d, LongestCode(d)), Coded(d)) = 2 ^ LongestCode(d)
<1> DEFINE C == Coded(d)
           L == LongestCode(d)
           e == K - L
           p == 2 ^ e
           w == Share(d, L)
           v == Share(d, K)
<1>1. L \in Nat /\ e \in Nat /\ K = e + L
  <2>1. L \in Nat
    BY CodedFacts
  <2> QED
    BY <2>1
<1>2. p \in Nat /\ p >= 1
  BY <1>1, PowPos
<1>3. \A s \in C : w[s] \in Int /\ v[s] = p * w[s]
  <2> TAKE s \in C
  <2>1. w[s] \in Nat /\ w[s] = 2 ^ (L - d[s]) /\ L - d[s] \in Nat /\ d[s] \in Nat
    BY BelowFacts
  <2>2. v[s] = 2 ^ (K - d[s])
    BY DEF Share
  <2>3. e + (L - d[s]) = K - d[s]
    BY <1>1, <2>1
  <2> HIDE DEF e, L, v, w
  <2>4. 2 ^ (e + (L - d[s])) = 2 ^ e * 2 ^ (L - d[s])
    BY <1>1, <2>1, PowAdd
  <2> QED
    BY <2>1, <2>2, <2>3, <2>4
<1>4. 2 ^ K = p * 2 ^ L /\ 2 ^ L \in Nat
  <2> HIDE DEF e, L
  <2> QED
    BY <1>1, PowAdd, PowNat
<1>5. IsFiniteSet(C)
  BY CodedFacts
<1> DEFINE x == SumOf(w, C)
           y == 2 ^ L
<1>6. SumOf(v, C) = p * x
  <2> HIDE DEF p, w, v, C
  <2> QED
    BY <1>2, <1>3, <1>5, SumTimes
<1>7. x \in Int
  <2> HIDE DEF w, C
  <2> QED
    BY <1>3, <1>5, SumInt
<1>8. p * x = p * y <=> x = y
  <2>1. y \in Nat
    BY <1>4
  <2> HIDE DEF p, x, y
  <2>2. p * x = p * y => p * (x - y) = 0
    BY <1>2, <1>7, <2>1
  <2>3. p * (x - y) = 0 => x - y = 0
    <3> DEFINE z == x - y
    <3>1. z \in Int
      BY <1>7, <2>1
    <3> HIDE DEF z
    <3>2. p * z = 0 => z = 0
      BY <1>2, <3>1
    <3> QED
      BY <3>2 DEF z
  <2>4. x - y = 0 => x = y
    BY <1>7, <2>1
  <2> QED
    BY <2>2, <2>3, <2>4
<1> QED
  BY <1>4, <1>6, <1>8

\* So the inspector's exact arithmetic and kraft_check's sum decide the same.
LEMMA ExactAtAnyScale ==
  ASSUME NEW d \in Descriptors, Coded(d) # {}
  PROVE  SumOf(Share(d, Unused), Coded(d)) = 2 ^ Unused
           <=> PartOf(d, Coded(d)) = 2 ^ LongestCode(d)
<1>1. Unused \in Nat /\ LongestCode(d) <= Unused
  BY LongestIsMax, TableAssumption DEF CodeLengths
<1> QED
  BY <1>1, ExactAtScale DEF PartOf

\* The saturating numerator is 2^max only when the sum is.
LEMMA NumeratorTells ==
  ASSUME NEW d \in Descriptors, Coded(d) # {}, LongestCode(d) < NumeratorBits
  PROVE  KraftNumerator(d) = 2 ^ LongestCode(d) <=> PartOf(d, Coded(d)) = 2 ^ LongestCode(d)
<1> DEFINE L == LongestCode(d)
           x == Terms(d)
           p == 2 ^ L
           q == 2 ^ (L + 1)
           r == 2 ^ NumeratorBits
<1>1. x = PartOf(d, Coded(d))
  BY TermsSum, LongestIsMax DEF PartOf
<1>2. x \in Nat
  <2>1. IsFiniteSet(Coded(d)) /\ \A s \in Coded(d) : Share(d, L)[s] \in Nat
    BY CodedFacts, BelowFacts
  <2> HIDE DEF L
  <2>2. SumOf(Share(d, L), Coded(d)) \in Nat
    BY <2>1, SumNat
  <2> QED
    BY <1>1, <2>2 DEF PartOf, L
<1>3. L \in Nat /\ L >= 1 /\ NumeratorBits \in Nat
  BY LongestIsMax, NumeratorAssumption, TableAssumption DEF CodeLengths
<1>4. p \in Nat /\ p >= 2 /\ q = 2 * p
  <2> HIDE DEF L
  <2>1. 2 ^ L = 2 * 2 ^ (L - 1) /\ 2 ^ (L - 1) >= 1 /\ 2 ^ (L - 1) \in Nat
    BY <1>3, PowSucc
  <2> DEFINE z == 2 ^ (L - 1)
  <2>2. p = 2 * z /\ z >= 1 /\ z \in Nat
    BY <2>1
  <2>3. q = 2 * p
    BY <1>3, PowStep
  <2> HIDE DEF z, p, q
  <2> QED
    BY <2>2, <2>3
<1>5. r \in Nat /\ r >= q
  <2> DEFINE e == NumeratorBits - (L + 1)
             z == 2 ^ e
  <2>1. e \in Nat /\ L + 1 \in Nat /\ (L + 1) + e = NumeratorBits
    BY <1>3
  <2> HIDE DEF e, L
  <2>2. r = q * z /\ z \in Nat /\ z >= 1 /\ r \in Nat /\ q \in Nat
    BY <1>3, <2>1, PowAdd, PowPos
  <2> HIDE DEF z, q, r
  <2> QED
    BY <2>2
<1>6. KraftNumerator(d) = IF x > r - 1 THEN r - 1 ELSE x
  BY DEF KraftNumerator, Saturated
<1> HIDE DEF x, p, q, r
<1>7. KraftNumerator(d) = p <=> x = p
  BY <1>2, <1>4, <1>5, <1>6
<1> QED
  BY <1>1, <1>7 DEF p

\* is_kraft_complete answers exactly, whatever the lengths, and agrees with
\* build and with kraft_numerator where those can tell.
THEOREM CompletenessIsDecided == DescriptorSpec => []CompletenessDecided
<1>1. DInv => CompletenessDecided
  <2> SUFFICES ASSUME DInv, phase = "done", Coded(descriptor) # {}
               PROVE  CompletenessDecided
    BY DEF CompletenessDecided
  <2>1. PICK d \in Descriptors : d = descriptor
    BY DEF DInv
  <2> DEFINE L == LongestCode(d)
             exact == PartOf(d, Coded(d)) = 2 ^ L
  <2>2. complete <=> exact
    BY <2>1 DEF DInv, Accounted
  <2>3. MapThenSumSet(LAMBDA s : 2 ^ (Unused - descriptor[s]), Coded(descriptor)) = 2 ^ Unused
          <=> exact
    <3>1. MapThenSumSet(LAMBDA s : 2 ^ (Unused - descriptor[s]), Coded(descriptor))
            = SumOf(Share(descriptor, Unused), Coded(descriptor))
      BY <2>1, ShareSum
    <3> HIDE DEF exact
    <3>2. SumOf(Share(d, Unused), Coded(d)) = 2 ^ Unused <=> exact
      BY <2>1, ExactAtAnyScale DEF exact
    <3> QED
      BY <2>1, <3>1, <3>2
  <2>4. Zeros(d) = {} /\ L <= WordBits => (exact <=> BuildResult(d) = "Ok")
    <3>1. KraftHolds(d) <=> L <= WordBits /\ exact
      BY <2>1, KraftByShare DEF PartOf
    <3>2. Zeros(d) = {} => (BuildResult(d) = "Ok" <=> KraftHolds(d))
      BY <2>1, BuildOk
    <3> QED
      BY <3>1, <3>2
  <2>5. L < NumeratorBits => (exact <=> KraftNumerator(d) = 2 ^ L)
    BY <2>1, NumeratorTells
  <2> HIDE DEF exact
  <2>6. Zeros(descriptor) = {} /\ LongestCode(descriptor) <= WordBits
          => (complete <=> BuildResult(descriptor) = "Ok")
    BY <2>1, <2>2, <2>4
  <2>7. LongestCode(descriptor) < NumeratorBits
          => (complete <=> KraftNumerator(descriptor) = 2 ^ LongestCode(descriptor))
    BY <2>1, <2>2, <2>5
  <2> QED
    BY <2>2, <2>3, <2>6, <2>7 DEF CompletenessDecided
<1> QED
  BY <1>1, MergeAccounts, PTL

\* The histogram and the scalars of the peek describe the descriptor and each
\* other.
THEOREM StatsAreDescribed == DescriptorSpec => []StatsDescribe
<1>1. DInv => StatsDescribe
  <2> SUFFICES ASSUME DInv PROVE StatsDescribe
    OBVIOUS
  <2>1. PICK d \in Descriptors : d = descriptor
    BY DEF DInv
  <2> DEFINE q == CodeLengthHistogram(d)
             n == Len(q)
             last == q[n]
  <2>2. TiersUpTo(d, Unused - 1, q) /\ UpTo(d, Unused - 1) = Coded(d)
    BY HistogramIs
  <2>3. n \in Nat /\ q \in Seq(CodeLengths \X Nat)
    BY <2>2 DEF TiersUpTo
  <2>4. {q[i] : i \in 1 .. n} = {<<d[s], Cardinality(Tier(d, d[s]))>> : s \in Coded(d)}
    BY <2>2 DEF TiersUpTo
  <2>5. \A i \in 1 .. n - 1 : q[i][1] < q[i + 1][1]
    BY <2>2 DEF TiersUpTo
  <2>6. \A i \in 1 .. n : q[i][1] <= q[n][1] /\ q[1][1] <= q[i][1]
    BY <2>2 DEF TiersUpTo
  <2> HIDE DEF q, n
  <2>7. ASSUME n = 0
        PROVE  MaxCodeLength(d) = 0 /\ MinCodeLength(d) = 0 /\ MinCodeLengthSymbolCount(d) = 0
    <3>1. {q[i] : i \in 1 .. n} = {}
      BY <2>7
    <3>2. Coded(d) = {}
      BY <2>4, <3>1
    <3> QED
      BY <3>2, StatsAre
  <2>8. ASSUME n # 0
        PROVE  /\ MaxCodeLength(d) = q[n][1]
               /\ <<MinCodeLength(d), MinCodeLengthSymbolCount(d)>> = q[1]
    <3>1. 1 \in 1 .. n /\ n \in 1 .. n
      BY <2>3, <2>8
    <3>2. \A i \in 1 .. n : \E s \in Coded(d) : q[i] = <<d[s], Cardinality(Tier(d, d[s]))>>
      BY <2>4
    <3>3. \A s \in Coded(d) : \E i \in 1 .. n : q[i] = <<d[s], Cardinality(Tier(d, d[s]))>>
      BY <2>4
    <3>4. PICK s \in Coded(d) : q[n] = <<d[s], Cardinality(Tier(d, d[s]))>>
      BY <3>1, <3>2
    <3>5. PICK t \in Coded(d) : q[1] = <<d[t], Cardinality(Tier(d, d[t]))>>
      BY <3>1, <3>2
    <3>6. \A u \in Coded(d) : d[u] \in Nat
      BY StatsAre DEF CodeLengths
    <3>7. PICK u \in Coded(d) : d[u] = MaxCodeLength(d)
      BY <3>4, StatsAre
    <3>8. PICK v \in Coded(d) : d[v] = MinCodeLength(d)
      BY <3>4, StatsAre
    <3>9. d[s] <= d[u] /\ d[v] <= d[t]
      BY <3>4, <3>7, <3>8, StatsAre
    <3>10. d[u] <= d[s]
      <4>1. PICK i \in 1 .. n : q[i] = <<d[u], Cardinality(Tier(d, d[u]))>>
        BY <3>3
      <4> QED
        BY <2>6, <3>4, <4>1
    <3>11. d[t] <= d[v]
      <4>1. PICK i \in 1 .. n : q[i] = <<d[v], Cardinality(Tier(d, d[v]))>>
        BY <3>3
      <4> QED
        BY <2>6, <3>5, <4>1
    <3>12. d[s] = d[u] /\ d[t] = d[v]
      BY <3>6, <3>9, <3>10, <3>11
    <3>13. MinCodeLengthSymbolCount(d) = Cardinality(Tier(d, MinCodeLength(d)))
      BY <3>4, StatsAre
    <3> QED
      BY <3>4, <3>5, <3>7, <3>8, <3>12, <3>13
  <2>9. ASSUME BuildResult(d) = "Ok"
        PROVE  /\ UnusedSymbolCount(d) = Cardinality(Tier(d, Unused))
               /\ IsSingleSymbol(d) <=> Zeros(d) # {}
    <3> DEFINE z == Cardinality(Zeros(d))
               u == Cardinality(Tier(d, Unused))
               c == Cardinality(Coded(d))
               b == IF IsSingleSymbol(d) THEN 1 ELSE 0
    <3>1. /\ z + u + c = NumSymbols /\ NumSymbols \in Nat \ {0}
          /\ ActiveSymbolCount(d) = c /\ Stats(d).zeros = z /\ Stats(d).unused = u
          /\ u \in Nat
      BY StatsAre, TableAssumption
    <3>2. z \in Nat /\ (z = 0 <=> Zeros(d) = {})
      <4>1. Zeros(d) = Tier(d, 0)
        BY DEF Zeros, Tier
      <4>2. IsFiniteSet(Zeros(d)) /\ z \in Nat
        BY <4>1, StatsAre
      <4> QED
        BY <4>2, FS_EmptySet
    <3>3. IsSingleSymbol(d) <=> z = 1 /\ u = NumSymbols - 1
      BY <3>1 DEF IsSingleSymbol
    <3>4. UnusedSymbolCount(d) = NumSymbols - c - b
      BY <3>1 DEF UnusedSymbolCount
    <3>5. c \in Nat
      <4>1. IsFiniteSet(Coded(d))
        <5>1. Coded(d) # {} => IsFiniteSet(Coded(d))
          BY CodedFacts
        <5> QED
          BY <5>1, FS_EmptySet
      <4> QED
        BY <4>1, FS_CardinalityType
    <3>6. CASE Zeros(d) = {}
      <4>1. b = 0 /\ ~IsSingleSymbol(d)
        BY <3>2, <3>3, <3>6
      <4> HIDE DEF z, u, c, b
      <4> QED
        BY <3>1, <3>2, <3>4, <3>5, <3>6, <4>1 DEF u
    <3>7. CASE Zeros(d) # {}
      <4>1. Coded(d) = {} /\ z = 1
        BY <2>9, <3>7, BuildOk
      <4>2. c = 0
        BY <4>1, FS_EmptySet
      <4>3. u = NumSymbols - 1
        <5> HIDE DEF z, u, c
        <5> QED
          BY <3>1, <3>2, <3>5, <4>1, <4>2
      <4>4. b = 1 /\ IsSingleSymbol(d)
        BY <3>3, <4>1, <4>3
      <4> HIDE DEF z, u, c, b
      <4> QED
        BY <3>1, <3>4, <3>7, <4>2, <4>3, <4>4 DEF u
    <3> QED
      BY <3>6, <3>7
  <2>10. ActiveSymbolCount(d) = Cardinality(Coded(d))
    BY StatsAre
  <2>11. {q[i] : i \in 1 .. n} =
           {<<d[s], Cardinality({t \in Symbols : d[t] = d[s]})>> : s \in Coded(d)}
    BY <2>4 DEF Tier
  <2>12. IF n = 0
         THEN MaxCodeLength(d) = 0 /\ MinCodeLength(d) = 0
                /\ MinCodeLengthSymbolCount(d) = 0
         ELSE /\ MaxCodeLength(d) = q[n][1]
              /\ <<MinCodeLength(d), MinCodeLengthSymbolCount(d)>> = q[1]
    BY <2>7, <2>8
  <2>13. BuildResult(d) = "Ok" =>
           /\ UnusedSymbolCount(d) = Cardinality({s \in Symbols : d[s] = Unused})
           /\ IsSingleSymbol(d) <=> Zeros(d) # {}
    BY <2>9 DEF Tier
  <2> DEFINE Says(e) ==
        LET tiers == CodeLengthHistogram(e)
            k == Len(tiers)
        IN  /\ ActiveSymbolCount(e) = Cardinality(Coded(e))
            /\ {tiers[i] : i \in 1 .. k} =
                 {<<e[s], Cardinality({t \in Symbols : e[t] = e[s]})>> : s \in Coded(e)}
            /\ \A i \in 1 .. k - 1 : tiers[i][1] < tiers[i + 1][1]
            /\ IF k = 0
               THEN MaxCodeLength(e) = 0 /\ MinCodeLength(e) = 0
                      /\ MinCodeLengthSymbolCount(e) = 0
               ELSE /\ MaxCodeLength(e) = tiers[k][1]
                    /\ <<MinCodeLength(e), MinCodeLengthSymbolCount(e)>> = tiers[1]
            /\ BuildResult(e) = "Ok" =>
                 /\ UnusedSymbolCount(e) = Cardinality({s \in Symbols : e[s] = Unused})
                 /\ IsSingleSymbol(e) <=> Zeros(e) # {}
  <2>14. Says(d)
    BY <2>5, <2>10, <2>11, <2>12, <2>13 DEF q, n
  <2>15. Says(descriptor) <=> StatsDescribe
    BY DEF StatsDescribe
  <2> HIDE DEF Says
  <2>16. Says(descriptor)
    BY <2>1, <2>14
  <2> QED
    BY <2>15, <2>16
<1> QED
  BY <1>1, MergeAccounts, PTL
=============================================================================
