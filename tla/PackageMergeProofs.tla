------------------------- MODULE PackageMergeProofs -------------------------
(***************************************************************************)
(* For every alphabet, every cap and all counts: the descriptor that       *)
(* package-merge makes is that of a shortest complete code under the cap,  *)
(* and has a code for each residual that occurs and for no other.          *)
(*                                                                         *)
(* Lengths up to k fill the sum of 2^k - 2^(k - length) over the symbols   *)
(* that occur; those of n symbols are a complete code's when they fill     *)
(* (n - 1) 2^k.  Of the list of level k, the first m nodes hold lengths    *)
(* that fill m/2 times 2^k, weigh what these lengths cost, and no lengths  *)
(* that fill as much cost less.  For the next level, take one bit from     *)
(* every length of a rival: the symbols that had one are b of the leaves,  *)
(* which weigh no less than the first b, and what remains fills so much    *)
(* that the first 2 a nodes of the level, the first a pairs, cost no more; *)
(* and the merge takes the cheapest a pairs and b leaves.  At the cap the  *)
(* first 2 n - 2 nodes are the code.                                       *)
(***************************************************************************)
EXTENDS PackageMerge, HuffmanDescriptorProofs

-----------------------------------------------------------------------------
(* Ranks, and sums over the first values of a list *)

\* A strict total order on a finite set, given by what comes before each
\* element: the ranks are 0 to one less than the size.
LEMMA Ranks ==
  ASSUME NEW U, IsFiniteSet(U), NEW E,
         \A s \in U : E[s] \in SUBSET U /\ s \notin E[s],
         \A s, t \in U : s = t \/ s \in E[t] \/ t \in E[s],
         \A s, t \in U : s \in E[t] => E[s] \in SUBSET E[t]
  PROVE  /\ \A s \in U : Cardinality(E[s]) \in 0 .. Cardinality(U) - 1
         /\ \A s, t \in U : s \in E[t] => Cardinality(E[s]) < Cardinality(E[t])
         /\ \A i \in 1 .. Cardinality(U) : \E s \in U : Cardinality(E[s]) = i - 1
<1> DEFINE n == Cardinality(U)
           f == [s \in U |-> Cardinality(E[s]) + 1]
<1>1. n \in Nat
  BY FS_CardinalityType
<1>2. ASSUME NEW s \in U
      PROVE  IsFiniteSet(E[s]) /\ Cardinality(E[s]) \in 0 .. n - 1
  <2> DEFINE A == E[s]
  <2>1. A \in SUBSET U /\ U # A
    OBVIOUS
  <2> HIDE DEF A
  <2>2. IsFiniteSet(A) /\ Cardinality(A) <= n /\ (n = Cardinality(A) => U = A)
    BY <2>1, FS_Subset
  <2>3. Cardinality(A) \in Nat
    BY <2>2, FS_CardinalityType
  <2>4. IsFiniteSet(A) /\ Cardinality(A) \in 0 .. n - 1
    <3> DEFINE c == Cardinality(A)
    <3> HIDE DEF c, n
    <3> QED
      BY <1>1, <2>1, <2>2, <2>3 DEF c
  <2> QED
    BY <2>4 DEF A
<1>3. ASSUME NEW s \in U, NEW t \in U, s \in E[t]
      PROVE  Cardinality(E[s]) < Cardinality(E[t])
  <2> DEFINE A == E[s]
             B == E[t]
  <2>1. IsFiniteSet(B) /\ A \in SUBSET B /\ A # B
    BY <1>2, <1>3
  <2>2. Cardinality(A) \in Nat /\ Cardinality(B) \in Nat
    BY <1>1, <1>2
  <2> HIDE DEF A, B
  <2>3. Cardinality(A) <= Cardinality(B) /\ (Cardinality(B) = Cardinality(A) => B = A)
    BY <2>1, FS_Subset
  <2>4. Cardinality(A) < Cardinality(B)
    BY <2>1, <2>2, <2>3
  <2> QED
    BY <2>4 DEF A, B
<1>4. f \in Injection(U, 1 .. n)
  <2>1. f \in [U -> 1 .. n]
    BY <1>1, <1>2
  <2>2. \A s, t \in U : f[s] = f[t] => s = t
    <3> SUFFICES ASSUME NEW s \in U, NEW t \in U, f[s] = f[t] PROVE s = t
      OBVIOUS
    <3>1. Cardinality(E[s]) \in Int /\ Cardinality(E[t]) \in Int
      BY <1>1, <1>2
    <3>2. Cardinality(E[s]) + 1 = Cardinality(E[t]) + 1
      OBVIOUS
    <3>3. ~(Cardinality(E[s]) < Cardinality(E[t])) /\ ~(Cardinality(E[t]) < Cardinality(E[s]))
      BY <3>1, <3>2
    <3> QED
      BY <1>3, <3>3
  <2> HIDE DEF f
  <2> QED
    BY <2>1, <2>2, Fun_IsInj
<1>5. IsFiniteSet(1 .. n) /\ Cardinality(1 .. n) = n
  <2>1. 1 \in Int /\ n \in Int
    BY <1>1
  <2> HIDE DEF n
  <2>2. IsFiniteSet(1 .. n) /\ Cardinality(1 .. n) = IF 1 > n THEN 0 ELSE n - 1 + 1
    BY <2>1, FS_Interval
  <2> QED
    BY <1>1, <2>2
<1>6. f \in Surjection(U, 1 .. n)
  <2> HIDE DEF f
  <2> QED
    BY <1>4, <1>5, FS_Injection
<1>7. ASSUME NEW i \in 1 .. n PROVE \E s \in U : Cardinality(E[s]) = i - 1
  <2>1. PICK s \in U : f[s] = i
    BY <1>6 DEF Surjection
  <2>2. Cardinality(E[s]) \in Int /\ Cardinality(E[s]) + 1 = i
    BY <1>1, <1>2, <2>1
  <2> QED
    BY <2>2
<1> QED
  BY <1>2, <1>3, <1>7

\* What is added up outside B is nothing.
LEMMA SumWithin ==
  ASSUME NEW U, IsFiniteSet(U), NEW B \in SUBSET U, NEW v, NEW w,
         \A x \in B : w[x] \in Int /\ v[x] = w[x],
         \A x \in U \ B : v[x] = 0
  PROVE  SumOf(v, U) = SumOf(w, B)
<1> DEFINE C == U \ B
<1>1. IsFiniteSet(B) /\ IsFiniteSet(C) /\ B \cap C = {} /\ B \cup C = U
  BY FS_Subset
<1>2. \A x \in B \cup C : v[x] \in Int
  OBVIOUS
<1>3. \A x \in C : v[x] = 0
  OBVIOUS
<1> HIDE DEF C
<1>4. SumOf(v, B \cup C) = SumOf(v, B) + SumOf(v, C)
  BY <1>1, <1>2, SumUnion
<1>5. SumOf(v, C) = 0 * Cardinality(C)
  <2>1. 0 \in Int
    OBVIOUS
  <2> QED
    BY <1>1, <1>3, <2>1, SumOfEqual
<1>6. Cardinality(C) \in Nat
  BY <1>1, FS_CardinalityType
<1>7. SumOf(v, B) = SumOf(w, B)
  BY <1>1, SumSame
<1>8. SumOf(v, B) \in Int
  <2>1. B \in SUBSET B /\ \A x \in B : v[x] \in Int
    BY <1>2
  <2> QED
    BY <1>1, <2>1, SumInt
<1> QED
  BY <1>1, <1>4, <1>5, <1>6, <1>7, <1>8

\* The sums of the first values, one after the other.
Running(w, n) == [i \in 0 .. n |-> SumOf(w, 1 .. i)]

\* Each is one value more than the last.
LEMMA RunningSteps ==
  ASSUME NEW n \in Nat, NEW w, \A i \in 1 .. n : w[i] \in Int
  PROVE  /\ Running(w, n)[0] = 0
         /\ \A i \in 0 .. n : Running(w, n)[i] \in Int
         /\ \A i \in 0 .. n : Running(w, n)[i] = SumOf(w, 1 .. i)
         /\ \A i \in 1 .. n : Running(w, n)[i] = Running(w, n)[i - 1] + w[i]
<1>1. \A i \in 0 .. n : Running(w, n)[i] = SumOf(w, 1 .. i)
  BY DEF Running
<1>2. Running(w, n)[0] = 0
  <2>1. 1 .. 0 = {} /\ 0 \in 0 .. n
    OBVIOUS
  <2>2. Running(w, n)[0] = SumOf(w, {})
    BY <1>1, <2>1
  <2> QED
    BY <2>2, SumEmpty
<1>3. ASSUME NEW i \in 0 .. n PROVE SumOf(w, 1 .. i) \in Int
  <2>1. IsFiniteSet(1 .. i) /\ \A j \in 1 .. i : w[j] \in Int
    BY OneToN
  <2> QED
    BY <2>1, SumInt
<1>4. ASSUME NEW i \in 1 .. n PROVE Running(w, n)[i] = Running(w, n)[i - 1] + w[i]
  <2>1. PICK k \in Nat : k + 1 = i /\ k = i - 1
    <3>1. i - 1 \in Nat /\ (i - 1) + 1 = i
      OBVIOUS
    <3> QED
      BY <3>1
  <2>2. \A j \in 1 .. k + 1 : w[j] \in Int
    BY <2>1
  <2>3. SumOf(w, 1 .. k + 1) = SumOf(w, 1 .. k) + w[k + 1]
    BY <2>2, SumGrows
  <2>4. k + 1 \in 0 .. n /\ k \in 0 .. n
    BY <2>1
  <2>5. Running(w, n)[k + 1] = SumOf(w, 1 .. k + 1) /\ Running(w, n)[k] = SumOf(w, 1 .. k)
    BY <1>1, <2>4
  <2> QED
    BY <2>1, <2>3, <2>5
<1>5. \A i \in 0 .. n : Running(w, n)[i] \in Int
  BY <1>1, <1>3
<1> QED
  BY <1>1, <1>2, <1>4, <1>5

\* Pairs added up.
LEMMA SumOfPairs ==
  ASSUME NEW n \in Nat, NEW x, \A i \in 1 .. 2 * n : x[i] \in Int,
         NEW y, \A i \in 1 .. n : y[i] = x[2 * i - 1] + x[2 * i]
  PROVE  SumOf(y, 1 .. n) = SumOf(x, 1 .. 2 * n)
<1> DEFINE k == 2 * n
           X == Running(x, k)
           Y == Running(y, n)
           G == {j \in Nat : j <= n => Y[j] = X[2 * j]}
<1>1. k \in Nat /\ \A i \in 1 .. k : x[i] \in Int
  OBVIOUS
<1>2. \A i \in 1 .. n : y[i] \in Int
  OBVIOUS
<1>3. X[0] = 0 /\ (\A i \in 0 .. k : X[i] \in Int)
      /\ (\A i \in 0 .. k : X[i] = SumOf(x, 1 .. i))
      /\ (\A i \in 1 .. k : X[i] = X[i - 1] + x[i])
  <2> HIDE DEF k
  <2> QED
    BY <1>1, RunningSteps
<1>4. Y[0] = 0 /\ (\A i \in 0 .. n : Y[i] \in Int)
      /\ (\A i \in 0 .. n : Y[i] = SumOf(y, 1 .. i))
      /\ (\A i \in 1 .. n : Y[i] = Y[i - 1] + y[i])
  BY <1>2, RunningSteps
<1> HIDE DEF X, Y
<1>5. 0 \in G
  BY <1>3, <1>4
<1>6. ASSUME NEW j \in Nat, j \in G PROVE j + 1 \in G
  <2> SUFFICES ASSUME j + 1 <= n PROVE Y[j + 1] = X[2 * (j + 1)]
    OBVIOUS
  <2> DEFINE i == 2 * j
  <2>1. /\ i \in 0 .. k /\ i + 1 \in 1 .. k /\ i + 2 \in 1 .. k /\ j + 1 \in 1 .. n
        /\ 2 * (j + 1) = i + 2 /\ 2 * (j + 1) - 1 = i + 1
        /\ (i + 2) - 1 = i + 1 /\ (i + 1) - 1 = i /\ (j + 1) - 1 = j
    OBVIOUS
  <2>2. Y[j] = X[i]
    BY <1>6
  <2>3. y[j + 1] = x[i + 1] + x[i + 2]
    BY <2>1
  <2> HIDE DEF i, k
  <2>4. X[i + 2] = X[i + 1] + x[i + 2] /\ X[i + 1] = X[i] + x[i + 1]
    BY <1>3, <2>1
  <2>5. Y[j + 1] = Y[j] + y[j + 1]
    BY <1>4, <2>1
  <2>6. X[i] \in Int /\ x[i + 1] \in Int /\ x[i + 2] \in Int
    BY <1>1, <1>3, <2>1
  <2>7. Y[j + 1] = X[i + 2]
    BY <2>2, <2>3, <2>4, <2>5, <2>6
  <2> QED
    BY <2>1, <2>7
<1>7. n \in G
  <2> HIDE DEF G
  <2> QED
    BY <1>5, <1>6, NatInduct
<1>8. k \in 0 .. k /\ n \in 0 .. n
  BY <1>1
<1> QED
  BY <1>3, <1>4, <1>7, <1>8

-----------------------------------------------------------------------------
(* Two lists made one *)

\* a and b values from the start of either list, none above any of the other
\* list's that are left.
Split(f, nf, g, ng, a, b) ==
  /\ a \in 0 .. nf /\ b \in 0 .. ng
  /\ \A i \in 1 .. a, j \in b + 1 .. ng : f[i] <= g[j]
  /\ \A i \in a + 1 .. nf, j \in 1 .. b : g[j] <= f[i]

\* From either list in turn, always splitting both: after m values a[m] are from
\* the first.
Interleaves(a, f, nf, g, ng) ==
  /\ a[0] = 0
  /\ \A m \in 0 .. nf + ng : Split(f, nf, g, ng, a[m], m - a[m])
  /\ \A m \in 1 .. nf + ng : a[m] \in {a[m - 1], a[m - 1] + 1}

\* Exchanging values of a split for others does not make the sum less.
LEMMA Exchange ==
  ASSUME NEW nf \in Nat, NEW ng \in Nat, NEW F, NEW G,
         \A i \in 0 .. nf : F[i] \in Int, \A i \in 0 .. ng : G[i] \in Int,
         NEW a \in 0 .. nf, NEW b \in 0 .. ng,
         \A i \in 1 .. a, j \in b + 1 .. ng : F[i] - F[i - 1] <= G[j] - G[j - 1],
         NEW t \in Nat, t <= a, b + t <= ng
  PROVE  F[a] + G[b] <= F[a - t] + G[b + t]
<1> DEFINE H == {u \in Nat : u <= a /\ b + u <= ng => F[a] + G[b] <= F[a - u] + G[b + u]}
<1>1. 0 \in H
  OBVIOUS
<1>2. ASSUME NEW u \in Nat, u \in H PROVE u + 1 \in H
  <2> SUFFICES ASSUME u + 1 <= a, b + (u + 1) <= ng
               PROVE  F[a] + G[b] <= F[a - (u + 1)] + G[b + (u + 1)]
    OBVIOUS
  <2>1. F[a] + G[b] <= F[a - u] + G[b + u]
    BY <1>2
  <2> DEFINE i == a - u
             j == b + (u + 1)
  <2>2. /\ i \in 1 .. a /\ j \in b + 1 .. ng /\ i - 1 = a - (u + 1) /\ j - 1 = b + u
        /\ i \in 0 .. nf /\ i - 1 \in 0 .. nf /\ j \in 0 .. ng /\ j - 1 \in 0 .. ng
    OBVIOUS
  <2>3. F[i] - F[i - 1] <= G[j] - G[j - 1]
    BY <2>2
  <2>4. F[i] \in Int /\ F[i - 1] \in Int /\ G[j] \in Int /\ G[j - 1] \in Int
        /\ F[a] \in Int /\ G[b] \in Int
    BY <2>2
  <2>5. F[a] + G[b] <= F[i] + G[j - 1]
    BY <2>1, <2>2
  <2> HIDE DEF i, j
  <2>6. F[a] + G[b] <= F[i - 1] + G[j]
    BY <2>3, <2>4, <2>5
  <2> QED
    BY <2>2, <2>6 DEF j
<1>3. t \in H
  <2> HIDE DEF H
  <2> QED
    BY <1>1, <1>2, NatInduct
<1> QED
  BY <1>3

\* The same, for the sums of a split and of any other choice of as many values.
LEMMA SplitIsLeast ==
  ASSUME NEW nf \in Nat, NEW ng \in Nat, NEW f, NEW g,
         \A i \in 1 .. nf : f[i] \in Int, \A i \in 1 .. ng : g[i] \in Int,
         NEW a, NEW b, Split(f, nf, g, ng, a, b),
         NEW p \in 0 .. nf, NEW q \in 0 .. ng, p + q = a + b
  PROVE  SumOf(f, 1 .. a) + SumOf(g, 1 .. b) <= SumOf(f, 1 .. p) + SumOf(g, 1 .. q)
<1> DEFINE F == Running(f, nf)
           G == Running(g, ng)
<1>1. (\A i \in 0 .. nf : F[i] \in Int) /\ (\A i \in 0 .. nf : F[i] = SumOf(f, 1 .. i))
      /\ (\A i \in 1 .. nf : F[i] = F[i - 1] + f[i])
  BY RunningSteps
<1>2. (\A i \in 0 .. ng : G[i] \in Int) /\ (\A i \in 0 .. ng : G[i] = SumOf(g, 1 .. i))
      /\ (\A i \in 1 .. ng : G[i] = G[i - 1] + g[i])
  BY RunningSteps
<1> HIDE DEF F, G
<1>3. a \in 0 .. nf /\ b \in 0 .. ng
  BY DEF Split
<1>4. \A i \in 1 .. nf : F[i] - F[i - 1] = f[i]
  <2> TAKE i \in 1 .. nf
  <2>1. i \in 0 .. nf /\ i - 1 \in 0 .. nf
    OBVIOUS
  <2>2. F[i] \in Int /\ F[i - 1] \in Int /\ F[i] = F[i - 1] + f[i] /\ f[i] \in Int
    BY <1>1, <2>1
  <2> QED
    BY <2>2
<1>5. \A i \in 1 .. ng : G[i] - G[i - 1] = g[i]
  <2> TAKE i \in 1 .. ng
  <2>1. i \in 0 .. ng /\ i - 1 \in 0 .. ng
    OBVIOUS
  <2>2. G[i] \in Int /\ G[i - 1] \in Int /\ G[i] = G[i - 1] + g[i] /\ g[i] \in Int
    BY <1>2, <2>1
  <2> QED
    BY <2>2
<1>6. F[a] + G[b] <= F[p] + G[q]
  <2>1. CASE p <= a
    <3> DEFINE t == a - p
    <3>1. t \in Nat /\ t <= a /\ b + t <= ng /\ a - t = p /\ b + t = q
      BY <1>3, <2>1
    <3>2. \A i \in 1 .. a, j \in b + 1 .. ng : F[i] - F[i - 1] <= G[j] - G[j - 1]
      BY <1>3, <1>4, <1>5 DEF Split
    <3> HIDE DEF t
    <3>3. F[a] + G[b] <= F[a - t] + G[b + t]
      BY <1>1, <1>2, <1>3, <3>1, <3>2, Exchange
    <3> QED
      BY <3>1, <3>3
  <2>2. CASE a < p
    <3> DEFINE t == p - a
    <3>1. t \in Nat /\ t <= b /\ a + t <= nf /\ b - t = q /\ a + t = p
      BY <1>3, <2>2
    <3>2. \A j \in 1 .. b, i \in a + 1 .. nf : G[j] - G[j - 1] <= F[i] - F[i - 1]
      BY <1>3, <1>4, <1>5 DEF Split
    <3> HIDE DEF t
    <3>3. G[b] + F[a] <= G[b - t] + F[a + t]
      BY <1>1, <1>2, <1>3, <3>1, <3>2, Exchange
    <3>4. F[a] \in Int /\ G[b] \in Int /\ F[p] \in Int /\ G[q] \in Int
      BY <1>1, <1>2, <1>3
    <3>5. G[b] + F[a] <= G[q] + F[p]
      BY <3>1, <3>3
    <3> QED
      BY <3>4, <3>5
  <2> QED
    BY <1>3, <2>1, <2>2
<1> QED
  BY <1>1, <1>2, <1>3, <1>6

\* What the m-th of the values is.
Follows(h, a, f, nf, g, ng) ==
  \A m \in 1 .. nf + ng : h[m] = IF a[m] > a[m - 1] THEN f[a[m]] ELSE g[m - a[m]]

\* At each step one of the two places in the lists moves, by one.
LEMMA InterleaveStep ==
  ASSUME NEW nf \in Nat, NEW ng \in Nat, NEW f, NEW g, NEW a, Interleaves(a, f, nf, g, ng),
         NEW m \in 1 .. nf + ng
  PROVE  /\ a[m] \in 0 .. nf /\ m - a[m] \in 0 .. ng
         /\ a[m - 1] \in 0 .. nf /\ (m - 1) - a[m - 1] \in 0 .. ng
         /\ \/ /\ a[m] > a[m - 1] /\ a[m - 1] = a[m] - 1 /\ a[m] \in 1 .. nf
               /\ (m - 1) - a[m - 1] = m - a[m]
            \/ /\ ~(a[m] > a[m - 1]) /\ a[m - 1] = a[m] /\ m - a[m] \in 1 .. ng
               /\ (m - 1) - a[m - 1] = (m - a[m]) - 1
<1>1. m \in 0 .. nf + ng /\ m - 1 \in 0 .. nf + ng
  OBVIOUS
<1>2. Split(f, nf, g, ng, a[m], m - a[m]) /\ Split(f, nf, g, ng, a[m - 1], (m - 1) - a[m - 1])
  BY <1>1 DEF Interleaves
<1>3. a[m] \in {a[m - 1], a[m - 1] + 1}
  BY DEF Interleaves
<1>4. a[m] \in 0 .. nf /\ m - a[m] \in 0 .. ng
  BY <1>2 DEF Split
<1>5. a[m - 1] \in 0 .. nf /\ (m - 1) - a[m - 1] \in 0 .. ng
  BY <1>2 DEF Split
<1> QED
  BY <1>3, <1>4, <1>5

\* The first values add up to those of either list among them.
LEMMA InterleaveSum ==
  ASSUME NEW nf \in Nat, NEW ng \in Nat, NEW f, NEW g, NEW a, Interleaves(a, f, nf, g, ng),
         NEW u, NEW v, NEW h, Follows(h, a, u, nf, v, ng),
         \A i \in 1 .. nf : u[i] \in Int, \A i \in 1 .. ng : v[i] \in Int,
         NEW m \in 0 .. nf + ng
  PROVE  /\ SumOf(h, 1 .. m) = SumOf(u, 1 .. a[m]) + SumOf(v, 1 .. m - a[m])
         /\ \A i \in 1 .. nf + ng : h[i] \in Int
<1> DEFINE n == nf + ng
           F == Running(u, nf)
           G == Running(v, ng)
           H == Running(h, n)
           S == {j \in Nat : j <= n => H[j] = F[a[j]] + G[j - a[j]]}
<1>1. F[0] = 0 /\ (\A i \in 0 .. nf : F[i] \in Int)
      /\ (\A i \in 0 .. nf : F[i] = SumOf(u, 1 .. i))
      /\ (\A i \in 1 .. nf : F[i] = F[i - 1] + u[i])
  BY RunningSteps
<1>2. G[0] = 0 /\ (\A i \in 0 .. ng : G[i] \in Int)
      /\ (\A i \in 0 .. ng : G[i] = SumOf(v, 1 .. i))
      /\ (\A i \in 1 .. ng : G[i] = G[i - 1] + v[i])
  BY RunningSteps
<1>3. ASSUME NEW i \in 1 .. nf + ng PROVE h[i] \in Int
  <2>1. h[i] = IF a[i] > a[i - 1] THEN u[a[i]] ELSE v[i - a[i]]
    BY DEF Follows
  <2>2. (a[i] > a[i - 1] /\ a[i] \in 1 .. nf) \/ (~(a[i] > a[i - 1]) /\ i - a[i] \in 1 .. ng)
    BY InterleaveStep
  <2> QED
    BY <2>1, <2>2
<1>4. n \in Nat /\ \A i \in 1 .. n : h[i] \in Int
  BY <1>3
<1>5. H[0] = 0 /\ (\A i \in 0 .. n : H[i] \in Int)
      /\ (\A i \in 0 .. n : H[i] = SumOf(h, 1 .. i))
      /\ (\A i \in 1 .. n : H[i] = H[i - 1] + h[i])
  <2> HIDE DEF n
  <2> QED
    BY <1>4, RunningSteps
<1> HIDE DEF F, G, H
<1>6. 0 \in S
  <2>1. a[0] = 0
    BY DEF Interleaves
  <2> QED
    BY <1>1, <1>2, <1>5, <2>1
<1>7. ASSUME NEW j \in Nat, j \in S PROVE j + 1 \in S
  <2> SUFFICES ASSUME j + 1 <= n
               PROVE  H[j + 1] = F[a[j + 1]] + G[(j + 1) - a[j + 1]]
    OBVIOUS
  <2> DEFINE i == j + 1
             p == a[i]
             q == i - p
             p0 == a[j]
             q0 == j - p0
  <2>1. i \in 1 .. nf + ng /\ i - 1 = j /\ i \in 1 .. n
    OBVIOUS
  <2>2. /\ p \in 0 .. nf /\ q \in 0 .. ng /\ p0 \in 0 .. nf /\ q0 \in 0 .. ng
        /\ \/ p > p0 /\ p0 = p - 1 /\ p \in 1 .. nf /\ q0 = q
           \/ ~(p > p0) /\ p0 = p /\ q \in 1 .. ng /\ q0 = q - 1
    <3>1. /\ a[i] \in 0 .. nf /\ i - a[i] \in 0 .. ng
          /\ a[i - 1] \in 0 .. nf /\ (i - 1) - a[i - 1] \in 0 .. ng
          /\ \/ /\ a[i] > a[i - 1] /\ a[i - 1] = a[i] - 1 /\ a[i] \in 1 .. nf
                /\ (i - 1) - a[i - 1] = i - a[i]
             \/ /\ ~(a[i] > a[i - 1]) /\ a[i - 1] = a[i] /\ i - a[i] \in 1 .. ng
                /\ (i - 1) - a[i - 1] = (i - a[i]) - 1
      <4> HIDE DEF i
      <4> QED
        BY <2>1, InterleaveStep
    <3> QED
      BY <2>1, <3>1
  <2>3. h[i] = IF p > p0 THEN u[p] ELSE v[q]
    BY <2>1 DEF Follows
  <2>4. H[i] = H[j] + h[i]
    BY <1>5, <2>1
  <2>5. H[j] = F[p0] + G[q0]
    BY <1>7
  <2> HIDE DEF p, q, p0, q0, i
  <2>6. H[i] = F[p] + G[q]
    <3>1. CASE p > p0
      <4>1. p0 = p - 1 /\ p \in 1 .. nf /\ q0 = q
        BY <2>2, <3>1
      <4>2. F[p] = F[p0] + u[p] /\ h[i] = u[p] /\ u[p] \in Int /\ F[p0] \in Int /\ G[q] \in Int
        BY <1>1, <1>2, <2>2, <2>3, <3>1, <4>1
      <4> QED
        BY <2>4, <2>5, <4>1, <4>2
    <3>2. CASE ~(p > p0)
      <4>1. q0 = q - 1 /\ q \in 1 .. ng /\ p0 = p
        BY <2>2, <3>2
      <4>2. G[q] = G[q0] + v[q] /\ h[i] = v[q] /\ v[q] \in Int /\ G[q0] \in Int /\ F[p] \in Int
        BY <1>1, <1>2, <2>2, <2>3, <3>2, <4>1
      <4> QED
        BY <2>4, <2>5, <4>1, <4>2
    <3> QED
      BY <3>1, <3>2
  <2> QED
    BY <2>6 DEF i, p, q
<1>8. m \in S
  <2> HIDE DEF S
  <2> QED
    BY <1>6, <1>7, NatInduct
<1>9. H[m] = F[a[m]] + G[m - a[m]]
  BY <1>8
<1>10. a[m] \in 0 .. nf /\ m - a[m] \in 0 .. ng
  BY DEF Interleaves, Split
<1> QED
  BY <1>1, <1>2, <1>3, <1>5, <1>9, <1>10

\* The first n values do not descend.
Ascends(f, n) == \A i, j \in 1 .. n : i <= j => f[i] <= f[j]

\* Two ascending lists make an ascending one.
LEMMA InterleaveAscends ==
  ASSUME NEW nf \in Nat, NEW ng \in Nat, NEW f, NEW g, NEW a, Interleaves(a, f, nf, g, ng),
         NEW h, Follows(h, a, f, nf, g, ng),
         \A i \in 1 .. nf : f[i] \in Int, \A i \in 1 .. ng : g[i] \in Int,
         Ascends(f, nf), Ascends(g, ng)
  PROVE  Ascends(h, nf + ng)
<1> DEFINE n == nf + ng
<1>1. n \in Nat /\ \A i \in 1 .. n : h[i] \in Int
  <2>1. 0 \in 0 .. nf + ng
    OBVIOUS
  <2> QED
    BY <2>1, InterleaveSum
<1>2. ASSUME NEW m \in 1 .. n - 1 PROVE h[m] <= h[m + 1]
  <2> DEFINE k == m + 1
             p == a[m]
             q == m - p
             r == a[k]
             s == k - r
  <2>1. m \in 1 .. nf + ng /\ k \in 1 .. nf + ng /\ k - 1 = m /\ m \in 0 .. nf + ng
    OBVIOUS
  <2>2. h[m] = (IF a[m] > a[m - 1] THEN f[p] ELSE g[q])
        /\ h[k] = (IF a[k] > a[m] THEN f[r] ELSE g[s])
    BY <2>1 DEF Follows
  <2>3. p \in 0 .. nf /\ q \in 0 .. ng
        /\ (a[m] > a[m - 1] => p \in 1 .. nf)
        /\ (~(a[m] > a[m - 1]) => q \in 1 .. ng)
    BY <2>1, InterleaveStep
  <2>4. /\ r \in 0 .. nf /\ s \in 0 .. ng
        /\ (a[k] > a[m] => p = r - 1 /\ r \in 1 .. nf)
        /\ (~(a[k] > a[m]) => p = r /\ s \in 1 .. ng /\ q = s - 1)
    <3>1. /\ a[k] \in 0 .. nf /\ k - a[k] \in 0 .. ng
          /\ a[k - 1] \in 0 .. nf /\ (k - 1) - a[k - 1] \in 0 .. ng
          /\ \/ /\ a[k] > a[k - 1] /\ a[k - 1] = a[k] - 1 /\ a[k] \in 1 .. nf
                /\ (k - 1) - a[k - 1] = k - a[k]
             \/ /\ ~(a[k] > a[k - 1]) /\ a[k - 1] = a[k] /\ k - a[k] \in 1 .. ng
                /\ (k - 1) - a[k - 1] = (k - a[k]) - 1
      <4> HIDE DEF k
      <4> QED
        BY <2>1, InterleaveStep
    <3> QED
      BY <2>1, <3>1
  <2>5. Split(f, nf, g, ng, p, q)
    BY <2>1 DEF Interleaves
  <2> HIDE DEF k
  <2>6. CASE a[m] > a[m - 1] /\ a[k] > a[m]
    <3>1. p \in 1 .. nf /\ r \in 1 .. nf /\ p <= r /\ h[m] = f[p] /\ h[k] = f[r]
      BY <2>2, <2>3, <2>4, <2>6
    <3> QED
      BY <3>1 DEF Ascends, k
  <2>7. CASE a[m] > a[m - 1] /\ ~(a[k] > a[m])
    <3>1. p \in 1 .. p /\ s \in q + 1 .. ng /\ h[m] = f[p] /\ h[k] = g[s]
      BY <2>2, <2>3, <2>4, <2>7
    <3> QED
      BY <2>5, <3>1 DEF Split, k
  <2>8. CASE ~(a[m] > a[m - 1]) /\ a[k] > a[m]
    <3>1. q \in 1 .. q /\ r \in p + 1 .. nf /\ h[m] = g[q] /\ h[k] = f[r]
      BY <2>2, <2>3, <2>4, <2>8
    <3> QED
      BY <2>5, <3>1 DEF Split, k
  <2>9. CASE ~(a[m] > a[m - 1]) /\ ~(a[k] > a[m])
    <3>1. q \in 1 .. ng /\ s \in 1 .. ng /\ q <= s /\ h[m] = g[q] /\ h[k] = g[s]
      BY <2>2, <2>3, <2>4, <2>9
    <3> QED
      BY <3>1 DEF Ascends, k
  <2> QED
    BY <2>6, <2>7, <2>8, <2>9
<1> HIDE DEF n
<1>3. \A i, j \in 1 .. n : i <= j => h[i] <= h[j]
  BY <1>1, <1>2, Rising
<1> QED
  BY <1>3 DEF Ascends, n

\* The lightest of a set's elements, as many as another of its subsets has at
\* least, weigh no more than that subset.
LEMMA LightestFirst ==
  ASSUME NEW U, IsFiniteSet(U), NEW w, \A s \in U : w[s] \in Nat,
         NEW A \in SUBSET U, NEW B \in SUBSET U, Cardinality(B) <= Cardinality(A),
         NEW t \in Nat, \A s \in B : w[s] <= t, \A s \in U \ B : w[s] >= t
  PROVE  SumOf(w, B) <= SumOf(w, A)
<1> DEFINE v == [s \in U |-> w[s] - t]
           inA == [s \in U |-> IF s \in A THEN w[s] - t ELSE 0]
           inB == [s \in U |-> IF s \in B THEN w[s] - t ELSE 0]
           a == SumOf(w, A)
           b == SumOf(w, B)
           va == SumOf(v, A)
           vb == SumOf(v, B)
           ca == Cardinality(A)
           cb == Cardinality(B)
<1>1. IsFiniteSet(A) /\ IsFiniteSet(B)
  BY FS_Subset
<1>2. ca \in Nat /\ cb \in Nat
  BY <1>1, FS_CardinalityType
<1>3. \A s \in U : inA[s] \in Int /\ inB[s] \in Int /\ inB[s] <= inA[s]
  <2> TAKE s \in U
  <2>1. w[s] \in Nat /\ (s \in B => w[s] <= t) /\ (s \notin B => w[s] >= t)
    OBVIOUS
  <2> QED
    BY <2>1
<1>4. SumOf(inB, U) <= SumOf(inA, U)
  <2> HIDE DEF inA, inB
  <2> QED
    BY <1>3, SumAtMost
<1>5. SumOf(inA, U) = va
  <2>1. (\A s \in A : v[s] \in Int /\ inA[s] = v[s]) /\ \A s \in U \ A : inA[s] = 0
    OBVIOUS
  <2> HIDE DEF inA, v
  <2> QED
    BY <2>1, SumWithin
<1>6. SumOf(inB, U) = vb
  <2>1. (\A s \in B : v[s] \in Int /\ inB[s] = v[s]) /\ \A s \in U \ B : inB[s] = 0
    OBVIOUS
  <2> HIDE DEF inB, v
  <2> QED
    BY <2>1, SumWithin
<1>7. ASSUME NEW S \in SUBSET U, IsFiniteSet(S)
      PROVE  SumOf(w, S) = SumOf(v, S) + t * Cardinality(S)
             /\ SumOf(v, S) \in Int
  <2> DEFINE c == [s \in U |-> t]
  <2>1. \A s \in S : v[s] \in Int /\ c[s] \in Int /\ w[s] = v[s] + c[s]
    <3> TAKE s \in S
    <3>1. s \in U /\ w[s] \in Nat
      OBVIOUS
    <3> QED
      BY <3>1
  <2>2. \A s \in S : c[s] = t
    OBVIOUS
  <2> HIDE DEF c, v
  <2>3. SumOf(w, S) = SumOf(v, S) + SumOf(c, S)
    BY <1>7, <2>1, SumPlus
  <2>4. SumOf(c, S) = t * Cardinality(S)
    <3>1. t \in Int
      OBVIOUS
    <3> QED
      BY <1>7, <2>2, <3>1, SumOfEqual
  <2>5. SumOf(v, S) \in Int
    <3>1. S \in SUBSET S /\ \A s \in S : v[s] \in Int
      BY <2>1
    <3> QED
      BY <1>7, <3>1, SumInt
  <2> QED
    BY <2>3, <2>4, <2>5
<1>8. a = va + t * ca /\ b = vb + t * cb /\ va \in Int /\ vb \in Int
  BY <1>1, <1>7
<1>9. vb <= va
  BY <1>4, <1>5, <1>6
<1>10. cb <= ca
  OBVIOUS
<1> HIDE DEF a, b, va, vb, ca, cb
<1>11. t * cb <= t * ca /\ t * cb \in Int /\ t * ca \in Int
  BY <1>2, <1>10, MulMono
<1>12. b <= a
  <2> DEFINE ta == t * ca
             tb == t * cb
  <2>1. tb <= ta /\ ta \in Int /\ tb \in Int /\ a = va + ta /\ b = vb + tb
    BY <1>8, <1>11
  <2> HIDE DEF ta, tb
  <2> QED
    BY <1>8, <1>9, <2>1
<1> QED
  BY <1>12 DEF a, b

-----------------------------------------------------------------------------
(* The nodes of package-merge, and the loop that merges *)

\* Nodes of the merge: a weight, and how often each symbol is held.
Nodes == [weight : Nat \ {0}, holds : [Symbols -> Nat]]

\* The weights of a list's nodes, and how often they hold a symbol.
Weights(list) == [i \in 1 .. Len(list) |-> list[i].weight]
Holdings(list, s) == [i \in 1 .. Len(list) |-> list[i].holds[s]]

\* Weights and counts are numbers.
LEMMA NodeFacts ==
  ASSUME NEW list \in Seq(Nodes)
  PROVE  /\ Len(list) \in Nat /\ DOMAIN list = 1 .. Len(list)
         /\ \A i \in 1 .. Len(list) : /\ list[i] \in Nodes
                                       /\ Weights(list)[i] = list[i].weight
                                       /\ list[i].weight \in Nat \ {0}
                                       /\ list[i].holds \in [Symbols -> Nat]
         /\ \A s \in Symbols, i \in 1 .. Len(list) :
              Holdings(list, s)[i] = list[i].holds[s] /\ list[i].holds[s] \in Nat
<1>1. Len(list) \in Nat /\ DOMAIN list = 1 .. Len(list)
  BY LenProperties
<1>2. \A i \in 1 .. Len(list) : list[i] \in Nodes
  BY ElementOfSeq
<1>3. \A i \in 1 .. Len(list) : list[i].weight \in Nat \ {0} /\ list[i].holds \in [Symbols -> Nat]
  BY <1>2 DEF Nodes
<1>4. \A s \in Symbols, i \in 1 .. Len(list) : list[i].holds[s] \in Nat
  BY <1>3
<1> QED
  BY <1>1, <1>2, <1>3, <1>4 DEF Weights, Holdings

\* A function from 1 to n is a sequence of that length.
LEMMA IsSequence ==
  ASSUME NEW n \in Nat, NEW S, NEW f \in [1 .. n -> S]
  PROVE  f \in Seq(S) /\ Len(f) = n
<1>1. f \in Seq(S)
  BY SeqDef
<1>2. Len(f) \in Nat /\ DOMAIN f = 1 .. Len(f)
  BY <1>1, LenProperties
<1>3. 1 .. n = 1 .. Len(f)
  BY <1>2
<1>4. Len(f) = n
  <2> DEFINE m == Len(f)
  <2>1. m \in Nat /\ 1 .. n = 1 .. m
    BY <1>2, <1>3
  <2> HIDE DEF m
  <2>2. (n >= 1 => n \in 1 .. m) /\ (m >= 1 => m \in 1 .. n)
    BY <2>1
  <2>3. n = m
    BY <2>1, <2>2
  <2> QED
    BY <2>3 DEF m
<1> QED
  BY <1>1, <1>4

\* How the count of packages goes on.
LEMMA TakenSteps ==
  ASSUME NEW packages, NEW leaves, Len(packages) \in Nat, Len(leaves) \in Nat
  PROVE  LET taken == Taken(packages, leaves)
             n == Len(packages) + Len(leaves)
         IN  /\ taken[0] = 0
             /\ \A m \in 0 .. n : taken[m] \in Nat
             /\ \A m \in 1 .. n :
                  taken[m] = IF TakesPackage(packages, leaves, taken[m - 1], m - 1 - taken[m - 1])
                               THEN taken[m - 1] + 1 ELSE taken[m - 1]
<1> DEFINE n == Len(packages) + Len(leaves)
           A(f) == f = [m \in 0 .. n |->
                     IF m = 0 THEN 0
                     ELSE LET p == f[m - 1]
                          IN  IF TakesPackage(packages, leaves, p, m - 1 - p) THEN p + 1 ELSE p]
           taken == CHOOSE f : A(f)
           step == [v \in Nat \X (1 .. n) |->
                      IF TakesPackage(packages, leaves, v[1], v[2] - 1 - v[1]) THEN v[1] + 1
                      ELSE v[1]]
<1>1. Taken(packages, leaves) = taken
  BY Zenon DEF Taken
<1>2. n \in Nat
  OBVIOUS
<1>3. \A v \in Nat, i \in 0 + 1 .. n : step[<<v, i>>] \in Nat
  BY <1>2
<1>4. 0 \in Int /\ n \in Int /\ 0 \in Nat
  BY <1>2
<1>5. PICK g \in [0 .. n -> Nat] : Recurs(g, 0, n, 0, step)
  <2> HIDE DEF step, n
  <2> QED
    BY <1>3, <1>4, RecursionExists
<1>6. A(g)
  <2>1. g = [i \in 0 .. n |-> IF i = 0 THEN 0 ELSE step[<<g[i - 1], i>>]]
    BY <1>5 DEF Recurs
  <2>2. ASSUME NEW i \in 0 .. n, i # 0
        PROVE  step[<<g[i - 1], i>>] =
                 (IF TakesPackage(packages, leaves, g[i - 1], i - 1 - g[i - 1])
                    THEN g[i - 1] + 1 ELSE g[i - 1])
    <3>1. i \in 1 .. n /\ i - 1 \in 0 .. n
      BY <1>2, <2>2
    <3>2. g[i - 1] \in Nat
      BY <1>5, <3>1
    <3> QED
      BY <3>1, <3>2
  <2> HIDE DEF step, n
  <2> QED
    BY <2>1, <2>2
<1>7. A(taken)
  <2>1. \E f : A(f)
    BY <1>6
  <2> QED
    BY <2>1
<1> DEFINE S == {m \in Nat : m <= n => taken[m] \in Nat}
<1> HIDE DEF taken
<1>8. 0 \in 0 .. n /\ taken[0] = 0
  BY <1>2, <1>7
<1>9. ASSUME NEW m \in 1 .. n
      PROVE  taken[m] = IF TakesPackage(packages, leaves, taken[m - 1], m - 1 - taken[m - 1])
                          THEN taken[m - 1] + 1 ELSE taken[m - 1]
  <2>1. m \in 0 .. n /\ m # 0
    BY <1>2
  <2> HIDE DEF n
  <2> QED
    BY <1>7, <2>1
<1>10. \A m \in Nat : m \in S
  <2>1. 0 \in S
    BY <1>8
  <2>2. ASSUME NEW m \in Nat, m \in S PROVE m + 1 \in S
    <3> SUFFICES ASSUME m + 1 <= n PROVE taken[m + 1] \in Nat
      OBVIOUS
    <3>1. m + 1 \in 1 .. n /\ (m + 1) - 1 = m /\ m <= n
      BY <1>2
    <3>2. taken[m] \in Nat
      BY <2>2, <3>1
    <3> HIDE DEF n
    <3>3. taken[m + 1] = taken[m] + 1 \/ taken[m + 1] = taken[m]
      BY <1>9, <3>1
    <3> QED
      BY <3>2, <3>3
  <2> HIDE DEF S
  <2> QED
    BY <2>1, <2>2, NatInduct
<1>11. \A m \in 0 .. n : taken[m] \in Nat
  BY <1>2, <1>10
<1> QED
  BY <1>1, <1>8, <1>9, <1>11

\* The merge splits two ascending lists at every step.
LEMMA TakenInterleaves ==
  ASSUME NEW packages \in Seq(Nodes), NEW leaves \in Seq(Nodes),
         Ascends(Weights(packages), Len(packages)), Ascends(Weights(leaves), Len(leaves))
  PROVE  Interleaves(Taken(packages, leaves), Weights(packages), Len(packages),
                     Weights(leaves), Len(leaves))
<1> DEFINE np == Len(packages)
           nl == Len(leaves)
           f == Weights(packages)
           g == Weights(leaves)
           a == Taken(packages, leaves)
           S == {m \in Nat : m <= np + nl => Split(f, np, g, nl, a[m], m - a[m])}
<1>1. np \in Nat /\ nl \in Nat
  BY NodeFacts
<1>2. a[0] = 0 /\ (\A m \in 0 .. np + nl : a[m] \in Nat)
      /\ \A m \in 1 .. np + nl :
           a[m] = IF TakesPackage(packages, leaves, a[m - 1], m - 1 - a[m - 1])
                    THEN a[m - 1] + 1 ELSE a[m - 1]
  BY <1>1, TakenSteps
<1>3. (\A i \in 1 .. np : f[i] = packages[i].weight /\ f[i] \in Nat)
      /\ \A i \in 1 .. nl : g[i] = leaves[i].weight /\ g[i] \in Nat
  BY NodeFacts
<1>4. ASSUME NEW p \in 0 .. np, NEW l \in 0 .. nl
      PROVE  TakesPackage(packages, leaves, p, l) <=>
               p < np /\ (l < nl => f[p + 1] <= g[l + 1])
  <2>1. TakesPackage(packages, leaves, p, l) <=>
          p < np /\ (l < nl => packages[p + 1].weight <= leaves[l + 1].weight)
    BY DEF TakesPackage
  <2>2. (p < np => p + 1 \in 1 .. np) /\ (l < nl => l + 1 \in 1 .. nl)
    BY <1>1
  <2>3. (p < np => f[p + 1] = packages[p + 1].weight)
        /\ (l < nl => g[l + 1] = leaves[l + 1].weight)
    BY <1>3, <2>2
  <2> QED
    BY <2>1, <2>3
<1>5. Ascends(f, np) /\ Ascends(g, nl)
  OBVIOUS
<1> HIDE DEF np, nl, f, g, a
<1>6. 0 \in S
  <2>1. Split(f, np, g, nl, 0, 0)
    BY <1>1 DEF Split
  <2> QED
    BY <1>2, <2>1
<1>7. ASSUME NEW m \in Nat, m \in S PROVE m + 1 \in S
  <2> SUFFICES ASSUME m + 1 <= np + nl
               PROVE  Split(f, np, g, nl, a[m + 1], (m + 1) - a[m + 1])
    OBVIOUS
  <2> DEFINE k == m + 1
             p == a[m]
             l == m - p
  <2>1. m <= np + nl /\ k \in 1 .. np + nl /\ k - 1 = m /\ m = p + l
    BY <1>1, <1>2
  <2>2. Split(f, np, g, nl, p, l)
    BY <1>7, <2>1
  <2>3. p \in 0 .. np /\ l \in 0 .. nl
    BY <2>2 DEF Split
  <2>4. a[k] = IF TakesPackage(packages, leaves, p, l) THEN p + 1 ELSE p
    <3>1. a[k] = IF TakesPackage(packages, leaves, a[k - 1], k - 1 - a[k - 1])
                   THEN a[k - 1] + 1 ELSE a[k - 1]
      BY <1>2, <2>1
    <3> QED
      BY <2>1, <3>1
  <2>5. p \in Int /\ l \in Int
    BY <1>1, <2>3
  <2>6. k - (p + 1) = l /\ k - p = l + 1
    BY <2>5
  <2> HIDE DEF p, l, k
  <2>7. Split(f, np, g, nl, a[k], k - a[k])
    <3>1. CASE TakesPackage(packages, leaves, p, l)
      <4>1. a[k] = p + 1 /\ k - a[k] = l
        BY <2>4, <2>6, <3>1
      <4>2. p < np /\ (l < nl => f[p + 1] <= g[l + 1])
        BY <1>4, <2>3, <3>1
      <4>3. p + 1 \in 0 .. np /\ p + 1 \in 1 .. np
        BY <1>1, <2>3, <4>2
      <4>4. ASSUME NEW i \in 1 .. p + 1, NEW j \in l + 1 .. nl PROVE f[i] <= g[j]
        <5>1. CASE i \in 1 .. p
          BY <2>2, <5>1 DEF Split
        <5>2. CASE i = p + 1
          <6>1. l < nl /\ l + 1 \in 1 .. nl /\ j \in 1 .. nl /\ l + 1 <= j
            BY <1>1, <2>3
          <6>2. f[p + 1] <= g[l + 1] /\ g[l + 1] <= g[j]
            BY <1>5, <4>2, <6>1 DEF Ascends
          <6>3. f[p + 1] \in Nat /\ g[l + 1] \in Nat /\ g[j] \in Nat
            BY <1>3, <4>3, <6>1
          <6> QED
            BY <5>2, <6>2, <6>3
        <5> QED
          BY <2>3, <5>1, <5>2
      <4>5. ASSUME NEW i \in (p + 1) + 1 .. np, NEW j \in 1 .. l PROVE g[j] <= f[i]
        <5>1. i \in p + 1 .. np
          BY <2>3
        <5> QED
          BY <2>2, <5>1 DEF Split
      <4>6. Split(f, np, g, nl, p + 1, l)
        BY <2>3, <4>3, <4>4, <4>5 DEF Split
      <4> QED
        BY <4>1, <4>6
    <3>2. CASE ~TakesPackage(packages, leaves, p, l)
      <4>1. a[k] = p /\ k - a[k] = l + 1
        BY <2>4, <2>6, <3>2
      <4>2. p >= np \/ (l < nl /\ ~(f[p + 1] <= g[l + 1]))
        BY <1>1, <1>4, <2>3, <3>2
      <4>3. l < nl
        <5>1. p + l < np + nl
          BY <1>1, <2>1 DEF k, l
        <5> QED
          BY <1>1, <2>3, <4>2, <5>1
      <4>4. l + 1 \in 0 .. nl /\ l + 1 \in 1 .. nl
        BY <1>1, <2>3, <4>3
      <4>5. ASSUME NEW i \in p + 1 .. np, NEW j \in 1 .. l + 1 PROVE g[j] <= f[i]
        <5>1. CASE j \in 1 .. l
          BY <2>2, <5>1 DEF Split
        <5>2. CASE j = l + 1
          <6>1. p < np /\ p + 1 \in 1 .. np /\ i \in 1 .. np /\ p + 1 <= i
            BY <1>1, <2>3
          <6>2. ~(f[p + 1] <= g[l + 1]) /\ f[p + 1] <= f[i]
            BY <1>1, <1>5, <2>3, <4>2, <6>1 DEF Ascends
          <6>3. f[p + 1] \in Nat /\ g[l + 1] \in Nat /\ f[i] \in Nat
            BY <1>3, <4>4, <6>1
          <6> QED
            BY <5>2, <6>2, <6>3
        <5> QED
          BY <2>3, <5>1, <5>2
      <4>6. ASSUME NEW i \in 1 .. p, NEW j \in (l + 1) + 1 .. nl PROVE f[i] <= g[j]
        <5>1. j \in l + 1 .. nl
          BY <2>3
        <5> QED
          BY <2>2, <5>1 DEF Split
      <4>7. Split(f, np, g, nl, p, l + 1)
        BY <2>3, <4>4, <4>5, <4>6 DEF Split
      <4> QED
        BY <4>1, <4>7
    <3> QED
      BY <3>1, <3>2
  <2> QED
    BY <2>7 DEF k
<1>8. \A m \in 0 .. np + nl : Split(f, np, g, nl, a[m], m - a[m])
  <2>1. \A m \in Nat : m \in S
    <3> HIDE DEF S
    <3> QED
      BY <1>6, <1>7, NatInduct
  <2> QED
    BY <1>1, <2>1
<1>9. \A m \in 1 .. np + nl : a[m] \in {a[m - 1], a[m - 1] + 1}
  BY <1>2
<1> QED
  BY <1>2, <1>8, <1>9 DEF Interleaves, np, nl, f, g, a

-----------------------------------------------------------------------------
(* Code lengths: what they fill, and what they cost *)

\* The symbols with a count.
Occurring(c) == {s \in Symbols : c[s] > 0}

\* LengthsWithin up to k, none for what does not occur.
LengthsWithin(k, c) == {l \in [Symbols -> 0 .. k] : \A s \in Symbols : c[s] = 0 => l[s] = 0}

\* What lengths leave free of 2^k: a symbol of length 0 takes all of it.
Gap(l, k, U) == [s \in U |-> 2 ^ k - 2 ^ (k - l[s])]
Filled(l, k, U) == SumOf(Gap(l, k, U), U)

\* Bits spent on the symbols.
Spent(l, c, U) == [s \in U |-> l[s] * c[s]]
Cost(l, c, U) == SumOf(Spent(l, c, U), U)

\* What the first m nodes hold of each symbol, and what they weigh.
Held(list, m) == [s \in Symbols |-> SumOf(Holdings(list, s), 1 .. m)]
Weighed(list, m) == SumOf(Weights(list), 1 .. m)

\* The symbols that occur are finitely many.
LEMMA OccurringFinite ==
  ASSUME NEW c
  PROVE  IsFiniteSet(Occurring(c)) /\ Cardinality(Occurring(c)) \in Nat
         /\ Occurring(c) \in SUBSET Symbols /\ IsFiniteSet(Symbols)
<1>1. IsFiniteSet(Symbols)
  <2>1. 0 \in Int /\ NumSymbols - 1 \in Int
    BY TableAssumption
  <2>2. IsFiniteSet(0 .. NumSymbols - 1)
    BY <2>1, FS_Interval, Zenon
  <2> QED
    BY <2>2, Zenon DEF Symbols
<1>2. Occurring(c) \in SUBSET Symbols
  BY DEF Occurring
<1>3. IsFiniteSet(Occurring(c))
  BY <1>1, <1>2, FS_Subset
<1> QED
  BY <1>1, <1>2, <1>3, FS_CardinalityType

\* The gap of a symbol is a number, and less than all.
LEMMA GapFacts ==
  ASSUME NEW U, NEW k \in Nat, NEW l, \A s \in U : l[s] \in 0 .. k
  PROVE  /\ 2 ^ k \in Nat /\ 2 ^ k >= 1
         /\ \A s \in U : /\ Gap(l, k, U)[s] = 2 ^ k - 2 ^ (k - l[s])
                         /\ 2 ^ (k - l[s]) \in Nat /\ 2 ^ (k - l[s]) >= 1
                         /\ Gap(l, k, U)[s] \in Nat
<1>1. 2 ^ k \in Nat /\ 2 ^ k >= 1
  BY PowPos
<1>2. ASSUME NEW s \in U
      PROVE  /\ Gap(l, k, U)[s] = 2 ^ k - 2 ^ (k - l[s])
             /\ 2 ^ (k - l[s]) \in Nat /\ 2 ^ (k - l[s]) >= 1
             /\ Gap(l, k, U)[s] \in Nat
  <2> DEFINE a == l[s]
             b == k - a
             p == 2 ^ a
             q == 2 ^ b
  <2>1. a \in Nat /\ b \in Nat /\ k = a + b
    OBVIOUS
  <2>2. Gap(l, k, U)[s] = 2 ^ k - q
    BY DEF Gap
  <2> HIDE DEF b
  <2>3. p \in Nat /\ p >= 1 /\ q \in Nat /\ q >= 1
    BY <2>1, PowPos
  <2>4. 2 ^ k = p * q
    BY <2>1, PowAdd
  <2> HIDE DEF p, q
  <2>5. p * q - q \in Nat
    <3>1. 1 * q <= p * q
      <4>1. q * 1 <= q * p
        <5>1. 1 \in Nat
          OBVIOUS
        <5> QED
          BY <2>3, <5>1, MulMono
      <4> QED
        BY <2>3, <4>1
    <3>2. p * q \in Nat
      BY <2>3, MulNat
    <3> DEFINE r == p * q
    <3>3. q <= r /\ r \in Nat
      BY <2>3, <3>1, <3>2
    <3> HIDE DEF r
    <3>4. r - q \in Nat
      BY <2>3, <3>3
    <3> QED
      BY <3>4 DEF r
  <2> QED
    BY <2>2, <2>3, <2>4, <2>5 DEF b, q
<1> QED
  BY <1>1, <1>2

\* What is filled is a number.
LEMMA FilledNat ==
  ASSUME NEW U, IsFiniteSet(U), NEW k \in Nat, NEW l, \A s \in U : l[s] \in 0 .. k
  PROVE  Filled(l, k, U) \in Nat
<1>1. \A s \in U : Gap(l, k, U)[s] \in Nat
  BY GapFacts
<1> QED
  BY <1>1, SumNat DEF Filled

\* One more for some, and nothing for the others, which had none before.
Lengthens(e, l, B, U) ==
  /\ \A s \in B : e[s] = l[s] + 1
  /\ \A s \in U \ B : e[s] = 0 /\ l[s] = 0

\* One more bit for some symbols, none of the others having any: the scale
\* doubles, and each of them fills half of it.
LEMMA LengthenFills ==
  ASSUME NEW U, IsFiniteSet(U), NEW B \in SUBSET U, NEW k \in Nat, NEW l, NEW e,
         \A s \in U : l[s] \in 0 .. k,
         Lengthens(e, l, B, U), NEW n, n = k + 1
  PROVE  Filled(e, n, U) = Filled(l, k, U) + 2 ^ k * Cardinality(B)
<1> DEFINE g == Gap(l, k, U)
           h == Gap(e, k + 1, U)
           p == 2 ^ k
           w == [s \in U |-> IF s \in B THEN p ELSE 0]
<1>0. (\A s \in B : e[s] = l[s] + 1) /\ (\A s \in U \ B : e[s] = 0 /\ l[s] = 0)
  BY DEF Lengthens
<1>1. p \in Nat /\ \A s \in U : g[s] = p - 2 ^ (k - l[s]) /\ g[s] \in Nat
                                /\ 2 ^ (k - l[s]) \in Nat
  <2>1. /\ 2 ^ k \in Nat /\ 2 ^ k >= 1
        /\ \A s \in U : /\ Gap(l, k, U)[s] = 2 ^ k - 2 ^ (k - l[s])
                        /\ 2 ^ (k - l[s]) \in Nat /\ 2 ^ (k - l[s]) >= 1
                        /\ Gap(l, k, U)[s] \in Nat
    <3> HIDE DEF g, h, p, w
    <3> QED
      BY GapFacts
  <2> HIDE DEF w, h
  <2> QED
    BY <2>1
<1>2. ASSUME NEW s \in U PROVE h[s] = g[s] + w[s]
  <2>1. h[s] = 2 ^ (k + 1) - 2 ^ ((k + 1) - e[s])
    BY DEF Gap
  <2>2. 2 ^ (k + 1) = 2 * p
    BY PowStep
  <2>3. CASE s \in B
    <3>1. (k + 1) - e[s] = k - l[s]
      BY <1>0, <2>3
    <3>2. w[s] = p
      BY <2>3
    <3> HIDE DEF p, g, w, h
    <3> DEFINE q == 2 ^ (k - l[s])
    <3>3. g[s] = p - q /\ q \in Nat /\ h[s] = 2 * p - q
      BY <1>1, <2>1, <2>2, <3>1
    <3> HIDE DEF q
    <3> QED
      BY <1>1, <3>2, <3>3
  <2>4. CASE s \notin B
    <3>1. (k + 1) - e[s] = k + 1 /\ k - l[s] = k
      BY <1>0, <2>4
    <3>2. w[s] = 0
      BY <2>4
    <3> HIDE DEF g, w, h
    <3>3. g[s] = p - p /\ h[s] = 2 * p - 2 * p
      BY <1>1, <2>1, <2>2, <3>1
    <3> HIDE DEF p
    <3> QED
      BY <1>1, <3>2, <3>3
  <2> QED
    BY <2>3, <2>4
<1>3. \A s \in U : g[s] \in Int /\ w[s] \in Int
  <2>1. p \in Int
    BY <1>1
  <2> HIDE DEF p, g
  <2> QED
    BY <1>1, <2>1
<1>4. IsFiniteSet(B) /\ p \in Int
  BY <1>1, FS_Subset
<1>5. (\A s \in B : w[s] = p) /\ (\A s \in B : w[s] \in Int /\ w[s] = w[s])
      /\ (\A s \in U \ B : w[s] = 0)
  BY <1>3
<1> HIDE DEF g, h, w, p
<1>6. SumOf(h, U) = SumOf(g, U) + SumOf(w, U)
  BY <1>2, <1>3, SumPlus
<1>7. SumOf(w, U) = SumOf(w, B)
  BY <1>5, SumWithin
<1>8. SumOf(w, B) = p * Cardinality(B)
  BY <1>4, <1>5, SumOfEqual
<1>9. SumOf(h, U) = SumOf(g, U) + p * Cardinality(B)
  BY <1>6, <1>7, <1>8
<1> QED
  BY <1>9 DEF Filled, g, h, p

\* The occurrences of those symbols take one more bit each.
LEMMA LengthenCosts ==
  ASSUME NEW U, IsFiniteSet(U), NEW B \in SUBSET U, NEW l, NEW e, NEW c,
         \A s \in U : l[s] \in Nat /\ c[s] \in Nat,
         Lengthens(e, l, B, U)
  PROVE  Cost(e, c, U) = Cost(l, c, U) + SumOf(c, B)
<1> DEFINE y == Spent(l, c, U)
           z == Spent(e, c, U)
           v == [s \in U |-> IF s \in B THEN c[s] ELSE 0]
<1>1. (\A s \in B : e[s] = l[s] + 1) /\ (\A s \in U \ B : e[s] = 0 /\ l[s] = 0)
  BY DEF Lengthens
<1>2. ASSUME NEW s \in U PROVE y[s] \in Int /\ z[s] = y[s] + v[s]
  <2>1. c[s] \in Nat /\ l[s] \in Nat /\ y[s] = l[s] * c[s] /\ z[s] = e[s] * c[s]
    BY DEF Spent
  <2>2. l[s] * c[s] \in Nat
    BY <2>1, MulNat
  <2>3. CASE s \in B
    <3>1. e[s] = l[s] + 1 /\ v[s] = c[s]
      BY <1>1, <2>3
    <3>2. (l[s] + 1) * c[s] = l[s] * c[s] + c[s]
      <4> DEFINE a == l[s]
                 b == c[s]
      <4>1. a \in Int /\ b \in Int
        BY <2>1
      <4> HIDE DEF a, b
      <4>2. (a + 1) * b = a * b + b
        BY <4>1
      <4> QED
        BY <4>2 DEF a, b
    <3> QED
      BY <2>1, <2>2, <3>1, <3>2
  <2>4. CASE s \notin B
    <3>1. e[s] = 0 /\ l[s] = 0 /\ v[s] = 0
      BY <1>1, <2>4
    <3>2. 0 * c[s] = 0
      BY <2>1
    <3> QED
      BY <2>1, <3>1, <3>2
  <2> QED
    BY <2>3, <2>4
<1>3. (\A s \in U : v[s] \in Int) /\ (\A s \in B : c[s] \in Int /\ v[s] = c[s])
      /\ (\A s \in U \ B : v[s] = 0)
  OBVIOUS
<1> HIDE DEF y, z, v
<1>4. SumOf(z, U) = SumOf(y, U) + SumOf(v, U)
  BY <1>2, <1>3, SumPlus
<1>5. SumOf(v, U) = SumOf(c, B)
  BY <1>3, SumWithin
<1> QED
  BY <1>4, <1>5 DEF Cost, y, z

\* The pairs of a list.
LEMMA PackagesAre ==
  ASSUME NEW list \in Seq(Nodes)
  PROVE  /\ Packages(list) \in Seq(Nodes)
         /\ Len(Packages(list)) = Len(list) \div 2
         /\ \A i \in 1 .. Len(list) \div 2 :
              /\ 2 * i - 1 \in 1 .. Len(list) /\ 2 * i \in 1 .. Len(list)
              /\ Weights(Packages(list))[i] = Weights(list)[2 * i - 1] + Weights(list)[2 * i]
              /\ \A s \in Symbols : Holdings(Packages(list), s)[i]
                                      = Holdings(list, s)[2 * i - 1] + Holdings(list, s)[2 * i]
<1> DEFINE n == Len(list)
           h == n \div 2
           P == Packages(list)
<1>1. n \in Nat /\ (\A i \in 1 .. n : /\ Weights(list)[i] = list[i].weight
                                      /\ list[i].weight \in Nat \ {0}
                                      /\ list[i].holds \in [Symbols -> Nat])
      /\ \A s \in Symbols, i \in 1 .. n :
           Holdings(list, s)[i] = list[i].holds[s] /\ list[i].holds[s] \in Nat
  BY NodeFacts
<1>2. h \in Nat /\ \A i \in 1 .. h : 2 * i - 1 \in 1 .. n /\ 2 * i \in 1 .. n
  BY <1>1
<1>3. P = [i \in 1 .. h |-> Joint(list[2 * i - 1], list[2 * i])]
  BY DEF Packages
<1> HIDE DEF h
<1>4. ASSUME NEW i \in 1 .. h
      PROVE  /\ P[i] \in Nodes
             /\ P[i].weight = Weights(list)[2 * i - 1] + Weights(list)[2 * i]
             /\ \A s \in Symbols : P[i].holds[s] = Holdings(list, s)[2 * i - 1]
                                                     + Holdings(list, s)[2 * i]
  <2> DEFINE a == list[2 * i - 1]
             b == list[2 * i]
  <2>1. P[i] = Joint(a, b)
    BY <1>3
  <2>2. a.weight \in Nat \ {0} /\ b.weight \in Nat \ {0}
        /\ a.holds \in [Symbols -> Nat] /\ b.holds \in [Symbols -> Nat]
        /\ Weights(list)[2 * i - 1] = a.weight /\ Weights(list)[2 * i] = b.weight
    BY <1>1, <1>2
  <2>3. \A s \in Symbols : Holdings(list, s)[2 * i - 1] = a.holds[s]
                           /\ Holdings(list, s)[2 * i] = b.holds[s]
    BY <1>1, <1>2
  <2> HIDE DEF a, b
  <2>4. Joint(a, b) \in Nodes /\ Joint(a, b).weight = a.weight + b.weight
        /\ \A s \in Symbols : Joint(a, b).holds[s] = a.holds[s] + b.holds[s]
    <3>1. a.weight + b.weight \in Nat \ {0}
      BY <2>2
    <3>2. [s \in Symbols |-> a.holds[s] + b.holds[s]] \in [Symbols -> Nat]
      BY <2>2
    <3> QED
      BY <3>1, <3>2 DEF Joint, Nodes
  <2> QED
    BY <2>1, <2>2, <2>3, <2>4
<1>5. P \in [1 .. h -> Nodes]
  BY <1>3, <1>4
<1> HIDE DEF P
<1>6. P \in Seq(Nodes) /\ Len(P) = h
  BY <1>2, <1>5, IsSequence
<1>7. \A i \in 1 .. h : Weights(P)[i] = P[i].weight
                        /\ \A s \in Symbols : Holdings(P, s)[i] = P[i].holds[s]
  BY <1>6 DEF Weights, Holdings
<1> QED
  BY <1>2, <1>4, <1>6, <1>7 DEF P, h

\* The nodes of two lists made one.
LEMMA MergedAre ==
  ASSUME NEW packages \in Seq(Nodes), NEW leaves \in Seq(Nodes),
         Ascends(Weights(packages), Len(packages)), Ascends(Weights(leaves), Len(leaves))
  PROVE  LET merged == Merged(packages, leaves)
             taken == Taken(packages, leaves)
             np == Len(packages)
             nl == Len(leaves)
         IN  /\ merged \in Seq(Nodes) /\ Len(merged) = np + nl
             /\ \A m \in 1 .. np + nl :
                  \/ \E i \in 1 .. np : merged[m] = packages[i]
                  \/ \E i \in 1 .. nl : merged[m] = leaves[i]
             /\ Interleaves(taken, Weights(packages), np, Weights(leaves), nl)
             /\ Follows(Weights(merged), taken, Weights(packages), np, Weights(leaves), nl)
             /\ \A s \in Symbols :
                  Follows(Holdings(merged, s), taken,
                          Holdings(packages, s), np, Holdings(leaves, s), nl)
<1> DEFINE M == Merged(packages, leaves)
           a == Taken(packages, leaves)
           np == Len(packages)
           nl == Len(leaves)
<1>1. np \in Nat /\ nl \in Nat
      /\ (\A i \in 1 .. np : packages[i] \in Nodes /\ Weights(packages)[i] = packages[i].weight)
      /\ (\A i \in 1 .. nl : leaves[i] \in Nodes /\ Weights(leaves)[i] = leaves[i].weight)
      /\ (\A s \in Symbols, i \in 1 .. np : Holdings(packages, s)[i] = packages[i].holds[s])
      /\ (\A s \in Symbols, i \in 1 .. nl : Holdings(leaves, s)[i] = leaves[i].holds[s])
  <2>1. ASSUME NEW x \in Seq(Nodes)
        PROVE  /\ Len(x) \in Nat
               /\ \A i \in 1 .. Len(x) : x[i] \in Nodes /\ Weights(x)[i] = x[i].weight
               /\ \A s \in Symbols, i \in 1 .. Len(x) : Holdings(x, s)[i] = x[i].holds[s]
    BY NodeFacts
  <2> HIDE DEF M, a
  <2> QED
    BY <2>1
<1>2. Interleaves(a, Weights(packages), np, Weights(leaves), nl)
  BY TakenInterleaves
<1>3. M = [m \in 1 .. np + nl |->
             IF a[m] > a[m - 1] THEN packages[a[m]] ELSE leaves[m - a[m]]]
  BY DEF Merged
<1> DEFINE f == Weights(packages)
           g == Weights(leaves)
<1> HIDE DEF np, nl, a, M, f, g
<1>4. ASSUME NEW m \in 1 .. np + nl
      PROVE  (a[m] > a[m - 1] /\ a[m] \in 1 .. np) \/ (~(a[m] > a[m - 1]) /\ m - a[m] \in 1 .. nl)
  <2>1. Interleaves(a, f, np, g, nl)
    BY <1>2 DEF f, g
  <2> QED
    BY <1>1, <2>1, InterleaveStep
<1>5. M \in [1 .. np + nl -> Nodes]
  BY <1>1, <1>3, <1>4
<1>6. np + nl \in Nat
  BY <1>1
<1>7. M \in Seq(Nodes) /\ Len(M) = np + nl
  BY <1>5, <1>6, IsSequence
<1>8. \A m \in 1 .. np + nl : \/ \E i \in 1 .. np : M[m] = packages[i]
                              \/ \E i \in 1 .. nl : M[m] = leaves[i]
  BY <1>3, <1>4
<1>9. \A m \in 1 .. np + nl :
        Weights(M)[m] = IF a[m] > a[m - 1] THEN f[a[m]] ELSE g[m - a[m]]
  <2> TAKE m \in 1 .. np + nl
  <2>1. Weights(M)[m] = M[m].weight
    BY <1>7 DEF Weights
  <2>2. CASE a[m] > a[m - 1]
    BY <1>1, <1>3, <1>4, <2>1, <2>2 DEF f
  <2>3. CASE ~(a[m] > a[m - 1])
    BY <1>1, <1>3, <1>4, <2>1, <2>3 DEF g
  <2> QED
    BY <2>2, <2>3
<1>10. \A s \in Symbols, m \in 1 .. np + nl :
         Holdings(M, s)[m] = IF a[m] > a[m - 1] THEN Holdings(packages, s)[a[m]]
                             ELSE Holdings(leaves, s)[m - a[m]]
  <2> TAKE s \in Symbols, m \in 1 .. np + nl
  <2>1. Holdings(M, s)[m] = M[m].holds[s]
    BY <1>7 DEF Holdings
  <2>2. CASE a[m] > a[m - 1]
    BY <1>1, <1>3, <1>4, <2>1, <2>2
  <2>3. CASE ~(a[m] > a[m - 1])
    BY <1>1, <1>3, <1>4, <2>1, <2>3
  <2> QED
    BY <2>2, <2>3
<1> QED
  BY <1>2, <1>7, <1>8, <1>9, <1>10 DEF Follows, np, nl, a, M, f, g

-----------------------------------------------------------------------------
(* From one level of the merge to the next *)

\* A node that holds a symbol weighs at least the symbol's count.
HoldsItsWeight(list, c) ==
  \A i \in 1 .. Len(list), s \in Symbols :
    list[i].holds[s] > 0 => c[s] > 0 /\ c[s] <= list[i].weight

\* The first b leaves are those of the symbols B, and no lighter one is left.
Lightest(leaves, c, b, B) ==
  /\ B \in SUBSET Occurring(c) /\ Cardinality(B) = b
  /\ Weighed(leaves, b) = SumOf(c, B)
  /\ \A s \in Symbols : Held(leaves, b)[s] = IF s \in B THEN 1 ELSE 0
  /\ \E t \in Nat : /\ \A s \in B : c[s] <= t
                    /\ \A s \in Occurring(c) \ B : c[s] >= t
  /\ \A s \in Occurring(c) \ B :
       \E j \in b + 1 .. Len(leaves) : Weights(leaves)[j] = c[s]

LeafList(leaves, c) ==
  /\ leaves \in Seq(Nodes) /\ Len(leaves) = Cardinality(Occurring(c))
  /\ Ascends(Weights(leaves), Len(leaves))
  /\ HoldsItsWeight(leaves, c)
  /\ \A b \in 0 .. Len(leaves) : \E B : Lightest(leaves, c, b, B)

\* The first m nodes of a level's list hold lengths that fill m/2 times 2^k and
\* weigh what these lengths cost; and lengths that fill as much cost no less, of
\* which there are none when the list is shorter.
LevelOk(list, k, c) ==
  /\ list \in Seq(Nodes)
  /\ Ascends(Weights(list), Len(list))
  /\ HoldsItsWeight(list, c)
  /\ \A m \in 0 .. Len(list) :
       /\ Held(list, m) \in LengthsWithin(k, c)
       /\ 2 * Filled(Held(list, m), k, Occurring(c)) = m * 2 ^ k
       /\ Weighed(list, m) = Cost(Held(list, m), c, Occurring(c))
  /\ \A m \in Nat, l \in LengthsWithin(k, c) :
       m * 2 ^ k <= 2 * Filled(l, k, Occurring(c)) =>
         m <= Len(list) /\ Weighed(list, m) <= Cost(l, c, Occurring(c))

\* Sums over the first nodes are numbers.
LEMMA PrefixFacts ==
  ASSUME NEW list \in Seq(Nodes), NEW m \in 0 .. Len(list)
  PROVE  Weighed(list, m) \in Nat /\ Held(list, m) \in [Symbols -> Nat]
<1>1. \A i \in 1 .. m : i \in 1 .. Len(list)
  BY NodeFacts
<1>2. \A i \in 1 .. m : Weights(list)[i] \in Nat
  <2>1. \A i \in 1 .. Len(list) : Weights(list)[i] \in Nat
    BY NodeFacts
  <2> QED
    BY <1>1, <2>1
<1>3. m \in Nat
  BY NodeFacts
<1>4. IsFiniteSet(1 .. m)
  BY <1>3, OneToN
<1>5. SumOf(Weights(list), 1 .. m) \in Nat
  BY <1>2, <1>4, SumNat
<1>6. ASSUME NEW s \in Symbols PROVE SumOf(Holdings(list, s), 1 .. m) \in Nat
  <2>1. \A i \in 1 .. Len(list) : Holdings(list, s)[i] \in Nat
    BY NodeFacts
  <2>2. \A i \in 1 .. m : Holdings(list, s)[i] \in Nat
    BY <1>1, <2>1
  <2> QED
    BY <1>4, <2>2, SumNat
<1> QED
  BY <1>5, <1>6 DEF Weighed, Held

\* The first p pairs add up to what the first 2 p nodes do.
LEMMA PairsAddUp ==
  ASSUME NEW list \in Seq(Nodes), NEW p \in 0 .. Len(list) \div 2
  PROVE  /\ 2 * p \in 0 .. Len(list)
         /\ Weighed(Packages(list), p) = Weighed(list, 2 * p)
         /\ Held(Packages(list), p) = Held(list, 2 * p)
<1> DEFINE n == Len(list)
           P == Packages(list)
<1>1. n \in Nat
  BY NodeFacts
<1>2. p \in Nat /\ 2 * p \in 0 .. n
  BY <1>1
<1>3. \A i \in 1 .. 2 * p : i \in 1 .. n
  BY <1>1, <1>2
<1>4. \A i \in 1 .. p : i \in 1 .. n \div 2
  BY <1>1, <1>2
<1>5. ASSUME NEW i \in 1 .. p
      PROVE  /\ Weights(P)[i] = Weights(list)[2 * i - 1] + Weights(list)[2 * i]
             /\ \A s \in Symbols : Holdings(P, s)[i] = Holdings(list, s)[2 * i - 1]
                                                         + Holdings(list, s)[2 * i]
  <2>1. i \in 1 .. Len(list) \div 2
    BY <1>4
  <2> QED
    BY <2>1, PackagesAre
<1>6. SumOf(Weights(P), 1 .. p) = SumOf(Weights(list), 1 .. 2 * p)
  <2>1. \A i \in 1 .. n : Weights(list)[i] \in Int
    BY NodeFacts
  <2>2. \A i \in 1 .. 2 * p : Weights(list)[i] \in Int
    BY <1>3, <2>1
  <2> QED
    BY <1>2, <1>5, <2>2, SumOfPairs
<1>7. ASSUME NEW s \in Symbols
      PROVE  SumOf(Holdings(P, s), 1 .. p) = SumOf(Holdings(list, s), 1 .. 2 * p)
  <2>1. \A i \in 1 .. n : Holdings(list, s)[i] \in Int
    BY NodeFacts
  <2>2. \A i \in 1 .. 2 * p : Holdings(list, s)[i] \in Int
    BY <1>3, <2>1
  <2>3. \A i \in 1 .. p : Holdings(P, s)[i] = Holdings(list, s)[2 * i - 1]
                                                + Holdings(list, s)[2 * i]
    BY <1>5
  <2> QED
    BY <1>2, <2>2, <2>3, SumOfPairs
<1> QED
  BY <1>2, <1>6, <1>7 DEF Weighed, Held

\* The pairs of an ascending list ascend.
LEMMA PairsAscend ==
  ASSUME NEW list \in Seq(Nodes), Ascends(Weights(list), Len(list))
  PROVE  Ascends(Weights(Packages(list)), Len(Packages(list)))
<1> DEFINE n == Len(list)
           w == Weights(list)
<1>1. n \in Nat /\ \A i \in 1 .. n : w[i] \in Nat
  BY NodeFacts
<1>2. Len(Packages(list)) = n \div 2
      /\ \A i \in 1 .. n \div 2 :
           /\ 2 * i - 1 \in 1 .. n /\ 2 * i \in 1 .. n
           /\ Weights(Packages(list))[i] = w[2 * i - 1] + w[2 * i]
  BY PackagesAre
<1>3. ASSUME NEW i \in 1 .. n \div 2, NEW j \in 1 .. n \div 2, i <= j
      PROVE  Weights(Packages(list))[i] <= Weights(Packages(list))[j]
  <2>1. 2 * i - 1 <= 2 * j - 1 /\ 2 * i <= 2 * j
    BY <1>1, <1>3
  <2>2. 2 * i - 1 \in 1 .. n /\ 2 * i \in 1 .. n /\ 2 * j - 1 \in 1 .. n /\ 2 * j \in 1 .. n
    BY <1>2
  <2> DEFINE a == 2 * i - 1
             b == 2 * i
             d == 2 * j - 1
             e == 2 * j
  <2>3. Weights(Packages(list))[i] = w[a] + w[b] /\ Weights(Packages(list))[j] = w[d] + w[e]
    BY <1>2
  <2>4. a \in 1 .. n /\ b \in 1 .. n /\ d \in 1 .. n /\ e \in 1 .. n /\ a <= d /\ b <= e
    BY <2>1, <2>2
  <2> HIDE DEF a, b, d, e
  <2>5. w[a] <= w[d] /\ w[b] <= w[e]
    BY <2>4 DEF Ascends
  <2>6. w[a] \in Nat /\ w[b] \in Nat /\ w[d] \in Nat /\ w[e] \in Nat
    BY <1>1, <2>4
  <2> HIDE DEF w
  <2> QED
    BY <2>3, <2>5, <2>6
<1> QED
  BY <1>2, <1>3 DEF Ascends

\* The merged list: it ascends, its nodes are pairs and leaves, and its first
\* nodes are a split of the pairs and the leaves, of least weight.
Merges(M, P, list, leaves) ==
  /\ M \in Seq(Nodes) /\ Len(M) = Len(list) \div 2 + Len(leaves)
  /\ P \in Seq(Nodes) /\ Len(P) = Len(list) \div 2
  /\ \A m \in 1 .. Len(M) : \/ \E i \in 1 .. Len(P) : M[m] = P[i]
                            \/ \E i \in 1 .. Len(leaves) : M[m] = leaves[i]
  /\ Ascends(Weights(M), Len(M))
  /\ \A m \in 0 .. Len(M) :
       \E a, b : /\ Split(Weights(P), Len(P), Weights(leaves), Len(leaves), a, b)
                 /\ a + b = m
                 /\ Weighed(M, m) = Weighed(list, 2 * a) + Weighed(leaves, b)
                 /\ \A s \in Symbols :
                      Held(M, m)[s] = Held(list, 2 * a)[s] + Held(leaves, b)[s]
  /\ \A p \in 0 .. Len(list) \div 2, r \in 0 .. Len(leaves) :
       Weighed(M, p + r) <= Weighed(list, 2 * p) + Weighed(leaves, r)

\* It is that.
LEMMA MergedSplits ==
  ASSUME NEW list \in Seq(Nodes), Ascends(Weights(list), Len(list)),
         NEW leaves \in Seq(Nodes), Ascends(Weights(leaves), Len(leaves)),
         NEW P, P = Packages(list), NEW M, M = Merged(P, leaves)
  PROVE  Merges(M, P, list, leaves)
<1> DEFINE t == Taken(P, leaves)
           np == Len(P)
           nl == Len(leaves)
           f == Weights(P)
           g == Weights(leaves)
<1>1. P \in Seq(Nodes) /\ np = Len(list) \div 2
  BY PackagesAre
<1>2. Ascends(f, np)
  BY PairsAscend
<1>3. /\ M \in Seq(Nodes) /\ Len(M) = np + nl
      /\ \A m \in 1 .. np + nl : \/ \E i \in 1 .. np : M[m] = P[i]
                                 \/ \E i \in 1 .. nl : M[m] = leaves[i]
      /\ Interleaves(t, f, np, g, nl)
      /\ Follows(Weights(M), t, f, np, g, nl)
      /\ \A s \in Symbols : Follows(Holdings(M, s), t, Holdings(P, s), np, Holdings(leaves, s), nl)
  <2> DEFINE Q == Merged(P, leaves)
  <2>1. /\ Q \in Seq(Nodes) /\ Len(Q) = np + nl
        /\ \A m \in 1 .. np + nl : \/ \E i \in 1 .. np : Q[m] = P[i]
                                   \/ \E i \in 1 .. nl : Q[m] = leaves[i]
        /\ Interleaves(t, f, np, g, nl)
        /\ Follows(Weights(Q), t, f, np, g, nl)
        /\ \A s \in Symbols : Follows(Holdings(Q, s), t, Holdings(P, s), np, Holdings(leaves, s), nl)
    BY <1>1, <1>2, MergedAre, Zenon
  <2>2. Q = M
    OBVIOUS
  <2> HIDE DEF Q
  <2> QED
    BY <2>1, <2>2
<1>4. /\ np \in Nat /\ nl \in Nat
      /\ \A i \in 1 .. np : f[i] \in Int
      /\ \A i \in 1 .. nl : g[i] \in Int
      /\ \A s \in Symbols, i \in 1 .. np : Holdings(P, s)[i] \in Int
      /\ \A s \in Symbols, i \in 1 .. nl : Holdings(leaves, s)[i] \in Int
  <2>1. ASSUME NEW x \in Seq(Nodes)
        PROVE  /\ Len(x) \in Nat
               /\ \A i \in 1 .. Len(x) : Weights(x)[i] \in Int
               /\ \A s \in Symbols, i \in 1 .. Len(x) : Holdings(x, s)[i] \in Int
    <3>1. Len(x) \in Nat /\ \A i \in 1 .. Len(x) : Weights(x)[i] \in Nat
      BY NodeFacts
    <3>2. \A s \in Symbols, i \in 1 .. Len(x) : Holdings(x, s)[i] \in Nat
      BY NodeFacts
    <3> QED
      BY <3>1, <3>2
  <2>2. /\ np \in Nat
        /\ \A i \in 1 .. np : f[i] \in Int
        /\ \A s \in Symbols, i \in 1 .. np : Holdings(P, s)[i] \in Int
    BY <1>1, <2>1
  <2>3. /\ nl \in Nat
        /\ \A i \in 1 .. nl : g[i] \in Int
        /\ \A s \in Symbols, i \in 1 .. nl : Holdings(leaves, s)[i] \in Int
    BY <2>1
  <2> QED
    BY <2>2, <2>3
<1> HIDE DEF np, nl, f, g, t
<1>5. Ascends(Weights(M), np + nl)
  <2>1. Ascends(g, nl)
    BY DEF g, nl
  <2> QED
    BY <1>2, <1>3, <1>4, <2>1, InterleaveAscends
<1>6. ASSUME NEW m \in 0 .. np + nl
      PROVE  /\ Split(f, np, g, nl, t[m], m - t[m]) /\ t[m] + (m - t[m]) = m
             /\ SumOf(Weights(M), 1 .. m) = SumOf(f, 1 .. t[m]) + SumOf(g, 1 .. m - t[m])
             /\ Weighed(M, m) = Weighed(list, 2 * t[m]) + Weighed(leaves, m - t[m])
             /\ \A s \in Symbols :
                  Held(M, m)[s] = Held(list, 2 * t[m])[s] + Held(leaves, m - t[m])[s]
  <2>1. Split(f, np, g, nl, t[m], m - t[m])
    BY <1>3 DEF Interleaves
  <2>2. t[m] \in 0 .. np /\ m - t[m] \in 0 .. nl
    BY <2>1 DEF Split
  <2>3. SumOf(Weights(M), 1 .. m) = SumOf(f, 1 .. t[m]) + SumOf(g, 1 .. m - t[m])
    BY <1>3, <1>4, InterleaveSum
  <2>4. Weighed(P, t[m]) = Weighed(list, 2 * t[m]) /\ Held(P, t[m]) = Held(list, 2 * t[m])
    <3>1. t[m] \in 0 .. Len(list) \div 2
      BY <1>1, <2>2
    <3> QED
      BY <3>1, PairsAddUp
  <2>5. ASSUME NEW s \in Symbols
        PROVE  Held(M, m)[s] = Held(list, 2 * t[m])[s] + Held(leaves, m - t[m])[s]
    <3>1. SumOf(Holdings(M, s), 1 .. m)
            = SumOf(Holdings(P, s), 1 .. t[m]) + SumOf(Holdings(leaves, s), 1 .. m - t[m])
      <4> DEFINE u == Holdings(P, s)
                 v == Holdings(leaves, s)
                 h == Holdings(M, s)
      <4>1. Follows(h, t, u, np, v, nl) /\ (\A i \in 1 .. np : u[i] \in Int)
            /\ (\A i \in 1 .. nl : v[i] \in Int)
        BY <1>3, <1>4
      <4> HIDE DEF u, v, h
      <4>2. Interleaves(t, f, np, g, nl) /\ np \in Nat /\ nl \in Nat
        BY <1>3, <1>4
      <4>3. SumOf(h, 1 .. m) = SumOf(u, 1 .. t[m]) + SumOf(v, 1 .. m - t[m])
        BY <4>1, <4>2, InterleaveSum
      <4> QED
        BY <4>3 DEF u, v, h
    <3>2. Held(M, m)[s] = Held(P, t[m])[s] + Held(leaves, m - t[m])[s]
      BY <3>1 DEF Held
    <3> QED
      BY <2>4, <3>2
  <2>6. t[m] + (m - t[m]) = m
    BY <1>4, <2>2
  <2>7. Weighed(M, m) = Weighed(list, 2 * t[m]) + Weighed(leaves, m - t[m])
    BY <2>3, <2>4 DEF Weighed, f, g
  <2> QED
    BY <2>1, <2>3, <2>5, <2>6, <2>7
<1>7. ASSUME NEW p \in 0 .. np, NEW r \in 0 .. nl
      PROVE  Weighed(M, p + r) <= Weighed(list, 2 * p) + Weighed(leaves, r)
  <2> DEFINE m == p + r
             a == t[m]
             b == m - t[m]
  <2>1. m \in 0 .. np + nl
    BY <1>4
  <2>2. Split(f, np, g, nl, a, b) /\ a + b = m
        /\ SumOf(Weights(M), 1 .. m) = SumOf(f, 1 .. a) + SumOf(g, 1 .. b)
    BY <1>6, <2>1
  <2>3. p + r = a + b
    BY <2>2
  <2> HIDE DEF a, b, m
  <2>4. SumOf(f, 1 .. a) + SumOf(g, 1 .. b) <= SumOf(f, 1 .. p) + SumOf(g, 1 .. r)
    BY <1>4, <2>2, <2>3, SplitIsLeast
  <2>5. p \in 0 .. Len(list) \div 2
    BY <1>1
  <2>6. Weighed(P, p) = Weighed(list, 2 * p)
    BY <2>5, PairsAddUp
  <2>7. SumOf(f, 1 .. p) = Weighed(list, 2 * p) /\ SumOf(g, 1 .. r) = Weighed(leaves, r)
        /\ SumOf(Weights(M), 1 .. m) = Weighed(M, p + r)
    BY <2>6 DEF Weighed, f, g, m
  <2> QED
    BY <2>2, <2>4, <2>7
<1>8. \A m \in 0 .. np + nl :
        \E a, b : /\ Split(f, np, g, nl, a, b)
                  /\ a + b = m
                  /\ Weighed(M, m) = Weighed(list, 2 * a) + Weighed(leaves, b)
                  /\ \A s \in Symbols :
                       Held(M, m)[s] = Held(list, 2 * a)[s] + Held(leaves, b)[s]
  <2> TAKE m \in 0 .. np + nl
  <2> WITNESS t[m], m - t[m]
  <2> QED
    BY <1>6
<1> QED
  BY <1>1, <1>3, <1>5, <1>7, <1>8 DEF Merges, np, nl, f, g

\* A pair that holds a symbol weighs more than the symbol's count.
LEMMA PairsHoldMore ==
  ASSUME NEW list \in Seq(Nodes), NEW c \in [Symbols -> Nat], HoldsItsWeight(list, c),
         NEW h \in 1 .. Len(list) \div 2, NEW i \in {2 * h - 1, 2 * h}, NEW s \in Symbols,
         list[i].holds[s] > 0
  PROVE  c[s] > 0 /\ c[s] < Weights(Packages(list))[h]
<1> DEFINE a == 2 * h - 1
           b == 2 * h
           w == Weights(list)
<1>1. a \in 1 .. Len(list) /\ b \in 1 .. Len(list)
      /\ Weights(Packages(list))[h] = w[a] + w[b]
  BY PackagesAre
<1>2. i \in {a, b}
  OBVIOUS
<1> HIDE DEF a, b
<1>3. i \in 1 .. Len(list)
  BY <1>1, <1>2
<1>4. \A j \in 1 .. Len(list) : w[j] = list[j].weight /\ list[j].weight \in Nat \ {0}
  BY NodeFacts
<1>5. c[s] > 0 /\ c[s] <= w[i] /\ c[s] \in Nat
  BY <1>3, <1>4 DEF HoldsItsWeight
<1>6. w[a] \in Nat \ {0} /\ w[b] \in Nat \ {0}
  BY <1>1, <1>4
<1> HIDE DEF w
<1> QED
  BY <1>1, <1>2, <1>5, <1>6

\* Symbols whose leaves are left are not in the pairs that are taken.
LEMMA NotYetTaken ==
  ASSUME NEW list \in Seq(Nodes), NEW c \in [Symbols -> Nat], HoldsItsWeight(list, c),
         NEW leaves \in Seq(Nodes), NEW a, NEW b, NEW B, Lightest(leaves, c, b, B),
         Split(Weights(Packages(list)), Len(list) \div 2, Weights(leaves), Len(leaves), a, b),
         NEW s \in Occurring(c) \ B
  PROVE  Held(list, 2 * a)[s] = 0
<1> DEFINE n == Len(list)
           P == Packages(list)
<1>1. n \in Nat /\ s \in Symbols /\ n \div 2 \in Nat
  BY NodeFacts DEF Occurring
<1>2. a \in 0 .. n \div 2
  BY DEF Split
<1>3. PICK j \in b + 1 .. Len(leaves) : Weights(leaves)[j] = c[s]
  BY DEF Lightest
<1>4. ASSUME NEW i \in 1 .. 2 * a PROVE i \in 1 .. n /\ list[i].holds[s] = 0
  <2>1. PICK h \in 1 .. a : i \in {2 * h - 1, 2 * h}
    <3> DEFINE h == (i + 1) \div 2
    <3>1. a \in Nat /\ i \in Nat
      BY <1>1, <1>2
    <3>2. h \in 1 .. a /\ i \in {2 * h - 1, 2 * h}
      BY <3>1
    <3> QED
      BY <3>2
  <2>2. h \in 1 .. n \div 2 /\ i \in 1 .. n
    BY <1>1, <1>2
  <2>3. list[i].holds[s] \in Nat
    BY <1>1, <2>2, NodeFacts
  <2>4. ~(list[i].holds[s] > 0)
    <3> SUFFICES ASSUME list[i].holds[s] > 0 PROVE FALSE
      OBVIOUS
    <3>1. c[s] < Weights(P)[h]
      BY <1>1, <2>1, <2>2, PairsHoldMore
    <3>2. Weights(P)[h] <= Weights(leaves)[j]
      BY <2>1 DEF Split
    <3>3. Weights(P)[h] \in Int
      <4>1. P \in Seq(Nodes) /\ Len(P) = n \div 2
        BY PackagesAre
      <4> HIDE DEF P
      <4>2. \A x \in 1 .. Len(P) : Weights(P)[x] \in Nat
        BY <4>1, NodeFacts
      <4> QED
        BY <2>2, <4>1, <4>2
    <3>4. c[s] \in Int
      BY <1>1
    <3> QED
      BY <1>3, <3>1, <3>2, <3>3, <3>4
  <2> QED
    BY <2>2, <2>3, <2>4
<1>5. \A i \in 1 .. 2 * a : Holdings(list, s)[i] = 0
  BY <1>4 DEF Holdings
<1>6. IsFiniteSet(1 .. 2 * a) /\ 0 \in Int /\ Cardinality(1 .. 2 * a) \in Nat
  <2>1. 2 * a \in Nat
    BY <1>1, <1>2
  <2>2. IsFiniteSet(1 .. 2 * a)
    BY <2>1, OneToN
  <2> QED
    BY <2>2, FS_CardinalityType
<1>7. SumOf(Holdings(list, s), 1 .. 2 * a) = 0 * Cardinality(1 .. 2 * a)
  BY <1>5, <1>6, SumOfEqual
<1> QED
  BY <1>1, <1>6, <1>7 DEF Held

\* What the first nodes of the merged list make up.
LEMMA PrefixStep ==
  ASSUME NEW c \in [Symbols -> Nat], NEW k \in Nat, NEW list, LevelOk(list, k, c),
         NEW leaves, LeafList(leaves, c), NEW M, M = Merged(Packages(list), leaves),
         NEW m \in 0 .. Len(M)
  PROVE  /\ Held(M, m) \in LengthsWithin(k + 1, c)
         /\ 2 * Filled(Held(M, m), k + 1, Occurring(c)) = m * 2 ^ (k + 1)
         /\ Weighed(M, m) = Cost(Held(M, m), c, Occurring(c))
<1> DEFINE U == Occurring(c)
<1>0. PICK P : P = Packages(list)
  OBVIOUS
<1>1. /\ list \in Seq(Nodes) /\ Ascends(Weights(list), Len(list)) /\ HoldsItsWeight(list, c)
      /\ leaves \in Seq(Nodes) /\ Ascends(Weights(leaves), Len(leaves))
  BY DEF LevelOk, LeafList
<1>1a. Merges(M, P, list, leaves)
  BY <1>0, <1>1, MergedSplits
<1>2. M \in Seq(Nodes) /\ Len(P) = Len(list) \div 2
  BY <1>1a DEF Merges
<1>3. PICK a, b : /\ Split(Weights(P), Len(P), Weights(leaves), Len(leaves), a, b)
                  /\ a + b = m
                  /\ Weighed(M, m) = Weighed(list, 2 * a) + Weighed(leaves, b)
                  /\ \A s \in Symbols :
                       Held(M, m)[s] = Held(list, 2 * a)[s] + Held(leaves, b)[s]
  BY <1>1a DEF Merges
<1>4. a \in 0 .. Len(list) \div 2 /\ b \in 0 .. Len(leaves)
  BY <1>2, <1>3 DEF Split
<1>5. PICK B : Lightest(leaves, c, b, B)
  BY <1>4 DEF LeafList
<1> DEFINE l == Held(list, 2 * a)
           e == Held(M, m)
<1>6. 2 * a \in 0 .. Len(list) /\ a \in Nat /\ b \in Nat
  <2>1. Len(list) \in Nat /\ Len(leaves) \in Nat
    BY <1>1, NodeFacts
  <2> QED
    BY <1>4, <2>1
<1>7. l \in LengthsWithin(k, c) /\ 2 * Filled(l, k, U) = (2 * a) * 2 ^ k
      /\ Weighed(list, 2 * a) = Cost(l, c, U)
  BY <1>6 DEF LevelOk
<1>8. e \in [Symbols -> Nat]
  BY <1>2, PrefixFacts
<1>9. B \in SUBSET U /\ Cardinality(B) = b /\ Weighed(leaves, b) = SumOf(c, B)
      /\ \A s \in Symbols : Held(leaves, b)[s] = IF s \in B THEN 1 ELSE 0
  BY <1>5 DEF Lightest
<1>10. \A s \in U \ B : l[s] = 0
  <2> TAKE s \in U \ B
  <2>1. Split(Weights(Packages(list)), Len(list) \div 2, Weights(leaves), Len(leaves), a, b)
    BY <1>0, <1>2, <1>3
  <2> QED
    BY <1>1, <1>5, <2>1, NotYetTaken
<1>11. /\ l \in [Symbols -> 0 .. k]
       /\ \A s \in Symbols : c[s] = 0 => l[s] = 0
  BY <1>7 DEF LengthsWithin
<1>12. \A s \in Symbols : s \in U \/ c[s] = 0
  BY DEF Occurring
<1>13. U \in SUBSET Symbols
  BY OccurringFinite
<1> HIDE DEF l, e, U
<1>14. \A s \in Symbols : e[s] = l[s] + (IF s \in B THEN 1 ELSE 0)
  BY <1>3, <1>9 DEF l, e
<1>15. (\A s \in B : e[s] = l[s] + 1) /\ (\A s \in U \ B : e[s] = 0 /\ l[s] = 0)
  <2>1. ASSUME NEW s \in B PROVE e[s] = l[s] + 1
    <3>1. s \in Symbols
      BY <1>9, <1>13
    <3> QED
      BY <1>14, <3>1
  <2>2. ASSUME NEW s \in U \ B PROVE e[s] = 0 /\ l[s] = 0
    <3>1. s \in Symbols /\ l[s] = 0
      BY <1>10, <1>13
    <3>2. e[s] = l[s] + 0
      BY <1>14, <3>1
    <3> QED
      BY <3>1, <3>2
  <2> QED
    BY <2>1, <2>2
<1>16. e \in LengthsWithin(k + 1, c)
  <2>1. ASSUME NEW s \in Symbols PROVE e[s] \in 0 .. k + 1 /\ (c[s] = 0 => e[s] = 0)
    <3>1. l[s] \in 0 .. k /\ e[s] = l[s] + (IF s \in B THEN 1 ELSE 0)
      BY <1>11, <1>14
    <3>2. e[s] \in 0 .. k + 1
      BY <3>1
    <3>3. c[s] = 0 => s \notin B
      BY <1>9 DEF U, Occurring
    <3> QED
      BY <1>11, <3>1, <3>2, <3>3
  <2> QED
    BY <1>8, <2>1 DEF LengthsWithin
<1>17. Filled(e, k + 1, U) = Filled(l, k, U) + 2 ^ k * b
       /\ Cost(e, c, U) = Cost(l, c, U) + SumOf(c, B)
  <2>1. IsFiniteSet(U)
    BY OccurringFinite DEF U
  <2>2. \A s \in U : l[s] \in 0 .. k /\ c[s] \in Nat
    BY <1>11, <1>13
  <2>3. B \in SUBSET U
    BY <1>9
  <2>4. Lengthens(e, l, B, U)
    BY <1>15 DEF Lengthens
  <2>5. PICK n : n = k + 1
    OBVIOUS
  <2>6. Filled(e, n, U) = Filled(l, k, U) + 2 ^ k * Cardinality(B)
    <3>1. \A s \in U : l[s] \in 0 .. k
      BY <2>2
    <3> QED
      BY <2>1, <2>3, <2>4, <2>5, <3>1, LengthenFills
  <2>7. Cost(e, c, U) = Cost(l, c, U) + SumOf(c, B)
    <3>1. \A s \in U : l[s] \in Nat /\ c[s] \in Nat
      BY <2>2
    <3> QED
      BY <2>1, <2>3, <2>4, <3>1, LengthenCosts
  <2> QED
    BY <1>9, <2>5, <2>6, <2>7
<1>18. 2 * Filled(e, k + 1, U) = m * 2 ^ (k + 1)
  <2> DEFINE p == 2 ^ k
             x == Filled(l, k, U)
             y == Filled(e, k + 1, U)
  <2>1. p \in Nat
    BY PowNat
  <2>2. x \in Nat
    <3>1. IsFiniteSet(U) /\ \A s \in U : l[s] \in 0 .. k
      BY <1>11, <1>13, OccurringFinite DEF U
    <3> QED
      BY <3>1, FilledNat
  <2>3. 2 ^ (k + 1) = 2 * p
    BY PowStep
  <2>4. 2 * x = (2 * a) * p /\ y = x + p * b
    BY <1>7, <1>17
  <2> HIDE DEF p, x, y
  <2>5. 2 * y = (a + b) * (2 * p)
    BY <1>6, <2>1, <2>2, <2>4
  <2> QED
    BY <1>3, <2>3, <2>5 DEF y
<1> QED
  BY <1>3, <1>7, <1>9, <1>16, <1>17, <1>18 DEF e, U, l

\* LengthsWithin that fill as much cost no less than the first nodes weigh.
LEMMA BestStep ==
  ASSUME NEW c \in [Symbols -> Nat], NEW k \in Nat, NEW list, LevelOk(list, k, c),
         NEW leaves, LeafList(leaves, c), NEW M, M = Merged(Packages(list), leaves),
         NEW m \in Nat, NEW e \in LengthsWithin(k + 1, c),
         m * 2 ^ (k + 1) <= 2 * Filled(e, k + 1, Occurring(c))
  PROVE  m <= Len(M) /\ Weighed(M, m) <= Cost(e, c, Occurring(c))
<1> DEFINE U == Occurring(c)
           A == {s \in U : e[s] > 0}
           l == [s \in Symbols |-> IF s \in A THEN e[s] - 1 ELSE 0]
           p == 2 ^ k
           ca == Cardinality(A)
           q == IF m > ca THEN m - ca ELSE 0
           r == m - q
<1>1. /\ list \in Seq(Nodes) /\ Ascends(Weights(list), Len(list)) /\ HoldsItsWeight(list, c)
      /\ leaves \in Seq(Nodes) /\ Ascends(Weights(leaves), Len(leaves))
      /\ Len(leaves) = Cardinality(U)
  BY DEF LevelOk, LeafList
<1>2. IsFiniteSet(U) /\ Cardinality(U) \in Nat /\ U \in SUBSET Symbols
  BY OccurringFinite
<1>3. e \in [Symbols -> 0 .. k + 1] /\ \A s \in Symbols : c[s] = 0 => e[s] = 0
  BY DEF LengthsWithin
<1>4. A \in SUBSET U /\ IsFiniteSet(A) /\ ca \in Nat /\ ca <= Cardinality(U)
  <2>1. A \in SUBSET U
    OBVIOUS
  <2> HIDE DEF A
  <2>2. IsFiniteSet(A) /\ Cardinality(A) <= Cardinality(U)
    BY <1>2, <2>1, FS_Subset
  <2> QED
    BY <2>1, <2>2, FS_CardinalityType
<1>5. l \in LengthsWithin(k, c)
  <2>1. ASSUME NEW s \in Symbols PROVE l[s] \in 0 .. k /\ (c[s] = 0 => l[s] = 0)
    <3>1. e[s] \in 0 .. k + 1
      BY <1>3
    <3>2. c[s] = 0 => s \notin A
      BY <1>3
    <3>3. s \in A => e[s] > 0
      OBVIOUS
    <3> QED
      BY <3>1, <3>2, <3>3
  <2> QED
    BY <2>1 DEF LengthsWithin
<1>6. (\A s \in A : e[s] = l[s] + 1) /\ (\A s \in U \ A : e[s] = 0 /\ l[s] = 0)
  <2>1. \A s \in U : e[s] \in 0 .. k + 1
    BY <1>2, <1>3
  <2> QED
    BY <1>2, <2>1
<1>7. \A s \in U : l[s] \in 0 .. k /\ c[s] \in Nat
  BY <1>2, <1>5 DEF LengthsWithin
<1> HIDE DEF A, l, U
<1>8. Filled(e, k + 1, U) = Filled(l, k, U) + 2 ^ k * Cardinality(A)
      /\ Cost(e, c, U) = Cost(l, c, U) + SumOf(c, A)
  <2>1. A \in SUBSET U /\ IsFiniteSet(U)
    BY <1>2, <1>4
  <2>2. Lengthens(e, l, A, U)
    BY <1>6 DEF Lengthens
  <2>3. PICK n : n = k + 1
    OBVIOUS
  <2> HIDE DEF ca, q, r, p
  <2>4. Filled(e, n, U) = Filled(l, k, U) + 2 ^ k * Cardinality(A)
    <3>1. \A s \in U : l[s] \in 0 .. k
      BY <1>7
    <3> QED
      BY <2>1, <2>2, <2>3, <3>1, LengthenFills
  <2>5. Cost(e, c, U) = Cost(l, c, U) + SumOf(c, A)
    <3>1. \A s \in U : l[s] \in Nat /\ c[s] \in Nat
      BY <1>7
    <3> QED
      BY <2>1, <2>2, <3>1, LengthenCosts
  <2> QED
    BY <2>3, <2>4, <2>5
<1> DEFINE x == Filled(l, k, U)
           y == Filled(e, k + 1, U)
<1>9. x \in Nat
  <2>1. \A s \in U : l[s] \in 0 .. k
    BY <1>7
  <2> QED
    BY <1>2, <2>1, FilledNat
<1>10. p \in Nat /\ 2 ^ (k + 1) = 2 * p
  BY PowNat, PowStep
<1>11. y = x + p * ca /\ m * (2 * p) <= 2 * y
  BY <1>8, <1>10 DEF U
<1> HIDE DEF x, y, p, ca
<1>12. q \in Nat /\ r \in Nat /\ q + r = m /\ r <= ca
  BY <1>4
<1>13. (2 * q) * p <= 2 * x
  <2>1. CASE m > ca
    <3>1. q = m - ca /\ q + ca = m
      BY <1>4, <2>1
    <3> HIDE DEF q
    <3>2. (q + ca) * (2 * p) = (2 * q) * p + 2 * (p * ca)
      BY <1>4, <1>10, <1>12
    <3> DEFINE u == p * ca
               v == (2 * q) * p
    <3>3. u \in Int /\ v \in Int
      BY <1>4, <1>10, <1>12
    <3> HIDE DEF u, v
    <3>4. v + 2 * u <= 2 * (x + u)
      BY <1>11, <3>1, <3>2 DEF u, v
    <3>5. v <= 2 * x
      BY <1>9, <3>3, <3>4
    <3> QED
      BY <3>5 DEF v
  <2>2. CASE ~(m > ca)
    <3>1. q = 0
      BY <2>2
    <3>2. (2 * 0) * p = 0
      BY <1>10
    <3> QED
      BY <1>9, <3>1, <3>2
  <2> QED
    BY <2>1, <2>2
<1> HIDE DEF q, r
<1>14. 2 * q <= Len(list) /\ Weighed(list, 2 * q) <= Cost(l, c, U)
  <2>1. 2 * q \in Nat
    BY <1>12
  <2>2. (2 * q) * 2 ^ k <= 2 * Filled(l, k, U)
    BY <1>13 DEF x, p
  <2> QED
    BY <1>5, <2>1, <2>2 DEF LevelOk, U
<1>15. Len(list) \in Nat /\ q \in 0 .. Len(list) \div 2 /\ r \in 0 .. Len(leaves)
  <2>1. Len(list) \in Nat
    BY <1>1, NodeFacts
  <2>2. q \in 0 .. Len(list) \div 2
    BY <1>12, <1>14, <2>1
  <2>3. r \in 0 .. Len(leaves)
    <3>1. ca <= Len(leaves) /\ Len(leaves) \in Nat
      BY <1>1, <1>2, <1>4 DEF ca, U
    <3> QED
      BY <1>4, <1>12, <3>1
  <2> QED
    BY <2>1, <2>2, <2>3
<1>16. Len(M) = Len(list) \div 2 + Len(leaves)
       /\ Weighed(M, q + r) <= Weighed(list, 2 * q) + Weighed(leaves, r)
       /\ M \in Seq(Nodes)
  <2>1. PICK P : P = Packages(list)
    OBVIOUS
  <2>2. Merges(M, P, list, leaves)
    BY <1>1, <2>1, MergedSplits
  <2> QED
    BY <1>15, <2>2 DEF Merges
<1>17. PICK B : Lightest(leaves, c, r, B)
  BY <1>15 DEF LeafList
<1>18. Weighed(leaves, r) = SumOf(c, B) /\ SumOf(c, B) <= SumOf(c, A)
  <2>1. B \in SUBSET U /\ Cardinality(B) = r /\ Weighed(leaves, r) = SumOf(c, B)
    BY <1>17 DEF Lightest, U
  <2>2. PICK t \in Nat : (\A s \in B : c[s] <= t) /\ (\A s \in U \ B : c[s] >= t)
    BY <1>17 DEF Lightest, U
  <2>3. Cardinality(B) <= Cardinality(A)
    BY <1>12, <2>1 DEF ca
  <2>4. \A s \in U : c[s] \in Nat
    BY <1>7
  <2>5. SumOf(c, B) <= SumOf(c, A)
    BY <1>2, <1>4, <2>1, <2>2, <2>3, <2>4, LightestFirst
  <2> QED
    BY <2>1, <2>5
<1>19. m <= Len(M) /\ m \in 0 .. Len(M)
  BY <1>12, <1>15, <1>16
<1>20. /\ Weighed(M, m) \in Int /\ Weighed(list, 2 * q) \in Int /\ Weighed(leaves, r) \in Int
       /\ Cost(l, c, U) \in Int /\ SumOf(c, A) \in Int
  <2>1. Weighed(M, m) \in Int
    BY <1>16, <1>19, PrefixFacts
  <2>2. Weighed(list, 2 * q) \in Int
    <3>1. 2 * q \in 0 .. Len(list)
      BY <1>12, <1>14, <1>15
    <3> QED
      BY <1>1, <3>1, PrefixFacts
  <2>3. Weighed(leaves, r) \in Int
    BY <1>1, <1>15, PrefixFacts
  <2>4. SumOf(c, A) \in Int
    <3>1. A \in SUBSET A /\ \A s \in A : c[s] \in Int
      BY <1>4, <1>7
    <3> QED
      BY <1>4, <3>1, SumInt
  <2>5. SumOf(Spent(l, c, U), U) \in Int
    <3>1. \A s \in U : Spent(l, c, U)[s] \in Int
      <4> TAKE s \in U
      <4>1. l[s] \in Nat /\ c[s] \in Nat
        BY <1>7
      <4>2. l[s] * c[s] \in Nat
        BY <4>1, MulNat
      <4> QED
        BY <4>2 DEF Spent
    <3>2. U \in SUBSET U
      OBVIOUS
    <3> QED
      BY <1>2, <3>1, <3>2, SumInt
  <2> QED
    BY <2>1, <2>2, <2>3, <2>4, <2>5 DEF Cost
<1>21. Weighed(M, m) <= Cost(e, c, U)
  <2>1. Weighed(M, m) <= Weighed(list, 2 * q) + Weighed(leaves, r)
    BY <1>12, <1>16
  <2> QED
    BY <1>8, <1>14, <1>18, <1>20, <2>1
<1> QED
  BY <1>19, <1>21 DEF U

\* From one level to the next.
LEMMA LevelStep ==
  ASSUME NEW c \in [Symbols -> Nat], NEW k \in Nat, NEW list, LevelOk(list, k, c),
         NEW leaves, LeafList(leaves, c), NEW M, M = Merged(Packages(list), leaves)
  PROVE  LevelOk(M, k + 1, c)
<1>0. PICK P : P = Packages(list)
  OBVIOUS
<1>1. /\ list \in Seq(Nodes) /\ Ascends(Weights(list), Len(list)) /\ HoldsItsWeight(list, c)
      /\ leaves \in Seq(Nodes) /\ Ascends(Weights(leaves), Len(leaves))
      /\ HoldsItsWeight(leaves, c)
  BY DEF LevelOk, LeafList
<1>1a. Merges(M, P, list, leaves)
  BY <1>0, <1>1, MergedSplits
<1>2. /\ M \in Seq(Nodes) /\ Ascends(Weights(M), Len(M)) /\ Len(P) = Len(list) \div 2
      /\ \A m \in 1 .. Len(M) : \/ \E i \in 1 .. Len(P) : M[m] = P[i]
                                \/ \E i \in 1 .. Len(leaves) : M[m] = leaves[i]
  BY <1>1a DEF Merges
<1>3. ASSUME NEW h \in 1 .. Len(P), NEW s \in Symbols, P[h].holds[s] > 0
      PROVE  c[s] > 0 /\ c[s] <= P[h].weight
  <2>1. h \in 1 .. Len(list) \div 2
    BY <1>2
  <2>2. 2 * h - 1 \in 1 .. Len(list) /\ 2 * h \in 1 .. Len(list)
        /\ Holdings(P, s)[h] = Holdings(list, s)[2 * h - 1] + Holdings(list, s)[2 * h]
    BY <1>0, <1>1, <2>1, PackagesAre
  <2>3. Holdings(P, s)[h] = P[h].holds[s] /\ Weights(P)[h] = P[h].weight /\ P[h].weight \in Nat
    <3>1. P \in Seq(Nodes)
      BY <1>0, <1>1, PackagesAre
    <3> QED
      BY <3>1, NodeFacts
  <2>4. \A i \in 1 .. Len(list) :
          Holdings(list, s)[i] = list[i].holds[s] /\ list[i].holds[s] \in Nat
    BY <1>1, NodeFacts
  <2>5. \E i \in {2 * h - 1, 2 * h} : list[i].holds[s] > 0
    <3> DEFINE a == 2 * h - 1
               b == 2 * h
    <3>1. list[a].holds[s] \in Nat /\ list[b].holds[s] \in Nat
          /\ P[h].holds[s] = list[a].holds[s] + list[b].holds[s]
      BY <2>2, <2>3, <2>4
    <3> HIDE DEF a, b
    <3>2. list[a].holds[s] > 0 \/ list[b].holds[s] > 0
      BY <1>3, <3>1
    <3> QED
      BY <3>2 DEF a, b
  <2>6. c[s] > 0 /\ c[s] < Weights(P)[h]
    BY <1>0, <1>1, <2>1, <2>5, PairsHoldMore
  <2>7. c[s] \in Nat
    OBVIOUS
  <2> QED
    BY <2>3, <2>6, <2>7
<1>4. HoldsItsWeight(M, c)
  <2>1. \A i \in 1 .. Len(leaves), s \in Symbols :
          leaves[i].holds[s] > 0 => c[s] > 0 /\ c[s] <= leaves[i].weight
    BY <1>1 DEF HoldsItsWeight
  <2> QED
    BY <1>2, <1>3, <2>1 DEF HoldsItsWeight
<1>5. \A m \in 0 .. Len(M) :
        /\ Held(M, m) \in LengthsWithin(k + 1, c)
        /\ 2 * Filled(Held(M, m), k + 1, Occurring(c)) = m * 2 ^ (k + 1)
        /\ Weighed(M, m) = Cost(Held(M, m), c, Occurring(c))
  BY PrefixStep
<1>6. \A m \in Nat, e \in LengthsWithin(k + 1, c) :
        m * 2 ^ (k + 1) <= 2 * Filled(e, k + 1, Occurring(c)) =>
          m <= Len(M) /\ Weighed(M, m) <= Cost(e, c, Occurring(c))
  BY BestStep
<1> QED
  BY <1>2, <1>4, <1>5, <1>6 DEF LevelOk

\* Before any level there is no node, and no length that fills anything.
LEMMA LevelZero ==
  ASSUME NEW c \in [Symbols -> Nat]
  PROVE  LevelOk(<< >>, 0, c)
<1> DEFINE x == << >>
           U == Occurring(c)
<1>1. x \in Seq(Nodes) /\ Len(x) = 0
  BY EmptySeq
<1> HIDE DEF x
<1>2. IsFiniteSet(U) /\ U \in SUBSET Symbols /\ Cardinality(U) \in Nat /\ 0 \in Int
  BY OccurringFinite
<1>3. ASSUME NEW l \in LengthsWithin(0, c)
      PROVE  Filled(l, 0, U) = 0 /\ Cost(l, c, U) = 0
  <2>1. \A s \in U : l[s] = 0
    BY <1>2 DEF LengthsWithin
  <2>2. \A s \in U : Gap(l, 0, U)[s] = 0
    <3> TAKE s \in U
    <3>1. l[s] = 0 /\ 0 - 0 = 0
      BY <2>1
    <3>2. Gap(l, 0, U)[s] = 2 ^ 0 - 2 ^ (0 - l[s])
      BY DEF Gap
    <3>3. Gap(l, 0, U)[s] = 2 ^ 0 - 2 ^ 0
      BY <3>1, <3>2
    <3> QED
      BY <3>3, PowZero
  <2>3. \A s \in U : Spent(l, c, U)[s] = 0
    <3> TAKE s \in U
    <3>1. c[s] \in Nat /\ l[s] = 0
      BY <1>2, <2>1
    <3>2. 0 * c[s] = 0
      BY <3>1
    <3> QED
      BY <3>1, <3>2 DEF Spent
  <2> HIDE DEF U
  <2>4. SumOf(Gap(l, 0, U), U) = 0 * Cardinality(U)
    BY <1>2, <2>2, SumOfEqual
  <2>5. SumOf(Spent(l, c, U), U) = 0 * Cardinality(U)
    BY <1>2, <2>3, SumOfEqual
  <2> QED
    BY <1>2, <2>4, <2>5 DEF Filled, Cost
<1>4. 1 .. 0 = {}
  OBVIOUS
<1>5. Weighed(x, 0) = 0
  BY <1>4, SumEmpty DEF Weighed
<1>6. Held(x, 0) \in LengthsWithin(0, c)
  <2>1. \A s \in Symbols : Held(x, 0)[s] = 0
    BY <1>4, SumEmpty DEF Held
  <2>2. Held(x, 0) \in [Symbols -> 0 .. 0]
    BY <2>1 DEF Held
  <2> QED
    BY <2>1, <2>2 DEF LengthsWithin
<1>7. Ascends(Weights(x), Len(x)) /\ HoldsItsWeight(x, c)
  BY <1>1 DEF Ascends, HoldsItsWeight
<1>8. ASSUME NEW m \in 0 .. Len(x)
      PROVE  /\ Held(x, m) \in LengthsWithin(0, c)
             /\ 2 * Filled(Held(x, m), 0, U) = m * 2 ^ 0
             /\ Weighed(x, m) = Cost(Held(x, m), c, U)
  <2>1. m = 0
    BY <1>1
  <2>2. Filled(Held(x, 0), 0, U) = 0 /\ Cost(Held(x, 0), c, U) = 0
    BY <1>3, <1>6
  <2>3. 0 * 2 ^ 0 = 0
    BY PowZero
  <2> QED
    BY <1>5, <1>6, <2>1, <2>2, <2>3
<1>9. ASSUME NEW m \in Nat, NEW l \in LengthsWithin(0, c), m * 2 ^ 0 <= 2 * Filled(l, 0, U)
      PROVE  m <= Len(x) /\ Weighed(x, m) <= Cost(l, c, U)
  <2>1. Filled(l, 0, U) = 0 /\ Cost(l, c, U) = 0
    BY <1>3
  <2>2. m * 1 <= 0
    BY <1>9, <2>1, PowZero
  <2>3. m = 0
    BY <2>2
  <2> QED
    BY <1>1, <1>5, <2>1, <2>3
<1>10. LevelOk(x, 0, c)
  BY <1>1, <1>7, <1>8, <1>9 DEF LevelOk
<1> QED
  BY <1>10 DEF x

\* Merging leaves with nothing leaves them alone, so that the leaves are the
\* list of the first level.
LEMMA LevelOne ==
  ASSUME NEW c \in [Symbols -> Nat], NEW leaves, LeafList(leaves, c)
  PROVE  LevelOk(leaves, 1, c)
<1> DEFINE x == << >>
<1>1. x \in Seq(Nodes) /\ Len(x) = 0 /\ LevelOk(x, 0, c)
  BY EmptySeq, LevelZero
<1>1b. Ascends(Weights(x), Len(x))
  BY <1>1 DEF Ascends
<1>2. leaves \in Seq(Nodes) /\ Ascends(Weights(leaves), Len(leaves))
  BY DEF LeafList
<1> HIDE DEF x
<1>3. PICK P : P = Packages(x)
  OBVIOUS
<1>4. PICK M : M = Merged(P, leaves)
  OBVIOUS
<1>5. P \in Seq(Nodes) /\ Len(P) = 0
  <2>1. P \in Seq(Nodes) /\ Len(P) = Len(x) \div 2
    BY <1>1, <1>3, PackagesAre
  <2> QED
    BY <1>1, <2>1
<1>6. Ascends(Weights(P), Len(P))
  BY <1>5 DEF Ascends
<1>7. Interleaves(Taken(P, leaves), Weights(P), Len(P), Weights(leaves), Len(leaves))
  BY <1>2, <1>5, <1>6, TakenInterleaves
<1>8. M = leaves
  <2> DEFINE a == Taken(P, leaves)
             n == Len(leaves)
  <2>1. n \in Nat /\ Len(P) + n = n
    BY <1>2, <1>5, NodeFacts
  <2>2. \A m \in 0 .. n : a[m] = 0
    <3> TAKE m \in 0 .. n
    <3>1. Split(Weights(P), Len(P), Weights(leaves), n, a[m], m - a[m])
      <4>1. m \in 0 .. Len(P) + n
        BY <2>1
      <4> QED
        BY <1>7, <4>1 DEF Interleaves
    <3>2. a[m] \in 0 .. Len(P)
      BY <3>1 DEF Split
    <3> QED
      BY <1>5, <3>2
  <2>3. M = [m \in 1 .. Len(P) + n |-> IF a[m] > a[m - 1] THEN P[a[m]] ELSE leaves[m - a[m]]]
    BY <1>4 DEF Merged
  <2> HIDE DEF a
  <2>4. \A m \in 1 .. n : M[m] = leaves[m]
    <3> TAKE m \in 1 .. n
    <3>1. m \in 0 .. n /\ m - 1 \in 0 .. n
      BY <2>1
    <3>2. a[m] = 0 /\ a[m - 1] = 0 /\ m \in 1 .. Len(P) + n
      BY <2>1, <2>2, <3>1
    <3>3. M[m] = leaves[m - 0]
      BY <2>3, <3>2
    <3> QED
      BY <3>3
  <2>5. Merges(M, P, x, leaves)
    BY <1>1, <1>1b, <1>2, <1>3, <1>4, MergedSplits
  <2>6. M \in Seq(Nodes) /\ Len(M) = n
    BY <1>1, <2>1, <2>5 DEF Merges
  <2> QED
    BY <1>2, <2>4, <2>6, SeqEqual
<1>9. LevelOk(M, 0 + 1, c)
  <2>1. 0 \in Nat
    OBVIOUS
  <2> QED
    BY <1>1, <1>3, <1>4, <2>1, LevelStep
<1> QED
  BY <1>8, <1>9

-----------------------------------------------------------------------------
(* The leaves *)

\* The symbols in the order of a rank, rarest first.
IsOrder(order, rank, c, n) ==
  /\ n = Cardinality(Occurring(c))
  /\ order \in [1 .. n -> Occurring(c)] /\ rank \in [Occurring(c) -> 0 .. n - 1]
  /\ \A i \in 1 .. n : rank[order[i]] = i - 1
  /\ \A s \in Occurring(c) : order[rank[s] + 1] = s
  /\ \A i, j \in 1 .. n : i <= j => c[order[i]] <= c[order[j]]

\* One leaf for each symbol, in that order.
AreLeaves(leaves, order, c, n) ==
  /\ leaves \in Seq(Nodes) /\ Len(leaves) = n
  /\ \A i \in 1 .. n : leaves[i].weight = c[order[i]]
  /\ \A i \in 1 .. n, s \in Symbols : leaves[i].holds[s] = IF s = order[i] THEN 1 ELSE 0

\* The symbols of the ranks below b.
Upto(rank, b, c) == {s \in Occurring(c) : rank[s] < b}

\* What the first leaves add up to.
LEMMA FirstLeaves ==
  ASSUME NEW c \in [Symbols -> Nat], NEW n \in Nat, NEW order, NEW rank, IsOrder(order, rank, c, n),
         NEW leaves, AreLeaves(leaves, order, c, n), NEW b \in 0 .. n
  PROVE  /\ Cardinality(Upto(rank, b, c)) = b
         /\ Weighed(leaves, b) = SumOf(c, Upto(rank, b, c))
         /\ \A s \in Symbols : Held(leaves, b)[s] = IF s \in Upto(rank, b, c) THEN 1 ELSE 0
<1> DEFINE U == Occurring(c)
           T(i) == Upto(rank, i, c)
           G == {i \in Nat : i <= n =>
                   /\ Cardinality(T(i)) = i
                   /\ SumOf(Weights(leaves), 1 .. i) = SumOf(c, T(i))
                   /\ \A s \in Symbols :
                        SumOf(Holdings(leaves, s), 1 .. i) = IF s \in T(i) THEN 1 ELSE 0}
<1>1. /\ IsFiniteSet(U) /\ U \in SUBSET Symbols
      /\ order \in [1 .. n -> U] /\ rank \in [U -> 0 .. n - 1]
      /\ \A i \in 1 .. n : rank[order[i]] = i - 1
      /\ \A s \in U : order[rank[s] + 1] = s
  BY OccurringFinite DEF IsOrder
<1>2. /\ Len(leaves) = n
      /\ \A i \in 1 .. n : Weights(leaves)[i] = c[order[i]] /\ c[order[i]] \in Nat
      /\ \A i \in 1 .. n, s \in Symbols :
           Holdings(leaves, s)[i] = IF s = order[i] THEN 1 ELSE 0
  BY <1>1 DEF AreLeaves, Weights, Holdings
<1>3. \A i \in Nat : T(i) = {s \in U : rank[s] < i}
  BY DEF Upto
<1> HIDE DEF T, U
<1>4. 0 \in G
  <2>1. T(0) = {} /\ 1 .. 0 = {}
    <3>1. T(0) = {s \in U : rank[s] < 0}
      BY <1>3
    <3>2. \A s \in U : ~(rank[s] < 0)
      BY <1>1
    <3> QED
      BY <3>1, <3>2
  <2>2. Cardinality(T(0)) = 0
    BY <2>1, FS_EmptySet
  <2>3. SumOf(Weights(leaves), 1 .. 0) = SumOf(c, T(0))
    BY <2>1, SumEmpty
  <2>4. \A s \in Symbols : SumOf(Holdings(leaves, s), 1 .. 0) = IF s \in T(0) THEN 1 ELSE 0
    BY <2>1, SumEmpty
  <2> QED
    BY <2>2, <2>3, <2>4
<1>5. ASSUME NEW i \in Nat, i \in G PROVE i + 1 \in G
  <2> SUFFICES ASSUME i + 1 <= n
               PROVE  /\ Cardinality(T(i + 1)) = i + 1
                      /\ SumOf(Weights(leaves), 1 .. i + 1) = SumOf(c, T(i + 1))
                      /\ \A s \in Symbols :
                           SumOf(Holdings(leaves, s), 1 .. i + 1) = IF s \in T(i + 1) THEN 1 ELSE 0
    OBVIOUS
  <2> DEFINE x == order[i + 1]
             A == T(i)
             B == T(i + 1)
  <2>1. i <= n /\ i + 1 \in 1 .. n
    OBVIOUS
  <2>2. /\ Cardinality(A) = i
        /\ SumOf(Weights(leaves), 1 .. i) = SumOf(c, A)
        /\ \A s \in Symbols : SumOf(Holdings(leaves, s), 1 .. i) = IF s \in A THEN 1 ELSE 0
    BY <1>5, <2>1
  <2>3. x \in U /\ rank[x] = i
    BY <1>1, <2>1
  <2>4. \A s \in U : rank[s] = i => s = x
    BY <1>1
  <2>5. A = {s \in U : rank[s] < i} /\ B = {s \in U : rank[s] < i + 1}
    BY <1>3
  <2> HIDE DEF x, A, B
  <2>6. A \in SUBSET U /\ x \notin A /\ B = A \cup {x}
    <3>1. \A s \in U : rank[s] \in Int
      BY <1>1
    <3>2. x \notin A
      BY <2>3, <2>5
    <3>3. \A s \in U : s \in B <=> s \in A \/ s = x
      BY <2>3, <2>4, <2>5, <3>1
    <3>4. B \subseteq U /\ A \subseteq U
      BY <2>5
    <3> QED
      BY <2>3, <3>2, <3>3, <3>4
  <2>7. IsFiniteSet(A)
    BY <1>1, <2>6, FS_Subset
  <2>8. Cardinality(B) = i + 1
    BY <2>2, <2>6, <2>7, FS_AddElement
  <2>9. SumOf(c, B) = c[x] + SumOf(c, A) /\ SumOf(c, A) \in Int /\ c[x] \in Int
    <3>1. \A y \in A \cup {x} : c[y] \in Int
      BY <1>1, <2>3, <2>6
    <3> QED
      BY <2>6, <2>7, <3>1, SumAdd
  <2>10. SumOf(Weights(leaves), 1 .. i + 1) = SumOf(Weights(leaves), 1 .. i) + c[x]
    <3> DEFINE w == Weights(leaves)
    <3>1. \A j \in 1 .. i + 1 : w[j] \in Int
      BY <1>2, <2>1
    <3>2. w[i + 1] = c[x]
      BY <1>2, <2>1 DEF x
    <3> HIDE DEF w
    <3>3. SumOf(w, 1 .. i + 1) = SumOf(w, 1 .. i) + w[i + 1]
      BY <3>1, SumGrows
    <3> QED
      BY <3>2, <3>3 DEF w
  <2>11. ASSUME NEW s \in Symbols
         PROVE  SumOf(Holdings(leaves, s), 1 .. i + 1) = IF s \in B THEN 1 ELSE 0
    <3> DEFINE w == Holdings(leaves, s)
    <3>1. \A j \in 1 .. i + 1 : w[j] \in Int
      BY <1>2, <2>1
    <3>2. w[i + 1] = IF s = x THEN 1 ELSE 0
      BY <1>2, <2>1 DEF x
    <3>3. SumOf(w, 1 .. i) = IF s \in A THEN 1 ELSE 0
      BY <2>2
    <3> HIDE DEF w
    <3>4. SumOf(w, 1 .. i + 1) = SumOf(w, 1 .. i) + w[i + 1]
      BY <3>1, SumGrows
    <3>5. SumOf(w, 1 .. i + 1) = IF s \in B THEN 1 ELSE 0
      BY <2>6, <3>2, <3>3, <3>4
    <3> QED
      BY <3>5 DEF w
  <2>12. SumOf(Weights(leaves), 1 .. i + 1) = SumOf(c, B)
    BY <2>2, <2>9, <2>10
  <2> QED
    BY <2>8, <2>11, <2>12 DEF B
<1>6. b \in G
  <2>1. b \in Nat
    OBVIOUS
  <2> HIDE DEF G
  <2> QED
    BY <1>4, <1>5, <2>1, NatInduct
<1>7. b <= n
  OBVIOUS
<1> QED
  BY <1>6, <1>7 DEF Weighed, Held, T

\* Leaves in that order are a list of leaves.
LEMMA OrderedLeaves ==
  ASSUME NEW c \in [Symbols -> Nat], NEW n \in Nat, NEW order, NEW rank, IsOrder(order, rank, c, n),
         NEW leaves, AreLeaves(leaves, order, c, n)
  PROVE  LeafList(leaves, c)
<1> DEFINE U == Occurring(c)
<1>1. /\ U \in SUBSET Symbols /\ \A s \in U : c[s] > 0 /\ c[s] \in Nat
      /\ order \in [1 .. n -> U] /\ rank \in [U -> 0 .. n - 1]
      /\ \A i \in 1 .. n : rank[order[i]] = i - 1
      /\ \A s \in U : order[rank[s] + 1] = s
      /\ \A i, j \in 1 .. n : i <= j => c[order[i]] <= c[order[j]]
      /\ n = Cardinality(U)
  BY DEF IsOrder, Occurring
<1>2. /\ leaves \in Seq(Nodes) /\ Len(leaves) = n
      /\ \A i \in 1 .. n : leaves[i].weight = c[order[i]] /\ Weights(leaves)[i] = c[order[i]]
      /\ \A i \in 1 .. n, s \in Symbols : leaves[i].holds[s] = IF s = order[i] THEN 1 ELSE 0
  BY DEF AreLeaves, Weights
<1>3. Ascends(Weights(leaves), Len(leaves))
  BY <1>1, <1>2 DEF Ascends
<1>4. HoldsItsWeight(leaves, c)
  <2>1. ASSUME NEW i \in 1 .. n, NEW s \in Symbols, leaves[i].holds[s] > 0
        PROVE  c[s] > 0 /\ c[s] <= leaves[i].weight
    <3>1. s = order[i]
      <4>1. s # order[i] => leaves[i].holds[s] = 0
        BY <1>2
      <4> QED
        BY <2>1, <4>1
    <3>2. s \in U /\ leaves[i].weight = c[s]
      BY <1>1, <1>2, <3>1
    <3>3. c[s] > 0 /\ c[s] \in Nat
      BY <1>1, <3>2
    <3> QED
      BY <3>2, <3>3
  <2> QED
    BY <1>2, <2>1 DEF HoldsItsWeight
<1>5. ASSUME NEW b \in 0 .. n PROVE \E B : Lightest(leaves, c, b, B)
  <2> DEFINE B == Upto(rank, b, c)
  <2>1. /\ Cardinality(B) = b
        /\ Weighed(leaves, b) = SumOf(c, B)
        /\ \A s \in Symbols : Held(leaves, b)[s] = IF s \in B THEN 1 ELSE 0
    BY FirstLeaves
  <2>2. B = {s \in U : rank[s] < b}
    BY DEF Upto
  <2>3. ASSUME NEW s \in U
        PROVE  LET i == rank[s] + 1
               IN  i \in 1 .. n /\ order[i] = s /\ (s \in B <=> i <= b)
    <3>1. rank[s] \in 0 .. n - 1
      BY <1>1
    <3>2. s \in B <=> rank[s] < b
      BY <2>2
    <3> HIDE DEF B
    <3> QED
      BY <1>1, <3>1, <3>2
  <2> HIDE DEF B
  <2>4. \E t \in Nat : (\A s \in B : c[s] <= t) /\ (\A s \in U \ B : c[s] >= t)
    <3>1. CASE b = 0
      <4>1. B = {}
        <5>1. \A s \in U : ~(rank[s] < 0)
          BY <1>1
        <5> QED
          BY <2>2, <3>1, <5>1
      <4>2. \A s \in U : c[s] >= 0
        BY <1>1
      <4> QED
        BY <4>1, <4>2
    <3>2. CASE b # 0
      <4> DEFINE t == c[order[b]]
      <4>1. b \in 1 .. n
        BY <3>2
      <4>2. t \in Nat
        BY <1>1, <4>1
      <4>3. ASSUME NEW s \in U PROVE (s \in B => c[s] <= t) /\ (s \notin B => c[s] >= t)
        <5> DEFINE i == rank[s] + 1
        <5>1. i \in 1 .. n /\ order[i] = s /\ (s \in B <=> i <= b)
          BY <2>3
        <5> HIDE DEF i
        <5>2. i <= b => c[order[i]] <= c[order[b]]
          BY <1>1, <4>1, <5>1
        <5>3. b <= i => c[order[b]] <= c[order[i]]
          BY <1>1, <4>1, <5>1
        <5>4. i <= b \/ b <= i
          BY <5>1
        <5>5. c[s] \in Nat
          BY <1>1
        <5> HIDE DEF t
        <5> QED
          BY <4>2, <5>1, <5>2, <5>3, <5>4, <5>5 DEF t
      <4>4. B \subseteq U
        BY <2>2
      <4> HIDE DEF t
      <4> QED
        BY <4>2, <4>3, <4>4
    <3> QED
      BY <3>1, <3>2
  <2>5. ASSUME NEW s \in U \ B PROVE \E j \in b + 1 .. Len(leaves) : Weights(leaves)[j] = c[s]
    <3> DEFINE i == rank[s] + 1
    <3>1. i \in 1 .. n /\ order[i] = s /\ ~(i <= b)
      BY <2>3
    <3> HIDE DEF i
    <3>2. i \in b + 1 .. Len(leaves) /\ Weights(leaves)[i] = c[s]
      BY <1>2, <3>1
    <3> QED
      BY <3>2
  <2>6. B \in SUBSET U
    BY <2>2
  <2>7. Lightest(leaves, c, b, B)
    BY <2>1, <2>4, <2>5, <2>6 DEF Lightest
  <2> QED
    BY <2>7
<1> QED
  BY <1>1, <1>2, <1>3, <1>4, <1>5 DEF LeafList

\* The leaves that are listed are in the order of their counts.
LEMMA LeavesListed ==
  ASSUME counts \in [Symbols -> Nat]
  PROVE  LeafList(Leaves, counts)
<1>0. PICK c : c = counts
  OBVIOUS
<1> DEFINE U == Occurring(c)
           n == Cardinality(U)
           less(s, t) == c[s] < c[t] \/ (c[s] = c[t] /\ s < t)
           E == [s \in U |-> {t \in U : less(t, s)}]
           order == [i \in 1 .. n |-> CHOOSE s \in U : Cardinality(E[s]) = i - 1]
           rank == [s \in U |-> Cardinality(E[s])]
           leaf(s) == [weight |-> c[s], holds |-> [t \in Symbols |-> IF t = s THEN 1 ELSE 0]]
           x == [i \in 1 .. n |-> leaf(order[i])]
<1>1. c \in [Symbols -> Nat] /\ Used = U
  BY <1>0 DEF Used, Occurring
<1>2. IsFiniteSet(U) /\ n \in Nat /\ U \in SUBSET Symbols
  BY OccurringFinite
<1>3. \A s \in U : s \in Int /\ c[s] \in Nat \ {0}
  BY <1>1, <1>2, TableAssumption DEF Symbols, Occurring
<1>4. /\ \A s \in U : E[s] \in SUBSET U /\ s \notin E[s]
      /\ \A s, t \in U : s = t \/ s \in E[t] \/ t \in E[s]
      /\ \A s, t \in U : s \in E[t] => E[s] \in SUBSET E[t]
  <2>1. \A s \in U : E[s] \in SUBSET U /\ s \notin E[s]
    BY <1>3
  <2>2. \A s, t \in U : s = t \/ s \in E[t] \/ t \in E[s]
    BY <1>3
  <2>3. \A s, t \in U : s \in E[t] => E[s] \in SUBSET E[t]
    <3> SUFFICES ASSUME NEW s \in U, NEW t \in U, s \in E[t], NEW u \in E[s] PROVE u \in E[t]
      OBVIOUS
    <3>1. u \in U /\ less(u, s) /\ less(s, t)
      OBVIOUS
    <3>2. less(u, t)
      BY <1>3, <3>1
    <3> QED
      BY <3>1, <3>2
  <2> QED
    BY <2>1, <2>2, <2>3
<1>5. /\ \A s \in U : Cardinality(E[s]) \in 0 .. n - 1
      /\ \A s, t \in U : s \in E[t] => Cardinality(E[s]) < Cardinality(E[t])
      /\ \A i \in 1 .. n : \E s \in U : Cardinality(E[s]) = i - 1
  <2> HIDE DEF E, U
  <2> QED
    BY <1>2, <1>4, Ranks
<1>6. \A i \in 1 .. n : order[i] \in U /\ Cardinality(E[order[i]]) = i - 1
  <2> HIDE DEF E, U
  <2> QED
    BY <1>5
<1>7. \A s, t \in U : less(s, t) <=> s \in E[t]
  OBVIOUS
<1> HIDE DEF E, order, U, n
<1>8. \A s, t \in U : Cardinality(E[s]) = Cardinality(E[t]) => s = t
  <2> SUFFICES ASSUME NEW s \in U, NEW t \in U, Cardinality(E[s]) = Cardinality(E[t]) PROVE s = t
    OBVIOUS
  <2>1. Cardinality(E[s]) \in Int /\ Cardinality(E[t]) \in Int
    BY <1>5
  <2>2. s \notin E[t] /\ t \notin E[s]
    BY <1>5, <2>1
  <2> QED
    BY <1>4, <2>2
<1>9. IsOrder(order, rank, c, n)
  <2>1. order \in [1 .. n -> U]
    BY <1>6 DEF order
  <2>2. rank \in [U -> 0 .. n - 1]
    BY <1>5
  <2>3. \A i \in 1 .. n : rank[order[i]] = i - 1
    BY <1>6
  <2>4. ASSUME NEW s \in U PROVE order[rank[s] + 1] = s
    <3> DEFINE i == rank[s] + 1
    <3>1. rank[s] \in 0 .. n - 1 /\ rank[s] = Cardinality(E[s])
      BY <1>5
    <3>2. i \in 1 .. n /\ i - 1 = Cardinality(E[s])
      BY <1>2, <3>1
    <3> HIDE DEF i, rank
    <3>3. order[i] \in U /\ Cardinality(E[order[i]]) = Cardinality(E[s])
      BY <1>6, <3>2
    <3> QED
      BY <1>8, <3>3 DEF i
  <2>5. ASSUME NEW i \in 1 .. n, NEW j \in 1 .. n, i <= j PROVE c[order[i]] <= c[order[j]]
    <3> DEFINE s == order[i]
               t == order[j]
    <3>1. s \in U /\ t \in U /\ Cardinality(E[s]) = i - 1 /\ Cardinality(E[t]) = j - 1
      BY <1>6
    <3> HIDE DEF s, t
    <3>2. t \notin E[s]
      BY <1>5, <2>5, <3>1
    <3>3. s = t \/ less(s, t)
      BY <1>4, <1>7, <3>1, <3>2
    <3>4. c[s] \in Nat /\ c[t] \in Nat
      BY <1>3, <3>1
    <3>5. c[s] <= c[t]
      BY <3>3, <3>4
    <3> QED
      BY <3>5 DEF s, t
  <2>6. n = Cardinality(U)
    BY DEF n
  <2> HIDE DEF rank
  <2> QED
    BY <2>1, <2>2, <2>3, <2>4, <2>5, <2>6 DEF IsOrder, U
<1>10. x = Leaves
  <2>1. \A s \in U : E[s] = {t \in Used : Rarer(t, s)}
    BY <1>0, <1>1 DEF E, Rarer
  <2>2. \A i \in 1 .. n : order[i] =
          CHOOSE s \in Used : Cardinality({t \in Used : Rarer(t, s)}) = i - 1
    <3> TAKE i \in 1 .. n
    <3>1. order[i] = CHOOSE s \in U : Cardinality(E[s]) = i - 1
      BY DEF order
    <3>2. \A s \in U : Cardinality(E[s]) = i - 1
                         <=> Cardinality({t \in Used : Rarer(t, s)}) = i - 1
      BY <2>1
    <3> QED
      BY <1>1, <3>1, <3>2
  <2>3. \A s : leaf(s) = Leaf(s)
    BY <1>0 DEF Leaf
  <2>4. Leaves = [i \in 1 .. n |->
                    Leaf(CHOOSE s \in Used : Cardinality({t \in Used : Rarer(t, s)}) = i - 1)]
    BY <1>1 DEF Leaves, n
  <2> HIDE DEF leaf
  <2> QED
    BY <2>2, <2>3, <2>4
<1>11. AreLeaves(x, order, c, n)
  <2>1. \A i \in 1 .. n : order[i] \in U
    BY <1>6
  <2>2. x \in [1 .. n -> Nodes]
    <3>1. ASSUME NEW i \in 1 .. n PROVE leaf(order[i]) \in Nodes
      <4>1. c[order[i]] \in Nat \ {0}
        BY <1>3, <2>1
      <4>2. [t \in Symbols |-> IF t = order[i] THEN 1 ELSE 0] \in [Symbols -> Nat]
        OBVIOUS
      <4> QED
        BY <4>1, <4>2 DEF Nodes
    <3> HIDE DEF leaf
    <3> QED
      BY <3>1
  <2>3. x \in Seq(Nodes) /\ Len(x) = n
    <3> HIDE DEF x
    <3> QED
      BY <1>2, <2>2, IsSequence
  <2>4. \A i \in 1 .. n : x[i].weight = c[order[i]]
  OBVIOUS
  <2>5. \A i \in 1 .. n, s \in Symbols : x[i].holds[s] = IF s = order[i] THEN 1 ELSE 0
    OBVIOUS
  <2> HIDE DEF x
  <2> QED
    BY <2>3, <2>4, <2>5 DEF AreLeaves
<1>12. LeafList(x, c)
  <2> HIDE DEF x, rank
  <2> QED
    BY <1>1, <1>2, <1>9, <1>11, OrderedLeaves
<1> HIDE DEF x
<1> QED
  BY <1>0, <1>10, <1>12

-----------------------------------------------------------------------------
(* Codes *)

\* What a code's lengths take of 2^k.
Room(l, k, U) == [s \in U |-> 2 ^ (k - l[s])]

\* LengthsWithin of a complete code for the symbols that occur.
Fills(l, k, c) ==
  /\ SumOf(Room(l, k, Occurring(c)), Occurring(c)) = 2 ^ k
  /\ \A s \in Occurring(c) : l[s] > 0

\* What lengths fill and what they take are all.
LEMMA FilledRoom ==
  ASSUME NEW U, IsFiniteSet(U), NEW k \in Nat, NEW l, \A s \in U : l[s] \in 0 .. k
  PROVE  /\ SumOf(Room(l, k, U), U) \in Nat
         /\ Filled(l, k, U) + SumOf(Room(l, k, U), U) = 2 ^ k * Cardinality(U)
<1> DEFINE g == Gap(l, k, U)
           r == Room(l, k, U)
           p == 2 ^ k
           u == [s \in U |-> p]
<1>1. /\ 2 ^ k \in Nat /\ 2 ^ k >= 1
      /\ \A s \in U : /\ Gap(l, k, U)[s] = 2 ^ k - 2 ^ (k - l[s])
                      /\ 2 ^ (k - l[s]) \in Nat /\ 2 ^ (k - l[s]) >= 1
                      /\ Gap(l, k, U)[s] \in Nat
  <2> HIDE DEF g, r, p, u
  <2> QED
    BY GapFacts
<1>2. \A s \in U : r[s] = 2 ^ (k - l[s])
  BY DEF Room
<1>3. \A s \in U : g[s] \in Int /\ r[s] \in Int /\ u[s] = g[s] + r[s]
  <2> TAKE s \in U
  <2> DEFINE q == 2 ^ (k - l[s])
  <2>1. p \in Nat /\ g[s] = p - q /\ q \in Nat /\ r[s] = q /\ u[s] = p
    BY <1>1, <1>2
  <2> HIDE DEF p, q, g, r, u
  <2> QED
    BY <2>1
<1>4. (\A s \in U : u[s] = p) /\ p \in Int /\ \A s \in U : r[s] \in Nat
  BY <1>1, <1>2
<1> HIDE DEF g, r, u, p
<1>5. SumOf(u, U) = SumOf(g, U) + SumOf(r, U)
  BY <1>3, SumPlus
<1>6. SumOf(u, U) = p * Cardinality(U)
  BY <1>4, SumOfEqual
<1>7. SumOf(r, U) \in Nat
  BY <1>4, SumNat
<1>8. SumOf(g, U) + SumOf(r, U) = p * Cardinality(U)
  BY <1>5, <1>6
<1> QED
  BY <1>7, <1>8 DEF Filled, g, r, p

\* LengthsWithin that take all of it are lengths of a code.
LEMMA NoneIsFree ==
  ASSUME NEW U, IsFiniteSet(U), Cardinality(U) > 1, NEW k \in Nat, NEW l,
         \A s \in U : l[s] \in 0 .. k, SumOf(Room(l, k, U), U) = 2 ^ k
  PROVE  \A s \in U : l[s] > 0
<1> SUFFICES ASSUME NEW s \in U, l[s] = 0 PROVE FALSE
  <2>1. \A s \in U : l[s] \in Nat
    OBVIOUS
  <2> QED
    BY <2>1
<1> DEFINE r == Room(l, k, U)
           T == U \ {s}
<1>1. \A t \in U : r[t] \in Nat /\ r[t] >= 1
  <2>1. \A t \in U : 2 ^ (k - l[t]) \in Nat /\ 2 ^ (k - l[t]) >= 1
    <3> TAKE t \in U
    <3>1. k - l[t] \in Nat
      OBVIOUS
    <3> QED
      BY <3>1, PowPos
  <2> QED
    BY <2>1 DEF Room
<1>2. r[s] = 2 ^ k
  <2>1. k - l[s] = k
    OBVIOUS
  <2> QED
    BY <2>1 DEF Room
<1>3. IsFiniteSet(T) /\ s \notin T /\ T \cup {s} = U /\ Cardinality(T) = Cardinality(U) - 1
  BY FS_RemoveElement
<1>4. Cardinality(U) \in Nat /\ Cardinality(T) \in Nat
  BY <1>3, FS_CardinalityType
<1> HIDE DEF T, r
<1>5. SumOf(r, U) = r[s] + SumOf(r, T) /\ SumOf(r, T) \in Int
  <2>1. \A t \in T \cup {s} : r[t] \in Int
    BY <1>1, <1>3
  <2>2. SumOf(r, T \cup {s}) = r[s] + SumOf(r, T) /\ SumOf(r, T) \in Int
    BY <1>3, <2>1, SumAdd
  <2> QED
    BY <1>3, <2>2
<1>6. Cardinality(T) <= SumOf(r, T)
  <2> DEFINE one == [t \in T |-> 1]
  <2>1. (\A t \in T : one[t] = 1) /\ 1 \in Int
    OBVIOUS
  <2>2. \A t \in T : one[t] \in Int /\ r[t] \in Int /\ one[t] <= r[t]
    BY <1>1, <1>3
  <2> HIDE DEF one
  <2>3. SumOf(one, T) <= SumOf(r, T)
    BY <1>3, <2>2, SumAtMost
  <2>4. SumOf(one, T) = 1 * Cardinality(T)
    BY <1>3, <2>1, SumOfEqual
  <2> QED
    BY <1>4, <2>3, <2>4
<1>7. SumOf(r, U) = 2 ^ k /\ 2 ^ k \in Nat
  BY PowNat DEF r
<1> QED
  BY <1>2, <1>3, <1>4, <1>5, <1>6, <1>7

\* The first 2 n - 2 nodes of the last level make up the best code.
LEMMA LastLevel ==
  ASSUME NEW c \in [Symbols -> Nat], NEW k \in Nat, NEW list, LevelOk(list, k, c),
         NEW n, n = Cardinality(Occurring(c)), n > 1, n <= 2 ^ k, NEW m, m = 2 * n - 2
  PROVE  /\ m \in 0 .. Len(list) /\ Held(list, m) \in LengthsWithin(k, c)
         /\ Fills(Held(list, m), k, c)
         /\ \A e \in LengthsWithin(k, c) : Fills(e, k, c) =>
              Cost(Held(list, m), c, Occurring(c)) <= Cost(e, c, Occurring(c))
<1> DEFINE U == Occurring(c)
           p == 2 ^ k
           h == Held(list, m)
<1>1. IsFiniteSet(U) /\ n \in Nat /\ U \in SUBSET Symbols /\ n = Cardinality(U)
  BY OccurringFinite
<1>2. p \in Nat /\ p >= 1
  BY PowPos
<1>3. m \in Nat
  BY <1>1
<1>4. list \in Seq(Nodes) /\ Len(list) \in Nat
  BY NodeFacts DEF LevelOk
<1>5. ASSUME NEW l \in LengthsWithin(k, c)
      PROVE  /\ \A s \in U : l[s] \in 0 .. k
             /\ Filled(l, k, U) \in Nat /\ SumOf(Room(l, k, U), U) \in Nat
             /\ Filled(l, k, U) + SumOf(Room(l, k, U), U) = p * n
  <2>1. \A s \in U : l[s] \in 0 .. k
    BY <1>1 DEF LengthsWithin
  <2>2. Filled(l, k, U) \in Nat
    BY <1>1, <2>1, FilledNat
  <2>3. SumOf(Room(l, k, U), U) \in Nat
        /\ Filled(l, k, U) + SumOf(Room(l, k, U), U) = p * Cardinality(U)
    <3> HIDE DEF U, p
    <3> QED
      BY <1>1, <2>1, FilledRoom DEF p
  <2> QED
    BY <1>1, <2>1, <2>2, <2>3
<1> HIDE DEF U, p, h
<1>6. \A l \in LengthsWithin(k, c) : m * p <= 2 * Filled(l, k, U) =>
        m <= Len(list) /\ Weighed(list, m) <= Cost(l, c, U)
  BY <1>3 DEF LevelOk, U, p
<1>7. m <= Len(list)
  <2> DEFINE l == [s \in Symbols |-> IF s \in U THEN k ELSE 0]
             r == Room(l, k, U)
             x == Filled(l, k, U)
  <2>1. l \in LengthsWithin(k, c)
    <3>1. \A s \in Symbols : c[s] = 0 => s \notin U
      BY DEF U, Occurring
    <3> QED
      BY <3>1 DEF LengthsWithin
  <2>2. SumOf(r, U) = 1 * n
    <3>1. \A s \in U : r[s] = 1
      <4> TAKE s \in U
      <4>1. l[s] = k /\ k - k = 0
        BY <1>1
      <4>2. r[s] = 2 ^ (k - l[s])
        BY DEF Room
      <4> HIDE DEF r, l
      <4>3. r[s] = 2 ^ 0
        BY <4>1, <4>2
      <4> QED
        BY <4>3, PowZero
    <3>2. 1 \in Int
      OBVIOUS
    <3> HIDE DEF r
    <3> QED
      BY <1>1, <3>1, <3>2, SumOfEqual
  <2>3. x \in Nat /\ x + SumOf(r, U) = p * n
    <3> HIDE DEF l
    <3> QED
      BY <1>5, <2>1
  <2> HIDE DEF x, r, l
  <2>4. x + n = p * n
    BY <1>1, <2>2, <2>3
  <2>5. m * p <= 2 * x
    <3> DEFINE y == p * n
    <3>1. y \in Nat /\ x + n = y
      BY <1>1, <1>2, <2>4, MulNat
    <3>2. m * p = 2 * y - 2 * p
      <4>1. (2 * n - 2) * p = 2 * (p * n) - 2 * p
        BY <1>1, <1>2
      <4> QED
        BY <4>1
    <3>3. n <= p
      BY DEF p
    <3> HIDE DEF y
    <3> QED
      BY <1>1, <1>2, <2>3, <3>1, <3>2, <3>3
  <2> QED
    BY <1>6, <2>1, <2>5 DEF x
<1>8. m \in 0 .. Len(list)
  BY <1>3, <1>4, <1>7
<1>9. h \in LengthsWithin(k, c) /\ 2 * Filled(h, k, U) = m * p /\ Weighed(list, m) = Cost(h, c, U)
  BY <1>8 DEF LevelOk, h, U, p
<1>10. SumOf(Room(h, k, U), U) = p
  <2> DEFINE x == Filled(h, k, U)
             y == SumOf(Room(h, k, U), U)
  <2>1. x \in Nat /\ y \in Nat /\ x + y = p * n /\ 2 * x = m * p
    BY <1>5, <1>9
  <2>2. m * p = 2 * (p * n) - 2 * p
    <3>1. (2 * n - 2) * p = 2 * (p * n) - 2 * p
      BY <1>1, <1>2
    <3> QED
      BY <3>1
  <2>3. p * n \in Nat
    BY <1>1, <1>2, MulNat
  <2> DEFINE z == p * n
  <2> HIDE DEF x, y, z
  <2>4. y = p
    <3>1. z \in Nat /\ x + y = z /\ 2 * x = 2 * z - 2 * p
      BY <2>1, <2>2, <2>3 DEF z
    <3> QED
      BY <1>2, <2>1, <3>1
  <2> QED
    BY <2>4 DEF y
<1>11. Fills(h, k, c)
  <2>1. \A s \in U : h[s] \in 0 .. k
    BY <1>5, <1>9
  <2>2. Cardinality(U) > 1
    BY <1>1
  <2>3. SumOf(Room(h, k, U), U) = 2 ^ k
    BY <1>10 DEF p
  <2>4. \A s \in U : h[s] > 0
    BY <1>1, <2>1, <2>2, <2>3, NoneIsFree
  <2> QED
    BY <2>3, <2>4 DEF Fills, U
<1>12. ASSUME NEW e \in LengthsWithin(k, c), Fills(e, k, c) PROVE Cost(h, c, U) <= Cost(e, c, U)
  <2> DEFINE x == Filled(e, k, U)
             y == SumOf(Room(e, k, U), U)
             z == p * n
  <2>1. x \in Nat /\ y \in Nat /\ x + y = z
    BY <1>5
  <2>2. y = p
    BY <1>12 DEF Fills, U, p
  <2>3. m * p = 2 * z - 2 * p /\ z \in Nat
    <3>1. (2 * n - 2) * p = 2 * (p * n) - 2 * p
      BY <1>1, <1>2
    <3> QED
      BY <1>1, <1>2, <3>1, MulNat
  <2> HIDE DEF x, y, z
  <2>4. m * p <= 2 * x
    BY <1>2, <2>1, <2>2, <2>3
  <2> QED
    BY <1>6, <1>9, <2>4 DEF x
<1> QED
  BY <1>8, <1>9, <1>11, <1>12 DEF h, U

-----------------------------------------------------------------------------
(* Code lengths and descriptors *)

\* The descriptor of some code lengths.
CodeOf(l) == [s \in Symbols |-> IF l[s] > 0 THEN l[s] ELSE Unused]

\* LengthsWithin that take all of 2^k and none of which is zero make a descriptor
\* that build accepts.
LEMMA FilledIsCode ==
  ASSUME NEW c, Occurring(c) # {}, NEW k \in Nat, k <= WordBits,
         NEW l \in LengthsWithin(k, c), Fills(l, k, c), \A s \in Symbols : c[s] \in Nat
  PROVE  /\ CodeOf(l) \in Descriptors /\ Coded(CodeOf(l)) = Occurring(c)
         /\ Zeros(CodeOf(l)) = {} /\ KraftHolds(CodeOf(l))
         /\ \A s \in Occurring(c) : CodeOf(l)[s] = l[s] /\ l[s] <= k
<1> DEFINE d == CodeOf(l)
           U == Occurring(c)
<1>1. \A s \in Symbols : l[s] \in 0 .. k /\ (c[s] = 0 => l[s] = 0)
  BY DEF LengthsWithin
<1>2. \A s \in U : s \in Symbols /\ l[s] > 0
  BY DEF Fills, Occurring
<1>3. \A s \in Symbols : s \notin U => l[s] = 0
  BY <1>1 DEF Occurring
<1>4. k \in Nat /\ k < Unused /\ Unused \in Nat
  BY TableAssumption
<1>5. \A s \in Symbols : d[s] = IF l[s] > 0 THEN l[s] ELSE Unused
  BY DEF CodeOf
<1>6. d \in Descriptors
  <2>1. \A s \in Symbols : (IF l[s] > 0 THEN l[s] ELSE Unused) \in 0 .. Unused
    BY <1>1, <1>4
  <2> QED
    BY <2>1 DEF CodeOf, Descriptors
<1>7. \A s \in U : d[s] = l[s] /\ l[s] \in 1 .. k
  BY <1>1, <1>2, <1>5
<1>8. \A s \in Symbols : s \notin U => d[s] = Unused
  <2> TAKE s \in Symbols
  <2> HAVE s \notin U
  <2>1. l[s] = 0
    BY <1>3
  <2> HIDE DEF d, U
  <2> QED
    BY <1>5, <2>1
<1> HIDE DEF d
<1>9. Coded(d) = U /\ Zeros(d) = {}
  <2>1. \A s \in U : s \in Coded(d) /\ d[s] # 0
    BY <1>2, <1>4, <1>7 DEF Coded
  <2>2. \A s \in Symbols : s \notin U => s \notin Coded(d) /\ d[s] # 0
    BY <1>4, <1>8 DEF Coded
  <2> QED
    BY <1>2, <2>1, <2>2 DEF Coded, Zeros
<1>10. LongestCode(d) \in Nat /\ LongestCode(d) <= k /\ LongestCode(d) <= WordBits
  <2>1. PICK s \in Coded(d) : d[s] = LongestCode(d)
    BY <1>6, <1>9, CodedFacts
  <2>2. d[s] \in 1 .. k
    BY <1>7, <1>9
  <2> QED
    BY <1>4, <2>1, <2>2, TableAssumption
<1>11. SumOf(Share(d, k), Coded(d)) = 2 ^ k
  <2>1. Share(d, k) = Room(l, k, U)
    BY <1>7, <1>9 DEF Share, Room
  <2> QED
    BY <1>9, <2>1 DEF Fills
<1>12. KraftHolds(d)
  <2>1. SumOf(Share(d, LongestCode(d)), Coded(d)) = 2 ^ LongestCode(d)
    BY <1>6, <1>9, <1>10, <1>11, ExactAtScale
  <2> QED
    BY <1>6, <1>9, <1>10, <2>1, KraftByShare
<1> QED
  BY <1>6, <1>7, <1>9, <1>12 DEF d

\* The lengths of a descriptor, for the symbols that occur.
LengthsOf(d, U) == [s \in Symbols |-> IF s \in U THEN d[s] ELSE 0]

\* A complete code is one whose lengths take all of 2^k.
LEMMA CodeIsFilled ==
  ASSUME NEW c, Occurring(c) # {}, NEW k \in Nat, NEW d \in Descriptors,
         Coded(d) = Occurring(c), KraftHolds(d), LongestCode(d) <= k,
         \A s \in Symbols : c[s] \in Nat
  PROVE  LengthsOf(d, Occurring(c)) \in LengthsWithin(k, c)
         /\ Fills(LengthsOf(d, Occurring(c)), k, c)
<1> DEFINE U == Occurring(c)
           l == LengthsOf(d, U)
<1>1. \A s \in U : s \in Symbols /\ d[s] \in 1 .. LongestCode(d) /\ LongestCode(d) \in Nat
  BY CodedFacts
<1>2. \A s \in Symbols : l[s] = IF s \in U THEN d[s] ELSE 0
  BY DEF LengthsOf
<1>3. \A s \in U : l[s] = d[s] /\ l[s] \in 1 .. k
  BY <1>1, <1>2
<1>4. \A s \in Symbols : c[s] = 0 => s \notin U
  BY DEF Occurring
<1>5. l \in LengthsWithin(k, c)
  <2>1. \A s \in Symbols : (IF s \in U THEN d[s] ELSE 0) \in 0 .. k
    BY <1>1
  <2>2. l \in [Symbols -> 0 .. k]
    BY <2>1 DEF LengthsOf
  <2>3. \A s \in Symbols : c[s] = 0 => l[s] = 0
    BY <1>2, <1>4
  <2> QED
    BY <2>2, <2>3 DEF LengthsWithin
<1>6. SumOf(Room(l, k, U), U) = 2 ^ k
  <2>1. SumOf(Share(d, LongestCode(d)), Coded(d)) = 2 ^ LongestCode(d)
    BY KraftByShare
  <2>2. SumOf(Share(d, k), Coded(d)) = 2 ^ k
    BY <2>1, ExactAtScale
  <2>3. Share(d, k) = Room(l, k, U)
    <3> HIDE DEF l
    <3> QED
      BY <1>3 DEF Share, Room
  <2> QED
    BY <2>2, <2>3
<1>7. \A s \in U : l[s] > 0
  <2> HIDE DEF l
  <2> QED
    BY <1>3
<1> QED
  BY <1>5, <1>6, <1>7 DEF Fills

\* How often the nodes S hold a symbol, as a sum over a function.
LEMMA HeldBySum ==
  ASSUME NEW list, NEW s, NEW S, IsFiniteSet(S), S \in SUBSET (1 .. Len(list))
  PROVE  MapThenSumSet(LAMBDA i : list[i].holds[s], S) = SumOf(Holdings(list, s), S)
<1> DEFINE w == Holdings(list, s)
           A(g) == g = [T \in SUBSET S |->
                     IF T = {} THEN 0
                     ELSE list[CHOOSE x \in T : TRUE].holds[s]
                            + g[T \ {CHOOSE x \in T : TRUE}]]
           c == CHOOSE g : A(g)
<1>1. \A g : A(g) <=> Adds(g, w, S)
  <2> TAKE g
  <2>1. \A T \in SUBSET S : T # {} =>
          w[CHOOSE x \in T : TRUE] = list[CHOOSE x \in T : TRUE].holds[s]
    BY DEF Holdings
  <2> HIDE DEF w
  <2>2. [T \in SUBSET S |->
           IF T = {} THEN 0
           ELSE w[CHOOSE x \in T : TRUE] + g[T \ {CHOOSE x \in T : TRUE}]]
        = [T \in SUBSET S |->
             IF T = {} THEN 0
             ELSE list[CHOOSE x \in T : TRUE].holds[s]
                    + g[T \ {CHOOSE x \in T : TRUE}]]
    BY <2>1
  <2> QED
    BY <2>2 DEF Adds
<1>2. A(c)
  <2>1. \E g : A(g)
    <3> HIDE DEF A, w
    <3> QED
      BY <1>1, AddsExists
  <2> QED
    BY <2>1
<1>3. MapThenSumSet(LAMBDA i : list[i].holds[s], S) = c[S]
  BY DEF MapThenSumSet, MapThenFoldSet
<1>4. Adds(c, w, S)
  BY <1>1, <1>2
<1>5. c[S] = SumOf(w, S)
  <2>1. S \in SUBSET S
    OBVIOUS
  <2>2. PICK h : Adds(h, w, S) /\ SumOf(w, S) = h[S]
    BY SumIsAdds
  <2> HIDE DEF c, w
  <2>3. c[S] = h[S]
    BY <1>4, <2>1, <2>2, AddsAgree
  <2> QED
    BY <2>2, <2>3
<1> QED
  BY <1>3, <1>5

\* The lengths that are counted are what the first nodes hold.
LEMMA CountedAre ==
  ASSUME NEW m \in Nat, m = 2 * Cardinality(Used) - 2, m <= Len(prev), prev \in Seq(Nodes)
  PROVE  CountedLengths = Held(prev, m)
<1>1. Active = 1 .. m
  BY DEF Active
<1>2. DOMAIN prev = 1 .. Len(prev) /\ Len(prev) \in Nat
  BY NodeFacts
<1>3. Active \cap DOMAIN prev = 1 .. m
  BY <1>1, <1>2
<1>4. IsFiniteSet(1 .. m) /\ 1 .. m \in SUBSET (1 .. Len(prev))
  BY <1>2, OneToN
<1>5. ASSUME NEW s \in Symbols
      PROVE  MapThenSumSet(LAMBDA i : prev[i].holds[s], 1 .. m) = SumOf(Holdings(prev, s), 1 .. m)
  BY <1>4, HeldBySum
<1>6. \A s \in Symbols :
        MapThenSumSet(LAMBDA i : prev[i].holds[s], Active \cap DOMAIN prev)
          = SumOf(Holdings(prev, s), 1 .. m)
  BY <1>3, <1>5
<1> QED
  BY <1>6 DEF CountedLengths, Held

\* The bits of a plane are the cost of the lengths.
LEMMA BitsAreCost ==
  ASSUME NEW c \in [Symbols -> Nat], c = counts, NEW d, NEW l,
         \A s \in Symbols : d[s] \in Nat,
         \A s \in Occurring(c) : d[s] = l[s]
  PROVE  BitsSpent(d) = Cost(l, c, Occurring(c))
<1> DEFINE w == [s \in Symbols |-> c[s] * d[s]]
           U == Occurring(c)
           f == CHOOSE g : g = [n \in 0 .. NumSymbols |->
                                  IF n = 0 THEN 0 ELSE g[n - 1] + counts[n - 1] * d[n - 1]]
<1>1. \A s \in Symbols : w[s] \in Nat /\ w[s] = c[s] * d[s]
  BY MulNat
<1>2. f = [n \in 0 .. NumSymbols |->
             IF n = 0 THEN 0 ELSE f[n - 1] + counts[n - 1] * d[n - 1]]
  <2> DEFINE step == [x \in Nat \X (1 .. NumSymbols) |-> x[1] + w[x[2] - 1]]
  <2>0. NumSymbols \in Nat
    BY TableAssumption
  <2>1. \A v \in Nat, i \in 1 .. NumSymbols :
          step[<<v, i>>] = v + w[i - 1] /\ step[<<v, i>>] \in Nat
    <3> TAKE v \in Nat, i \in 1 .. NumSymbols
    <3>1. i - 1 \in Symbols
      BY <2>0 DEF Symbols
    <3>2. step[<<v, i>>] = v + w[i - 1]
      OBVIOUS
    <3> QED
      BY <1>1, <3>1, <3>2
  <2> HIDE DEF step, w
  <2>2. \A v \in Nat, i \in 0 + 1 .. NumSymbols : step[<<v, i>>] \in Nat
    <3>1. 0 + 1 = 1
      OBVIOUS
    <3> QED
      BY <2>1, <3>1
  <2>3. PICK g \in [0 .. NumSymbols -> Nat] : Recurs(g, 0, NumSymbols, 0, step)
    <3>1. 0 \in Int /\ 0 \in Nat /\ NumSymbols \in Int
      BY <2>0
    <3> QED
      BY <2>2, <3>1, RecursionExists
  <2>4. \A n \in 0 .. NumSymbols : n # 0 =>
          step[<<g[n - 1], n>>] = g[n - 1] + counts[n - 1] * d[n - 1]
    <3> TAKE n \in 0 .. NumSymbols
    <3> HAVE n # 0
    <3>1. n \in 1 .. NumSymbols /\ n - 1 \in 0 .. NumSymbols /\ n - 1 \in Symbols
      BY <2>0 DEF Symbols
    <3>2. g[n - 1] \in Nat
      BY <3>1
    <3> QED
      BY <1>1, <2>1, <3>1, <3>2
  <2>5. g = [n \in 0 .. NumSymbols |->
               IF n = 0 THEN 0 ELSE g[n - 1] + counts[n - 1] * d[n - 1]]
    BY <2>3, <2>4 DEF Recurs
  <2> QED
    BY <2>5
<1>3. BitsSpent(d) = f[NumSymbols]
  BY DEF BitsSpent
<1> HIDE DEF f
<1> DEFINE G == {n \in Nat : n <= NumSymbols => f[n] = SumOf(w, 0 .. n - 1)}
<1>4. NumSymbols \in Nat
  BY TableAssumption
<1>5. 0 \in G
  <2>1. 0 .. 0 - 1 = {}
    OBVIOUS
  <2>2. f[0] = 0
    BY <1>2, <1>4
  <2> HIDE DEF w
  <2> QED
    BY <2>1, <2>2, SumEmpty
<1>6. \A n \in Nat : n \in G => n + 1 \in G
  <2> SUFFICES ASSUME NEW n \in Nat, n \in G, n + 1 <= NumSymbols
               PROVE  f[n + 1] = SumOf(w, 0 .. (n + 1) - 1)
    OBVIOUS
  <2>1. f[n] = SumOf(w, 0 .. n - 1) /\ n \in Symbols
    BY <1>4 DEF Symbols
  <2>2. f[n + 1] = f[n] + w[n]
    <3>1. n + 1 \in 0 .. NumSymbols /\ n + 1 # 0 /\ (n + 1) - 1 = n
      BY <1>4
    <3>2. w[n] = counts[n] * d[n]
      BY <2>1
    <3> DEFINE j == n + 1
    <3> HIDE DEF j, w
    <3>3. f[j] = f[j - 1] + counts[j - 1] * d[j - 1]
      BY <1>2, <3>1 DEF j
    <3> QED
      BY <3>1, <3>2, <3>3 DEF j
  <2>3. (0 .. n - 1) \cup {n} = 0 .. (n + 1) - 1 /\ n \notin 0 .. n - 1
    OBVIOUS
  <2>4. IsFiniteSet(0 .. n - 1)
    <3>1. 0 \in Int /\ n - 1 \in Int
      OBVIOUS
    <3> QED
      BY <3>1, FS_Interval
  <2>5. \A y \in (0 .. n - 1) \cup {n} : w[y] \in Int
    <3>1. \A y \in (0 .. n - 1) \cup {n} : y \in Symbols
      BY <1>4 DEF Symbols
    <3> HIDE DEF w
    <3> QED
      BY <1>1, <3>1
  <2>6. SumOf(w, (0 .. n - 1) \cup {n}) = w[n] + SumOf(w, 0 .. n - 1)
        /\ SumOf(w, 0 .. n - 1) \in Int
    <3> HIDE DEF w
    <3> QED
      BY <2>3, <2>4, <2>5, SumAdd
  <2>7. w[n] \in Int
    BY <1>1, <2>1
  <2> HIDE DEF w
  <2>8. SumOf(w, 0 .. (n + 1) - 1) = w[n] + SumOf(w, 0 .. n - 1)
    BY <2>3, <2>6
  <2> DEFINE x == SumOf(w, 0 .. n - 1)
             y == SumOf(w, 0 .. (n + 1) - 1)
  <2>9. f[n] = x /\ x \in Int /\ y = w[n] + x
    BY <2>1, <2>6, <2>8
  <2> HIDE DEF x, y
  <2>10. f[n + 1] = y
    BY <2>2, <2>7, <2>9
  <2> QED
    BY <2>10 DEF y
<1> HIDE DEF G
<1>7. NumSymbols \in G
  BY <1>4, <1>5, <1>6, NatInduct
<1>8. f[NumSymbols] = SumOf(w, Symbols)
  BY <1>4, <1>7 DEF G, Symbols
<1>9. SumOf(w, Symbols) = SumOf(Spent(l, c, U), U)
  <2> DEFINE v == Spent(l, c, U)
  <2>1. \A s \in U : v[s] \in Int /\ w[s] = v[s]
    <3> TAKE s \in U
    <3>1. s \in Symbols /\ c[s] \in Nat /\ d[s] \in Nat /\ l[s] = d[s]
      BY DEF Occurring
    <3>2. v[s] = l[s] * c[s]
      BY DEF Spent
    <3>3. c[s] * d[s] = d[s] * c[s]
      BY <3>1
    <3>4. w[s] \in Nat /\ w[s] = c[s] * d[s]
      BY <1>1, <3>1
    <3> QED
      BY <3>1, <3>2, <3>3, <3>4
  <2>2. \A s \in Symbols \ U : w[s] = 0
    <3> TAKE s \in Symbols \ U
    <3>1. c[s] = 0 /\ d[s] \in Nat
      BY DEF Occurring
    <3>2. 0 * d[s] = 0
      BY <3>1
    <3> QED
      BY <1>1, <3>1, <3>2
  <2>3. IsFiniteSet(Symbols) /\ U \in SUBSET Symbols
    BY OccurringFinite
  <2> HIDE DEF w, v, U
  <2>4. SumOf(w, Symbols) = SumOf(v, U)
    BY <2>1, <2>2, <2>3, SumWithin
  <2> QED
    BY <2>4 DEF v
<1> QED
  BY <1>3, <1>8, <1>9 DEF Cost

-----------------------------------------------------------------------------
(* What package-merge keeps, and what it returns *)

\* The result for the occurrences c under the cap k.
Outcome(c, k, d, result) ==
  LET U == Occurring(c)
      n == Cardinality(U)
  IN  \/ result = "InvalidInput" /\ n > 1 /\ 2 ^ k < n
      \/ result = "Ok" /\ n <= 1 /\ d = [s \in Symbols |-> IF s \in U THEN 0 ELSE Unused]
      \/ /\ result = "Ok" /\ n > 1
         /\ \E l \in LengthsWithin(k, c) :
              /\ d = CodeOf(l) /\ Fills(l, k, c)
              /\ \A e \in LengthsWithin(k, c) : Fills(e, k, c) => Cost(l, c, U) <= Cost(e, c, U)

\* While merging, the list is what a level's list has to be; at the end, the
\* result is the outcome for the counts.
LInv ==
  /\ counts \in [Symbols -> Nat] /\ cap \in Caps
  /\ at \in {"shape", "merge", "done"}
  /\ at = "shape" => level = 1
  /\ at = "merge" =>
       /\ level \in 1 .. cap
       /\ Cardinality(Occurring(counts)) > 1 /\ Cardinality(Occurring(counts)) <= 2 ^ cap
       /\ LevelOk(prev, level, counts)
  /\ at = "done" => Outcome(counts, cap, built, answer)

\* The symbols that occur in the plane.
LEMMA UsedAre == Used = Occurring(counts)
  BY DEF Used, Occurring

\* At first nothing is merged.
LEMMA LInvInit == LengthsInit => LInv
<1> SUFFICES ASSUME LengthsInit PROVE LInv
  OBVIOUS
<1>1. counts \in [Symbols -> Nat]
  <2>1. counts \in [Symbols -> 0 .. MaxCount] /\ MaxCount \in Nat
    BY CapAssumption DEF LengthsInit
  <2> QED
    BY <2>1
<1> QED
  BY <1>1 DEF LInv, LengthsInit

\* One value throughout, or none.
LEMMA FlatIsOk ==
  ASSUME NEW U \in SUBSET Symbols, IsFiniteSet(U), Cardinality(U) <= 1,
         NEW d, d = [s \in Symbols |-> IF s \in U THEN 0 ELSE Unused]
  PROVE  BuildResult(d) = "Ok" /\ Zeros(d) = U /\ Coded(d) = {}
<1>1. Unused # 0
  BY TableAssumption
<1>2. Zeros(d) = U
  BY <1>1 DEF Zeros
<1>3. Coded(d) = {}
  BY <1>1 DEF Coded
<1>4. Cardinality(U) \in Nat
  BY FS_CardinalityType
<1>5. CASE Cardinality(U) = 0
  <2>1. U = {}
    BY <1>5, FS_EmptySet
  <2> QED
    BY <1>2, <1>3, <1>5, <2>1 DEF BuildResult
<1>6. CASE Cardinality(U) = 1
  <2>1. U # {}
    BY <1>6, FS_EmptySet
  <2> QED
    BY <1>2, <1>3, <1>6, <2>1 DEF BuildResult
<1> QED
  BY <1>2, <1>3, <1>4, <1>5, <1>6

\* A code that fills what there is, with its codebook.
LEMMA FilledIsOk ==
  ASSUME NEW c, Occurring(c) # {}, NEW k \in Nat, k <= WordBits,
         NEW l \in LengthsWithin(k, c), Fills(l, k, c), \A s \in Symbols : c[s] \in Nat
  PROVE  KraftHolds(CodeOf(l)) /\ BuildResult(CodeOf(l)) = "Ok"
<1>1. /\ CodeOf(l) \in Descriptors /\ Coded(CodeOf(l)) = Occurring(c)
      /\ Zeros(CodeOf(l)) = {} /\ KraftHolds(CodeOf(l))
      /\ \A s \in Occurring(c) : CodeOf(l)[s] = l[s] /\ l[s] <= k
  BY FilledIsCode
<1>2. Cardinality(Zeros(CodeOf(l))) = 0
  BY <1>1, FS_EmptySet
<1> QED
  BY <1>1, <1>2 DEF BuildResult

\* Merging keeps what the list knows.
LEMMA LInvNext == LInv /\ [LengthsNext]_lengthsVars => LInv'
<1> SUFFICES ASSUME LInv, [LengthsNext]_lengthsVars PROVE LInv'
  OBVIOUS
<1>1. /\ counts \in [Symbols -> Nat] /\ cap \in Caps
      /\ at \in {"shape", "merge", "done"}
      /\ at = "shape" => level = 1
  BY DEF LInv
<1>2. cap \in 1 .. WordBits /\ cap \in Nat /\ cap >= 1 /\ cap <= WordBits
  BY <1>1, CapAssumption, TableAssumption
<1>3. PICK c : c = counts
  OBVIOUS
<1>4. PICK n : n = Cardinality(Occurring(c))
  OBVIOUS
<1>5. c \in [Symbols -> Nat] /\ (\A s \in Symbols : c[s] \in Nat) /\ Used = Occurring(c)
      /\ n = Cardinality(Used)
  BY <1>1, <1>3, <1>4, UsedAre
<1>6. IsFiniteSet(Occurring(c)) /\ n \in Nat /\ Occurring(c) \in SUBSET Symbols
  BY <1>4, OccurringFinite
<1>7. CASE ReturnFlat
  <2> PICK d : d = [s \in Symbols |-> IF s \in Used THEN 0 ELSE Unused]
    OBVIOUS
  <2>1. n <= 1 /\ Conclude(d, BuildResult(d))
    BY <1>5, <1>7 DEF ReturnFlat
  <2>2. BuildResult(d) = "Ok"
    BY <1>4, <1>5, <1>6, <2>1, FlatIsOk
  <2>3. at' = "done" /\ counts' = c /\ cap' = cap /\ built' = d /\ answer' = "Ok"
    BY <1>3, <2>1, <2>2 DEF Conclude
  <2>4. Outcome(c, cap, d, "Ok")
    BY <1>4, <1>5, <2>1 DEF Outcome
  <2>5. Outcome(counts', cap', built', answer')
    BY <2>3, <2>4
  <2> QED
    BY <1>1, <1>5, <2>3, <2>5 DEF LInv
<1>8. CASE RefuseAlphabet
  <2>1. n > 1 /\ 2 ^ cap < n /\ Conclude(built, "InvalidInput")
    BY <1>5, <1>8 DEF RefuseAlphabet
  <2>2. at' = "done" /\ counts' = c /\ cap' = cap /\ answer' = "InvalidInput"
    BY <1>3, <2>1 DEF Conclude
  <2>3. Outcome(counts', cap', built', answer')
    BY <1>4, <2>1, <2>2 DEF Outcome
  <2> QED
    BY <1>1, <1>5, <2>2, <2>3 DEF LInv
<1>9. CASE ListLeaves
  <2>1. at' = "merge" /\ counts' = c /\ cap' = cap /\ level' = 1 /\ prev' = Leaves
        /\ n > 1 /\ 2 ^ cap >= n
    BY <1>1, <1>3, <1>5, <1>9 DEF ListLeaves
  <2>2. LeafList(Leaves, c)
    BY <1>1, <1>3, LeavesListed
  <2>3. LevelOk(Leaves, 1, c)
    BY <1>5, <2>2, LevelOne
  <2>4. 2 ^ cap \in Nat
    BY <1>2, PowNat
  <2>5. 1 \in 1 .. cap /\ n <= 2 ^ cap
    BY <1>2, <1>6, <2>1, <2>4
  <2>6. LevelOk(prev', level', counts')
    BY <2>1, <2>3
  <2>7. level' \in 1 .. cap' /\ Cardinality(Occurring(counts')) > 1
        /\ Cardinality(Occurring(counts')) <= 2 ^ cap'
    BY <1>4, <2>1, <2>5
  <2> QED
    BY <1>1, <1>5, <2>1, <2>6, <2>7 DEF LInv
<1>10. CASE MergeLevel
  <2>1. at = "merge" /\ at' = "merge" /\ counts' = c /\ cap' = cap /\ level' = level + 1
        /\ prev' = Merged(Packages(prev), Leaves) /\ level < cap
    BY <1>3, <1>10 DEF MergeLevel
  <2>2. /\ level \in 1 .. cap /\ Cardinality(Occurring(c)) > 1
        /\ Cardinality(Occurring(c)) <= 2 ^ cap /\ LevelOk(prev, level, c)
    BY <1>3, <2>1 DEF LInv
  <2>3. LeafList(Leaves, c)
    BY <1>1, <1>3, LeavesListed
  <2>4. PICK k, x, y : k = level /\ x = prev /\ y = Leaves
    OBVIOUS
  <2>5. PICK M : M = Merged(Packages(x), y)
    OBVIOUS
  <2>6. k \in Nat /\ LevelOk(x, k, c) /\ LeafList(y, c)
    BY <1>2, <2>2, <2>3, <2>4
  <2>7. LevelOk(M, k + 1, c)
    BY <1>5, <2>5, <2>6, LevelStep
  <2>8. prev' = M /\ level' = k + 1
    BY <2>1, <2>4, <2>5
  <2>9. LevelOk(prev', level', counts')
    BY <2>1, <2>7, <2>8
  <2>10. level' \in 1 .. cap' /\ Cardinality(Occurring(counts')) > 1
         /\ Cardinality(Occurring(counts')) <= 2 ^ cap'
    BY <1>2, <2>1, <2>2
  <2> QED
    BY <1>1, <1>5, <2>1, <2>9, <2>10 DEF LInv
<1>11. CASE CountLengths
  <2>1. at = "merge" /\ level >= cap
    BY <1>11 DEF CountLengths
  <2>2. /\ level \in 1 .. cap /\ n > 1 /\ n <= 2 ^ cap /\ LevelOk(prev, level, c)
    BY <1>3, <1>4, <2>1 DEF LInv
  <2>3. level = cap
    BY <1>2, <2>1, <2>2
  <2>4. PICK k, x, m : k = cap /\ x = prev /\ m = 2 * n - 2
    OBVIOUS
  <2>5. k \in Nat /\ LevelOk(x, k, c) /\ n <= 2 ^ k /\ m \in Nat /\ k <= WordBits
    BY <1>2, <1>6, <2>2, <2>3, <2>4
  <2>6. PICK h : h = Held(x, m)
    OBVIOUS
  <2>7. /\ m \in 0 .. Len(x) /\ h \in LengthsWithin(k, c)
        /\ Fills(h, k, c)
        /\ \A e \in LengthsWithin(k, c) : Fills(e, k, c) =>
             Cost(h, c, Occurring(c)) <= Cost(e, c, Occurring(c))
    BY <1>4, <1>5, <2>2, <2>4, <2>5, <2>6, LastLevel
  <2>8. CountedLengths = h
    <3>1. prev \in Seq(Nodes) /\ m <= Len(prev)
      <4>1. prev \in Seq(Nodes) /\ Len(prev) \in Nat
        BY <2>2, NodeFacts DEF LevelOk
      <4> QED
        BY <2>4, <2>7, <4>1
    <3>2. m = 2 * Cardinality(Used) - 2
      BY <1>5, <2>4
    <3> QED
      BY <2>4, <2>5, <2>6, <3>1, <3>2, CountedAre
  <2>9. Occurring(c) # {}
    BY <1>4, <2>2, FS_EmptySet
  <2>10. KraftHolds(CodeOf(h)) /\ BuildResult(CodeOf(h)) = "Ok"
    BY <1>5, <2>5, <2>7, <2>9, FilledIsOk
  <2>11. LengthsToDescriptor(h) = CodeOf(h)
    BY DEF LengthsToDescriptor, CodeOf
  <2>12. Conclude(CodeOf(h), "Ok")
    BY <1>11, <2>8, <2>10, <2>11 DEF CountLengths
  <2>13. at' = "done" /\ counts' = c /\ cap' = k /\ built' = CodeOf(h) /\ answer' = "Ok"
    BY <1>3, <2>4, <2>12 DEF Conclude
  <2>14. Outcome(c, k, CodeOf(h), "Ok")
    BY <1>4, <2>2, <2>7 DEF Outcome
  <2>15. Outcome(counts', cap', built', answer')
    BY <2>13, <2>14
  <2> QED
    BY <1>1, <1>5, <2>4, <2>13, <2>15 DEF LInv
<1>12. CASE LengthsDone \/ UNCHANGED lengthsVars
  BY <1>12 DEF LengthsDone, lengthsVars, LInv
<1> QED
  BY <1>7, <1>8, <1>9, <1>10, <1>11, <1>12 DEF LengthsNext

\* At each level of the merge, the first m nodes of the list are the cheapest
\* way to fill m times half the code space (build_lengths).
THEOREM CheapestAtEveryLevel == LengthsSpec => []LInv
<1> QED
  BY LInvInit, LInvNext, PTL DEF LengthsSpec

-----------------------------------------------------------------------------
(* The properties *)

\* Codes take at least 1 of 2^k each.
LEMMA RoomForAll ==
  ASSUME NEW c, NEW k \in Nat, NEW l \in LengthsWithin(k, c), Fills(l, k, c)
  PROVE  Cardinality(Occurring(c)) <= 2 ^ k
<1> DEFINE U == Occurring(c)
           r == Room(l, k, U)
           one == [s \in U |-> 1]
<1>1. IsFiniteSet(U) /\ Cardinality(U) \in Nat /\ U \in SUBSET Symbols
  BY OccurringFinite
<1>2. ASSUME NEW s \in U PROVE r[s] \in Int /\ one[s] \in Int /\ one[s] <= r[s]
  <2>1. l[s] \in 0 .. k
    BY <1>1 DEF LengthsWithin
  <2>2. k - l[s] \in Nat
    BY <2>1
  <2>3. 2 ^ (k - l[s]) \in Nat /\ 2 ^ (k - l[s]) >= 1
    BY <2>2, PowPos
  <2>4. r[s] = 2 ^ (k - l[s])
    BY DEF Room
  <2> QED
    BY <2>3, <2>4
<1>3. (\A s \in U : one[s] = 1) /\ 1 \in Int
  OBVIOUS
<1>4. SumOf(r, U) = 2 ^ k
  BY DEF Fills
<1> HIDE DEF U, r, one
<1>5. SumOf(one, U) = 1 * Cardinality(U)
  BY <1>1, <1>3, SumOfEqual
<1>6. SumOf(one, U) <= SumOf(r, U)
  BY <1>1, <1>2, SumAtMost
<1> QED
  BY <1>1, <1>4, <1>5, <1>6 DEF U

\* The lengths of another complete code under the cap.
LEMMA RivalFills ==
  ASSUME NEW c \in [Symbols -> Nat], c = counts, cap \in Nat,
         NEW code \in CompleteCodes, IsRival(code)
  PROVE  \E e \in Descriptors :
           /\ e = code.lengths /\ LengthsOf(e, Occurring(c)) \in LengthsWithin(cap, c)
           /\ Fills(LengthsOf(e, Occurring(c)), cap, c)
<1>1. PICK e \in [Symbols -> 1 .. WordBits \cup {Unused}] :
        /\ Coded(e) # {} /\ KraftHolds(e)
        /\ code = [used |-> Coded(e), longest |-> LongestCode(e), lengths |-> e]
  BY DEF CompleteCodes
<1>2. e \in Descriptors
  <2>1. 1 .. WordBits \cup {Unused} \subseteq 0 .. Unused
    BY TableAssumption
  <2> QED
    BY <2>1 DEF Descriptors
<1>3. e = code.lengths /\ Coded(e) = Occurring(c) /\ LongestCode(e) <= cap
  BY <1>1, UsedAre DEF IsRival
<1>4. PICK k : k = cap
  OBVIOUS
<1>5. k \in Nat /\ LongestCode(e) <= k /\ Occurring(c) # {} /\ \A s \in Symbols : c[s] \in Nat
  BY <1>1, <1>3, <1>4
<1>6. LengthsOf(e, Occurring(c)) \in LengthsWithin(k, c) /\ Fills(LengthsOf(e, Occurring(c)), k, c)
  BY <1>1, <1>2, <1>3, <1>5, CodeIsFilled
<1> QED
  BY <1>2, <1>3, <1>4, <1>6

\* What the invariant says at the end.
LEMMA AtTheEnd ==
  ASSUME LInv, at = "done"
  PROVE  /\ counts \in [Symbols -> Nat] /\ cap \in Nat /\ cap <= WordBits
         /\ Outcome(counts, cap, built, answer)
<1>1. cap \in 1 .. WordBits
  BY CapAssumption DEF LInv
<1> QED
  BY <1>1, TableAssumption DEF LInv

\* A rival fills all there is, so there is room for a code for each symbol.
LEMMA LInvCoded == LInv => EveryResidualCoded
<1> SUFFICES ASSUME LInv, at = "done"
             PROVE  IF answer = "InvalidInput"
                    THEN ~ \E code \in CompleteCodes : IsRival(code)
                    ELSE /\ answer = "Ok" /\ BuildResult(built) = "Ok"
                         /\ Used = Coded(built) \cup Zeros(built)
                         /\ \A s \in Coded(built) : built[s] <= cap
  BY DEF EveryResidualCoded
<1>1. PICK c, k, n : c = counts /\ k = cap /\ n = Cardinality(Occurring(c))
  OBVIOUS
<1>2. c \in [Symbols -> Nat] /\ k \in Nat /\ k <= WordBits /\ Outcome(c, k, built, answer)
      /\ Used = Occurring(c) /\ \A s \in Symbols : c[s] \in Nat
  BY <1>1, AtTheEnd, UsedAre
<1>3. IsFiniteSet(Occurring(c)) /\ n \in Nat /\ Occurring(c) \in SUBSET Symbols
  BY <1>1, OccurringFinite
<1>4. CASE answer = "InvalidInput" /\ n > 1 /\ 2 ^ k < n
  <2> SUFFICES ASSUME NEW code \in CompleteCodes, IsRival(code) PROVE FALSE
    BY <1>4
  <2>1. PICK e \in Descriptors :
          /\ LengthsOf(e, Occurring(c)) \in LengthsWithin(k, c)
          /\ Fills(LengthsOf(e, Occurring(c)), k, c)
    BY <1>1, <1>2, RivalFills
  <2>2. n <= 2 ^ k
    BY <1>1, <1>2, <2>1, RoomForAll
  <2>3. 2 ^ k \in Nat
    BY <1>2, PowNat
  <2> QED
    BY <1>3, <1>4, <2>2, <2>3
<1>5. CASE /\ answer = "Ok" /\ n <= 1
           /\ built = [s \in Symbols |-> IF s \in Occurring(c) THEN 0 ELSE Unused]
  <2>1. PICK d : d = built
    OBVIOUS
  <2>2. BuildResult(d) = "Ok" /\ Zeros(d) = Occurring(c) /\ Coded(d) = {}
    BY <1>1, <1>3, <1>5, <2>1, FlatIsOk
  <2> QED
    BY <1>2, <1>5, <2>1, <2>2
<1>6. CASE /\ answer = "Ok" /\ n > 1
           /\ \E l \in LengthsWithin(k, c) :
                /\ built = CodeOf(l) /\ Fills(l, k, c)
                /\ \A e \in LengthsWithin(k, c) :
                     Fills(e, k, c) => Cost(l, c, Occurring(c)) <= Cost(e, c, Occurring(c))
  <2>1. PICK l \in LengthsWithin(k, c) : built = CodeOf(l) /\ Fills(l, k, c)
    BY <1>6
  <2>2. Occurring(c) # {}
    BY <1>1, <1>6, FS_EmptySet
  <2>3. BuildResult(CodeOf(l)) = "Ok"
    BY <1>2, <2>1, <2>2, FilledIsOk
  <2>4. /\ CodeOf(l) \in Descriptors /\ Coded(CodeOf(l)) = Occurring(c)
        /\ Zeros(CodeOf(l)) = {} /\ KraftHolds(CodeOf(l))
        /\ \A s \in Occurring(c) : CodeOf(l)[s] = l[s] /\ l[s] <= k
    BY <1>2, <2>1, <2>2, FilledIsCode
  <2> QED
    BY <1>1, <1>2, <1>6, <2>1, <2>3, <2>4
<1> QED
  BY <1>1, <1>2, <1>4, <1>5, <1>6 DEF Outcome

\* A rival's lengths are among those that the code is no longer than.
LEMMA LInvOptimal == LInv => Optimal
<1> SUFFICES ASSUME LInv, at = "done", Cardinality(Used) > 1, answer # "InvalidInput"
             PROVE  /\ answer = "Ok"
                    /\ \A code \in CompleteCodes :
                         IsRival(code) => BitsSpent(built) <= BitsSpent(code.lengths)
  BY DEF Optimal
<1>1. PICK c, k, n : c = counts /\ k = cap /\ n = Cardinality(Occurring(c))
  OBVIOUS
<1>2. c \in [Symbols -> Nat] /\ k \in Nat /\ k <= WordBits /\ Outcome(c, k, built, answer)
      /\ Used = Occurring(c) /\ n > 1 /\ \A s \in Symbols : c[s] \in Nat
  BY <1>1, AtTheEnd, UsedAre
<1>3. n \in Nat
  BY <1>1, OccurringFinite
<1>4. answer = "Ok"
      /\ \E l \in LengthsWithin(k, c) :
           /\ built = CodeOf(l) /\ Fills(l, k, c)
           /\ \A e \in LengthsWithin(k, c) :
                Fills(e, k, c) => Cost(l, c, Occurring(c)) <= Cost(e, c, Occurring(c))
  BY <1>1, <1>2, <1>3 DEF Outcome
<1>5. PICK l \in LengthsWithin(k, c) :
        /\ built = CodeOf(l) /\ Fills(l, k, c)
        /\ \A e \in LengthsWithin(k, c) :
             Fills(e, k, c) => Cost(l, c, Occurring(c)) <= Cost(e, c, Occurring(c))
  BY <1>4
<1>6. Occurring(c) # {}
  BY <1>1, <1>2, FS_EmptySet
<1>7. BitsSpent(built) = Cost(l, c, Occurring(c))
  <2>1. PICK d : d = CodeOf(l)
    OBVIOUS
  <2>2. d \in Descriptors /\ \A s \in Occurring(c) : d[s] = l[s]
    <3>1. /\ CodeOf(l) \in Descriptors /\ Coded(CodeOf(l)) = Occurring(c)
          /\ Zeros(CodeOf(l)) = {} /\ KraftHolds(CodeOf(l))
          /\ \A s \in Occurring(c) : CodeOf(l)[s] = l[s] /\ l[s] <= k
      BY <1>2, <1>5, <1>6, FilledIsCode
    <3> QED
      BY <2>1, <3>1
  <2>3. \A s \in Symbols : d[s] \in Nat
    BY <2>2 DEF Descriptors
  <2>4. BitsSpent(d) = Cost(l, c, Occurring(c))
    BY <1>1, <1>2, <2>2, <2>3, BitsAreCost
  <2> QED
    BY <1>5, <2>1, <2>4
<1>8. ASSUME NEW code \in CompleteCodes, IsRival(code)
      PROVE  BitsSpent(built) <= BitsSpent(code.lengths)
  <2>1. PICK e \in Descriptors :
          /\ e = code.lengths
          /\ LengthsOf(e, Occurring(c)) \in LengthsWithin(k, c)
          /\ Fills(LengthsOf(e, Occurring(c)), k, c)
    BY <1>1, <1>2, <1>8, RivalFills
  <2>2. PICK x : x = LengthsOf(e, Occurring(c))
    OBVIOUS
  <2>3. Cost(l, c, Occurring(c)) <= Cost(x, c, Occurring(c))
    BY <1>5, <2>1, <2>2
  <2>4. \A s \in Occurring(c) : e[s] = x[s]
    BY <2>2 DEF LengthsOf, Occurring
  <2>5. \A s \in Symbols : e[s] \in Nat
    BY DEF Descriptors
  <2>6. BitsSpent(e) = Cost(x, c, Occurring(c))
    BY <1>1, <1>2, <2>4, <2>5, BitsAreCost
  <2> QED
    BY <1>7, <2>1, <2>3, <2>6
<1> QED
  BY <1>4, <1>8

\* The descriptor of every plane is refused only when no code under the cap
\* exists, and otherwise has a code for each residual of the plane and for no
\* other (build_lengths, build_plane_huffman).
THEOREM ResidualsAreCoded == LengthsSpec => []EveryResidualCoded
<1>1. LInv => EveryResidualCoded
  BY LInvCoded
<1> QED
  BY <1>1, CheapestAtEveryLevel, PTL

\* For every alphabet, every cap and all counts, the code is as short as any
\* complete code under the cap (build_lengths).
THEOREM CodesAreOptimal == LengthsSpec => []Optimal
<1>1. LInv => Optimal
  BY LInvOptimal
<1> QED
  BY <1>1, CheapestAtEveryLevel, PTL
=============================================================================
