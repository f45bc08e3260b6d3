---------------------------- MODULE SliceProofs ----------------------------
(***************************************************************************)
(* The fast loop, the slow loop and the scan implement SymbolStream, for   *)
(* every word width, lookup depth and alphabet, and slices of any length.  *)
(* What they need of their codebook, that one code comes first whatever    *)
(* the bits, every codebook that build makes has (CompleteCode).           *)
(***************************************************************************)
EXTENDS SliceDecoderMC, SliceRoundTrip, HuffmanDescriptorProofs

\* Every descriptor that build accepts and that has codes is a codebook.
LEMMA GoodCodebooks ==
  ASSUME NEW d \in Lengths, BuildResult(d) = "Ok", Table(d).longest > 0
  PROVE  OneCodeFirst(Table(d))
<1>1. d \in Descriptors
  BY LengthsAssumption
<1>2. Zeros(d) = {} /\ Coded(d) # {}
  BY DEF Table
<1>3. Accepted(d)
  BY <1>1, <1>2, BuildOk DEF Accepted
<1> QED
  BY <1>2, <1>3, CompleteCode

-----------------------------------------------------------------------------
(* The invariant *)

\* The inputs of the call do not change.
InputsGood ==
  /\ \E d \in Lengths : BuildResult(d) = "Ok" /\ table = Table(d)
  /\ stream \in Seq(Bit) /\ Len(stream) % WordBits = 0
  /\ nPixels \in Nat /\ strict \in BOOLEAN

\* Codes are looked for only where there are any.
Decoding == table.single = {} /\ DOMAIN table.code # {}

\* The register is the stream from the cursor to the end of a word, then zeros.
Mirrors ==
  /\ accLen \in 0 .. 2 * WordBits
  /\ nextWord \in 0 .. TotalWords
  /\ cursor + accLen = nextWord * WordBits
  /\ \A i \in Register : acc[i] = IF i <= accLen THEN stream[cursor + i] ELSE 0

\* What is behind the scan is zero.
Scanned ==
  /\ strict /\ Ended
  /\ scan \in cursor .. TotalBits
  /\ \A i \in cursor + 1 .. scan : stream[i] = 0

IInv ==
  /\ InputsGood
  /\ pc \in {"enter", "fast", "slow", "tail", "done"}
  /\ pc # "done" => result = None
  /\ cursor \in 0 .. TotalBits
  /\ pc = "enter" =>
       /\ out = << >> /\ cursor = 0 /\ accLen = 0 /\ nextWord = 0
       /\ acc = [i \in Register |-> 0]
  /\ pc = "fast" => Decoding /\ Mirrors
  /\ pc = "slow" => Decoding
  /\ pc = "tail" => Scanned

-----------------------------------------------------------------------------
(* The codebook and the slice *)

LEMMA LeastOf ==
  ASSUME NEW S \in SUBSET Nat, S # {}
  PROVE  Min(S) \in S /\ \A x \in S : Min(S) <= x
<1>1. PICK m \in S : \A k \in S : m <= k
  BY LeastNat
<1> QED
  BY <1>1 DEF Min

\* What build accepts: codes of one bit at least, of a word at most, and none
\* longer than the longest.
LEMMA TableFacts ==
  ASSUME NEW d \in Descriptors, BuildResult(d) = "Ok",
         NEW t, t = Table(d)
  PROVE  /\ t.single = Zeros(d)
         /\ t.longest \in 0 .. WordBits
         /\ DOMAIN t.code \subseteq Symbols
         /\ DOMAIN t.code # {} => t.longest > 0
         /\ \A s \in DOMAIN t.code : Len(t.code[s]) \in 1 .. t.longest
<1>1. /\ t.single = Zeros(d)
      /\ t.code = IF Zeros(d) = {} THEN Codebook(d) ELSE << >>
      /\ t.longest = IF Zeros(d) = {} /\ Coded(d) # {} THEN LongestCode(d) ELSE 0
  BY DEF Table
<1>2. WordBits \in Nat
  BY TableAssumption
<1>3. DOMAIN Codebook(d) = Coded(d) /\ Coded(d) \subseteq Symbols
  BY DEF Codebook, Coded
<1>4. CASE Zeros(d) # {} \/ Coded(d) = {}
  <2>1. DOMAIN t.code = {}
    BY <1>1, <1>3, <1>4
  <2> QED
    BY <1>1, <1>2, <1>4, <2>1
<1>5. CASE Zeros(d) = {} /\ Coded(d) # {}
  <2>1. \A s \in Coded(d) : d[s] \in 1 .. Unused
    BY TableAssumption DEF Coded, Descriptors
  <2> DEFINE S == {d[s] : s \in Coded(d)}
  <2>2. S \in SUBSET (0 .. Unused) /\ S # {}
    BY <1>5, <2>1, TableAssumption
  <2>3. Max(S) \in S /\ \A x \in S : x <= Max(S)
    <3> HIDE DEF S
    <3> QED
      BY <2>2, MaxIsGreatest, TableAssumption
  <2>4. LongestCode(d) = Max(S)
    BY DEF LongestCode
  <2>5. \A s \in Coded(d) : d[s] \in 1 .. LongestCode(d)
    BY <2>1, <2>3, <2>4, TableAssumption
  <2>6. LongestCode(d) \in Nat /\ LongestCode(d) > 0
    BY <2>1, <2>3, <2>4
  <2>7. LongestCode(d) <= WordBits
    <3>1. Cardinality(Zeros(d)) = 0
      BY <1>5, FS_EmptySet
    <3>2. KraftHolds(d)
      BY <1>5, <3>1 DEF BuildResult
    <3> QED
      BY <3>2 DEF KraftHolds
  <2>8. \A s \in Coded(d) : Len(Codebook(d)[s]) = d[s]
    <3> TAKE s \in Coded(d)
    <3>1. d[s] \in Nat
      BY <2>1
    <3>2. Codebook(d)[s] = BitsOf(CodeNumbers(d)[s], d[s])
      BY DEF Codebook
    <3>3. DOMAIN BitsOf(CodeNumbers(d)[s], d[s]) = 1 .. d[s]
      BY DEF BitsOf
    <3> QED
      BY <3>1, <3>2, <3>3
  <2> QED
    BY <1>1, <1>2, <1>3, <1>5, <2>5, <2>6, <2>7, <2>8
<1> QED
  BY <1>4, <1>5

\* What the inputs give the loops to work with.
LEMMA InputFacts ==
  ASSUME InputsGood
  PROVE  /\ WordBits \in Nat \ {0} /\ LutBits \in 1 .. WordBits
         /\ table.longest \in 0 .. WordBits
         /\ DOMAIN table.code \subseteq Symbols
         /\ DOMAIN table.code # {} => table.longest > 0
         /\ \A s \in DOMAIN table.code : Len(table.code[s]) \in 1 .. table.longest
         /\ TotalBits \in Nat /\ TotalWords \in Nat
         /\ TotalBits = TotalWords * WordBits
         /\ \A i \in 1 .. TotalBits : stream[i] \in Bit
         /\ nPixels \in Nat /\ strict \in BOOLEAN
<1>1. WordBits \in Nat \ {0} /\ LutBits \in 1 .. WordBits
  BY TableAssumption
<1>2. PICK d \in Lengths : BuildResult(d) = "Ok" /\ table = Table(d)
  BY DEF InputsGood
<1>3. d \in Descriptors
  BY LengthsAssumption
<1>4. /\ table.longest \in 0 .. WordBits
      /\ DOMAIN table.code \subseteq Symbols
      /\ DOMAIN table.code # {} => table.longest > 0
      /\ \A s \in DOMAIN table.code : Len(table.code[s]) \in 1 .. table.longest
  BY <1>2, <1>3, TableFacts
<1>5. TotalBits \in Nat /\ TotalBits % WordBits = 0
      /\ \A i \in 1 .. TotalBits : stream[i] \in Bit
  BY DEF InputsGood, TotalBits
<1>6. TotalWords \in Nat /\ TotalBits = TotalWords * WordBits
  BY <1>1, <1>5, ModDef DEF TotalWords
<1> QED
  BY <1>1, <1>4, <1>5, <1>6 DEF InputsGood

\* Words end at multiples of the word's width, and the last one at the end.
LEMMA WordEnds ==
  ASSUME InputsGood, NEW w \in 0 .. TotalWords
  PROVE  /\ w * WordBits \in Nat
         /\ w * WordBits <= TotalBits
         /\ (w + 1) * WordBits = w * WordBits + WordBits
<1>1. /\ WordBits \in Nat /\ TotalWords \in Nat /\ w \in Nat /\ w <= TotalWords
      /\ TotalBits = TotalWords * WordBits
  BY InputFacts
<1> DEFINE n == WordBits
           m == TotalWords
<1>2. n * w <= n * m /\ n * w = w * n /\ n * m = m * n
  <2> HIDE DEF n, m
  <2>1. n \in Nat /\ m \in Nat /\ w <= m
    BY <1>1 DEF n, m
  <2>2. n * w <= n * m
    BY <1>1, <2>1, MulMono
  <2> QED
    BY <1>1, <2>1, <2>2
<1>3. w * n \in Nat
  BY <1>1, MulNat
<1>4. (w + 1) * n = w * n + n
  BY <1>1
<1> QED
  BY <1>1, <1>2, <1>3, <1>4

\* The shortest of some hits is one of them.
LEMMA ShortestIsHit ==
  ASSUME InputsGood, NEW hits \in SUBSET (DOMAIN table.code), hits # {}
  PROVE  /\ ShortestOf(table, hits) \in hits
         /\ \A t \in hits :
              Len(table.code[ShortestOf(table, hits)]) <= Len(table.code[t])
<1> DEFINE T == {Len(table.code[s]) : s \in hits}
<1>1. T \in SUBSET Nat /\ T # {}
  <2>1. \A s \in hits : Len(table.code[s]) \in Nat
    BY InputFacts
  <2> QED
    BY <2>1
<1>2. PICK m \in T : \A k \in T : m <= k
  <2> HIDE DEF T
  <2> QED
    BY <1>1, LeastNat
<1>3. \E s \in hits : \A t \in hits : Len(table.code[s]) <= Len(table.code[t])
  BY <1>2
<1> QED
  BY <1>3 DEF ShortestOf

\* With as many bits as the longest code has, some code comes first.
LEMMA SomeCodeFirst ==
  ASSUME InputsGood, DOMAIN table.code # {},
         NEW bits \in [1 .. table.longest -> Bit]
  PROVE  \E s \in DOMAIN table.code : Matches(table.code[s], bits, 0)
<1>1. PICK d \in Lengths : BuildResult(d) = "Ok" /\ table = Table(d)
  BY DEF InputsGood
<1>2. table.longest > 0
  BY InputFacts
<1>3. OneCodeFirst(table)
  BY <1>1, <1>2, GoodCodebooks
<1>4. PICK s \in Symbols : Found(table, 1 .. WordBits, bits, 0) = {s}
  BY <1>3 DEF OneCodeFirst
<1>5. s \in Found(table, 1 .. WordBits, bits, 0)
  BY <1>4
<1> QED
  BY <1>5 DEF Found

-----------------------------------------------------------------------------
(* Each action keeps the invariant *)

LEMMA InputsKept ==
  ASSUME InputsGood, UNCHANGED inputs
  PROVE  /\ InputsGood'
         /\ TotalBits' = TotalBits /\ TotalWords' = TotalWords
         /\ nPixels' = nPixels /\ strict' = strict
         /\ table' = table /\ stream' = stream
  BY DEF InputsGood, inputs, TotalBits, TotalWords

\* decode_slice is done, or starts the scan where it stopped reading.
LEMMA FinishKeeps ==
  ASSUME IInv, pc # "done", Finish, Ended', UNCHANGED <<inputs, cursor>>
  PROVE  IInv'
<1>1. /\ InputsGood' /\ TotalBits' = TotalBits /\ strict' = strict
      /\ nPixels' = nPixels
  BY InputsKept DEF IInv
<1>2. cursor' \in 0 .. TotalBits /\ TotalBits \in Nat
  BY InputFacts DEF IInv
<1>3. CASE strict
  <2>1. pc' = "tail" /\ scan' = cursor /\ result' = None
    BY <1>3 DEF Finish, IInv
  <2>2. scan' \in cursor' .. TotalBits'
    BY <1>1, <1>2, <2>1
  <2>3. \A i \in cursor' + 1 .. scan' : stream'[i] = 0
    BY <1>2, <2>1
  <2> QED
    BY <1>1, <1>2, <1>3, <2>1, <2>2, <2>3 DEF IInv, Scanned, None
<1>4. CASE ~strict
  <2>1. pc' = "done"
    BY <1>4 DEF Finish, Return
  <2> QED
    BY <1>1, <1>2, <2>1 DEF IInv
<1> QED
  BY <1>3, <1>4

\* A result ends the call.
LEMMA ReturnKeeps ==
  ASSUME IInv, NEW r, Return(r), UNCHANGED <<inputs, cursor>>
  PROVE  IInv'
<1>1. InputsGood' /\ TotalBits' = TotalBits
  BY InputsKept DEF IInv
<1>2. pc' = "done"
  BY DEF Return
<1> QED
  BY <1>1, <1>2 DEF IInv

\* Filling a slice makes it as long as was asked for.
LEMMA FilledLength ==
  ASSUME NEW n \in Nat, NEW s
  PROVE  Len([i \in 1 .. n |-> s]) = n
<1> DEFINE f == [i \in 1 .. n |-> s]
<1>1. DOMAIN f = 1 .. n
  OBVIOUS
<1> QED
  BY <1>1

LEMMA EnterTrivialKeeps ==
  ASSUME IInv, EnterTrivial, UNCHANGED inputs
  PROVE  IInv'
<1>1. pc = "enter" /\ cursor' = cursor /\ nPixels \in Nat /\ nPixels' = nPixels
  BY DEF EnterTrivial, IInv, InputsGood, inputs
<1>2. CASE table.single # {}
  <2>1. Finish /\ \E s \in table.single : out' = [i \in 1 .. nPixels |-> s]
    BY <1>2 DEF EnterTrivial
  <2>2. Len(out') = nPixels
    BY <1>1, <2>1, FilledLength
  <2>3. Ended'
    BY <1>1, <2>2 DEF Ended
  <2> QED
    BY <1>1, <2>1, <2>3, FinishKeeps
<1>3. CASE table.single = {} /\ nPixels = 0
  <2>1. Finish /\ out' = out
    BY <1>3 DEF EnterTrivial
  <2>2. out' = << >>
    BY <1>1, <2>1 DEF IInv
  <2>3. Ended'
    BY <1>1, <1>3, <2>2 DEF Ended
  <2> QED
    BY <1>1, <2>1, <2>3, FinishKeeps
<1>4. CASE table.single = {} /\ nPixels > 0
  <2>1. Return(Failure)
    BY <1>1, <1>4 DEF EnterTrivial
  <2> QED
    BY <1>1, <2>1, ReturnKeeps
<1> QED
  BY <1>1, <1>2, <1>3, <1>4

LEMMA EnterLoopsKeeps ==
  ASSUME IInv, EnterLoops, UNCHANGED inputs
  PROVE  IInv'
<1>1. /\ InputsGood' /\ TotalBits' = TotalBits /\ TotalWords' = TotalWords
      /\ table' = table /\ stream' = stream
  BY InputsKept DEF IInv
<1>2. WordBits \in Nat \ {0} /\ TotalBits \in Nat /\ TotalWords \in Nat
  BY InputFacts DEF IInv
<1>3. /\ pc = "enter" /\ pc' = "fast" /\ result' = None
      /\ acc' = [i \in Register |-> 0]
      /\ accLen' = 0 /\ nextWord' = 0 /\ cursor' = 0
  BY DEF EnterLoops, IInv, register
<1>4. Decoding'
  BY <1>1 DEF EnterLoops, Decoding
<1>5. Mirrors'
  <2>1. accLen' \in 0 .. 2 * WordBits /\ nextWord' \in 0 .. TotalWords'
    BY <1>1, <1>2, <1>3
  <2>2. cursor' + accLen' = nextWord' * WordBits
    BY <1>2, <1>3
  <2>3. \A i \in Register :
          acc'[i] = IF i <= accLen' THEN stream'[cursor' + i] ELSE 0
    BY <1>2, <1>3 DEF Register
  <2> QED
    BY <2>1, <2>2, <2>3 DEF Mirrors, Register
<1> QED
  BY <1>1, <1>2, <1>3, <1>4, <1>5 DEF IInv, None

LEMMA RefillKeeps ==
  ASSUME IInv, Refill, UNCHANGED inputs
  PROVE  IInv'
<1>1. /\ InputsGood' /\ TotalBits' = TotalBits /\ TotalWords' = TotalWords
      /\ table' = table /\ stream' = stream
  BY InputsKept DEF IInv
<1>2. /\ WordBits \in Nat \ {0} /\ TotalBits \in Nat /\ TotalWords \in Nat
      /\ \A i \in 1 .. TotalBits : stream[i] \in Bit
  BY InputFacts DEF IInv
<1>3. /\ pc = "fast" /\ pc' = "fast" /\ Mirrors /\ Decoding
      /\ accLen <= WordBits /\ nextWord < TotalWords
      /\ acc' = OrWord(acc, accLen, nextWord)
      /\ accLen' = accLen + WordBits /\ nextWord' = nextWord + 1
      /\ cursor' = cursor /\ result' = result
  BY DEF Refill, CanRefill, IInv
<1>4. /\ accLen \in Nat /\ nextWord \in 0 .. TotalWords /\ cursor \in Nat
      /\ nextWord + 1 \in 0 .. TotalWords
      /\ cursor + accLen = nextWord * WordBits
      /\ \A i \in Register : acc[i] = IF i <= accLen THEN stream[cursor + i] ELSE 0
  BY <1>2, <1>3 DEF Mirrors, IInv
<1>5. /\ nextWord * WordBits \in Nat
      /\ (nextWord + 1) * WordBits = nextWord * WordBits + WordBits
      /\ (nextWord + 1) * WordBits <= TotalBits
  BY <1>4, WordEnds DEF IInv
<1>6. accLen' \in 0 .. 2 * WordBits /\ nextWord' \in 0 .. TotalWords'
  BY <1>1, <1>2, <1>3, <1>4
<1>7. cursor' + accLen' = nextWord' * WordBits
  <2> DEFINE n == nextWord * WordBits
             m == (nextWord + 1) * WordBits
  <2>1. cursor + accLen = n /\ m = n + WordBits /\ n \in Nat
    BY <1>4, <1>5
  <2>2. cursor' + accLen' = cursor + (accLen + WordBits) /\ nextWord' * WordBits = m
    BY <1>3
  <2> HIDE DEF n, m
  <2> QED
    BY <1>2, <1>4, <2>1, <2>2
<1>8. \A i \in Register :
        acc'[i] = IF i <= accLen' THEN stream'[cursor' + i] ELSE 0
  <2> TAKE i \in Register
  <2> DEFINE n == nextWord * WordBits
             m == (nextWord + 1) * WordBits
  <2>1. n \in Nat /\ m = n + WordBits /\ m <= TotalBits /\ cursor + accLen = n
    BY <1>4, <1>5
  <2>2. acc'[i] = IF i - accLen \in 1 .. WordBits /\ stream[n + i - accLen] = 1
                  THEN 1 ELSE acc[i]
    BY <1>3 DEF OrWord
  <2> HIDE DEF n, m
  <2>3. i \in Nat /\ i > 0
    BY <1>2 DEF Register
  <2>4. acc[i] = IF i <= accLen THEN stream[cursor + i] ELSE 0
    BY <1>4
  <2>5. n + i - accLen = cursor + i
    BY <1>4, <2>1, <2>3
  <2>6. CASE i <= accLen
    <3>1. i - accLen \notin 1 .. WordBits /\ i <= accLen + WordBits
      BY <1>2, <1>4, <2>3, <2>6
    <3> QED
      BY <1>1, <1>3, <2>2, <2>4, <2>6, <3>1
  <2>7. CASE i > accLen /\ i <= accLen + WordBits
    <3>1. i - accLen \in 1 .. WordBits
      BY <1>2, <1>4, <2>3, <2>7
    <3>2. cursor + i \in 1 .. TotalBits
      BY <1>2, <1>4, <2>1, <2>3, <2>7
    <3>3. stream[cursor + i] \in Bit
      BY <1>2, <3>2
    <3>4. acc[i] = 0
      BY <1>4, <2>3, <2>4, <2>7
    <3>5. acc'[i] = IF stream[cursor + i] = 1 THEN 1 ELSE 0
      BY <2>2, <2>5, <3>1, <3>4
    <3>6. acc'[i] = stream[cursor + i]
      BY <3>3, <3>5 DEF Bit
    <3> QED
      BY <1>1, <1>3, <2>7, <3>6
  <2>8. CASE i > accLen + WordBits
    <3>1. i - accLen \notin 1 .. WordBits /\ ~(i <= accLen)
      BY <1>2, <1>4, <2>3, <2>8
    <3>2. acc'[i] = 0
      BY <2>2, <2>4, <3>1
    <3> QED
      BY <1>2, <1>3, <1>4, <2>3, <2>8, <3>2
  <2> QED
    BY <1>2, <1>4, <2>3, <2>6, <2>7, <2>8
<1>9. Mirrors'
  BY <1>6, <1>7, <1>8 DEF Mirrors, Register
<1>10. Decoding'
  BY <1>1, <1>3 DEF Decoding
<1> QED
  BY <1>1, <1>3, <1>9, <1>10 DEF IInv

LEMMA LeaveFastKeeps ==
  ASSUME IInv, LeaveFast, UNCHANGED inputs
  PROVE  IInv'
<1>1. InputsGood' /\ TotalBits' = TotalBits /\ table' = table
  BY InputsKept DEF IInv
<1>2. pc' = "slow" /\ Decoding /\ cursor' = cursor /\ result' = None
  BY DEF LeaveFast, IInv
<1>3. Decoding'
  BY <1>1, <1>2 DEF Decoding
<1> QED
  BY <1>1, <1>2, <1>3 DEF IInv, None

\* A symbol the lookup finds in the register is the next of the stream.
LEMMA FastHitsAreNext ==
  ASSUME IInv, FastLoop, NEW s \in FastHits
  PROVE  /\ s \in DOMAIN table.code
         /\ Len(table.code[s]) \in 1 .. accLen
         /\ cursor + Len(table.code[s]) <= TotalBits
         /\ Matches(table.code[s], stream, cursor)
<1> DEFINE l == Len(table.code[s])
<1>1. s \in DOMAIN table.code /\ Matches(table.code[s], acc, 0)
  BY DEF FastHits, Found
<1>2. /\ pc = "fast" /\ accLen >= table.longest
  BY DEF FastLoop, Enough
<1>3. Mirrors
  BY <1>2 DEF IInv
<1>4. /\ WordBits \in Nat \ {0} /\ table.longest \in 0 .. WordBits
      /\ l \in 1 .. table.longest /\ TotalBits \in Nat /\ TotalWords \in Nat
  BY <1>1, InputFacts DEF IInv
<1>5. accLen \in Nat /\ cursor \in Nat /\ accLen <= 2 * WordBits
  BY <1>3, <1>4 DEF Mirrors, IInv
<1>6. l \in 1 .. accLen /\ l \in 1 .. WordBits
  BY <1>2, <1>4, <1>5
<1>7. cursor + accLen <= TotalBits
  <2>1. nextWord \in 0 .. TotalWords /\ cursor + accLen = nextWord * WordBits
    BY <1>3 DEF Mirrors
  <2>2. nextWord * WordBits <= TotalBits
    BY <2>1, WordEnds DEF IInv
  <2> QED
    BY <2>1, <2>2
<1>8. cursor + l <= TotalBits
  BY <1>4, <1>5, <1>6, <1>7
<1>9. \A i \in 1 .. l : stream[cursor + i] = table.code[s][i]
  <2> TAKE i \in 1 .. l
  <2>1. i \in Register /\ i <= accLen /\ 0 + i = i
    BY <1>4, <1>5, <1>6 DEF Register
  <2>2. acc[i] = stream[cursor + i]
    BY <1>3, <2>1 DEF Mirrors
  <2>3. acc[0 + i] = table.code[s][i]
    BY <1>1 DEF Matches
  <2> QED
    BY <2>1, <2>2, <2>3
<1> QED
  BY <1>1, <1>6, <1>8, <1>9 DEF Matches

LEMMA FastStepKeeps ==
  ASSUME IInv, FastStep, UNCHANGED inputs
  PROVE  IInv'
<1> DEFINE s == ShortestOf(table, FastHits)
           l == Len(table.code[s])
<1>1. CASE FastHits = {} \/ cursor + l > TotalBits
  <2>1. Return(IF FastHits = {} THEN Failure ELSE Truncated) /\ cursor' = cursor
    BY <1>1 DEF FastStep
  <2> QED
    BY <2>1, ReturnKeeps
<1>2. CASE ~(FastHits = {} \/ cursor + l > TotalBits)
  <2>1. /\ acc' = Shift(acc, l) /\ accLen' = accLen - l /\ cursor' = cursor + l
        /\ UNCHANGED <<pc, scan, result, nextWord>>
    BY <1>2 DEF FastStep
  <2>2. FastLoop /\ pc = "fast" /\ Mirrors /\ Decoding
    BY DEF FastStep, FastLoop, IInv
  <2>3. FastHits \in SUBSET (DOMAIN table.code)
    BY DEF FastHits, Found
  <2>4. s \in FastHits
    BY <1>2, <2>3, ShortestIsHit DEF IInv
  <2>5. l \in 1 .. accLen /\ cursor + l <= TotalBits
    BY <2>2, <2>4, FastHitsAreNext
  <2>6. /\ InputsGood' /\ TotalBits' = TotalBits /\ TotalWords' = TotalWords
        /\ table' = table /\ stream' = stream
    BY InputsKept DEF IInv
  <2>7. WordBits \in Nat \ {0} /\ TotalBits \in Nat /\ TotalWords \in Nat
    BY InputFacts DEF IInv
  <2>8. /\ accLen \in 0 .. 2 * WordBits /\ nextWord \in 0 .. TotalWords
        /\ cursor + accLen = nextWord * WordBits
        /\ \A i \in Register :
             acc[i] = IF i <= accLen THEN stream[cursor + i] ELSE 0
        /\ cursor \in Nat
    BY <2>2, <2>7 DEF Mirrors, IInv
  <2> HIDE DEF l
  <2>9. /\ accLen' \in 0 .. 2 * WordBits /\ cursor' \in 0 .. TotalBits
        /\ cursor' + accLen' = cursor + accLen
    BY <2>1, <2>5, <2>7, <2>8
  <2>10. \A i \in Register :
           acc'[i] = IF i <= accLen' THEN stream'[cursor' + i] ELSE 0
    <3> TAKE i \in Register
    <3>1. acc'[i] = IF i + l \in Register THEN acc[i + l] ELSE 0
      BY <2>1 DEF Shift
    <3>2. i \in 1 .. 2 * WordBits
      BY DEF Register
    <3>3. CASE i + l \in Register
      <4>1. acc[i + l] = IF i + l <= accLen THEN stream[cursor + (i + l)] ELSE 0
        BY <2>8, <3>3
      <4>2. cursor + (i + l) = cursor' + i /\ (i + l <= accLen <=> i <= accLen')
        BY <2>1, <2>5, <2>7, <2>8, <3>2
      <4> QED
        BY <2>6, <3>1, <3>3, <4>1, <4>2
    <3>4. CASE i + l \notin Register
      <4>1. ~(i <= accLen')
        BY <2>1, <2>5, <2>7, <2>8, <3>2, <3>4 DEF Register
      <4> QED
        BY <3>1, <3>4, <4>1
    <3> QED
      BY <3>3, <3>4
  <2>11. Mirrors'
    BY <2>1, <2>6, <2>8, <2>9, <2>10 DEF Mirrors, Register
  <2>12. Decoding'
    BY <2>2, <2>6 DEF Decoding
  <2> QED
    BY <2>1, <2>2, <2>6, <2>9, <2>11, <2>12 DEF IInv
<1> QED
  BY <1>1, <1>2

\* So is a symbol the bit reader finds.
LEMMA SlowHitsAreNext ==
  ASSUME IInv, NEW s \in SlowHits
  PROVE  /\ s \in DOMAIN table.code
         /\ Len(table.code[s]) \in Nat \ {0}
         /\ cursor + Len(table.code[s]) <= TotalBits
         /\ Matches(table.code[s], stream, cursor)
<1>1. /\ s \in DOMAIN table.code /\ Matches(table.code[s], stream, cursor)
      /\ \/ Len(table.code[s]) <= Left
         \/ Left >= LutBits /\ Len(table.code[s]) \in Short
  BY DEF SlowHits, Found
<1>2. /\ Len(table.code[s]) \in 1 .. table.longest /\ table.longest \in Nat
      /\ TotalBits \in Nat /\ LutBits \in Nat
  BY <1>1, InputFacts DEF IInv
<1>3. cursor \in 0 .. TotalBits
  BY DEF IInv
<1>4. Len(table.code[s]) <= Left
  BY <1>1, <1>2, <1>3 DEF Short, Left
<1> QED
  BY <1>1, <1>2, <1>3, <1>4 DEF Left

LEMMA SlowEmitKeeps ==
  ASSUME IInv, SlowEmit, UNCHANGED inputs
  PROVE  IInv'
<1> DEFINE s == ShortestOf(table, SlowHits)
           l == Len(table.code[s])
<1>1. SlowHits \in SUBSET (DOMAIN table.code) /\ SlowHits # {}
  BY DEF SlowHits, Found, SlowEmit
<1>2. s \in SlowHits
  BY <1>1, ShortestIsHit DEF IInv
<1>3. l \in Nat /\ cursor + l <= TotalBits
  BY <1>2, SlowHitsAreNext
<1>4. InputsGood' /\ TotalBits' = TotalBits /\ table' = table
  BY InputsKept DEF IInv
<1>5. /\ pc = "slow" /\ pc' = "slow" /\ result' = result /\ cursor' = cursor + l
  BY DEF SlowEmit, SlowLoop
<1>6. TotalBits \in Nat /\ cursor \in 0 .. TotalBits
  BY InputFacts DEF IInv
<1> HIDE DEF l
<1>7. cursor' \in 0 .. TotalBits
  BY <1>3, <1>5, <1>6
<1>8. Decoding'
  BY <1>4, <1>5 DEF Decoding, IInv
<1> QED
  BY <1>4, <1>5, <1>7, <1>8 DEF IInv

LEMMA SlowFailKeeps ==
  ASSUME IInv, SlowFail, UNCHANGED inputs
  PROVE  IInv'
<1>1. PICK r : Return(r) /\ cursor' = cursor
  BY DEF SlowFail
<1> QED
  BY <1>1, ReturnKeeps

LEMMA SlowDoneKeeps ==
  ASSUME IInv, SlowDone, UNCHANGED inputs
  PROVE  IInv'
<1>1. pc = "slow" /\ Ended /\ Finish /\ cursor' = cursor /\ out' = out
  BY DEF SlowDone
<1>2. Ended'
  BY <1>1, InputsKept DEF Ended, IInv
<1> QED
  BY <1>1, <1>2, FinishKeeps

\* The scan goes on where it found nothing.
LEMMA ScanOn ==
  ASSUME IInv, pc = "tail", pc' = "tail", result' = result,
         UNCHANGED <<inputs, cursor, out>>,
         scan' \in scan .. TotalBits,
         \A i \in scan + 1 .. scan' : stream[i] = 0
  PROVE  IInv'
<1>1. /\ InputsGood' /\ TotalBits' = TotalBits /\ stream' = stream
      /\ nPixels' = nPixels /\ strict' = strict
  BY InputsKept DEF IInv
<1>2. TotalBits \in Nat
  BY InputFacts DEF IInv
<1>3. /\ Scanned /\ scan \in cursor .. TotalBits /\ cursor \in 0 .. TotalBits
      /\ \A i \in cursor + 1 .. scan : stream[i] = 0
  BY DEF IInv, Scanned
<1>4. scan' \in cursor .. TotalBits
  BY <1>2, <1>3
<1>5. \A i \in cursor + 1 .. scan' : stream[i] = 0
  <2> TAKE i \in cursor + 1 .. scan'
  <2>1. i \in cursor + 1 .. scan \/ i \in scan + 1 .. scan'
    BY <1>2, <1>3
  <2> QED
    BY <1>3, <2>1
<1>6. Scanned'
  BY <1>1, <1>3, <1>4, <1>5 DEF Scanned, Ended
<1> QED
  BY <1>1, <1>3, <1>6 DEF IInv

\* A whole word is left at a word boundary.
LEMMA WordLeft ==
  ASSUME InputsGood, scan \in 0 .. TotalBits, scan < TotalBits, scan % WordBits = 0
  PROVE  scan + WordBits <= TotalBits
<1>1. /\ WordBits \in Nat \ {0} /\ TotalBits \in Nat /\ TotalWords \in Nat
      /\ TotalBits = TotalWords * WordBits
  BY InputFacts
<1> DEFINE n == WordBits
           q == scan \div n
<1>2. q \in Nat /\ scan = q * n
  BY <1>1, ModDef
<1>3. q \in 0 .. TotalWords /\ q # TotalWords
  <2> DEFINE m == TotalWords
  <2> HIDE DEF q, m
  <2>1. m \in Nat /\ n * m = m * n /\ m * n = TotalBits
    BY <1>1 DEF m
  <2>2. q >= m => n * m <= n * q
    BY <1>1, <1>2, <2>1, MulMono
  <2>3. n * q = q * n
    BY <1>1, <1>2
  <2>4. ~(q >= m)
    BY <1>1, <1>2, <2>1, <2>2, <2>3
  <2> QED
    BY <1>2, <2>1, <2>4 DEF m
<1>4. q + 1 \in 0 .. TotalWords
  BY <1>1, <1>2, <1>3
<1>5. (q + 1) * n = q * n + n /\ (q + 1) * n <= TotalBits
  BY <1>3, <1>4, WordEnds
<1> QED
  BY <1>1, <1>2, <1>5

LEMMA ScanBitKeeps ==
  ASSUME IInv, ScanBit, UNCHANGED inputs
  PROVE  IInv'
<1>1. /\ pc = "tail" /\ scan < TotalBits /\ cursor' = cursor /\ out' = out
  BY DEF ScanBit
<1>2. CASE stream[scan + 1] = 1
  <2>1. PICK r : Return(r)
    BY <1>2 DEF ScanBit
  <2> QED
    BY <1>1, <2>1, ReturnKeeps
<1>3. CASE stream[scan + 1] # 1
  <2>1. scan' = scan + 1 /\ pc' = "tail" /\ result' = result
    BY <1>1, <1>3 DEF ScanBit
  <2>2. /\ TotalBits \in Nat /\ \A i \in 1 .. TotalBits : stream[i] \in Bit
        /\ scan \in Nat
    BY <1>1, InputFacts DEF IInv, Scanned
  <2>3. scan' \in scan .. TotalBits
    BY <1>1, <2>1, <2>2
  <2>4. \A i \in scan + 1 .. scan' : stream[i] = 0
    <3> TAKE i \in scan + 1 .. scan'
    <3>1. i = scan + 1 /\ i \in 1 .. TotalBits
      BY <1>1, <2>1, <2>2
    <3> QED
      BY <1>3, <2>2, <3>1 DEF Bit
  <2> QED
    BY <1>1, <2>1, <2>3, <2>4, ScanOn
<1> QED
  BY <1>2, <1>3

LEMMA ScanWordKeeps ==
  ASSUME IInv, ScanWord, UNCHANGED inputs
  PROVE  IInv'
<1> DEFINE set == {i \in 0 .. WordBits - 1 : stream[scan + i + 1] = 1}
<1>1. /\ pc = "tail" /\ scan < TotalBits /\ cursor' = cursor /\ out' = out
      /\ scan % WordBits = 0
  BY DEF ScanWord
<1>2. CASE set # {}
  <2>1. PICK r : Return(r)
    BY <1>2 DEF ScanWord
  <2> QED
    BY <1>1, <2>1, ReturnKeeps
<1>3. CASE set = {}
  <2>1. scan' = scan + WordBits /\ pc' = "tail" /\ result' = result
    BY <1>1, <1>3 DEF ScanWord
  <2>2. /\ TotalBits \in Nat /\ \A i \in 1 .. TotalBits : stream[i] \in Bit
        /\ scan \in 0 .. TotalBits /\ WordBits \in Nat
    BY <1>1, InputFacts DEF IInv, Scanned
  <2>3. scan' \in scan .. TotalBits
    <3>1. scan + WordBits <= TotalBits
      BY <1>1, <2>2, WordLeft DEF IInv
    <3> QED
      BY <2>1, <2>2, <3>1
  <2>4. \A i \in scan + 1 .. scan' : stream[i] = 0
    <3> TAKE i \in scan + 1 .. scan'
    <3>1. /\ i - scan - 1 \in 0 .. WordBits - 1 /\ scan + (i - scan - 1) + 1 = i
          /\ i \in 1 .. TotalBits
      BY <2>1, <2>2, <2>3
    <3>2. stream[i] # 1
      BY <1>3, <3>1
    <3> QED
      BY <2>2, <3>1, <3>2 DEF Bit
  <2> QED
    BY <1>1, <2>1, <2>3, <2>4, ScanOn
<1> QED
  BY <1>2, <1>3

LEMMA ScanDoneKeeps ==
  ASSUME IInv, ScanDone, UNCHANGED inputs
  PROVE  IInv'
<1>1. PICK r : Return(r) /\ cursor' = cursor
  BY DEF ScanDone
<1> QED
  BY <1>1, ReturnKeeps

LEMMA StepKeeps ==
  ASSUME IInv, DecoderNext, UNCHANGED inputs
  PROVE  IInv'
<1>1. CASE EnterTrivial
  BY <1>1, EnterTrivialKeeps
<1>2. CASE EnterLoops
  BY <1>2, EnterLoopsKeeps
<1>3. CASE Refill
  BY <1>3, RefillKeeps
<1>4. CASE FastStep
  BY <1>4, FastStepKeeps
<1>5. CASE LeaveFast
  BY <1>5, LeaveFastKeeps
<1>6. CASE SlowEmit
  BY <1>6, SlowEmitKeeps
<1>7. CASE SlowFail
  BY <1>7, SlowFailKeeps
<1>8. CASE SlowDone
  BY <1>8, SlowDoneKeeps
<1>9. CASE ScanBit
  BY <1>9, ScanBitKeeps
<1>10. CASE ScanWord
  BY <1>10, ScanWordKeeps
<1>11. CASE ScanDone
  BY <1>11, ScanDoneKeeps
<1> QED
  BY <1>1, <1>2, <1>3, <1>4, <1>5, <1>6, <1>7, <1>8, <1>9, <1>10, <1>11
  DEF DecoderNext

LEMMA StutterKeeps ==
  ASSUME IInv, UNCHANGED decoderVars
  PROVE  IInv'
<1>1. InputsGood' /\ TotalBits' = TotalBits /\ TotalWords' = TotalWords
  BY InputsKept DEF IInv, decoderVars, inputs
<1>2. Mirrors' <=> Mirrors
  BY <1>1 DEF decoderVars, Mirrors, Register
<1>3. (Decoding' <=> Decoding) /\ (Scanned' <=> Scanned)
  BY <1>1 DEF decoderVars, Decoding, Scanned, Ended
<1> QED
  BY <1>1, <1>2, <1>3 DEF decoderVars, IInv, None, Register

THEOREM TheRegisterIsKnown == MCSpec => []IInv
<1>1. MCInit => IInv
  <2> SUFFICES ASSUME MCInit PROVE IInv
    OBVIOUS
  <2>1. PICK k \in 0 .. MaxWords : stream \in [1 .. k * WordBits -> Bit]
    BY DEF MCInit
  <2>2. k * WordBits \in Nat /\ k \in Nat /\ WordBits \in Nat \ {0}
    BY TableAssumption, DecoderAssumption, MulNat
  <2>3. stream \in Seq(Bit) /\ Len(stream) = k * WordBits
    <3> DEFINE n == k * WordBits
    <3> HIDE DEF n
    <3>1. n \in Nat /\ stream \in [1 .. n -> Bit]
      BY <2>1, <2>2 DEF n
    <3>2. stream \in Seq(Bit) /\ Len(stream) = n
      BY <3>1
    <3> QED
      BY <3>2 DEF n
  <2>4. Len(stream) % WordBits = 0
    BY <2>2, <2>3
  <2>5. InputsGood
    BY <2>3, <2>4, DecoderAssumption DEF MCInit, InputsGood
  <2>6. TotalBits \in Nat
    BY <2>5, InputFacts
  <2> QED
    BY <2>5, <2>6 DEF MCInit, DecoderInit, IInv
<1>2. IInv /\ [MCNext]_decoderVars => IInv'
  <2> SUFFICES ASSUME IInv, [MCNext]_decoderVars PROVE IInv'
    OBVIOUS
  <2>1. CASE DecoderNext /\ UNCHANGED inputs
    BY <2>1, StepKeeps
  <2>2. CASE UNCHANGED decoderVars
    BY <2>2, StutterKeeps
  <2> QED
    BY <2>1, <2>2 DEF MCNext
<1> QED
  BY <1>1, <1>2, PTL DEF MCSpec

-----------------------------------------------------------------------------
(* The register *)

\* In the fast loop of decode_slice_inner the register is the slice from the
\* cursor on, and zeros after it.
THEOREM RegisterMirrored == MCSpec => []RegisterMirrorsStream
<1>1. IInv => RegisterMirrorsStream
  BY DEF IInv, Mirrors, RegisterMirrorsStream
<1> QED
  BY <1>1, TheRegisterIsKnown, PTL

-----------------------------------------------------------------------------
(* No bits fail to decode *)

LEMMA FastAlwaysHits ==
  ASSUME IInv, FastLoop
  PROVE  FastHits # {}
<1>1. Decoding /\ Mirrors /\ accLen >= table.longest
  BY DEF FastLoop, Enough, IInv
<1>2. /\ WordBits \in Nat \ {0} /\ LutBits \in 1 .. WordBits
      /\ table.longest \in 0 .. WordBits
      /\ \A s \in DOMAIN table.code : Len(table.code[s]) \in 1 .. table.longest
      /\ TotalBits \in Nat /\ TotalWords \in Nat
      /\ \A i \in 1 .. TotalBits : stream[i] \in Bit
  BY InputFacts DEF IInv
<1>3. /\ accLen \in Nat /\ cursor \in Nat /\ nextWord \in 0 .. TotalWords
      /\ cursor + accLen = nextWord * WordBits
      /\ \A i \in Register : acc[i] = IF i <= accLen THEN stream[cursor + i] ELSE 0
  BY <1>1, <1>2 DEF Mirrors, IInv
<1>4. cursor + accLen <= TotalBits
  <2>1. nextWord * WordBits <= TotalBits
    BY <1>3, WordEnds DEF IInv
  <2> QED
    BY <1>3, <2>1
<1> DEFINE bits == [i \in 1 .. table.longest |-> acc[i]]
<1>5. bits \in [1 .. table.longest -> Bit]
  <2>1. \A i \in 1 .. table.longest : acc[i] \in Bit
    <3> TAKE i \in 1 .. table.longest
    <3>1. i \in Register /\ i <= accLen /\ cursor + i \in 1 .. TotalBits
      BY <1>1, <1>2, <1>3, <1>4 DEF Register
    <3> QED
      BY <1>2, <1>3, <3>1
  <2> QED
    BY <2>1
<1>6. PICK s \in DOMAIN table.code : Matches(table.code[s], bits, 0)
  <2> HIDE DEF bits
  <2> QED
    BY <1>1, <1>5, SomeCodeFirst DEF IInv, Decoding
<1>7. Len(table.code[s]) \in 1 .. table.longest
  BY <1>2
<1>8. Matches(table.code[s], acc, 0)
  <2>1. \A i \in 1 .. Len(table.code[s]) : acc[0 + i] = table.code[s][i]
    <3> TAKE i \in 1 .. Len(table.code[s])
    <3>1. 0 + i = i /\ i \in 1 .. table.longest
      BY <1>2, <1>7
    <3>2. bits[i] = acc[i] /\ bits[0 + i] = table.code[s][i]
      BY <1>6, <3>1 DEF Matches
    <3> QED
      BY <3>1, <3>2
  <2> QED
    BY <2>1 DEF Matches
<1>9. Len(table.code[s]) \in Short \/ Len(table.code[s]) \in Long
  BY <1>2, <1>7 DEF Short, Long
<1>10. s \in Found(table, Short, acc, 0) \/ s \in Found(table, Long, acc, 0)
  BY <1>8, <1>9 DEF Found
<1> QED
  BY <1>10 DEF FastHits

LEMMA SlowMissIsShort ==
  ASSUME IInv, pc = "slow", SlowHits = {}
  PROVE  table.longest > Left
<1>1. Decoding /\ cursor \in 0 .. TotalBits
  BY DEF IInv
<1>2. /\ table.longest \in Nat
      /\ \A s \in DOMAIN table.code : Len(table.code[s]) \in 1 .. table.longest
      /\ TotalBits \in Nat
      /\ \A i \in 1 .. TotalBits : stream[i] \in Bit
  BY InputFacts DEF IInv
<1>3. SUFFICES ASSUME table.longest <= Left PROVE FALSE
  BY <1>1, <1>2 DEF Left
<1> DEFINE bits == [i \in 1 .. table.longest |-> stream[cursor + i]]
<1>4. bits \in [1 .. table.longest -> Bit]
  <2>1. \A i \in 1 .. table.longest : cursor + i \in 1 .. TotalBits
    BY <1>1, <1>2, <1>3 DEF Left
  <2> QED
    BY <1>2, <2>1
<1>5. PICK s \in DOMAIN table.code : Matches(table.code[s], bits, 0)
  <2> HIDE DEF bits
  <2> QED
    BY <1>1, <1>4, SomeCodeFirst DEF IInv, Decoding
<1>6. Len(table.code[s]) \in 1 .. table.longest /\ Len(table.code[s]) <= Left
  BY <1>1, <1>2, <1>3 DEF Left
<1>7. Matches(table.code[s], stream, cursor)
  <2>1. \A i \in 1 .. Len(table.code[s]) : stream[cursor + i] = table.code[s][i]
    <3> TAKE i \in 1 .. Len(table.code[s])
    <3>1. 0 + i = i /\ i \in 1 .. table.longest
      BY <1>2, <1>6
    <3>2. bits[i] = stream[cursor + i] /\ bits[0 + i] = table.code[s][i]
      BY <1>5, <3>1 DEF Matches
    <3> QED
      BY <3>1, <3>2
  <2> QED
    BY <2>1 DEF Matches
<1>8. s \in SlowHits
  BY <1>6, <1>7 DEF SlowHits
<1> QED
  BY <1>3, <1>8

\* What the fast loop decodes fits: neither of its guards ever fires.
LEMMA FastStepEmits ==
  ASSUME IInv, FastStep
  PROVE  \E s \in FastHits :
           /\ out' = Append(out, s)
           /\ cursor' = cursor + Len(table.code[s])
           /\ result' = result
<1> DEFINE s == ShortestOf(table, FastHits)
<1>1. FastLoop
  BY DEF FastStep
<1>2. FastHits # {} /\ FastHits \in SUBSET (DOMAIN table.code)
  BY <1>1, FastAlwaysHits DEF FastHits, Found
<1>3. s \in FastHits
  BY <1>2, ShortestIsHit DEF IInv
<1>4. cursor + Len(table.code[s]) <= TotalBits /\ Len(table.code[s]) \in 1 .. accLen
  BY <1>1, <1>3, FastHitsAreNext
<1>5. TotalBits \in Nat /\ cursor \in Nat
  BY InputFacts DEF IInv
<1>6. ~(FastHits = {} \/ cursor + Len(table.code[s]) > TotalBits)
  BY <1>2, <1>4, <1>5
<1> QED
  BY <1>3, <1>6 DEF FastStep

\* A codebook that build accepted fills the code space: decode_slice reports
\* HuffmanDecodeFailure only of a plane without any code.
THEOREM BitsOnlyRunOut == MCSpec => []OnlyTruncation
<1>1. MCInit => OnlyTruncation
  BY DEF MCInit, DecoderInit, None, OnlyTruncation
<1>2. IInv /\ OnlyTruncation /\ [MCNext]_decoderVars => OnlyTruncation'
  <2> SUFFICES ASSUME IInv, OnlyTruncation, [MCNext]_decoderVars PROVE OnlyTruncation'
    OBVIOUS
  <2>1. SUFFICES ASSUME result'.kind = "HuffmanDecodeFailure", result' # result
                 PROVE  DOMAIN table.code = {}
    BY DEF OnlyTruncation, MCNext, decoderVars, inputs
  <2>2. DecoderNext
    BY <2>1 DEF MCNext, decoderVars
  <2>3. CASE EnterTrivial
    BY <2>1, <2>3 DEF EnterTrivial, Finish, Return
  <2>4. CASE FastStep
    BY <2>1, <2>4, FastStepEmits
  <2>5. CASE SlowFail
    BY <2>1, <2>5, SlowMissIsShort DEF SlowFail, SlowLoop, Return, Truncated
  <2>6. CASE SlowDone
    BY <2>1, <2>6 DEF SlowDone, Finish, Return
  <2>7. CASE ScanBit \/ ScanWord \/ ScanDone
    BY <2>1, <2>7 DEF ScanBit, ScanWord, ScanDone, Return
  <2>8. CASE EnterLoops \/ Refill \/ LeaveFast \/ SlowEmit
    BY <2>1, <2>8 DEF EnterLoops, Refill, LeaveFast, SlowEmit
  <2> QED
    BY <2>2, <2>3, <2>4, <2>5, <2>6, <2>7, <2>8 DEF DecoderNext
<1> QED
  BY <1>1, <1>2, TheRegisterIsKnown, PTL DEF MCSpec

-----------------------------------------------------------------------------
(* The refinement: every step is one of SymbolStream, or invisible to it *)

Invisible == UNCHANGED <<table, stream, nPixels, strict, out, cursor, result>>

Implemented == Stream!StreamNext \/ Invisible

\* A symbol whose code comes next in the slice is one SymbolStream may emit.
LEMMA EmitImplements ==
  ASSUME IInv, pc # "done", ~Ended, table.single = {}, UNCHANGED inputs,
         NEW s \in DOMAIN table.code,
         cursor + Len(table.code[s]) <= TotalBits,
         Matches(table.code[s], stream, cursor),
         out' = Append(out, s), cursor' = cursor + Len(table.code[s]),
         result' = result
  PROVE  Implemented
<1>1. result.kind = "None"
  BY DEF IInv, None
<1>2. Stream!NextIs(s)
  BY DEF Stream!NextIs, TotalBits, Matches
<1>3. Stream!Emit
  BY <1>2 DEF Stream!Emit, Stream!Ended, Ended, inputs
<1> QED
  BY <1>1, <1>3 DEF Implemented, Stream!StreamNext

\* A call that ends with Ok, where nothing is scanned.
LEMMA LenientVerdict ==
  ASSUME ~strict
  PROVE  Stream!Verdict = [kind |-> "Ok"]
  BY DEF Stream!Verdict

\* Finish after the last pixel: the answer, or the scan, of which SymbolStream
\* sees nothing yet.
LEMMA FinishImplements ==
  ASSUME IInv, pc # "done", Ended, Finish, UNCHANGED <<inputs, out, cursor>>
  PROVE  Implemented
<1>1. CASE strict
  BY <1>1 DEF Finish, Implemented, Invisible, inputs
<1>2. CASE ~strict
  <2>1. result' = Stream!Verdict
    BY <1>2, LenientVerdict DEF Finish, Return
  <2>2. Stream!Answer
    BY <2>1 DEF Stream!Answer, Stream!Ended, Ended, inputs
  <2> QED
    BY <2>2 DEF Implemented, Stream!StreamNext, IInv, None
<1> QED
  BY <1>1, <1>2

LEMMA EnterTrivialImplements ==
  ASSUME IInv, EnterTrivial, UNCHANGED inputs
  PROVE  Implemented
<1>1. /\ pc = "enter" /\ result = None /\ cursor' = cursor /\ out = << >>
      /\ cursor = 0 /\ nPixels \in Nat
  BY DEF EnterTrivial, IInv, InputsGood
<1>2. CASE table.single # {}
  <2>1. Finish /\ \E s \in table.single : out' = [i \in 1 .. nPixels |-> s]
    BY <1>2 DEF EnterTrivial
  <2>2. result' \in {result, Stream!Verdict}
    <3>1. CASE strict
      BY <2>1, <3>1 DEF Finish
    <3>2. CASE ~strict
      BY <2>1, <3>2, LenientVerdict DEF Finish, Return
    <3> QED
      BY <3>1, <3>2
  <2>3. Stream!Fill
    BY <1>1, <2>1, <2>2 DEF Stream!Fill, inputs
  <2> QED
    BY <1>1, <2>3 DEF Implemented, Stream!StreamNext, None
<1>3. CASE table.single = {} /\ nPixels = 0
  <2>1. Finish /\ out' = out /\ Ended
    BY <1>1, <1>3 DEF EnterTrivial, Ended
  <2> QED
    BY <1>1, <2>1, FinishImplements
<1>4. CASE table.single = {} /\ nPixels > 0
  <2>1. Return(Failure) /\ out' = out /\ DOMAIN table.code = {}
    BY <1>1, <1>4 DEF EnterTrivial
  <2>2. result' = [kind |-> "HuffmanDecodeFailure", bit |-> 0]
    BY <1>1, <2>1 DEF Return, Failure
  <2>3. ~Stream!Ended
    BY <1>1, <1>4 DEF Stream!Ended
  <2>4. Stream!Fail
    BY <1>1, <1>4, <2>1, <2>2, <2>3 DEF Stream!Fail, inputs
  <2> QED
    BY <1>1, <2>4 DEF Implemented, Stream!StreamNext, None
<1> QED
  BY <1>1, <1>2, <1>3, <1>4

LEMMA FastStepImplements ==
  ASSUME IInv, FastStep, UNCHANGED inputs
  PROVE  Implemented
<1>1. PICK s \in FastHits :
        /\ out' = Append(out, s)
        /\ cursor' = cursor + Len(table.code[s])
        /\ result' = result
  BY FastStepEmits
<1>2. FastLoop /\ pc = "fast" /\ ~Ended /\ table.single = {}
  BY DEF FastStep, FastLoop, IInv, Decoding
<1>3. /\ s \in DOMAIN table.code
      /\ cursor + Len(table.code[s]) <= TotalBits
      /\ Matches(table.code[s], stream, cursor)
  BY <1>2, FastHitsAreNext
<1> QED
  BY <1>1, <1>2, <1>3, EmitImplements

LEMMA SlowEmitImplements ==
  ASSUME IInv, SlowEmit, UNCHANGED inputs
  PROVE  Implemented
<1> DEFINE s == ShortestOf(table, SlowHits)
<1>1. SlowHits \in SUBSET (DOMAIN table.code) /\ SlowHits # {}
  BY DEF SlowHits, Found, SlowEmit
<1>2. s \in SlowHits
  BY <1>1, ShortestIsHit DEF IInv
<1>3. /\ s \in DOMAIN table.code
      /\ cursor + Len(table.code[s]) <= TotalBits
      /\ Matches(table.code[s], stream, cursor)
  BY <1>2, SlowHitsAreNext
<1>4. /\ pc = "slow" /\ ~Ended /\ table.single = {}
      /\ out' = Append(out, s) /\ cursor' = cursor + Len(table.code[s])
      /\ result' = result
  BY DEF SlowEmit, SlowLoop, IInv, Decoding
<1> QED
  BY <1>3, <1>4, EmitImplements

LEMMA SlowFailImplements ==
  ASSUME IInv, SlowFail, UNCHANGED inputs
  PROVE  Implemented
<1>1. /\ pc = "slow" /\ ~Ended /\ SlowHits = {} /\ Decoding /\ result = None
      /\ cursor' = cursor /\ out' = out
      /\ cursor \in 0 .. TotalBits /\ TotalBits \in Nat
  BY InputFacts DEF SlowFail, SlowLoop, IInv
<1>2. result' = Truncated
  BY <1>1, SlowMissIsShort DEF SlowFail, Return
<1>3. ~\E s \in DOMAIN table.code : Stream!NextIs(s)
  <2> SUFFICES ASSUME NEW s \in DOMAIN table.code, Stream!NextIs(s) PROVE FALSE
    OBVIOUS
  <2>1. Len(table.code[s]) \in Nat
    BY InputFacts DEF IInv
  <2>2. Len(table.code[s]) <= Left /\ Matches(table.code[s], stream, cursor)
    BY <1>1, <2>1 DEF Stream!NextIs, Left, TotalBits, Matches
  <2>3. s \in SlowHits
    BY <1>1, <2>2 DEF SlowHits
  <2> QED
    BY <1>1, <2>3
<1>4. Stream!Fail
  BY <1>1, <1>2, <1>3 DEF Stream!Fail, Stream!Ended, Ended, Truncated, Decoding, inputs
<1> QED
  BY <1>1, <1>4 DEF Implemented, Stream!StreamNext, None

\* The scan of first_nonzero_bit_from_here stops at the first dirty bit.
LEMMA ScanFinds ==
  ASSUME IInv, pc = "tail", NEW i \in scan + 1 .. TotalBits, stream[i] = 1,
         \A j \in scan + 1 .. i - 1 : stream[j] # 1
  PROVE  Stream!Verdict = [kind |-> "NonZeroPadding", bit |-> i - 1]
<1>1. /\ strict /\ scan \in cursor .. TotalBits /\ cursor \in 0 .. TotalBits
      /\ \A j \in cursor + 1 .. scan : stream[j] = 0
  BY DEF IInv, Scanned
<1>2. TotalBits \in Nat /\ TotalBits = Len(stream)
  BY InputFacts DEF IInv, TotalBits
<1>3. i \in Stream!Dirty
  BY <1>1, <1>2 DEF Stream!Dirty
<1>4. \A j \in Stream!Dirty : i <= j
  <2> SUFFICES ASSUME NEW j \in cursor + 1 .. Len(stream), stream[j] = 1, j < i
               PROVE  FALSE
    BY <1>1, <1>2 DEF Stream!Dirty
  <2>1. j \in cursor + 1 .. scan \/ j \in scan + 1 .. i - 1
    BY <1>1, <1>2
  <2> QED
    BY <1>1, <2>1
<1>5. Stream!FirstDirty = i
  <2>1. /\ Stream!FirstDirty \in Stream!Dirty
        /\ \A j \in Stream!Dirty : Stream!FirstDirty <= j
    BY <1>3, <1>4 DEF Stream!FirstDirty
  <2>2. Stream!FirstDirty \in Int /\ i \in Int
    BY <1>1, <1>2, <2>1 DEF Stream!Dirty
  <2>3. Stream!FirstDirty <= i /\ i <= Stream!FirstDirty
    BY <1>3, <1>4, <2>1
  <2> QED
    BY <2>2, <2>3
<1> QED
  BY <1>1, <1>3, <1>5 DEF Stream!Verdict

\* The scan ends with the verdict of SymbolStream.
LEMMA ScanImplements ==
  ASSUME IInv, pc = "tail", result' = Stream!Verdict, UNCHANGED <<inputs, out, cursor>>
  PROVE  Implemented
<1>1. Ended /\ result = None
  BY DEF IInv, Scanned
<1>2. Stream!Answer
  BY <1>1 DEF Stream!Answer, Stream!Ended, Ended, inputs
<1> QED
  BY <1>1, <1>2 DEF Implemented, Stream!StreamNext, None

LEMMA ScanBitImplements ==
  ASSUME IInv, ScanBit, UNCHANGED inputs
  PROVE  Implemented
<1>1. /\ pc = "tail" /\ scan < TotalBits /\ cursor' = cursor /\ out' = out
  BY DEF ScanBit
<1>2. scan \in Nat /\ TotalBits \in Nat
  BY <1>1, InputFacts DEF IInv, Scanned
<1>3. CASE stream[scan + 1] = 1
  <2>1. result' = [kind |-> "NonZeroPadding", bit |-> scan]
    BY <1>3 DEF ScanBit, Return
  <2>2. scan + 1 \in scan + 1 .. TotalBits /\ (scan + 1) - 1 = scan
    BY <1>1, <1>2
  <2>3. \A j \in scan + 1 .. (scan + 1) - 1 : stream[j] # 1
    BY <1>2
  <2>4. Stream!Verdict = [kind |-> "NonZeroPadding", bit |-> (scan + 1) - 1]
    BY <1>1, <1>3, <2>2, <2>3, ScanFinds
  <2> QED
    BY <1>1, <2>1, <2>2, <2>4, ScanImplements
<1>4. CASE stream[scan + 1] # 1
  BY <1>1, <1>4 DEF ScanBit, Implemented, Invisible, inputs
<1> QED
  BY <1>3, <1>4

LEMMA ScanWordImplements ==
  ASSUME IInv, ScanWord, UNCHANGED inputs
  PROVE  Implemented
<1> DEFINE set == {i \in 0 .. WordBits - 1 : stream[scan + i + 1] = 1}
<1>1. /\ pc = "tail" /\ scan < TotalBits /\ cursor' = cursor /\ out' = out
      /\ scan % WordBits = 0
  BY DEF ScanWord
<1>2. scan \in 0 .. TotalBits /\ scan \in Nat /\ TotalBits \in Nat /\ WordBits \in Nat
  BY <1>1, InputFacts DEF IInv, Scanned
<1>3. scan + WordBits <= TotalBits
  BY <1>1, <1>2, WordLeft DEF IInv
<1>4. CASE set # {}
  <2>1. result' = [kind |-> "NonZeroPadding", bit |-> scan + Min(set)]
    BY <1>4 DEF ScanWord, Return
  <2>2. Min(set) \in set /\ \A x \in set : Min(set) <= x
    <3>1. set \in SUBSET Nat
      BY <1>2
    <3> HIDE DEF set
    <3> QED
      BY <1>4, <3>1, LeastOf
  <2> DEFINE i == scan + Min(set) + 1
  <2>3. Min(set) \in 0 .. WordBits - 1 /\ stream[i] = 1
    BY <2>2
  <2>4. i \in scan + 1 .. TotalBits /\ i - 1 = scan + Min(set)
    BY <1>2, <1>3, <2>3
  <2>5. \A j \in scan + 1 .. i - 1 : stream[j] # 1
    <3> SUFFICES ASSUME NEW j \in scan + 1 .. i - 1, stream[j] = 1 PROVE FALSE
      OBVIOUS
    <3>1. /\ j - scan - 1 \in 0 .. WordBits - 1 /\ scan + (j - scan - 1) + 1 = j
          /\ j - scan - 1 < Min(set)
      BY <1>2, <2>3
    <3>2. j - scan - 1 \in set
      BY <3>1
    <3> QED
      BY <2>2, <2>3, <3>1, <3>2
  <2>6. Stream!Verdict = [kind |-> "NonZeroPadding", bit |-> i - 1]
    <3> HIDE DEF i
    <3> QED
      BY <1>1, <2>3, <2>4, <2>5, ScanFinds
  <2> QED
    BY <1>1, <2>1, <2>4, <2>6, ScanImplements
<1>5. CASE set = {}
  BY <1>1, <1>5 DEF ScanWord, Implemented, Invisible, inputs
<1> QED
  BY <1>4, <1>5

LEMMA ScanDoneImplements ==
  ASSUME IInv, ScanDone, UNCHANGED inputs
  PROVE  Implemented
<1>1. /\ pc = "tail" /\ scan >= TotalBits /\ cursor' = cursor /\ out' = out
      /\ result' = [kind |-> "Ok"]
  BY DEF ScanDone, Return
<1>2. /\ scan \in cursor .. TotalBits /\ cursor \in 0 .. TotalBits /\ TotalBits \in Nat
      /\ \A i \in cursor + 1 .. scan : stream[i] = 0
  BY <1>1, InputFacts DEF IInv, Scanned
<1>3. scan = TotalBits
  BY <1>1, <1>2
<1>4. Stream!Dirty = {}
  BY <1>2, <1>3 DEF Stream!Dirty, TotalBits
<1>5. result' = Stream!Verdict
  BY <1>1, <1>4 DEF Stream!Verdict
<1> QED
  BY <1>1, <1>5, ScanImplements

LEMMA StepImplements ==
  ASSUME IInv, DecoderNext, UNCHANGED inputs
  PROVE  Implemented
<1>1. CASE EnterTrivial
  BY <1>1, EnterTrivialImplements
<1>2. CASE EnterLoops \/ Refill \/ LeaveFast
  BY <1>2 DEF EnterLoops, Refill, LeaveFast, Implemented, Invisible, inputs
<1>3. CASE FastStep
  BY <1>3, FastStepImplements
<1>4. CASE SlowEmit
  BY <1>4, SlowEmitImplements
<1>5. CASE SlowFail
  BY <1>5, SlowFailImplements
<1>6. CASE SlowDone
  BY <1>6, FinishImplements DEF SlowDone
<1>7. CASE ScanBit
  BY <1>7, ScanBitImplements
<1>8. CASE ScanWord
  BY <1>8, ScanWordImplements
<1>9. CASE ScanDone
  BY <1>9, ScanDoneImplements
<1> QED
  BY <1>1, <1>2, <1>3, <1>4, <1>5, <1>6, <1>7, <1>8, <1>9 DEF DecoderNext

\* decode_slice and decode_slice_strict deliver what SymbolStream reads, stop
\* at the same bit with the same error, and name the first dirty bit.
THEOREM SlicesDecodeAsStreams == MCSpec => ImplementsSymbolStream
<1>1. MCInit => Stream!StreamInit
  BY DEF MCInit, DecoderInit, Stream!StreamInit, None
<1>2. IInv /\ [MCNext]_decoderVars => [Stream!StreamNext]_(Stream!vars)
  <2> SUFFICES ASSUME IInv, [MCNext]_decoderVars PROVE Implemented
    BY DEF Implemented, Invisible, Stream!vars
  <2>1. CASE DecoderNext /\ UNCHANGED inputs
    BY <2>1, StepImplements
  <2>2. CASE UNCHANGED decoderVars
    BY <2>2 DEF decoderVars, Implemented, Invisible
  <2> QED
    BY <2>1, <2>2 DEF MCNext
<1> QED
  BY <1>1, <1>2, TheRegisterIsKnown, PTL
  DEF MCSpec, ImplementsSymbolStream, Stream!StreamSpec

-----------------------------------------------------------------------------
(* Round trip: the invariant *)

CodeAt(i) == table.code[residuals[i]]

\* Where the codes of the first n residuals end if they follow one another.
Marks(pos, n) ==
  /\ pos \in [0 .. n -> Nat] /\ pos[0] = 0
  /\ \A i \in 1 .. n : pos[i] = pos[i - 1] + Len(CodeAt(i))
  /\ \A i \in 0 .. n : pos[i] <= pos[n]

\* These bits are those codes.
Carries(bits, pos, n) ==
  \A i \in 1 .. n : \A j \in 1 .. Len(CodeAt(i)) : bits[pos[i - 1] + j] = CodeAt(i)[j]

\* What the writer has been given: whole words, the pending one, and the rest
\* of the code it is at.
BitsGiven == Len(stream) + bitsInWord + Len(value)
Given ==
  [p \in 1 .. BitsGiven |->
     IF p <= Len(stream) THEN stream[p]
     ELSE IF p <= Len(stream) + bitsInWord THEN word[p - Len(stream)]
     ELSE value[p - Len(stream) - bitsInWord]]

\* The encoder's descriptor has a code for every residual.
ResidualsGood ==
  /\ residuals \in Seq(Alphabet(table)) /\ nPixels = Len(residuals)
  /\ index \in 0 .. Len(residuals)

\* Nothing is written to the pending word beyond its bits.
Writer ==
  /\ word \in [1 .. WordBits -> Bit]
  /\ bitsInWord \in 0 .. WordBits - 1
  /\ value \in Seq(Bit)
  /\ \A i \in bitsInWord + 1 .. WordBits : word[i] = 0

\* While packing, the codes so far and nothing else.
Writing ==
  packing = "codes" =>
    /\ pc = "enter" /\ Writer
    /\ table.single # {} => index = 0
    /\ \E pos : Marks(pos, index) /\ pos[index] = BitsGiven /\ Carries(Given, pos, index)

\* A packed slice: all codes and then zeros, less than a word of them.
AllCoded(pos) ==
  /\ Marks(pos, Len(residuals)) /\ Carries(stream, pos, Len(residuals))
  /\ pos[Len(residuals)] <= TotalBits /\ TotalBits < pos[Len(residuals)] + WordBits
  /\ \A p \in pos[Len(residuals)] + 1 .. TotalBits : stream[p] = 0

\* The decoder is between two codes.
ReadTo(pos) ==
  /\ Len(out) \in 0 .. Len(residuals)
  /\ out = [i \in 1 .. Len(out) |-> residuals[i]]
  /\ cursor = pos[Len(out)]

Reading ==
  packing = "packed" =>
    \/ table.single # {} /\ stream = << >> /\ out \in {<< >>, residuals}
    \/ table.single = {} /\ \E pos : AllCoded(pos) /\ ReadTo(pos)

RInv ==
  /\ IInv /\ ResidualsGood /\ packing \in {"codes", "packed"}
  /\ Writing /\ Reading
  /\ pc = "done" => result = [kind |-> "Ok"] /\ out = residuals

-----------------------------------------------------------------------------
(* Round trip: the codebook *)

LEMMA CodesAreBits ==
  ASSUME InputsGood
  PROVE  \A s \in DOMAIN table.code : table.code[s] \in Seq(Bit)
<1>1. PICK d \in Lengths : BuildResult(d) = "Ok" /\ table = Table(d)
  BY DEF InputsGood
<1>2. DOMAIN table.code # {} => table.longest > 0
  BY InputFacts
<1> QED
  BY <1>1, <1>2, GoodCodebooks DEF OneCodeFirst

\* No code begins another, so the next one is known.
LEMMA OneNext ==
  ASSUME InputsGood, cursor \in 0 .. TotalBits,
         NEW s \in DOMAIN table.code, NEW t \in DOMAIN table.code,
         cursor + Len(table.code[s]) <= TotalBits,
         cursor + Len(table.code[t]) <= TotalBits,
         Matches(table.code[s], stream, cursor),
         Matches(table.code[t], stream, cursor)
  PROVE  s = t
<1>1. PICK d \in Lengths : BuildResult(d) = "Ok" /\ table = Table(d)
  BY DEF InputsGood
<1>2. /\ table.longest \in 0 .. WordBits /\ WordBits \in Nat
      /\ \A u \in DOMAIN table.code : Len(table.code[u]) \in 1 .. table.longest
      /\ TotalBits \in Nat /\ \A i \in 1 .. TotalBits : stream[i] \in Bit
  BY InputFacts
<1>3. OneCodeFirst(table)
  BY <1>1, <1>2, GoodCodebooks
<1> DEFINE bits == [i \in 1 .. table.longest |->
                      IF cursor + i <= TotalBits THEN stream[cursor + i] ELSE 0]
<1>4. bits \in [1 .. table.longest -> Bit]
  <2>1. \A i \in 1 .. table.longest :
          cursor + i <= TotalBits => cursor + i \in 1 .. TotalBits
    BY <1>2
  <2> QED
    BY <1>2, <2>1 DEF Bit
<1>5. PICK x \in Symbols : Found(table, 1 .. WordBits, bits, 0) = {x}
  <2> HIDE DEF bits
  <2> QED
    BY <1>3, <1>4 DEF OneCodeFirst
<1>6. ASSUME NEW u \in DOMAIN table.code,
             cursor + Len(table.code[u]) <= TotalBits,
             Matches(table.code[u], stream, cursor)
      PROVE  u = x
  <2>1. Len(table.code[u]) \in 1 .. table.longest /\ Len(table.code[u]) \in 1 .. WordBits
    BY <1>2
  <2>2. \A i \in 1 .. Len(table.code[u]) : bits[0 + i] = table.code[u][i]
    <3> TAKE i \in 1 .. Len(table.code[u])
    <3>1. 0 + i = i /\ i \in 1 .. table.longest /\ cursor + i <= TotalBits
      BY <1>2, <1>6, <2>1
    <3>2. bits[i] = stream[cursor + i] /\ stream[cursor + i] = table.code[u][i]
      BY <1>6, <3>1 DEF Matches
    <3> QED
      BY <3>1, <3>2
  <2>3. u \in Found(table, 1 .. WordBits, bits, 0)
    <3> HIDE DEF bits
    <3> QED
      BY <2>1, <2>2 DEF Found, Matches
  <2> QED
    BY <1>5, <2>3
<1> QED
  BY <1>6

\* Every residual has a code, but in a single-symbol plane.
LEMMA ResidualHasCode ==
  ASSUME InputsGood, ResidualsGood, table.single = {}, NEW i \in 1 .. Len(residuals)
  PROVE  residuals[i] \in DOMAIN table.code /\ Len(CodeAt(i)) \in Nat \ {0}
<1>1. residuals[i] \in DOMAIN table.code
  BY DEF ResidualsGood, Alphabet
<1>2. Len(CodeAt(i)) \in 1 .. table.longest /\ table.longest \in Nat
  BY <1>1, InputFacts DEF CodeAt
<1> QED
  BY <1>1, <1>2

\* A single-symbol plane has one symbol.
LEMMA OneSymbol ==
  ASSUME InputsGood, ResidualsGood, NEW s \in table.single
  PROVE  residuals = [i \in 1 .. nPixels |-> s]
<1>1. PICK d \in Lengths : BuildResult(d) = "Ok" /\ table = Table(d)
  BY DEF InputsGood
<1>2. table.single = Zeros(d)
  BY <1>1 DEF Table
<1>3. IsFiniteSet(Zeros(d)) /\ Zeros(d) # {}
  <2>1. NumSymbols - 1 \in Int
    BY TableAssumption
  <2>2. IsFiniteSet(0 .. NumSymbols - 1)
    <3>1. 0 \in Int
      OBVIOUS
    <3> QED
      BY <2>1, <3>1, FS_Interval, Zenon
  <2>3. IsFiniteSet(Symbols)
    BY <2>2, Zenon DEF Symbols
  <2> QED
    BY <1>2, <2>3, FS_Subset DEF Zeros
<1>4. \A t \in table.single : t = s
  <2>1. Cardinality(Zeros(d)) = 1
    <3>1. Cardinality(Zeros(d)) \in Nat
      BY <1>3, FS_CardinalityType
    <3>2. Cardinality(Zeros(d)) # 0
      BY <1>3, FS_EmptySet
    <3>3. ~(Cardinality(Zeros(d)) > 1)
      BY <1>1, <1>3, <3>1 DEF BuildResult
    <3> QED
      BY <3>1, <3>2, <3>3
  <2>2. \E x : Zeros(d) = {x}
    BY <1>3, <2>1, FS_Singleton
  <2> QED
    BY <1>2, <2>2
<1>5. residuals \in Seq(table.single) /\ nPixels = Len(residuals)
  BY DEF ResidualsGood, Alphabet
<1>6. \A i \in 1 .. nPixels : residuals[i] = s
  BY <1>4, <1>5
<1> QED
  BY <1>5, <1>6

-----------------------------------------------------------------------------
(* Round trip: reading *)

\* A call that ends has an answer.
LEMMA DoneHasResult ==
  ASSUME DecoderNext, pc' = "done"
  PROVE  pc # "done" /\ result'.kind # "None"
<1>1. CASE EnterTrivial
  BY <1>1 DEF EnterTrivial, Finish, Return, Failure
<1>2. CASE EnterLoops \/ Refill \/ LeaveFast \/ SlowEmit
  BY <1>2 DEF EnterLoops, Refill, LeaveFast, SlowEmit, SlowLoop
<1>3. CASE FastStep
  BY <1>3 DEF FastStep, FastLoop, Return, Failure, Truncated
<1>4. CASE SlowFail
  BY <1>4 DEF SlowFail, SlowLoop, Return, Failure, Truncated
<1>5. CASE SlowDone
  BY <1>5 DEF SlowDone, Finish, Return
<1>6. CASE ScanBit \/ ScanWord \/ ScanDone
  BY <1>6 DEF ScanBit, ScanWord, ScanDone, Return
<1> QED
  BY <1>1, <1>2, <1>3, <1>4, <1>5, <1>6 DEF DecoderNext

\* What an invisible or an abstract step does, as far as reading goes.
ReadStep ==
  \/ result' = result
  \/ result' = [kind |-> "Ok"] /\ out' = residuals

\* The only symbol of a plane comes back as it is.
LEMMA SingleReads ==
  ASSUME IInv, ResidualsGood, Implemented, UNCHANGED <<inputs, residuals>>,
         table.single # {}, stream = << >>, out \in {<< >>, residuals}
  PROVE  out' \in {<< >>, residuals} /\ ReadStep
<1>1. Stream!Verdict = [kind |-> "Ok"]
  <2>1. cursor \in Nat /\ Len(stream) = 0
    BY InputFacts DEF IInv
  <2>2. Stream!Dirty = {}
    BY <2>1 DEF Stream!Dirty
  <2> QED
    BY <2>2 DEF Stream!Verdict
<1>2. CASE Stream!Fill
  <2>1. PICK s \in table.single : out' = [i \in 1 .. nPixels |-> s]
    BY <1>2 DEF Stream!Fill
  <2>2. out' = residuals
    BY <2>1, OneSymbol DEF IInv
  <2> QED
    BY <1>1, <1>2, <2>2 DEF Stream!Fill, ReadStep
<1>3. CASE Stream!Answer
  <2>1. out' = out /\ result' = [kind |-> "Ok"] /\ Len(out) = nPixels
    BY <1>1, <1>3 DEF Stream!Answer, Stream!Ended
  <2>2. residuals \in Seq(Alphabet(table)) /\ Len(residuals) = nPixels
    BY DEF ResidualsGood
  <2>3. out = << >> => residuals = << >>
    BY <2>1, <2>2
  <2> QED
    BY <2>1, <2>3 DEF ReadStep
<1>4. CASE Stream!Emit \/ Stream!Fail
  BY <1>4 DEF Stream!Emit, Stream!Fail
<1>5. CASE Invisible
  BY <1>5 DEF Invisible, ReadStep
<1> QED
  BY <1>2, <1>3, <1>4, <1>5 DEF Implemented, Stream!StreamNext

\* Where residuals are left, the code of the next one comes next.
LEMMA NextResidual ==
  ASSUME IInv, ResidualsGood, table.single = {}, NEW pos, AllCoded(pos), ReadTo(pos),
         Len(out) # Len(residuals),
         NEW r, r = residuals[Len(out) + 1]
  PROVE  /\ r \in DOMAIN table.code
         /\ Len(table.code[r]) \in Nat
         /\ cursor + Len(table.code[r]) = pos[Len(out) + 1]
         /\ cursor + Len(table.code[r]) <= TotalBits
         /\ Matches(table.code[r], stream, cursor)
<1> DEFINE k == Len(out)
           n == Len(residuals)
<1>1. n \in Nat /\ k \in 0 .. n /\ k + 1 \in 1 .. n /\ cursor = pos[k] /\ (k + 1) - 1 = k
  BY DEF ResidualsGood, ReadTo
<1>2. r \in DOMAIN table.code /\ Len(CodeAt(k + 1)) \in Nat /\ CodeAt(k + 1) = table.code[r]
  BY <1>1, ResidualHasCode DEF IInv, CodeAt
<1> HIDE DEF k, n
<1>3. /\ pos[k + 1] = pos[k] + Len(CodeAt(k + 1))
      /\ pos[k + 1] <= pos[n] /\ pos[k + 1] \in Nat /\ pos[n] \in Nat
      /\ pos[n] <= TotalBits
  <2>1. Marks(pos, n) /\ pos[n] <= TotalBits
    BY DEF AllCoded, n
  <2>2. k + 1 \in 0 .. n /\ n \in 0 .. n
    BY <1>1
  <2>3. pos[k + 1] = pos[(k + 1) - 1] + Len(CodeAt(k + 1))
    BY <1>1, <2>1 DEF Marks
  <2> QED
    BY <1>1, <2>1, <2>2, <2>3 DEF Marks
<1>4. TotalBits \in Nat
  BY InputFacts DEF IInv
<1>5. \A j \in 1 .. Len(CodeAt(k + 1)) :
        stream[pos[(k + 1) - 1] + j] = CodeAt(k + 1)[j]
  BY <1>1 DEF AllCoded, Carries, n
<1>6. Matches(table.code[r], stream, cursor)
  BY <1>1, <1>2, <1>5 DEF Matches
<1> QED
  BY <1>1, <1>2, <1>3, <1>4, <1>6 DEF k

\* What the packer wrote is read one residual after the other, and what is left
\* at the end is clean.
LEMMA CodesRead ==
  ASSUME IInv, ResidualsGood, Implemented, UNCHANGED <<inputs, residuals>>,
         table.single = {}, NEW pos, AllCoded(pos), ReadTo(pos)
  PROVE  ReadTo(pos)' /\ ReadStep
<1> DEFINE k == Len(out)
           n == Len(residuals)
<1>1. /\ n \in Nat /\ k \in 0 .. n /\ cursor = pos[k] /\ nPixels = n
      /\ out = [i \in 1 .. k |-> residuals[i]] /\ residuals' = residuals
  BY DEF ResidualsGood, ReadTo
<1>2. ASSUME NEW s \in DOMAIN table.code, Stream!NextIs(s), k # n
      PROVE  s = residuals[k + 1] /\ cursor + Len(table.code[s]) = pos[k + 1]
  <2> DEFINE r == residuals[k + 1]
  <2>1. /\ r \in DOMAIN table.code
        /\ cursor + Len(table.code[r]) = pos[k + 1]
        /\ cursor + Len(table.code[r]) <= TotalBits
        /\ Matches(table.code[r], stream, cursor)
    BY <1>2, NextResidual
  <2>2. cursor + Len(table.code[s]) <= TotalBits /\ Matches(table.code[s], stream, cursor)
    BY <1>2 DEF Stream!NextIs, TotalBits, Matches
  <2>3. cursor \in 0 .. TotalBits /\ InputsGood
    BY DEF IInv
  <2> HIDE DEF r
  <2>4. s = r
    BY <2>1, <2>2, <2>3, OneNext
  <2> QED
    BY <2>1, <2>4 DEF r
<1>3. CASE Stream!Emit
  <2>1. PICK s \in DOMAIN table.code :
          /\ Stream!NextIs(s)
          /\ out' = Append(out, s) /\ cursor' = cursor + Len(table.code[s])
          /\ result' = result
    BY <1>3 DEF Stream!Emit
  <2>2. k # n
    BY <1>1, <1>3 DEF Stream!Emit, Stream!Ended
  <2>3. s = residuals[k + 1] /\ cursor' = pos[k + 1]
    BY <1>2, <2>1, <2>2
  <2>4. out' = [i \in 1 .. k + 1 |-> residuals[i]] /\ Len(out') = k + 1
    <3> DEFINE f == [i \in 1 .. k |-> residuals[i]]
    <3> HIDE DEF k
    <3>1. Append(f, residuals[k + 1]) = [i \in 1 .. k + 1 |-> residuals[i]]
      BY <1>1
    <3>2. Len([i \in 1 .. k + 1 |-> residuals[i]]) = k + 1
      BY <1>1
    <3> QED
      BY <1>1, <2>1, <2>3, <3>1, <3>2
  <2>5. k + 1 \in 0 .. n
    BY <1>1, <2>2
  <2> QED
    BY <1>1, <2>1, <2>3, <2>4, <2>5 DEF ReadTo, ReadStep
<1>4. CASE Stream!Fail
  <2>1. k # n /\ ~\E s \in DOMAIN table.code : Stream!NextIs(s)
    BY <1>1, <1>4 DEF Stream!Fail, Stream!Ended
  <2>2. /\ residuals[k + 1] \in DOMAIN table.code
        /\ cursor + Len(table.code[residuals[k + 1]]) <= TotalBits
        /\ Matches(table.code[residuals[k + 1]], stream, cursor)
    BY <2>1, NextResidual
  <2>3. Stream!NextIs(residuals[k + 1])
    BY <2>2 DEF Stream!NextIs, TotalBits, Matches
  <2> QED
    BY <2>1, <2>2, <2>3
<1>5. CASE Stream!Answer
  <2>1. k = n /\ result' = Stream!Verdict /\ out' = out /\ cursor' = cursor
    BY <1>1, <1>5 DEF Stream!Answer, Stream!Ended
  <2>2. out = residuals
    BY <1>1, <2>1 DEF ResidualsGood
  <2>3. Stream!Dirty = {}
    <3>1. cursor = pos[n] /\ \A p \in pos[n] + 1 .. TotalBits : stream[p] = 0
      BY <1>1, <2>1 DEF AllCoded
    <3> QED
      BY <3>1 DEF Stream!Dirty, TotalBits
  <2>4. result' = [kind |-> "Ok"]
    BY <2>1, <2>3 DEF Stream!Verdict
  <2> QED
    BY <1>1, <2>1, <2>2, <2>4 DEF ReadTo, ReadStep
<1>6. CASE Invisible
  BY <1>1, <1>6 DEF Invisible, ReadTo, ReadStep
<1>7. CASE Stream!Fill
  BY <1>7 DEF Stream!Fill
<1> QED
  BY <1>3, <1>4, <1>5, <1>6, <1>7 DEF Implemented, Stream!StreamNext

LEMMA UnpackKeeps ==
  ASSUME RInv, Unpack
  PROVE  RInv'
<1>1. /\ packing = "packed" /\ packing' = "packed" /\ DecoderNext
      /\ UNCHANGED inputs /\ residuals' = residuals /\ index' = index
  BY DEF Unpack, packVars
<1>2. IInv /\ ResidualsGood /\ Reading
  BY DEF RInv
<1>3. IInv' /\ Implemented
  BY <1>1, <1>2, StepKeeps, StepImplements
<1>4. /\ table' = table /\ stream' = stream /\ nPixels' = nPixels
      /\ TotalBits' = TotalBits
  BY <1>1, <1>2, InputsKept DEF IInv
<1>5. ResidualsGood'
  BY <1>1, <1>2, <1>4 DEF ResidualsGood
<1>6. Reading' /\ ReadStep
  <2>1. CASE table.single # {}
    <3>1. stream = << >> /\ out \in {<< >>, residuals}
      BY <1>1, <1>2, <2>1 DEF Reading
    <3>2. out' \in {<< >>, residuals} /\ ReadStep
      BY <1>1, <1>2, <1>3, <2>1, <3>1, SingleReads
    <3> QED
      BY <1>1, <1>4, <2>1, <3>1, <3>2 DEF Reading
  <2>2. CASE table.single = {}
    <3>1. PICK pos : AllCoded(pos) /\ ReadTo(pos)
      BY <1>1, <1>2, <2>2 DEF Reading
    <3>2. ReadTo(pos)' /\ ReadStep
      BY <1>1, <1>2, <1>3, <2>2, <3>1, CodesRead
    <3>3. AllCoded(pos)'
      BY <1>1, <1>4, <3>1 DEF AllCoded, Marks, Carries, CodeAt
    <3> QED
      BY <1>1, <1>4, <2>2, <3>2, <3>3 DEF Reading
  <2> QED
    BY <2>1, <2>2
<1>7. pc' = "done" => result' = [kind |-> "Ok"] /\ out' = residuals'
  <2> SUFFICES ASSUME pc' = "done"
               PROVE  result' = [kind |-> "Ok"] /\ out' = residuals'
    OBVIOUS
  <2>1. pc # "done" /\ result'.kind # "None"
    BY <1>1, DoneHasResult
  <2>2. result = None
    BY <1>2, <2>1 DEF IInv
  <2> QED
    BY <1>1, <1>6, <2>1, <2>2 DEF ReadStep, None
<1>8. Writing'
  BY <1>1 DEF Writing
<1> QED
  BY <1>1, <1>3, <1>5, <1>6, <1>7, <1>8 DEF RInv

-----------------------------------------------------------------------------
(* Round trip: packing *)

\* What packing starts from.
LEMMA PackFacts ==
  ASSUME RInv, packing = "codes"
  PROVE  /\ IInv /\ InputsGood /\ ResidualsGood /\ pc = "enter" /\ Writer
         /\ WordBits \in Nat \ {0} /\ Len(stream) \in Nat /\ bitsInWord \in Nat
         /\ bitsInWord < WordBits /\ value \in Seq(Bit) /\ Len(value) \in Nat
         /\ BitsGiven \in Nat
         /\ stream \in Seq(Bit) /\ Len(stream) % WordBits = 0
         /\ out = << >> /\ cursor = 0 /\ result = None
         /\ index \in Nat /\ index <= Len(residuals) /\ Len(residuals) \in Nat
         /\ table.single # {} => index = 0
         /\ \E pos : /\ Marks(pos, index) /\ pos[index] = BitsGiven
                     /\ Carries(Given, pos, index)
<1>1. /\ IInv /\ InputsGood /\ ResidualsGood /\ pc = "enter" /\ Writer
      /\ table.single # {} => index = 0
      /\ \E pos : /\ Marks(pos, index) /\ pos[index] = BitsGiven
                  /\ Carries(Given, pos, index)
  BY DEF RInv, Writing, IInv
<1>2. WordBits \in Nat \ {0}
  BY TableAssumption
<1>3. /\ stream \in Seq(Bit) /\ Len(stream) % WordBits = 0 /\ Len(stream) \in Nat
  BY <1>1 DEF InputsGood
<1>4. /\ bitsInWord \in Nat /\ bitsInWord < WordBits /\ value \in Seq(Bit)
      /\ Len(value) \in Nat
  BY <1>1, <1>2 DEF Writer
<1>5. BitsGiven \in Nat
  BY <1>3, <1>4 DEF BitsGiven
<1>6. out = << >> /\ cursor = 0 /\ result = None
  BY <1>1 DEF IInv
<1>7. index \in Nat /\ index <= Len(residuals) /\ Len(residuals) \in Nat
  BY <1>1 DEF ResidualsGood
<1> QED
  BY <1>1, <1>2, <1>3, <1>4, <1>5, <1>6, <1>7

\* The decoder has not begun, so all it asks of the words is that they are whole.
LEMMA PackedInputs ==
  ASSUME RInv, packing = "codes", UNCHANGED <<table, residuals, unpackVars>>,
         stream' \in Seq(Bit), Len(stream') % WordBits = 0,
         index' \in 0 .. Len(residuals)
  PROVE  IInv' /\ ResidualsGood'
<1>1. IInv /\ InputsGood /\ ResidualsGood /\ pc = "enter"
  BY PackFacts
<1>2. /\ nPixels' = nPixels /\ strict' = strict /\ pc' = pc /\ acc' = acc
      /\ accLen' = accLen /\ nextWord' = nextWord /\ cursor' = cursor
      /\ scan' = scan /\ out' = out /\ result' = result
      /\ table' = table /\ residuals' = residuals
  BY DEF unpackVars
<1>3. InputsGood'
  BY <1>1, <1>2 DEF InputsGood
<1>4. TotalBits' \in Nat
  BY DEF TotalBits
<1>5. /\ pc' = "enter" /\ result' = None /\ cursor' = 0 /\ out' = << >>
      /\ accLen' = 0 /\ nextWord' = 0 /\ acc' = [i \in Register |-> 0]
  BY <1>1, <1>2 DEF IInv
<1>6. IInv'
  BY <1>3, <1>4, <1>5 DEF IInv, None, Register
<1>7. ResidualsGood'
  BY <1>1, <1>2 DEF ResidualsGood, Alphabet
<1> QED
  BY <1>6, <1>7

LEMMA PackNothingKeeps ==
  ASSUME RInv, Packer!PackNothing, UNCHANGED unpackVars
  PROVE  RInv'
<1>1. /\ packing = "codes" /\ packing' = "packed" /\ index = 0 /\ value = << >>
      /\ table.single # {} \/ residuals = << >>
      /\ table' = table /\ residuals' = residuals /\ index' = index /\ stream' = stream
  BY DEF Packer!PackNothing, Packer!Codes, Packer!packInputs, Packer!writer
<1>2. PICK pos : Marks(pos, 0) /\ pos[0] = BitsGiven
  BY <1>1, PackFacts
<1>3. pos[0] = 0 /\ BitsGiven = 0 /\ pos \in [0 .. 0 -> Nat]
  BY <1>2 DEF Marks
<1>4. stream = << >> /\ Len(stream) = 0
  <2>1. Len(stream) \in Nat /\ bitsInWord \in Nat /\ Len(value) \in Nat
        /\ stream \in Seq(Bit)
    BY <1>1, PackFacts
  <2>2. Len(stream) = 0
    BY <1>3, <2>1 DEF BitsGiven
  <2> QED
    BY <2>1, <2>2
<1>5. IInv' /\ ResidualsGood'
  <2>1. stream' \in Seq(Bit) /\ Len(stream') % WordBits = 0 /\ index' \in 0 .. Len(residuals)
    BY <1>1, PackFacts
  <2> QED
    BY <1>1, <2>1, PackedInputs
<1>6. out' = << >> /\ cursor' = 0 /\ pc' = "enter"
  <2>1. out = << >> /\ cursor = 0 /\ pc = "enter"
    BY <1>1, PackFacts
  <2> QED
    BY <2>1 DEF unpackVars
<1>7. Reading'
  <2>1. CASE table.single # {}
    BY <1>1, <1>4, <1>6, <2>1 DEF Reading
  <2>2. CASE table.single = {}
    <3>1. residuals' = << >> /\ Len(residuals') = 0 /\ stream' = << >> /\ TotalBits' = 0
      BY <1>1, <1>4, <2>2 DEF TotalBits
    <3>2. AllCoded(pos)'
      BY <1>3, <3>1, TableAssumption DEF AllCoded, Marks, Carries
    <3>3. ReadTo(pos)'
      BY <1>3, <1>6, <3>1 DEF ReadTo
    <3> QED
      BY <1>1, <2>2, <3>2, <3>3 DEF Reading
  <2> QED
    BY <2>1, <2>2
<1> QED
  BY <1>1, <1>5, <1>6, <1>7 DEF RInv, Writing

LEMMA NextCodeKeeps ==
  ASSUME RInv, Packer!NextCode, UNCHANGED unpackVars
  PROVE  RInv'
<1> DEFINE code == CodeAt(index + 1)
           end == BitsGiven + Len(code)
<1>1. /\ packing = "codes" /\ value = << >> /\ table.single = {}
      /\ index < Len(residuals)
      /\ table' = table /\ residuals' = residuals /\ stream' = stream
      /\ word' = word /\ bitsInWord' = bitsInWord
  BY DEF Packer!NextCode, Packer!Codes, Packer!packInputs
<1>2. /\ InputsGood /\ ResidualsGood /\ Writer /\ index \in Nat
      /\ Len(residuals) \in Nat /\ Len(stream) \in Nat /\ bitsInWord \in Nat
      /\ stream \in Seq(Bit) /\ Len(stream) % WordBits = 0
      /\ BitsGiven \in Nat
  BY <1>1, PackFacts
<1>3. index + 1 \in 1 .. Len(residuals)
  BY <1>1, <1>2
<1>4. residuals[index + 1] \in DOMAIN table.code /\ Len(code) \in Nat /\ code \in Seq(Bit)
  BY <1>1, <1>2, <1>3, ResidualHasCode, CodesAreBits DEF CodeAt
<1>5. packing' = "codes" /\ index' = index + 1 /\ value' = code
  BY <1>1, <1>4 DEF Packer!NextCode, CodeAt
<1>6. PICK pos : Marks(pos, index) /\ pos[index] = BitsGiven /\ Carries(Given, pos, index)
  BY <1>1, PackFacts
<1> HIDE DEF code
<1>7. BitsGiven' = end /\ end \in Nat /\ BitsGiven = Len(stream) + bitsInWord
  BY <1>1, <1>2, <1>4, <1>5 DEF BitsGiven
<1>8. \A p \in 1 .. BitsGiven : Given'[p] = Given[p]
  <2> TAKE p \in 1 .. BitsGiven
  <2>1. p \in 1 .. BitsGiven' /\ p <= Len(stream) + bitsInWord
    BY <1>2, <1>4, <1>7
  <2> QED
    BY <1>1, <2>1 DEF Given
<1>9. \A j \in 1 .. Len(code) : Given'[BitsGiven + j] = code[j]
  <2> TAKE j \in 1 .. Len(code)
  <2> DEFINE p == BitsGiven + j
  <2>1. /\ p \in 1 .. BitsGiven' /\ ~(p <= Len(stream))
        /\ ~(p <= Len(stream) + bitsInWord)
        /\ p - Len(stream) - bitsInWord = j
    BY <1>2, <1>4, <1>7
  <2> HIDE DEF p
  <2>2. Given'[p] = value'[p - Len(stream) - bitsInWord]
    BY <1>1, <2>1 DEF Given
  <2> QED
    BY <1>5, <2>1, <2>2 DEF p
<1>10. /\ pos \in [0 .. index -> Nat] /\ pos[0] = 0 /\ pos[index] = BitsGiven
       /\ \A i \in 1 .. index : pos[i] = pos[i - 1] + Len(CodeAt(i))
       /\ \A i \in 0 .. index : pos[i] <= BitsGiven
  BY <1>6 DEF Marks
<1>11. PICK next : /\ next \in [0 .. index + 1 -> Nat] /\ next[index + 1] = end
                   /\ \A i \in 0 .. index : next[i] = pos[i]
  <2> DEFINE f == [i \in 0 .. index + 1 |-> IF i <= index THEN pos[i] ELSE end]
  <2>1. /\ f \in [0 .. index + 1 -> Nat] /\ f[index + 1] = end
        /\ \A i \in 0 .. index : f[i] = pos[i]
    BY <1>2, <1>7, <1>10
  <2> QED
    BY <2>1
<1>12. Marks(next, index + 1)
  <2>1. next[0] = 0
    BY <1>2, <1>10, <1>11
  <2>2. \A i \in 1 .. index + 1 : next[i] = next[i - 1] + Len(CodeAt(i))
    <3> TAKE i \in 1 .. index + 1
    <3>1. CASE i <= index
      BY <1>2, <1>10, <1>11, <3>1
    <3>2. CASE i = index + 1
      <4>1. i - 1 = index /\ index \in 0 .. index
        BY <1>2, <3>2
      <4> QED
        BY <1>10, <1>11, <3>2, <4>1 DEF code
    <3> QED
      BY <1>2, <3>1, <3>2
  <2>3. \A i \in 0 .. index + 1 : next[i] <= next[index + 1]
    <3> TAKE i \in 0 .. index + 1
    <3>1. CASE i <= index
      <4>1. next[i] <= BitsGiven /\ next[i] \in Nat
        BY <1>2, <1>10, <1>11, <3>1
      <4> QED
        BY <1>2, <1>4, <1>11, <4>1
    <3>2. CASE i = index + 1
      BY <1>7, <1>11, <3>2
    <3> QED
      BY <1>2, <3>1, <3>2
  <2> QED
    BY <1>11, <2>1, <2>2, <2>3 DEF Marks
<1>13. \A i \in 1 .. index + 1 : \A j \in 1 .. Len(CodeAt(i)) :
         Given'[next[i - 1] + j] = CodeAt(i)[j]
  <2> TAKE i \in 1 .. index + 1
  <2> TAKE j \in 1 .. Len(CodeAt(i))
  <2>1. CASE i <= index
    <3>1. i \in 1 .. index /\ i - 1 \in 0 .. index /\ i \in 0 .. index
      BY <1>2, <2>1
    <3>2. Given[pos[i - 1] + j] = CodeAt(i)[j]
      BY <1>6, <3>1 DEF Carries
    <3>3. Len(CodeAt(i)) \in Nat
      <4>1. i \in 1 .. Len(residuals)
        BY <1>2, <1>3, <3>1
      <4> QED
        BY <1>1, <1>2, <4>1, ResidualHasCode
    <3>4. pos[i - 1] + j \in 1 .. BitsGiven
      <4>1. pos[i] <= BitsGiven /\ pos[i] = pos[i - 1] + Len(CodeAt(i)) /\ pos[i - 1] \in Nat
        BY <1>10, <3>1
      <4> QED
        BY <1>2, <3>3, <4>1
    <3> QED
      BY <1>8, <1>11, <3>1, <3>2, <3>4
  <2>2. CASE i = index + 1
    <3>1. i - 1 = index /\ index \in 0 .. index
      BY <1>2, <2>2
    <3> QED
      BY <1>9, <1>10, <1>11, <2>2, <3>1 DEF code
  <2> QED
    BY <1>2, <2>1, <2>2
<1>14. /\ Marks(next, index)' /\ next[index'] = BitsGiven' /\ Carries(Given, next, index)'
  BY <1>1, <1>5, <1>7, <1>11, <1>12, <1>13 DEF Marks, Carries, CodeAt
<1>15. Writer'
  BY <1>1, <1>2, <1>4, <1>5 DEF Writer
<1>16. IInv' /\ ResidualsGood'
  <2>1. stream' \in Seq(Bit) /\ Len(stream') % WordBits = 0 /\ index' \in 0 .. Len(residuals)
    BY <1>1, <1>2, <1>3, <1>5
  <2> QED
    BY <1>1, <2>1, PackedInputs
<1>17. pc' = "enter"
  BY <1>1, PackFacts DEF unpackVars
<1>18. Writing'
  BY <1>1, <1>14, <1>15, <1>17 DEF Writing
<1> QED
  BY <1>5, <1>16, <1>17, <1>18 DEF RInv, Reading

LEMMA OneMoreMultiple ==
  ASSUME NEW a \in Nat, NEW m \in Nat \ {0}, a % m = 0
  PROVE  (a + m) % m = 0
<1> DEFINE z == (a + m) % m
<1>1. PICK q \in Int : a = m * q
  BY ModDef
<1>2. z \in 0 .. m - 1 /\ \E r \in Int : a + m = m * r + z
  <2>1. a + m \in Int
    OBVIOUS
  <2> QED
    BY <2>1, ModDef
<1>3. PICK r \in Int : a + m = m * r + z
  BY <1>2
<1> HIDE DEF z
<1>4. z = m * (q + 1 - r) /\ q + 1 - r \in Int
  BY <1>1, <1>2, <1>3
<1>5. q + 1 - r = 0
  BY <1>2, <1>4, SmallMultiple
<1> QED
  BY <1>4, <1>5 DEF z

\* A step that only moves bits from the code to the words keeps the invariant.
LEMMA BitsMoved ==
  ASSUME RInv, packing = "codes", packing' = packing,
         table' = table, residuals' = residuals, index' = index,
         UNCHANGED unpackVars,
         stream' \in Seq(Bit), Len(stream') % WordBits = 0, Writer',
         BitsGiven' = BitsGiven, \A p \in 1 .. BitsGiven : Given'[p] = Given[p]
  PROVE  RInv'
<1>1. /\ ResidualsGood /\ InputsGood /\ pc = "enter" /\ index \in Nat
      /\ index <= Len(residuals) /\ Len(residuals) \in Nat /\ BitsGiven \in Nat
      /\ table.single # {} => index = 0
  BY PackFacts
<1>2. PICK pos : Marks(pos, index) /\ pos[index] = BitsGiven /\ Carries(Given, pos, index)
  BY PackFacts
<1>3. IInv' /\ ResidualsGood'
  <2>1. index' \in 0 .. Len(residuals)
    BY <1>1
  <2> QED
    BY <2>1, PackedInputs
<1>4. \A i \in 1 .. index : \A j \in 1 .. Len(CodeAt(i)) :
        Given'[pos[i - 1] + j] = CodeAt(i)[j]
  <2> TAKE i \in 1 .. index
  <2> TAKE j \in 1 .. Len(CodeAt(i))
  <2>1. Given[pos[i - 1] + j] = CodeAt(i)[j]
    BY <1>2 DEF Carries
  <2>2. Len(CodeAt(i)) \in Nat
    <3>1. table.single = {} /\ i \in 1 .. Len(residuals)
      BY <1>1
    <3> QED
      BY <1>1, <3>1, ResidualHasCode
  <2>3. pos[i - 1] + j \in 1 .. BitsGiven
    <3>1. i - 1 \in 0 .. index /\ i \in 0 .. index
      BY <1>1
    <3>2. pos[i] <= BitsGiven /\ pos[i] = pos[i - 1] + Len(CodeAt(i)) /\ pos[i - 1] \in Nat
      BY <1>2, <3>1 DEF Marks
    <3> QED
      BY <1>1, <2>2, <3>2
  <2> QED
    BY <2>1, <2>3
<1>5. /\ Marks(pos, index)' /\ pos[index'] = BitsGiven' /\ Carries(Given, pos, index)'
  BY <1>2, <1>4 DEF Marks, Carries, CodeAt
<1>6. pc' = "enter"
  BY <1>1 DEF unpackVars
<1>7. Writing'
  BY <1>1, <1>5, <1>6 DEF Writing
<1> QED
  BY <1>3, <1>6, <1>7 DEF RInv, Reading

\* A turn of write_code's loop moves bits and changes none.
LEMMA WriteChunkKeeps ==
  ASSUME RInv, Packer!WriteChunk, UNCHANGED unpackVars
  PROVE  RInv'
<1> DEFINE f == Packer!Fit
           n == Len(stream)
           b == bitsInWord
           filled == Packer!Filled(f)
<1>1. /\ packing = "codes" /\ packing' = packing /\ value # << >>
      /\ value' = SubSeq(value, f + 1, Len(value))
      /\ table' = table /\ residuals' = residuals /\ index' = index
  BY DEF Packer!WriteChunk, Packer!packInputs
<1>2. /\ InputsGood /\ ResidualsGood /\ Writer /\ index \in Nat /\ pc = "enter"
      /\ WordBits \in Nat \ {0} /\ n \in Nat /\ b \in Nat /\ b < WordBits
      /\ value \in Seq(Bit) /\ Len(value) \in Nat
      /\ stream \in Seq(Bit) /\ n % WordBits = 0
      /\ index <= Len(residuals) /\ Len(residuals) \in Nat
  BY <1>1, PackFacts
<1>3. Len(value) > 0
  BY <1>1, <1>2, EmptySeq
<1>4. f \in 1 .. Len(value) /\ b + f <= WordBits
  BY <1>2, <1>3 DEF Packer!Fit, Packer!Free
<1> HIDE DEF f
<1>5. /\ value' \in Seq(Bit) /\ Len(value') = Len(value) - f
      /\ \A k \in 1 .. Len(value) - f : value'[k] = value[f + k]
  <2>1. f + 1 \in 1 .. Len(value) + 1 /\ Len(value) \in 0 .. Len(value)
    BY <1>2, <1>4
  <2> DEFINE rest == SubSeq(value, f + 1, Len(value))
  <2>2. rest \in Seq(Bit)
    BY <1>2, <2>1, SubSeqProperties
  <2>3. Len(rest) = Len(value) - f
    BY <1>2, <1>4
  <2>4. \A k \in 1 .. Len(value) - f : rest[k] = value[f + k]
    BY <1>2, <1>4
  <2> HIDE DEF rest
  <2>5. value' = rest
    BY <1>1 DEF rest
  <2> QED
    BY <2>2, <2>3, <2>4, <2>5
<1>6. /\ \A i \in 1 .. WordBits :
           filled[i] = IF i - b \in 1 .. f THEN value[i - b] ELSE word[i]
      /\ filled \in [1 .. WordBits -> Bit]
  <2>1. /\ \A i \in 1 .. WordBits : word[i] \in Bit
        /\ \A i \in 1 .. Len(value) : value[i] \in Bit
    BY <1>2 DEF Writer
  <2>2. \A i \in 1 .. WordBits : i - b \in 1 .. f => i - b \in 1 .. Len(value)
    BY <1>2, <1>4
  <2> QED
    BY <2>1, <2>2 DEF Packer!Filled
<1> HIDE DEF filled
<1>7. CASE b + f = WordBits
  <2>1. /\ stream' = stream \o filled /\ word' = [i \in 1 .. WordBits |-> 0]
        /\ bitsInWord' = 0
    BY <1>7 DEF Packer!WriteChunk, Packer!EmptyWord, f, filled
  <2>2. filled \in Seq(Bit) /\ Len(filled) = WordBits
    BY <1>2, <1>6
  <2>3. /\ stream' \in Seq(Bit) /\ Len(stream') = n + WordBits
        /\ \A p \in 1 .. n + WordBits :
             stream'[p] = IF p <= n THEN stream[p] ELSE filled[p - n]
    <3>1. stream \in Seq(Bit) /\ n = Len(stream)
      BY <1>2
    <3> DEFINE joined == stream \o filled
    <3>2. /\ joined \in Seq(Bit) /\ Len(joined) = Len(stream) + Len(filled)
          /\ \A p \in 1 .. Len(stream) + Len(filled) :
               joined[p] = IF p <= Len(stream) THEN stream[p] ELSE filled[p - Len(stream)]
      BY <2>2, <3>1, ConcatProperties, Zenon
    <3>3. stream' = joined
      BY <2>1
    <3> HIDE DEF joined, n
    <3> QED
      BY <2>2, <3>1, <3>2, <3>3
  <2>4. Len(stream') % WordBits = 0
    <3>1. (n + WordBits) % WordBits = 0
      <4> HIDE DEF n
      <4> QED
        BY <1>2, OneMoreMultiple
    <3> QED
      BY <2>3, <3>1
  <2>5. BitsGiven' = BitsGiven
    <3> DEFINE l == Len(value)
               l2 == Len(value')
    <3>1. BitsGiven' = (n + WordBits) + 0 + l2 /\ BitsGiven = n + b + l
      BY <2>1, <2>3 DEF BitsGiven
    <3>2. l2 = l - f /\ l \in Nat /\ f \in Int
      BY <1>2, <1>4, <1>5
    <3> HIDE DEF l, l2, n, b
    <3> QED
      BY <1>2, <1>7, <3>1, <3>2
  <2>6. \A p \in 1 .. BitsGiven : Given'[p] = Given[p]
    <3> TAKE p \in 1 .. BitsGiven
    <3>1. p \in Nat /\ p > 0 /\ p <= n + b + Len(value)
      BY <1>2 DEF BitsGiven
    <3>2. /\ p \in 1 .. BitsGiven'
          /\ Given'[p] = IF p <= Len(stream') THEN stream'[p]
                         ELSE IF p <= Len(stream') + bitsInWord'
                              THEN word'[p - Len(stream')]
                              ELSE value'[p - Len(stream') - bitsInWord']
          /\ Given[p] = IF p <= n THEN stream[p]
                        ELSE IF p <= n + b THEN word[p - n] ELSE value[p - n - b]
      BY <2>5 DEF Given
    <3>3. CASE p <= n
      BY <1>2, <2>3, <3>1, <3>2, <3>3
    <3>4. CASE p > n /\ p <= n + b
      <4>1. p <= n + WordBits /\ p - n \in 1 .. WordBits /\ ~(p - n - b \in 1 .. f)
            /\ ~(p <= n)
        BY <1>2, <1>4, <3>1, <3>4
      <4> QED
        BY <1>6, <2>3, <3>1, <3>2, <3>4, <4>1
    <3>5. CASE p > n + b /\ p <= n + WordBits
      <4>1. /\ p - n \in 1 .. WordBits /\ p - n - b \in 1 .. f
            /\ ~(p <= n) /\ ~(p <= n + b)
        BY <1>2, <1>4, <1>7, <3>1, <3>5
      <4> QED
        BY <1>6, <2>3, <3>1, <3>2, <3>5, <4>1
    <3>6. CASE p > n + WordBits
      <4> DEFINE k == p - (n + WordBits)
      <4>1. /\ k \in 1 .. Len(value) - f /\ f + k = p - n - b
            /\ ~(p <= n) /\ ~(p <= n + b) /\ ~(p <= n + WordBits)
            /\ ~(p <= n + WordBits + 0) /\ p - (n + WordBits) - 0 = k
        BY <1>2, <1>4, <1>7, <3>1, <3>6
      <4> HIDE DEF k
      <4>2. Given'[p] = value'[k]
        BY <2>1, <2>3, <3>2, <4>1
      <4>3. value'[k] = value[f + k]
        BY <1>5, <4>1
      <4> QED
        BY <3>2, <4>1, <4>2, <4>3
    <3> QED
      BY <1>2, <3>1, <3>3, <3>4, <3>5, <3>6
  <2>7. Writer'
    BY <1>2, <1>5, <2>1 DEF Writer, Bit
  <2> QED
    BY <1>1, <1>2, <2>3, <2>4, <2>5, <2>6, <2>7, BitsMoved
<1>8. CASE b + f # WordBits
  <2>1. stream' = stream /\ word' = filled /\ bitsInWord' = b + f
    BY <1>8 DEF Packer!WriteChunk, f, filled
  <2>2. b + f < WordBits
    BY <1>2, <1>4, <1>8
  <2>3. BitsGiven' = BitsGiven
    BY <1>2, <1>4, <1>5, <2>1 DEF BitsGiven
  <2>4. \A p \in 1 .. BitsGiven : Given'[p] = Given[p]
    <3> TAKE p \in 1 .. BitsGiven
    <3>1. p \in Nat /\ p > 0 /\ p <= n + b + Len(value)
      BY <1>2 DEF BitsGiven
    <3>2. /\ p \in 1 .. BitsGiven'
          /\ Given'[p] = IF p <= n THEN stream[p]
                         ELSE IF p <= n + (b + f) THEN word'[p - n]
                              ELSE value'[p - n - (b + f)]
          /\ Given[p] = IF p <= n THEN stream[p]
                        ELSE IF p <= n + b THEN word[p - n] ELSE value[p - n - b]
      BY <2>1, <2>3 DEF Given
    <3>3. CASE p <= n
      BY <3>2, <3>3
    <3>4. CASE p > n /\ p <= n + b
      <4>1. p <= n + (b + f) /\ p - n \in 1 .. WordBits /\ ~(p - n - b \in 1 .. f)
            /\ ~(p <= n)
        BY <1>2, <1>4, <3>1, <3>4
      <4> QED
        BY <1>6, <2>1, <3>2, <3>4, <4>1
    <3>5. CASE p > n + b /\ p <= n + (b + f)
      <4>1. /\ p - n \in 1 .. WordBits /\ p - n - b \in 1 .. f
            /\ ~(p <= n) /\ ~(p <= n + b)
        BY <1>2, <1>4, <3>1, <3>5
      <4> QED
        BY <1>6, <2>1, <3>2, <3>5, <4>1
    <3>6. CASE p > n + (b + f)
      <4> DEFINE k == p - n - (b + f)
      <4>1. /\ k \in 1 .. Len(value) - f /\ f + k = p - n - b
            /\ ~(p <= n) /\ ~(p <= n + b) /\ ~(p <= n + (b + f))
        BY <1>2, <1>4, <3>1, <3>6
      <4>2. value'[k] = value[f + k]
        BY <1>5, <4>1
      <4> QED
        BY <3>2, <4>1, <4>2
    <3> QED
      BY <1>2, <1>4, <3>1, <3>3, <3>4, <3>5, <3>6
  <2>5. Writer'
    <3>1. \A i \in b + f + 1 .. WordBits : filled[i] = 0
      <4> TAKE i \in b + f + 1 .. WordBits
      <4>1. i \in 1 .. WordBits /\ ~(i - b \in 1 .. f) /\ i \in b + 1 .. WordBits
        BY <1>2, <1>4
      <4> QED
        BY <1>2, <1>6, <4>1 DEF Writer
    <3> QED
      BY <1>2, <1>4, <1>5, <1>6, <2>1, <2>2, <3>1 DEF Writer
  <2> QED
    BY <1>1, <1>2, <2>1, <2>3, <2>4, <2>5, BitsMoved
<1> QED
  BY <1>7, <1>8

\* Appending a word to the stream.
LEMMA WordAppended ==
  ASSUME NEW s \in Seq(Bit), NEW w \in Seq(Bit), Len(w) = WordBits
  PROVE  /\ s \o w \in Seq(Bit) /\ Len(s \o w) = Len(s) + WordBits
         /\ \A p \in 1 .. Len(s) + WordBits :
              (s \o w)[p] = IF p <= Len(s) THEN s[p] ELSE w[p - Len(s)]
  OBVIOUS

\* finish leaves all codes and, after them, zeros.
LEMMA PackFinishKeeps ==
  ASSUME RInv, Packer!PackFinish, UNCHANGED unpackVars
  PROVE  RInv'
<1> DEFINE n == Len(stream)
           b == bitsInWord
           m == Len(residuals)
<1>1. /\ packing = "codes" /\ packing' = "packed" /\ value = << >>
      /\ table.single = {} /\ index = m
      /\ stream' = IF b > 0 THEN stream \o word ELSE stream
      /\ table' = table /\ residuals' = residuals /\ index' = index
  BY DEF Packer!PackFinish, Packer!Codes, Packer!packInputs
<1>2. /\ InputsGood /\ ResidualsGood /\ Writer /\ pc = "enter"
      /\ WordBits \in Nat \ {0} /\ n \in Nat /\ b \in Nat /\ b < WordBits
      /\ stream \in Seq(Bit) /\ n % WordBits = 0
      /\ m \in Nat /\ BitsGiven \in Nat /\ out = << >> /\ cursor = 0
  BY <1>1, PackFacts
<1>3. PICK pos : Marks(pos, m) /\ pos[m] = BitsGiven /\ Carries(Given, pos, m)
  BY <1>1, PackFacts
<1>4. BitsGiven = n + b
  BY <1>1, <1>2 DEF BitsGiven
<1>5. /\ word \in [1 .. WordBits -> Bit]
      /\ \A i \in b + 1 .. WordBits : word[i] = 0
  BY <1>2 DEF Writer
<1>6. /\ stream' \in Seq(Bit) /\ Len(stream') % WordBits = 0 /\ Len(stream') \in Nat
      /\ BitsGiven <= Len(stream') /\ Len(stream') < BitsGiven + WordBits
      /\ \A p \in 1 .. BitsGiven : stream'[p] = Given[p]
      /\ \A p \in BitsGiven + 1 .. Len(stream') : stream'[p] = 0
  <2>1. CASE b > 0
    <3>1. word \in Seq(Bit) /\ Len(word) = WordBits
      BY <1>2, <1>5
    <3>2. /\ stream' \in Seq(Bit) /\ Len(stream') = n + WordBits
          /\ \A p \in 1 .. n + WordBits :
               stream'[p] = IF p <= n THEN stream[p] ELSE word[p - n]
      <4>1. stream' = stream \o word
        BY <1>1, <2>1
      <4>2. stream \in Seq(Bit)
        BY <1>2
      <4> QED
        BY <3>1, <4>1, <4>2, WordAppended
    <3>3. (n + WordBits) % WordBits = 0
      <4> HIDE DEF n
      <4> QED
        BY <1>2, OneMoreMultiple
    <3>4. \A p \in 1 .. BitsGiven : stream'[p] = Given[p]
      <4> TAKE p \in 1 .. BitsGiven
      <4>1. p \in 1 .. n + WordBits /\ p <= n + b
        BY <1>2, <1>4
      <4>2. Given[p] = IF p <= n THEN stream[p] ELSE word[p - n]
        BY <4>1 DEF Given
      <4> QED
        BY <3>2, <4>1, <4>2
    <3>5. \A p \in BitsGiven + 1 .. Len(stream') : stream'[p] = 0
      <4> TAKE p \in BitsGiven + 1 .. Len(stream')
      <4>1. p \in 1 .. n + WordBits /\ p - n \in b + 1 .. WordBits /\ ~(p <= n)
        BY <1>2, <1>4, <3>2
      <4> QED
        BY <1>5, <3>2, <4>1
    <3>6. /\ BitsGiven <= Len(stream') /\ Len(stream') < BitsGiven + WordBits
          /\ Len(stream') \in Nat
      BY <1>2, <1>4, <2>1, <3>2
    <3> QED
      BY <3>2, <3>3, <3>4, <3>5, <3>6
  <2>2. CASE ~(b > 0)
    <3>1. stream' = stream /\ b = 0 /\ BitsGiven = n
      BY <1>1, <1>2, <1>4, <2>2
    <3>2. \A p \in 1 .. BitsGiven : stream'[p] = Given[p]
      <4> TAKE p \in 1 .. BitsGiven
      <4>1. p <= n
        BY <1>2, <3>1
      <4> QED
        BY <3>1, <4>1 DEF Given
    <3> QED
      BY <1>2, <3>1, <3>2
  <2> QED
    BY <2>1, <2>2
<1>7. Carries(stream', pos, m)
  <2> SUFFICES ASSUME NEW i \in 1 .. m, NEW j \in 1 .. Len(CodeAt(i))
               PROVE  stream'[pos[i - 1] + j] = CodeAt(i)[j]
    BY DEF Carries
  <2>1. Given[pos[i - 1] + j] = CodeAt(i)[j]
    BY <1>3 DEF Carries
  <2>2. Len(CodeAt(i)) \in Nat
    BY <1>1, <1>2, ResidualHasCode
  <2>3. pos[i - 1] + j \in 1 .. BitsGiven
    <3>1. i - 1 \in 0 .. m /\ i \in 0 .. m
      BY <1>2
    <3>2. pos[i] <= BitsGiven /\ pos[i] = pos[i - 1] + Len(CodeAt(i)) /\ pos[i - 1] \in Nat
      BY <1>3, <3>1 DEF Marks
    <3> QED
      BY <1>2, <2>2, <3>2
  <2> QED
    BY <1>6, <2>1, <2>3
<1>8. AllCoded(pos)'
  BY <1>1, <1>3, <1>6, <1>7 DEF AllCoded, Marks, Carries, CodeAt, TotalBits
<1>9. out' = << >> /\ cursor' = 0 /\ pc' = "enter"
  BY <1>2 DEF unpackVars
<1>10. ReadTo(pos)'
  <2>1. pos[0] = 0 /\ Len(out') = 0 /\ 0 \in 0 .. m
    BY <1>2, <1>3, <1>9 DEF Marks
  <2> QED
    BY <1>1, <1>9, <2>1 DEF ReadTo
<1>11. Reading'
  BY <1>1, <1>8, <1>10 DEF Reading
<1>12. IInv' /\ ResidualsGood'
  <2>1. index' \in 0 .. Len(residuals)
    BY <1>1, <1>2
  <2> QED
    BY <1>1, <1>6, <2>1, PackedInputs
<1> QED
  BY <1>1, <1>9, <1>11, <1>12 DEF RInv, Writing

\* Packing and unpacking keep the invariant.
LEMMA RoundTripInvariance == Spec => []RInv
<1>1. Init => RInv
  <2> SUFFICES ASSUME Init PROVE RInv
    OBVIOUS
  <2>1. PICK d \in Lengths, n \in 0 .. MaxResiduals :
          /\ BuildResult(d) = "Ok" /\ table = Table(d)
          /\ residuals \in [1 .. n -> Alphabet(Table(d))]
    BY DEF Init
  <2>2. /\ stream = << >> /\ value = << >> /\ bitsInWord = 0 /\ index = 0
        /\ packing = "codes" /\ word = [i \in 1 .. WordBits |-> 0]
    BY DEF Init, Packer!PackerInit, Packer!EmptyWord
  <2>3. WordBits \in Nat \ {0} /\ n \in Nat
    BY TableAssumption, ResidualsAssumption
  <2>4. residuals \in Seq(Alphabet(table)) /\ Len(residuals) = n /\ nPixels = n
    BY <2>1, <2>3 DEF Init
  <2>5. InputsGood
    <3>1. stream \in Seq(Bit) /\ Len(stream) % WordBits = 0
      BY <2>2, <2>3
    <3> QED
      BY <2>1, <2>3, <2>4, <3>1 DEF Init, InputsGood
  <2>6. IInv
    <3>1. TotalBits \in Nat
      BY <2>5, InputFacts
    <3> QED
      BY <2>5, <3>1 DEF Init, DecoderInit, IInv
  <2>7. Writer
    BY <2>2, <2>3 DEF Writer, Bit
  <2>8. \E pos : Marks(pos, index) /\ pos[index] = BitsGiven /\ Carries(Given, pos, index)
    <3> DEFINE pos == [i \in 0 .. 0 |-> 0]
    <3>1. Marks(pos, 0) /\ pos[0] = 0 /\ Carries(Given, pos, 0)
      BY DEF Marks, Carries
    <3>2. BitsGiven = 0
      BY <2>2 DEF BitsGiven
    <3> QED
      BY <2>2, <3>1, <3>2
  <2>9. pc = "enter"
    BY DEF Init, DecoderInit
  <2> QED
    BY <2>2, <2>3, <2>4, <2>6, <2>7, <2>8, <2>9
    DEF RInv, ResidualsGood, Writing, Reading
<1>2. RInv /\ [Next]_vars => RInv'
  <2> SUFFICES ASSUME RInv, [Next]_vars PROVE RInv'
    OBVIOUS
  <2>1. CASE Pack
    <3>1. CASE Packer!PackNothing
      BY <2>1, <3>1, PackNothingKeeps DEF Pack
    <3>2. CASE Packer!NextCode
      BY <2>1, <3>2, NextCodeKeeps DEF Pack
    <3>3. CASE Packer!WriteChunk
      BY <2>1, <3>3, WriteChunkKeeps DEF Pack
    <3>4. CASE Packer!PackFinish
      BY <2>1, <3>4, PackFinishKeeps DEF Pack
    <3> QED
      BY <2>1, <3>1, <3>2, <3>3, <3>4 DEF Pack, Packer!PackerNext
  <2>2. CASE Unpack
    BY <2>2, UnpackKeeps
  <2>3. CASE UNCHANGED vars
    <3>1. /\ table' = table /\ stream' = stream /\ residuals' = residuals
          /\ packing' = packing /\ index' = index /\ value' = value
          /\ word' = word /\ bitsInWord' = bitsInWord
          /\ UNCHANGED unpackVars
      BY <2>3 DEF vars, packVars
    <3>2. UNCHANGED decoderVars
      BY <3>1 DEF unpackVars, decoderVars
    <3>3. IInv'
      BY <3>2, StutterKeeps DEF RInv
    <3>4. ResidualsGood'
      BY <3>1 DEF RInv, ResidualsGood, unpackVars
    <3>5. Writing'
      <4>1. Given' = Given /\ BitsGiven' = BitsGiven
        BY <3>1 DEF Given, BitsGiven
      <4>2. Writer' <=> Writer
        BY <3>1 DEF Writer
      <4>3. /\ Writing /\ pc' = pc /\ cursor' = cursor /\ out' = out
        BY <3>1 DEF RInv, unpackVars
      <4> QED
        BY <3>1, <4>1, <4>2, <4>3 DEF Writing, Marks, Carries, CodeAt
    <3>6. Reading'
      BY <3>1 DEF RInv, Reading, AllCoded, ReadTo, Marks, Carries, CodeAt, TotalBits,
                  unpackVars
    <3> QED
      BY <3>1, <3>3, <3>4, <3>5, <3>6 DEF RInv, unpackVars
  <2> QED
    BY <2>1, <2>2, <2>3 DEF Next, Done
<1> QED
  BY <1>1, <1>2, PTL DEF Spec

\* A slice that pack_slice writes is read back by decode_slice and
\* decode_slice_strict as it was, however its codes lie across the words.
THEOREM SlicesComeBack == Spec => []RoundTrip
<1>1. RInv => RoundTrip
  BY DEF RInv, RoundTrip
<1> QED
  BY <1>1, RoundTripInvariance, PTL

-----------------------------------------------------------------------------
(* Round trip: the size of a packed slice *)

CodeSizes == [i \in 1 .. Len(residuals) |-> Len(CodeAt(i))]

\* The bits a slice needs are where the marks of its codes end.
LEMMA MarksAddUp ==
  ASSUME InputsGood, ResidualsGood, table.single = {}, NEW pos, Marks(pos, Len(residuals))
  PROVE  pos[Len(residuals)] = SumOf(CodeSizes, 1 .. Len(residuals))
<1> DEFINE n == Len(residuals)
           w == CodeSizes
           G == {k \in Nat : k <= n => pos[k] = SumOf(w, 1 .. k)}
<1>1. n \in Nat
  BY DEF ResidualsGood
<1>2. \A i \in 1 .. n : w[i] = Len(CodeAt(i)) /\ w[i] \in Nat
  BY ResidualHasCode DEF CodeSizes
<1>3. /\ pos[0] = 0
      /\ \A i \in 1 .. n : pos[i] = pos[i - 1] + Len(CodeAt(i))
  BY DEF Marks
<1> HIDE DEF n, w
<1>4. 0 \in G
  <2>1. 1 .. 0 = {}
    OBVIOUS
  <2> QED
    BY <1>3, <2>1, SumEmpty
<1>5. ASSUME NEW k \in Nat, k \in G PROVE k + 1 \in G
  <2> SUFFICES ASSUME k + 1 <= n PROVE pos[k + 1] = SumOf(w, 1 .. k + 1)
    OBVIOUS
  <2>1. k + 1 \in 1 .. n /\ (k + 1) - 1 = k
    BY <1>1
  <2>2. pos[k] = SumOf(w, 1 .. k)
    BY <1>1, <1>5, <2>1
  <2>3. SumOf(w, 1 .. k + 1) = SumOf(w, 1 .. k) + w[k + 1]
    <3>1. \A i \in 1 .. k + 1 : w[i] \in Int
      BY <1>1, <1>2, <2>1
    <3> QED
      BY <3>1, SumGrows
  <2> QED
    BY <1>2, <1>3, <2>1, <2>2, <2>3
<1>6. \A k \in Nat : k \in G
  <2> HIDE DEF G
  <2> QED
    BY <1>4, <1>5, NatInduct
<1>7. n \in G
  BY <1>1, <1>6
<1> QED
  BY <1>1, <1>7 DEF n, w

\* BitsNeeded, with its terms in a function.
LEMMA BitsNeededIs ==
  ASSUME ResidualsGood
  PROVE  BitsNeeded = SumOf(CodeSizes, 1 .. Len(residuals))
<1> DEFINE C == DOMAIN residuals
           w == CodeSizes
           A(g) == g = [s \in SUBSET C |->
                     IF s = {} THEN 0
                     ELSE Len(table.code[residuals[CHOOSE x \in s : TRUE]])
                            + g[s \ {CHOOSE x \in s : TRUE}]]
           c == CHOOSE g : A(g)
<1>1. C = 1 .. Len(residuals) /\ Len(residuals) \in Nat
  BY DEF ResidualsGood
<1>2. IsFiniteSet(C)
  <2> HIDE DEF C
  <2> QED
    BY <1>1, OneToN
<1>3. \A g : A(g) <=> Adds(g, w, C)
  <2> TAKE g
  <2>1. \A s \in SUBSET C : s # {} =>
          w[CHOOSE x \in s : TRUE] = Len(table.code[residuals[CHOOSE x \in s : TRUE]])
    BY <1>1 DEF CodeSizes, CodeAt
  <2> HIDE DEF w, C
  <2>2. [s \in SUBSET C |->
           IF s = {} THEN 0
           ELSE w[CHOOSE x \in s : TRUE] + g[s \ {CHOOSE x \in s : TRUE}]]
        = [s \in SUBSET C |->
             IF s = {} THEN 0
             ELSE Len(table.code[residuals[CHOOSE x \in s : TRUE]])
                    + g[s \ {CHOOSE x \in s : TRUE}]]
    BY <2>1
  <2> QED
    BY <2>2 DEF Adds
<1>4. A(c)
  <2>1. \E g : A(g)
    <3> HIDE DEF A, w, C
    <3> QED
      BY <1>2, <1>3, AddsExists
  <2> QED
    BY <2>1
<1>5. BitsNeeded = c[C]
  BY DEF BitsNeeded, MapThenSumSet, MapThenFoldSet
<1>6. Adds(c, w, C)
  BY <1>3, <1>4
<1>7. c[C] = SumOf(w, C)
  <2>1. C \in SUBSET C
    OBVIOUS
  <2>2. PICK h : Adds(h, w, C) /\ SumOf(w, C) = h[C]
    BY <1>2, SumIsAdds
  <2> HIDE DEF c, w, C
  <2>3. c[C] = h[C]
    BY <1>2, <1>6, <2>1, <2>2, AddsAgree
  <2> QED
    BY <2>2, <2>3
<1> HIDE DEF c, w
<1> QED
  BY <1>1, <1>5, <1>7 DEF w

\* A packed slice has no word more than its codes need (NoSpareWord).
THEOREM NoWordToSpare == Spec => []NoSpareWord
<1>1. RInv => NoSpareWord
  <2> SUFFICES ASSUME RInv, packing = "packed"
               PROVE  /\ table.single # {} => stream = << >>
                      /\ table.single = {} =>
                           Len(stream) - BitsNeeded \in 0 .. WordBits - 1
    BY DEF NoSpareWord
  <2>1. Reading /\ InputsGood /\ ResidualsGood
    BY DEF RInv, IInv
  <2>2. CASE table.single # {}
    BY <2>1, <2>2 DEF Reading
  <2>3. CASE table.single = {}
    <3>1. PICK pos : AllCoded(pos)
      BY <2>1, <2>3 DEF Reading
    <3>2. BitsNeeded = pos[Len(residuals)]
      BY <2>1, <2>3, <3>1, MarksAddUp, BitsNeededIs DEF AllCoded
    <3>3. pos[Len(residuals)] \in Nat
      BY <2>1, <3>1 DEF AllCoded, Marks, ResidualsGood
    <3>4. /\ pos[Len(residuals)] <= Len(stream) /\ Len(stream) \in Nat
          /\ Len(stream) < pos[Len(residuals)] + WordBits
      BY <2>1, <3>1, InputFacts DEF AllCoded, TotalBits
    <3> QED
      BY <2>3, <3>2, <3>3, <3>4, TableAssumption
  <2> QED
    BY <2>2, <2>3
<1> QED
  BY <1>1, RoundTripInvariance, PTL
=============================================================================
