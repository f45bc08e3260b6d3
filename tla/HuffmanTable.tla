---------------------------- MODULE HuffmanTable ----------------------------
(***************************************************************************)
(* HuffmanTable::build of src/huffman.rs: from a descriptor, the code      *)
(* length of every symbol, to the codebook or to the error that refuses    *)
(* it.  The alphabet, the two sentinels' neighbourhood, the lookup depth   *)
(* and the word width are parameters; in the code they are 256 symbols,    *)
(* 255, 12 and 32.  A code is the tuple of its bits, first bit first.      *)
(***************************************************************************)
EXTENDS Integers, Sequences, FiniteSets, FiniteSetsExt

CONSTANTS NumSymbols,   \* 256
          Unused,       \* 255, the length of a symbol that does not occur
          LutBits,      \* LUT_BITS
          WordBits      \* 32, also the longest code the table accepts

ASSUME TableAssumption ==
  /\ NumSymbols \in Nat \ {0} /\ Unused \in Nat
  /\ WordBits \in Nat \ {0} /\ LutBits \in 1 .. WordBits
  /\ WordBits < Unused

Symbols == 0 .. NumSymbols - 1
Descriptors == [Symbols -> 0 .. Unused]
Bit == {0, 1}

Zeros(d) == {s \in Symbols : d[s] = 0}
Coded(d) == {s \in Symbols : d[s] \notin {0, Unused}}

LongestCode(d) == Max({d[s] : s \in Coded(d)})

\* Mutant of KraftHolds: an incomplete code passes.
KraftAtMost(d) ==
  /\ LongestCode(d) <= WordBits
  /\ MapThenSumSet(LAMBDA s : 2 ^ (LongestCode(d) - d[s]), Coded(d))
       <= 2 ^ LongestCode(d)

\* kraft_check: the lengths fill the code space exactly.
KraftHolds(d) ==
  /\ LongestCode(d) <= WordBits
  /\ MapThenSumSet(LAMBDA s : 2 ^ (LongestCode(d) - d[s]), Coded(d))
       = 2 ^ LongestCode(d)

BuildResult(d) ==
  CASE Cardinality(Zeros(d)) > 1 -> "MultipleSingleSymbolSentinels"
    [] Cardinality(Zeros(d)) = 1 ->
         IF Coded(d) = {} THEN "Ok" ELSE "KraftViolation"
    [] Zeros(d) = {} ->
         IF Coded(d) = {} \/ KraftHolds(d) THEN "Ok" ELSE "KraftViolation"

-----------------------------------------------------------------------------
(* Code assignment *)

\* Mutant of Before: within a length the lower symbol comes first.
BeforeLowFirst(d, s, t) == d[s] > d[t] \/ (d[s] = d[t] /\ s < t)

\* s is numbered before t: longer codes first, then higher symbols.
Before(d, s, t) == d[s] > d[t] \/ (d[s] = d[t] /\ s > t)

\* The i-th symbol in that order.
Item(d, i) ==
  CHOOSE s \in Coded(d) : Cardinality({t \in Coded(d) : Before(d, t, s)}) = i - 1

\* Mutant of CodeNumbers: the number is not shifted when the length drops.
CodeNumbersUnshifted(d) ==
  [s \in Coded(d) |-> Cardinality({t \in Coded(d) : Before(d, t, s)})]

\* The running code number; each drop in length shifts it.
CodeNumbers(d) ==
  LET number[i \in 1 .. Cardinality(Coded(d))] ==
        IF i = 1 THEN 0
        ELSE LET next == number[i - 1] + 1
                 drop == d[Item(d, i - 1)] - d[Item(d, i)]
             IN  IF drop > 0 THEN (next + 1) \div 2 ^ drop ELSE next
  IN  [s \in Coded(d) |->
         number[CHOOSE i \in 1 .. Cardinality(Coded(d)) : Item(d, i) = s]]

\* The low `length` bits of a code number, most significant first.
BitsOf(number, length) == [i \in 1 .. length |-> (number \div 2 ^ (length - i)) % 2]

\* entries[s]; the symbols without one are not in the domain.
Codebook(d) ==
  LET number == CodeNumbers(d)
  IN  [s \in Coded(d) |-> BitsOf(number[s], d[s])]

\* What build returns: `single` is the Option, as a set.
Table(d) ==
  [single  |-> Zeros(d),
   code    |-> IF Zeros(d) = {} THEN Codebook(d) ELSE << >>,
   longest |-> IF Zeros(d) = {} /\ Coded(d) # {} THEN LongestCode(d) ELSE 0]

-----------------------------------------------------------------------------
(* Lookup *)

\* `code` is what the bits of `from` after position `at` begin with.
Matches(code, from, at) ==
  \A i \in 1 .. Len(code) : from[at + i] = code[i]

\* The symbols whose codes `from` begins with after `at`, codes of the given
\* lengths only.  (The tiers' binary search finds such a code, the codes of a
\* tier being sorted.)
Found(table, lengths, from, at) ==
  {s \in DOMAIN table.code :
     Len(table.code[s]) \in lengths /\ Matches(table.code[s], from, at)}

\* The first hit of a scan of the tiers, shortest first.
ShortestOf(table, hits) ==
  CHOOSE s \in hits : \A t \in hits : Len(table.code[s]) <= Len(table.code[t])

-----------------------------------------------------------------------------
\* What a codebook has to be: codes are made of bits, and whatever the bits,
\* exactly one code comes first.
OneCodeFirst(table) ==
  /\ \A s \in DOMAIN table.code : table.code[s] \in Seq(Bit)
  /\ \A bits \in [1 .. table.longest -> Bit] :
       \E s \in Symbols : Found(table, 1 .. WordBits, bits, 0) = {s}
=============================================================================
