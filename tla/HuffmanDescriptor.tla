------------------------- MODULE HuffmanDescriptor -------------------------
(***************************************************************************)
(* One plane's descriptor as the two sides of the crate judge it: the      *)
(* decoder builds a codebook from it (HuffmanTable), and the inspector     *)
(* asks without building one whether it is a complete code                 *)
(* (kraft_numerator and is_kraft_complete of src/inspect.rs), from what    *)
(* its one pass over the bytes keeps.                                      *)
(***************************************************************************)
EXTENDS HuffmanTable

CONSTANT NumeratorBits  \* 128, the width of kraft_numerator's integer

ASSUME NumeratorAssumption == NumeratorBits \in Nat \ {0, 1}

VARIABLES descriptor,
          phase,        \* "merge" while is_kraft_complete runs, then "done"
          nodes,        \* tree nodes to account for at `depth`
          depth,
          complete      \* what is_kraft_complete returned

descriptorVars == <<descriptor, phase, nodes, depth, complete>>

-----------------------------------------------------------------------------
(* peek_frame's one pass over the descriptor *)

CodeLengths == 1 .. Unused - 1
NoStats ==
  [zeros |-> 0, unused |-> 0, longest |-> 0, shortest |-> Unused, atShortest |-> 0,
   counts |-> [length \in CodeLengths |-> 0]]

\* Mutant of SeeByte: the count of the shortest is not started anew.
SeeByteNoReset(stats, b) ==
  IF b = 0 THEN [stats EXCEPT !.zeros = @ + 1]
  ELSE IF b = Unused THEN [stats EXCEPT !.unused = @ + 1]
  ELSE [stats EXCEPT
          !.counts[b] = @ + 1,
          !.longest = IF b > @ THEN b ELSE @,
          !.shortest = IF b < @ THEN b ELSE @,
          !.atShortest = IF b <= stats.shortest THEN @ + 1 ELSE @]

\* One byte: Unused stands for "no length seen yet" in `shortest`.
SeeByte(stats, b) ==
  IF b = 0 THEN [stats EXCEPT !.zeros = @ + 1]
  ELSE IF b = Unused THEN [stats EXCEPT !.unused = @ + 1]
  ELSE [stats EXCEPT
          !.counts[b] = @ + 1,
          !.longest = IF b > @ THEN b ELSE @,
          !.shortest = IF b < @ THEN b ELSE @,
          !.atShortest = CASE b < stats.shortest -> 1
                           [] b = stats.shortest -> @ + 1
                           [] b > stats.shortest -> @]

Stats(d) ==
  LET seen[n \in 0 .. NumSymbols] ==
        IF n = 0 THEN NoStats ELSE SeeByte(seen[n - 1], d[n - 1])
  IN  seen[NumSymbols]

IsSingleSymbol(d) == Stats(d).zeros = 1 /\ Stats(d).unused = NumSymbols - 1
ActiveSymbolCount(d) == NumSymbols - Stats(d).zeros - Stats(d).unused
MaxCodeLength(d) == Stats(d).longest
MinCodeLength(d) == IF Stats(d).shortest = Unused THEN 0 ELSE Stats(d).shortest
MinCodeLengthSymbolCount(d) ==
  IF Stats(d).shortest = Unused THEN 0 ELSE Stats(d).atShortest

\* code_length_histogram: the lengths that occur, ascending, with their counts.
CodeLengthHistogram(d) ==
  LET counts == Stats(d).counts
      upTo[length \in 0 .. Unused - 1] ==
        IF length = 0 THEN << >>
        ELSE IF counts[length] = 0 THEN upTo[length - 1]
        ELSE Append(upTo[length - 1], <<length, counts[length]>>)
  IN  upTo[Unused - 1]

UnusedSymbolCount(d) ==
  NumSymbols - ActiveSymbolCount(d) - (IF IsSingleSymbol(d) THEN 1 ELSE 0)

-----------------------------------------------------------------------------
(* is_kraft_complete *)

DescriptorInit ==
  /\ descriptor \in Descriptors
  /\ phase = "merge"
  /\ nodes = 0
  /\ depth = MaxCodeLength(descriptor)
  /\ complete = FALSE

Judge(verdict) ==
  /\ phase' = "done"
  /\ complete' = verdict
  /\ UNCHANGED <<descriptor, nodes, depth>>

\* No active length: the single symbol counts as a code, nothing else does.
JudgeInactive ==
  /\ phase = "merge"
  /\ IsSingleSymbol(descriptor) \/ ActiveSymbolCount(descriptor) = 0
  /\ Judge(IsSingleSymbol(descriptor))

\* The nodes at this depth, those merged from below included.
Here == nodes + (IF depth = 0 THEN 0 ELSE Stats(descriptor).counts[depth])

\* One turn of the loop: siblings pair up into the nodes one level up.
Ascend ==
  /\ phase = "merge" /\ ActiveSymbolCount(descriptor) > 0
  /\ depth > 0 /\ Here % 2 = 0
  /\ nodes' = Here \div 2
  /\ depth' = depth - 1
  /\ UNCHANGED <<descriptor, phase, complete>>

\* Mutant of JudgeTree: an over-full tree passes.
JudgeTreeNotEmpty ==
  /\ phase = "merge" /\ ActiveSymbolCount(descriptor) > 0
  /\ depth = 0 \/ Here % 2 # 0
  /\ Judge(depth = 0 /\ Here >= 1)

\* A leaf without a sibling, or the root.
JudgeTree ==
  /\ phase = "merge" /\ ActiveSymbolCount(descriptor) > 0
  /\ depth = 0 \/ Here % 2 # 0
  /\ Judge(depth = 0 /\ Here = 1)

Judged == phase = "done" /\ UNCHANGED descriptorVars

DescriptorNext == JudgeInactive \/ Ascend \/ JudgeTree \/ Judged

DescriptorSpec == DescriptorInit /\ [][DescriptorNext]_descriptorVars

\* kraft_numerator, over the histogram; saturates when a term or the sum does
\* not fit.
Saturated == 2 ^ NumeratorBits - 1
Terms(d) ==
  LET tiers == CodeLengthHistogram(d)
  IN  MapThenSumSet(LAMBDA i : tiers[i][2] * 2 ^ (MaxCodeLength(d) - tiers[i][1]),
                    DOMAIN tiers)

\* Mutant of KraftNumerator: the sum loses its highest bit.
KraftNumeratorWraps(d) == Terms(d) % 2 ^ (NumeratorBits - 1)

KraftNumerator(d) == IF Terms(d) > Saturated THEN Saturated ELSE Terms(d)

-----------------------------------------------------------------------------
\* A codebook that build accepts reads every stream of bits in exactly one
\* way: no code begins another, and there is no gap between them.
CodesPartitionStream ==
  BuildResult(descriptor) = "Ok" /\ Table(descriptor).longest > 0 =>
    OneCodeFirst(Table(descriptor))

\* Within a length the codes ascend in the order by_length keeps, highest
\* symbol first, so the binary search over a tier is a search of a sorted
\* list, and every number fits the bits it is written in.
TiersSearchable ==
  BuildResult(descriptor) = "Ok" /\ Zeros(descriptor) = {} =>
    LET number == CodeNumbers(descriptor)
    IN  \A s, t \in Coded(descriptor) :
          /\ number[s] < 2 ^ descriptor[s]
          /\ descriptor[s] = descriptor[t] /\ s > t => number[s] < number[t]

\* The node merge, which never computes a power of two, answers what exact
\* arithmetic answers, and for a code the decoder's register can hold it
\* answers what build answers; and the saturating numerator, wherever 2^max
\* still fits, never says "complete" by accident (is_kraft_complete,
\* kraft_numerator).
CompletenessDecided ==
  phase = "done" /\ Coded(descriptor) # {} =>
    /\ complete <=> MapThenSumSet(LAMBDA s : 2 ^ (Unused - descriptor[s]),
                                  Coded(descriptor)) = 2 ^ Unused
    /\ Zeros(descriptor) = {} /\ LongestCode(descriptor) <= WordBits
         => (complete <=> BuildResult(descriptor) = "Ok")
    /\ LongestCode(descriptor) < NumeratorBits
         => (complete <=> KraftNumerator(descriptor) = 2 ^ LongestCode(descriptor))

\* What the one pass keeps is what the descriptor holds: every scalar is the
\* projection of the histogram that its doc says it is, in whatever order the
\* lengths come, and no sentinel is counted as a length.  Of a descriptor that
\* the decoder accepts, the unused symbols are those marked so.
StatsDescribe ==
  LET d == descriptor
      tiers == CodeLengthHistogram(d)
      last == Len(tiers)
  IN  /\ ActiveSymbolCount(d) = Cardinality(Coded(d))
      /\ {tiers[i] : i \in 1 .. last} =
           {<<d[s], Cardinality({t \in Symbols : d[t] = d[s]})>> : s \in Coded(d)}
      /\ \A i \in 1 .. last - 1 : tiers[i][1] < tiers[i + 1][1]
      /\ IF last = 0
         THEN MaxCodeLength(d) = 0 /\ MinCodeLength(d) = 0
                /\ MinCodeLengthSymbolCount(d) = 0
         ELSE /\ MaxCodeLength(d) = tiers[last][1]
              /\ <<MinCodeLength(d), MinCodeLengthSymbolCount(d)>> = tiers[1]
      /\ BuildResult(d) = "Ok" =>
           /\ UnusedSymbolCount(d) = Cardinality({s \in Symbols : d[s] = Unused})
           /\ IsSingleSymbol(d) <=> Zeros(d) # {}

\* src/inspect.rs:519-524 and 618-622: a plane for which is_kraft_complete
\* returns false is one that HuffmanTable::build rejects.
FalseMeansRejected ==
  phase = "done" /\ ~complete => BuildResult(descriptor) # "Ok"
=============================================================================
