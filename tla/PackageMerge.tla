---------------------------- MODULE PackageMerge ----------------------------
(***************************************************************************)
(* build_plane_huffman and build_lengths of src/encoder.rs: from how often *)
(* each residual occurs in a plane to the plane's descriptor.  The code    *)
(* lengths come from package-merge: the list of nodes starts as the        *)
(* leaves, and each of the cap's levels but the first pairs it up and      *)
(* merges the pairs with the leaves again.                                 *)
(*                                                                         *)
(* A node is its weight and how often it holds each symbol.  A length of 0 *)
(* stands for a symbol without a code.                                     *)
(***************************************************************************)
EXTENDS HuffmanTable

CONSTANTS Caps,         \* the length caps to try; 16 in the code
          MaxCount      \* bound: occurrences of one residual

ASSUME CapAssumption == Caps \subseteq 1 .. WordBits /\ MaxCount \in Nat

VARIABLES counts, cap,
          at,           \* "shape", "merge", "done"
          level,        \* turns of the merge loop so far, plus one
          prev,         \* the list of nodes
          built,        \* the descriptor that is returned
          answer

lengthsVars == <<counts, cap, at, level, prev, built, answer>>

Used == {s \in Symbols : counts[s] > 0}

NoCodes == [s \in Symbols |-> Unused]

LengthsInit ==
  /\ counts \in [Symbols -> 0 .. MaxCount]
  /\ cap \in Caps
  /\ at = "shape" /\ level = 1 /\ prev = << >>
  /\ built = NoCodes
  /\ answer = "None"

Conclude(d, result) ==
  /\ at' = "done"
  /\ built' = d
  /\ answer' = result
  /\ UNCHANGED <<counts, cap, level, prev>>

\* No residual, or one value throughout.
ReturnFlat ==
  /\ at = "shape"
  /\ Cardinality(Used) <= 1
  /\ LET d == [s \in Symbols |-> IF s \in Used THEN 0 ELSE Unused]
     IN  Conclude(d, BuildResult(d))

\* The cap leaves room for fewer codes than there are symbols.
RefuseAlphabet ==
  /\ at = "shape"
  /\ Cardinality(Used) > 1 /\ 2 ^ cap < Cardinality(Used)
  /\ Conclude(built, "InvalidInput")

Leaf(s) == [weight |-> counts[s], holds |-> [t \in Symbols |-> IF t = s THEN 1 ELSE 0]]

\* Mutant of Rarer: the symbols in their own order.
RarerBySymbol(s, t) == s < t

Rarer(s, t) == counts[s] < counts[t] \/ (counts[s] = counts[t] /\ s < t)

\* By count, then by symbol.
Leaves ==
  [i \in 1 .. Cardinality(Used) |->
     Leaf(CHOOSE s \in Used : Cardinality({t \in Used : Rarer(t, s)}) = i - 1)]

ListLeaves ==
  /\ at = "shape"
  /\ Cardinality(Used) > 1 /\ 2 ^ cap >= Cardinality(Used)
  /\ prev' = Leaves
  /\ at' = "merge"
  /\ UNCHANGED <<counts, cap, level, built, answer>>

Joint(a, b) ==
  [weight |-> a.weight + b.weight,
   holds  |-> [s \in Symbols |-> a.holds[s] + b.holds[s]]]

\* Neighbours in pairs; a last one without a partner is dropped.
Packages(nodes) ==
  [i \in 1 .. Len(nodes) \div 2 |-> Joint(nodes[2 * i - 1], nodes[2 * i])]

\* With p packages and l leaves taken, the loop takes a package next: there is
\* one, and it is no heavier than the next leaf if there is one, too.
TakesPackage(packages, leaves, p, l) ==
  /\ p < Len(packages)
  /\ l < Len(leaves) => packages[p + 1].weight <= leaves[l + 1].weight

\* How many of the first m nodes are packages.
Taken(packages, leaves) ==
  LET taken[m \in 0 .. Len(packages) + Len(leaves)] ==
        IF m = 0 THEN 0
        ELSE LET p == taken[m - 1]
             IN  IF TakesPackage(packages, leaves, p, m - 1 - p) THEN p + 1 ELSE p
  IN  taken

\* Two ascending lists made one, packages first among equal weights.
Merged(packages, leaves) ==
  LET taken == Taken(packages, leaves)
  IN  [m \in 1 .. Len(packages) + Len(leaves) |->
         IF taken[m] > taken[m - 1] THEN packages[taken[m]] ELSE leaves[m - taken[m]]]

MergeLevel ==
  /\ at = "merge" /\ level < cap
  /\ prev' = Merged(Packages(prev), Leaves)
  /\ level' = level + 1
  /\ UNCHANGED <<counts, cap, at, built, answer>>

\* Mutant of Active: one node short.
ActiveShort == 1 .. 2 * Cardinality(Used) - 3

\* The first nodes of the list, which make up the code.
Active == 1 .. 2 * Cardinality(Used) - 2

\* How often the taken nodes hold a symbol is its length.
CountedLengths ==
  [s \in Symbols |->
     MapThenSumSet(LAMBDA i : prev[i].holds[s], Active \cap DOMAIN prev)]

LengthsToDescriptor(lengths) ==
  [s \in Symbols |-> IF lengths[s] > 0 THEN lengths[s] ELSE Unused]

\* The defensive Kraft test, then the codebook built from the descriptor.
CountLengths ==
  /\ at = "merge" /\ level >= cap
  /\ LET d == LengthsToDescriptor(CountedLengths)
     IN  IF KraftHolds(d) THEN Conclude(d, BuildResult(d))
         ELSE Conclude(NoCodes, "KraftViolation")

LengthsDone == at = "done" /\ UNCHANGED lengthsVars

LengthsNext ==
  \/ ReturnFlat \/ RefuseAlphabet \/ ListLeaves \/ MergeLevel \/ CountLengths
  \/ LengthsDone

LengthsSpec == LengthsInit /\ [][LengthsNext]_lengthsVars

-----------------------------------------------------------------------------
(* Reference: all the complete codes there are *)

CompleteCodes ==
  {[used |-> Coded(d), longest |-> LongestCode(d), lengths |-> d] :
     d \in {e \in [Symbols -> 1 .. WordBits \cup {Unused}] :
              Coded(e) # {} /\ KraftHolds(e)}}

IsRival(code) == code.used = Used /\ code.longest <= cap

\* Bits the plane takes under a code; a symbol without a code adds nothing.
BitsSpent(d) ==
  LET upTo[n \in 0 .. NumSymbols] ==
        IF n = 0 THEN 0 ELSE upTo[n - 1] + counts[n - 1] * d[n - 1]
  IN  upTo[NumSymbols]

\* No code that respects the cap packs the plane into fewer bits: package and
\* leaf are merged in the order of their weights at every level, and exactly
\* the nodes that make up the best code are taken (build_lengths).
Optimal ==
  at = "done" /\ Cardinality(Used) > 1 /\ answer # "InvalidInput" =>
    /\ answer = "Ok"
    /\ \A code \in CompleteCodes :
         IsRival(code) => BitsSpent(built) <= BitsSpent(code.lengths)

\* The descriptor is one that the decoder's build accepts, whose codes respect
\* the cap and whose codebook has every residual of the plane and no other, so
\* that packing cannot meet a residual without a code; it is refused only if
\* no code under the cap exists at all.
EveryResidualCoded ==
  at = "done" =>
    IF answer = "InvalidInput"
    THEN ~ \E code \in CompleteCodes : IsRival(code)
    ELSE /\ answer = "Ok" /\ BuildResult(built) = "Ok"
         /\ Used = Coded(built) \cup Zeros(built)
         /\ \A s \in Coded(built) : built[s] <= cap
=============================================================================
