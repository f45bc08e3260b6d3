------------------------- MODULE ChunkInspectProofs -------------------------
(***************************************************************************)
(* What a walk over a payload has established wherever it stands, said     *)
(* without the walk: which planes lie where, which of their checks they    *)
(* have passed, and what an answer says of the payload.  The decoder's     *)
(* walk and the inspector's are two cases of it, so that comparing them is *)
(* comparing two statements about the same bytes.  Then the sums that the  *)
(* layout's accessors return.                                              *)
(***************************************************************************)
EXTENDS ChunkInspect, SlicePartitionProofs, SequenceTheorems, FiniteSetTheorems

Payloads == [size : 0 .. MaxSize, planes : [1 .. NumPlanes -> PlaneParts]]

HeadBytes == DescriptorBytes + TableBytes
InfoOf(p) == p.size - Word
EndOf(p, q, i) == p.planes[q].ends[i]
PrevOf(p, q, i) == IF i = 1 THEN 0 ELSE EndOf(p, q, i - 1)
TotalOf(p, q) == EndOf(p, q, NumSlices)
BadOf(p, q) ==
  {i \in 1 .. NumSlices :
     EndOf(p, q, i) < PrevOf(p, q, i) \/ EndOf(p, q, i) % Word # 0}
Stray(p, q) == p.planes[q].kind = "Single" /\ TotalOf(p, q) # 0

\* A plane laid out from `start`.
Part(p, q, start) ==
  [descriptor |-> start,
   table      |-> start + DescriptorBytes,
   slices     |-> [i \in 1 .. NumSlices |->
                     [start |-> start + HeadBytes + PrevOf(p, q, i),
                      end   |-> start + HeadBytes + EndOf(p, q, i)]]]
PartSet ==
  [descriptor : Nat, table : Nat,
   slices : [1 .. NumSlices -> [start : Nat, end : Nat]]]

\* A plane begins where the one before it ends.
Begin(lay, q) == IF q = 1 THEN 0 ELSE lay[q - 1].slices[NumSlices].end

\* The planes of a layout follow one another, in order and within the payload.
Laid(p, lay) ==
  /\ lay \in Seq(PartSet)
  /\ \A q \in 1 .. Len(lay) :
       /\ lay[q] = Part(p, q, Begin(lay, q))
       /\ BadOf(p, q) = {}
       /\ Begin(lay, q) + HeadBytes + TotalOf(p, q) <= InfoOf(p)

-----------------------------------------------------------------------------
(* Answers *)

Short(p, from, needed) ==
  [kind |-> "ChunkTooShort", offset |-> from, needed |-> needed,
   have |-> Max({0, InfoOf(p) - from})]
BadEnd(p, q) ==
  LET i == Min(BadOf(p, q))
  IN  IF EndOf(p, q, i) < PrevOf(p, q, i)
      THEN [kind |-> "NonMonotonicSliceOffsets"]
      ELSE [kind |-> "SliceNotWordAligned", value |-> EndOf(p, q, i)]
StrayAnswer(p, q) ==
  [kind |-> "SingleSymbolPlaneHasSliceData", plane |-> q, length |-> TotalOf(p, q)]
Leftover(p, from) ==
  [kind |-> "ChunkTooShort", offset |-> from, needed |-> InfoOf(p) - from, have |-> 0]

-----------------------------------------------------------------------------
(* A walk x = [at, plane, offset, layout, answer] over the payload p; one   *)
(* that is `early` asks about stray data before it looks for the data.      *)

Ready(x) == Len(x.layout) = x.plane - 1
Placed(x) == Len(x.layout) = x.plane
From(x) == Begin(x.layout, x.plane)
HeadFits(p, x) == Ready(x) /\ From(x) + HeadBytes <= InfoOf(p)
EndsGood(p, x) == HeadFits(p, x) /\ BadOf(p, x.plane) = {}

\* Where the walk stands, while it has no answer.
Underway(p, x, early) ==
  /\ x.answer = [kind |-> "None"]
  /\ \/ x.at = "enter" /\ x.plane = 1 /\ Ready(x) /\ x.offset = 0
     \/ /\ p.size >= Word
        /\ \/ x.at = "descriptor" /\ Ready(x) /\ x.offset = From(x)
           \/ /\ x.at = "table" /\ Ready(x)
              /\ x.offset = From(x) + DescriptorBytes
              /\ x.offset <= InfoOf(p)
           \/ x.at = "ends" /\ HeadFits(p, x) /\ x.offset = From(x) + HeadBytes
           \/ /\ x.at = "single" /\ early
              /\ EndsGood(p, x) /\ x.offset = From(x) + HeadBytes
           \/ /\ x.at = "data" /\ EndsGood(p, x) /\ x.offset = From(x) + HeadBytes
              /\ early => ~Stray(p, x.plane)
           \/ /\ x.at = "build" /\ ~early
              /\ Placed(x) /\ x.offset = Begin(x.layout, x.plane + 1)
           \/ /\ x.at = "next" /\ ~Stray(p, x.plane)
              /\ Placed(x) /\ x.offset = Begin(x.layout, x.plane + 1)

\* Why the walk stopped, each reason with what was found good before it.
Stopped(p, x, early) ==
  \/ /\ p.size < Word /\ x.plane = 1 /\ Ready(x)
     /\ x.answer = [kind |-> "MissingFrameInfo"]
  \/ /\ p.size >= Word
     /\ \/ /\ Ready(x) /\ From(x) + DescriptorBytes > InfoOf(p)
           /\ x.answer = Short(p, From(x), DescriptorBytes)
        \/ /\ Ready(x) /\ From(x) + DescriptorBytes <= InfoOf(p)
           /\ From(x) + HeadBytes > InfoOf(p)
           /\ x.answer = Short(p, From(x) + DescriptorBytes, TableBytes)
        \/ /\ HeadFits(p, x) /\ BadOf(p, x.plane) # {}
           /\ x.answer = BadEnd(p, x.plane)
        \/ /\ IF early THEN EndsGood(p, x) ELSE Placed(x)
           /\ Stray(p, x.plane)
           /\ x.answer = StrayAnswer(p, x.plane)
        \/ /\ EndsGood(p, x)
           /\ early => ~Stray(p, x.plane)
           /\ From(x) + HeadBytes + TotalOf(p, x.plane) > InfoOf(p)
           /\ x.answer = Short(p, From(x) + HeadBytes, TotalOf(p, x.plane))
        \/ ~early /\ Placed(x) /\ x.answer.kind \in BuildErrors
        \/ /\ Placed(x) /\ x.plane = NumPlanes /\ ~Stray(p, x.plane)
           /\ LET from == Begin(x.layout, NumPlanes + 1)
              IN  x.answer = IF from = InfoOf(p) THEN [kind |-> "Ok"]
                             ELSE Leftover(p, from)

Walk(p, x, early) ==
  /\ x.plane \in 1 .. NumPlanes
  /\ Laid(p, x.layout)
  /\ \A q \in 1 .. x.plane - 1 : ~Stray(p, q)
  /\ \/ x.at # "done" /\ Underway(p, x, early)
     \/ x.at = "done" /\ Stopped(p, x, early)

ParserAt ==
  [at |-> pAt, plane |-> pPlane, offset |-> pOffset, layout |-> pLayout,
   answer |-> pAnswer]
PeekAt ==
  [at |-> iAt, plane |-> iPlane, offset |-> iOffset, layout |-> iLayout,
   answer |-> iAnswer]

\* The payload is one, and both walks have established what Walk says.
IInv ==
  /\ payload \in Payloads
  /\ Walk(payload, ParserAt, FALSE)
  /\ Walk(payload, PeekAt, TRUE)

-----------------------------------------------------------------------------
(* The payload and its layout *)

LEMMA PayloadFacts ==
  ASSUME NEW p \in Payloads
  PROVE  /\ p.size \in Nat /\ InfoOf(p) = p.size - 4 /\ InfoOf(p) \in Int
         /\ NumSlices \in Nat \ {0} /\ NumPlanes \in Nat \ {0}
         /\ DescriptorBytes \in Nat \ {0} /\ TableBytes \in Nat \ {0}
         /\ HeadBytes \in Nat \ {0} /\ HeadBytes = DescriptorBytes + TableBytes
         /\ \A q \in 1 .. NumPlanes :
              /\ p.planes[q].kind \in Kinds
              /\ TotalOf(p, q) \in Nat
              /\ \A i \in 1 .. NumSlices :
                   EndOf(p, q, i) \in Nat /\ PrevOf(p, q, i) \in Nat
<1>1. p.size \in Nat
  BY InspectAssumption DEF Payloads
<1>2. NumSlices \in Nat \ {0} /\ NumPlanes \in Nat \ {0} /\ DescriptorBytes \in Nat \ {0}
  BY FormatAssumption
<1>3. TableBytes \in Nat \ {0} /\ HeadBytes \in Nat \ {0}
  BY <1>2 DEF TableBytes, HeadBytes, Word
<1>4. ASSUME NEW q \in 1 .. NumPlanes
      PROVE  /\ p.planes[q].kind \in Kinds
             /\ TotalOf(p, q) \in Nat
             /\ \A i \in 1 .. NumSlices :
                  EndOf(p, q, i) \in Nat /\ PrevOf(p, q, i) \in Nat
  <2>1. p.planes[q] \in PlaneParts
    BY DEF Payloads
  <2>2. p.planes[q].kind \in Kinds /\ p.planes[q].ends \in [1 .. NumSlices -> Ends]
    BY <2>1 DEF PlaneParts
  <2>3. \A i \in 1 .. NumSlices : EndOf(p, q, i) \in Nat
    BY <2>2, InspectAssumption DEF EndOf
  <2>4. \A i \in 1 .. NumSlices : PrevOf(p, q, i) \in Nat
    BY <1>2, <2>3 DEF PrevOf
  <2> QED
    BY <1>2, <2>2, <2>3, <2>4 DEF TotalOf
<1> QED
  BY <1>1, <1>2, <1>3, <1>4 DEF InfoOf, Word, HeadBytes

\* A plane's data follows its descriptor and its table, and the next plane
\* follows its data.
LEMMA BeginNext ==
  ASSUME NEW p \in Payloads, NEW lay, Laid(p, lay), Len(lay) <= NumPlanes
  PROVE  /\ Len(lay) \in Nat
         /\ \A q \in 1 .. Len(lay) + 1 : Begin(lay, q) \in Nat
         /\ \A q \in 1 .. Len(lay) :
              Begin(lay, q + 1) = Begin(lay, q) + HeadBytes + TotalOf(p, q)
<1>1. Len(lay) \in Nat /\ \A q \in 1 .. Len(lay) : lay[q] \in PartSet
  BY LenProperties, ElementOfSeq DEF Laid
<1>2. NumSlices \in 1 .. NumSlices
  BY PayloadFacts
<1>3. \A q \in 1 .. Len(lay) : lay[q].slices[NumSlices].end \in Nat
  BY <1>1, <1>2 DEF PartSet
<1>4. \A q \in 1 .. Len(lay) + 1 : Begin(lay, q) \in Nat
  <2> TAKE q \in 1 .. Len(lay) + 1
  <2>1. CASE q = 1
    BY <2>1 DEF Begin
  <2>2. CASE q # 1
    <3>1. q - 1 \in 1 .. Len(lay)
      BY <1>1, <2>2
    <3> QED
      BY <1>3, <2>2, <3>1 DEF Begin
  <2> QED
    BY <2>1, <2>2
<1>5. ASSUME NEW q \in 1 .. Len(lay)
      PROVE  Begin(lay, q + 1) = Begin(lay, q) + HeadBytes + TotalOf(p, q)
  <2>1. lay[q] = Part(p, q, Begin(lay, q))
    BY DEF Laid
  <2>2. lay[q].slices[NumSlices].end = Begin(lay, q) + HeadBytes + EndOf(p, q, NumSlices)
    BY <1>2, <2>1 DEF Part
  <2>3. q + 1 # 1 /\ (q + 1) - 1 = q
    BY <1>1
  <2> QED
    BY <2>2, <2>3 DEF Begin, TotalOf
<1> QED
  BY <1>1, <1>4, <1>5

\* What TakeData appends keeps the layout in order.
Extended(p, lay, q) == Append(lay, Part(p, q, Begin(lay, q)))

LEMMA PlaceOne ==
  ASSUME NEW p \in Payloads, NEW lay, NEW new, NEW q \in 1 .. NumPlanes,
         Laid(p, lay), Len(lay) = q - 1, BadOf(p, q) = {},
         Begin(lay, q) + HeadBytes + TotalOf(p, q) <= InfoOf(p),
         new = Extended(p, lay, q)
  PROVE  /\ Laid(p, new) /\ Len(new) = q
         /\ Begin(new, q + 1) = Begin(lay, q) + HeadBytes + TotalOf(p, q)
<1> DEFINE b == Begin(lay, q)
           part == Part(p, q, b)
<1>1. q \in Nat /\ q - 1 < NumPlanes /\ Len(lay) <= NumPlanes
  BY PayloadFacts
<1>2. b \in Nat
  BY <1>1, BeginNext
<1>3. part \in PartSet
  <2>1. \A i \in 1 .. NumSlices : EndOf(p, q, i) \in Nat /\ PrevOf(p, q, i) \in Nat
    BY PayloadFacts
  <2>2. HeadBytes \in Nat /\ DescriptorBytes \in Nat
    BY PayloadFacts
  <2> HIDE DEF b
  <2> QED
    BY <1>2, <2>1, <2>2 DEF Part, PartSet
<1>4. lay \in Seq(PartSet)
  BY DEF Laid
<1> HIDE DEF part, b
<1>5. /\ new \in Seq(PartSet) /\ Len(new) = q /\ new[q] = part
      /\ \A k \in 1 .. Len(lay) : new[k] = lay[k]
  BY <1>1, <1>3, <1>4, AppendProperties DEF part, b, Extended
<1>6. \A k \in 1 .. q : Begin(new, k) = Begin(lay, k)
  <2> TAKE k \in 1 .. q
  <2>1. k # 1 => k - 1 \in 1 .. Len(lay)
    BY <1>1
  <2> QED
    BY <1>5, <2>1 DEF Begin
<1>7. ASSUME NEW k \in 1 .. q
      PROVE  /\ new[k] = Part(p, k, Begin(new, k))
             /\ BadOf(p, k) = {}
             /\ Begin(new, k) + HeadBytes + TotalOf(p, k) <= InfoOf(p)
  <2>1. CASE k = q
    BY <1>5, <1>6, <2>1 DEF part, b
  <2>2. CASE k # q
    <3>1. k \in 1 .. Len(lay)
      BY <1>1, <2>2
    <3> QED
      BY <1>5, <1>6, <3>1 DEF Laid
  <2> QED
    BY <2>1, <2>2
<1>8. Laid(p, new)
  BY <1>5, <1>7 DEF Laid
<1>9. q \in 1 .. q /\ Len(new) <= NumPlanes
  BY <1>1, <1>5, PayloadFacts
<1>10. Begin(new, q + 1) = Begin(new, q) + HeadBytes + TotalOf(p, q)
  BY <1>5, <1>8, <1>9, BeginNext
<1> QED
  BY <1>5, <1>6, <1>8, <1>9, <1>10

-----------------------------------------------------------------------------
(* One lemma per step of a walk, for the decoder's and the inspector's.  x  *)
(* is the walk before the step, y after it.                                 *)

Refused(x, y, error) ==
  /\ y.at = "done" /\ y.answer = error
  /\ y.plane = x.plane /\ y.layout = x.layout

Moved(x, y, to, offset) ==
  /\ y.at = to /\ y.offset = offset
  /\ y.plane = x.plane /\ y.layout = x.layout /\ y.answer = x.answer

LEMMA WalkTyped ==
  ASSUME NEW p \in Payloads, NEW early \in BOOLEAN, NEW x, Walk(p, x, early),
         x.at # "done"
  PROVE  /\ x.plane \in 1 .. NumPlanes /\ x.plane \in Nat
         /\ Len(x.layout) \in Nat
         /\ Len(x.layout) = x.plane - 1 \/ Len(x.layout) = x.plane
         /\ Ready(x) => From(x) \in Nat
         /\ Underway(p, x, early)
<1>1. x.plane \in 1 .. NumPlanes /\ x.plane \in Nat /\ Laid(p, x.layout)
  BY PayloadFacts DEF Walk
<1>2. Underway(p, x, early)
  BY DEF Walk
<1>3. Len(x.layout) = x.plane - 1 \/ Len(x.layout) = x.plane
  BY <1>2 DEF Underway, Ready, Placed, HeadFits, EndsGood
<1>4. Len(x.layout) <= NumPlanes
  BY <1>1, <1>3, PayloadFacts
<1>5. Len(x.layout) \in Nat /\ \A q \in 1 .. Len(x.layout) + 1 : Begin(x.layout, q) \in Nat
  BY <1>1, <1>4, BeginNext
<1>6. ASSUME Ready(x) PROVE From(x) \in Nat
  <2>1. x.plane \in 1 .. Len(x.layout) + 1
    BY <1>1, <1>6 DEF Ready
  <2> QED
    BY <1>5, <2>1 DEF From
<1> QED
  BY <1>1, <1>2, <1>3, <1>5, <1>6

\* What is said of the layout and the planes passed does not change while the
\* walk stays in its plane.
LEMMA SamePlane ==
  ASSUME NEW p \in Payloads, NEW early \in BOOLEAN, NEW x, Walk(p, x, early),
         NEW y, y.plane = x.plane, y.layout = x.layout,
         \/ y.at # "done" /\ Underway(p, y, early)
         \/ y.at = "done" /\ Stopped(p, y, early)
  PROVE  Walk(p, y, early)
  BY DEF Walk

LEMMA EnterKeeps ==
  ASSUME NEW p \in Payloads, NEW early \in BOOLEAN, NEW x, NEW y,
         Walk(p, x, early), x.at = "enter",
         IF p.size < Word THEN Refused(x, y, [kind |-> "MissingFrameInfo"])
         ELSE Moved(x, y, "descriptor", x.offset)
  PROVE  Walk(p, y, early)
<1>1. Underway(p, x, early) /\ x.plane \in 1 .. NumPlanes
  BY WalkTyped
<1>2. x.plane = 1 /\ Ready(x) /\ x.offset = 0 /\ x.answer = [kind |-> "None"]
  BY <1>1 DEF Underway
<1>3. CASE p.size < Word
  <2>1. Refused(x, y, [kind |-> "MissingFrameInfo"])
    BY <1>3
  <2>2. Stopped(p, y, early)
    BY <1>2, <1>3, <2>1 DEF Stopped, Refused, Ready
  <2> QED
    BY <2>1, <2>2, SamePlane DEF Refused
<1>4. CASE ~(p.size < Word)
  <2>1. Moved(x, y, "descriptor", x.offset)
    BY <1>4
  <2>2. p.size >= Word
    BY <1>4, PayloadFacts DEF Word
  <2>3. Ready(y) /\ From(y) = 0 /\ y.offset = 0 /\ y.answer = [kind |-> "None"]
    BY <1>2, <2>1 DEF Moved, Ready, From, Begin
  <2>4. Underway(p, y, early)
    BY <2>1, <2>2, <2>3 DEF Underway, Moved
  <2> QED
    BY <2>1, <2>4, SamePlane DEF Moved
<1> QED
  BY <1>3, <1>4

LEMMA TakeDescriptorKeeps ==
  ASSUME NEW p \in Payloads, NEW early \in BOOLEAN, NEW x, NEW y,
         Walk(p, x, early), x.at = "descriptor",
         IF x.offset + DescriptorBytes > InfoOf(p)
         THEN Refused(x, y, Short(p, x.offset, DescriptorBytes))
         ELSE Moved(x, y, "table", x.offset + DescriptorBytes)
  PROVE  Walk(p, y, early)
<1>1. Underway(p, x, early)
  BY WalkTyped
<1>2. /\ Ready(x) /\ x.offset = From(x) /\ x.answer = [kind |-> "None"]
      /\ p.size >= Word
  BY <1>1 DEF Underway
<1>3. From(x) \in Nat
  BY <1>2, WalkTyped
<1>4. CASE x.offset + DescriptorBytes > InfoOf(p)
  <2>1. Refused(x, y, Short(p, From(x), DescriptorBytes))
    BY <1>2, <1>4
  <2>2. Ready(y) /\ From(y) = From(x)
    BY <1>2, <2>1 DEF Refused, Ready, From
  <2>3. Stopped(p, y, early)
    BY <1>2, <1>4, <2>1, <2>2 DEF Stopped, Refused
  <2> QED
    BY <2>1, <2>3, SamePlane DEF Refused
<1>5. CASE ~(x.offset + DescriptorBytes > InfoOf(p))
  <2>1. Moved(x, y, "table", From(x) + DescriptorBytes)
    BY <1>2, <1>5
  <2>2. Ready(y) /\ From(y) = From(x) /\ y.answer = [kind |-> "None"]
    BY <1>2, <2>1 DEF Moved, Ready, From
  <2>3. From(x) + DescriptorBytes <= InfoOf(p)
    BY <1>2, <1>3, <1>5, PayloadFacts
  <2>4. Underway(p, y, early)
    BY <1>2, <2>1, <2>2, <2>3 DEF Underway, Moved
  <2> QED
    BY <2>1, <2>4, SamePlane DEF Moved
<1> QED
  BY <1>4, <1>5

LEMMA TakeTableKeeps ==
  ASSUME NEW p \in Payloads, NEW early \in BOOLEAN, NEW x, NEW y,
         Walk(p, x, early), x.at = "table",
         IF x.offset + TableBytes > InfoOf(p)
         THEN Refused(x, y, Short(p, x.offset, TableBytes))
         ELSE Moved(x, y, "ends", x.offset + TableBytes)
  PROVE  Walk(p, y, early)
<1>1. Underway(p, x, early)
  BY WalkTyped
<1>2. /\ Ready(x) /\ x.offset = From(x) + DescriptorBytes
      /\ x.offset <= InfoOf(p)
      /\ x.answer = [kind |-> "None"] /\ p.size >= Word
  BY <1>1 DEF Underway
<1>3. From(x) \in Nat
  BY <1>2, WalkTyped
<1>4. x.offset + TableBytes = From(x) + HeadBytes
  BY <1>2, <1>3, PayloadFacts
<1>5. CASE x.offset + TableBytes > InfoOf(p)
  <2>1. Refused(x, y, Short(p, From(x) + DescriptorBytes, TableBytes))
    BY <1>2, <1>5
  <2>2. Ready(y) /\ From(y) = From(x)
    BY <1>2, <2>1 DEF Refused, Ready, From
  <2>3. Stopped(p, y, early)
    BY <1>2, <1>4, <1>5, <2>1, <2>2 DEF Stopped, Refused
  <2> QED
    BY <2>1, <2>3, SamePlane DEF Refused
<1>6. CASE ~(x.offset + TableBytes > InfoOf(p))
  <2>1. Moved(x, y, "ends", From(x) + HeadBytes)
    BY <1>4, <1>6
  <2>2. Ready(y) /\ From(y) = From(x) /\ y.answer = [kind |-> "None"]
    BY <1>2, <2>1 DEF Moved, Ready, From
  <2>3. From(x) + HeadBytes <= InfoOf(p)
    BY <1>3, <1>4, <1>6, PayloadFacts
  <2>4. Underway(p, y, early)
    BY <1>2, <2>1, <2>2, <2>3 DEF Underway, Moved, HeadFits
  <2> QED
    BY <2>1, <2>4, SamePlane DEF Moved
<1> QED
  BY <1>5, <1>6

\* next is "single" for the inspector and "data" for the decoder.
LEMMA CheckEndsKeeps ==
  ASSUME NEW p \in Payloads, NEW early \in BOOLEAN, NEW x, NEW y,
         Walk(p, x, early), x.at = "ends",
         IF BadOf(p, x.plane) # {} THEN Refused(x, y, BadEnd(p, x.plane))
         ELSE Moved(x, y, IF early THEN "single" ELSE "data", x.offset)
  PROVE  Walk(p, y, early)
<1>1. Underway(p, x, early)
  BY WalkTyped
<1>2. /\ HeadFits(p, x) /\ x.offset = From(x) + HeadBytes
      /\ x.answer = [kind |-> "None"] /\ p.size >= Word
  BY <1>1 DEF Underway
<1>3. CASE BadOf(p, x.plane) # {}
  <2>1. Refused(x, y, BadEnd(p, x.plane))
    BY <1>3
  <2>2. HeadFits(p, y) /\ From(y) = From(x)
    BY <1>2, <2>1 DEF Refused, HeadFits, Ready, From
  <2>3. Stopped(p, y, early)
    BY <1>2, <1>3, <2>1, <2>2 DEF Stopped, Refused
  <2> QED
    BY <2>1, <2>3, SamePlane DEF Refused
<1>4. CASE BadOf(p, x.plane) = {}
  <2>1. Moved(x, y, IF early THEN "single" ELSE "data", x.offset)
    BY <1>4
  <2>2. EndsGood(p, y) /\ From(y) = From(x) /\ y.answer = [kind |-> "None"]
    BY <1>2, <1>4, <2>1 DEF Moved, HeadFits, EndsGood, Ready, From
  <2>3. Underway(p, y, early)
    BY <1>2, <2>1, <2>2 DEF Underway, Moved
  <2> QED
    BY <2>1, <2>3, SamePlane DEF Moved
<1> QED
  BY <1>3, <1>4

LEMMA CheckSingleKeeps ==
  ASSUME NEW p \in Payloads, NEW x, NEW y, Walk(p, x, TRUE), x.at = "single",
         IF Stray(p, x.plane) THEN Refused(x, y, StrayAnswer(p, x.plane))
         ELSE Moved(x, y, "data", x.offset)
  PROVE  Walk(p, y, TRUE)
<1>1. Underway(p, x, TRUE)
  BY WalkTyped
<1>2. /\ EndsGood(p, x) /\ x.offset = From(x) + HeadBytes
      /\ x.answer = [kind |-> "None"] /\ p.size >= Word
  BY <1>1 DEF Underway
<1>3. CASE Stray(p, x.plane)
  <2>1. Refused(x, y, StrayAnswer(p, x.plane))
    BY <1>3
  <2>2. EndsGood(p, y)
    BY <1>2, <2>1 DEF Refused, HeadFits, EndsGood, Ready, From
  <2>3. Stopped(p, y, TRUE)
    BY <1>2, <1>3, <2>1, <2>2 DEF Stopped, Refused
  <2> QED
    BY <2>1, <2>3, SamePlane DEF Refused
<1>4. CASE ~Stray(p, x.plane)
  <2>1. Moved(x, y, "data", x.offset)
    BY <1>4
  <2>2. EndsGood(p, y) /\ From(y) = From(x) /\ y.answer = [kind |-> "None"]
    BY <1>2, <2>1 DEF Moved, HeadFits, EndsGood, Ready, From
  <2>3. Underway(p, y, TRUE)
    BY <1>2, <1>4, <2>1, <2>2 DEF Underway, Moved
  <2> QED
    BY <2>1, <2>3, SamePlane DEF Moved
<1> QED
  BY <1>3, <1>4

\* next is "next" for the inspector and "build" for the decoder.
LEMMA TakeDataKeeps ==
  ASSUME NEW p \in Payloads, NEW early \in BOOLEAN, NEW x, NEW y,
         Walk(p, x, early), x.at = "data",
         IF x.offset + TotalOf(p, x.plane) > InfoOf(p)
         THEN Refused(x, y, Short(p, x.offset, TotalOf(p, x.plane)))
         ELSE /\ y.at = IF early THEN "next" ELSE "build"
              /\ y.plane = x.plane /\ y.answer = x.answer
              /\ y.offset = x.offset + TotalOf(p, x.plane)
              /\ y.layout = Append(x.layout, Part(p, x.plane, x.offset - HeadBytes))
  PROVE  Walk(p, y, early)
<1>1. /\ Underway(p, x, early)
      /\ x.plane \in 1 .. NumPlanes /\ x.plane \in Nat
  BY WalkTyped
<1>2. /\ EndsGood(p, x) /\ x.offset = From(x) + HeadBytes
      /\ early => ~Stray(p, x.plane)
      /\ x.answer = [kind |-> "None"] /\ p.size >= Word
  BY <1>1 DEF Underway
<1>3. Ready(x) /\ BadOf(p, x.plane) = {}
  BY <1>2 DEF EndsGood, HeadFits
<1>4. From(x) \in Nat
  BY <1>3, WalkTyped
<1>5. TotalOf(p, x.plane) \in Nat
  BY <1>1, PayloadFacts
<1>6. CASE x.offset + TotalOf(p, x.plane) > InfoOf(p)
  <2>1. Refused(x, y, Short(p, From(x) + HeadBytes, TotalOf(p, x.plane)))
    BY <1>2, <1>6
  <2>2. EndsGood(p, y) /\ From(y) = From(x)
    BY <1>2, <2>1 DEF Refused, HeadFits, EndsGood, Ready, From
  <2>3. Stopped(p, y, early)
    BY <1>2, <1>6, <2>1, <2>2 DEF Stopped, Refused
  <2> QED
    BY <2>1, <2>3, SamePlane DEF Refused
<1>7. CASE ~(x.offset + TotalOf(p, x.plane) > InfoOf(p))
  <2>1. From(x) + HeadBytes + TotalOf(p, x.plane) <= InfoOf(p)
    BY <1>2, <1>4, <1>5, <1>7, PayloadFacts
  <2>2. x.offset - HeadBytes = From(x)
    BY <1>2, <1>4, PayloadFacts
  <2>3. /\ y.at = IF early THEN "next" ELSE "build"
        /\ y.plane = x.plane /\ y.answer = x.answer
        /\ y.offset = From(x) + HeadBytes + TotalOf(p, x.plane)
        /\ y.layout = Append(x.layout, Part(p, x.plane, From(x)))
    BY <1>2, <1>7, <2>2
  <2>4. Laid(p, x.layout)
    BY DEF Walk
  <2> DEFINE lay == x.layout
             new == y.layout
             q == x.plane
  <2>5. /\ Laid(p, lay) /\ q \in 1 .. NumPlanes /\ BadOf(p, q) = {}
        /\ Len(lay) = q - 1
        /\ Begin(lay, q) + HeadBytes + TotalOf(p, q) <= InfoOf(p)
        /\ new = Extended(p, lay, q)
    BY <1>1, <1>3, <2>1, <2>3, <2>4 DEF Ready, From, Extended
  <2>6. /\ Laid(p, new) /\ Len(new) = q
        /\ Begin(new, q + 1) = Begin(lay, q) + HeadBytes + TotalOf(p, q)
    <3> HIDE DEF lay, new, q
    <3> QED
      BY <2>5, PlaceOne
  <2>7. Underway(p, y, early)
    <3>1. Placed(y)
      BY <2>3, <2>6 DEF Placed
    <3>2. y.answer = [kind |-> "None"] /\ y.offset = Begin(y.layout, y.plane + 1)
      BY <1>2, <2>3, <2>6 DEF From
    <3>3. CASE early
      BY <1>2, <2>3, <3>1, <3>2, <3>3 DEF Underway
    <3>4. CASE ~early
      BY <1>2, <2>3, <3>1, <3>2, <3>4 DEF Underway
    <3> QED
      BY <3>3, <3>4
  <2>8. \A j \in 1 .. y.plane - 1 : ~Stray(p, j)
    BY <2>3 DEF Walk
  <2> QED
    BY <1>1, <2>3, <2>6, <2>7, <2>8 DEF Walk
<1> QED
  BY <1>6, <1>7

LEMMA BuildTableKeeps ==
  ASSUME NEW p \in Payloads, NEW x, NEW y, Walk(p, x, FALSE), x.at = "build",
         \/ y.answer.kind \in BuildErrors /\ Refused(x, y, y.answer)
         \/ IF Stray(p, x.plane) THEN Refused(x, y, StrayAnswer(p, x.plane))
            ELSE Moved(x, y, "next", x.offset)
  PROVE  Walk(p, y, FALSE)
<1>1. Underway(p, x, FALSE)
  BY WalkTyped
<1>2. /\ Placed(x) /\ x.offset = Begin(x.layout, x.plane + 1)
      /\ x.answer = [kind |-> "None"] /\ p.size >= Word
  BY <1>1 DEF Underway
<1>3. CASE y.answer.kind \in BuildErrors /\ Refused(x, y, y.answer)
  <2>1. Stopped(p, y, FALSE)
    BY <1>2, <1>3 DEF Stopped, Refused, Placed
  <2> QED
    BY <1>3, <2>1, SamePlane DEF Refused
<1>4. CASE Stray(p, x.plane) /\ Refused(x, y, StrayAnswer(p, x.plane))
  <2>1. Stopped(p, y, FALSE)
    BY <1>2, <1>4 DEF Stopped, Refused, Placed
  <2> QED
    BY <1>4, <2>1, SamePlane DEF Refused
<1>5. CASE ~Stray(p, x.plane) /\ Moved(x, y, "next", x.offset)
  <2>1. Underway(p, y, FALSE)
    BY <1>2, <1>5 DEF Underway, Moved, Placed
  <2> QED
    BY <1>5, <2>1, SamePlane DEF Moved
<1> QED
  BY <1>3, <1>4, <1>5

LEMMA NextPlaneKeeps ==
  ASSUME NEW p \in Payloads, NEW early \in BOOLEAN, NEW x, NEW y,
         Walk(p, x, early), x.at = "next", x.plane < NumPlanes,
         y.at = "descriptor", y.plane = x.plane + 1,
         y.offset = x.offset, y.layout = x.layout, y.answer = x.answer
  PROVE  Walk(p, y, early)
<1>1. /\ Underway(p, x, early)
      /\ x.plane \in 1 .. NumPlanes /\ x.plane \in Nat
  BY WalkTyped
<1>2. /\ Placed(x) /\ x.offset = Begin(x.layout, x.plane + 1)
      /\ ~Stray(p, x.plane)
      /\ x.answer = [kind |-> "None"] /\ p.size >= Word
  BY <1>1 DEF Underway
<1>3. Ready(y) /\ y.offset = From(y)
  BY <1>1, <1>2 DEF Ready, Placed, From
<1>4. Underway(p, y, early)
  BY <1>2, <1>3 DEF Underway
<1>5. y.plane \in 1 .. NumPlanes
  BY <1>1, PayloadFacts
<1>6. \A q \in 1 .. y.plane - 1 : ~Stray(p, q)
  <2> TAKE q \in 1 .. y.plane - 1
  <2>1. q = x.plane \/ q \in 1 .. x.plane - 1
    BY <1>1
  <2> QED
    BY <1>2, <2>1 DEF Walk
<1> QED
  BY <1>4, <1>5, <1>6 DEF Walk

LEMMA EndOfPlanesKeeps ==
  ASSUME NEW p \in Payloads, NEW early \in BOOLEAN, NEW x, NEW y,
         Walk(p, x, early), x.at = "next", x.plane = NumPlanes,
         Refused(x, y, IF x.offset # InfoOf(p) THEN Leftover(p, x.offset)
                       ELSE [kind |-> "Ok"])
  PROVE  Walk(p, y, early)
<1>1. Underway(p, x, early)
  BY WalkTyped
<1>2. /\ Placed(x) /\ x.offset = Begin(x.layout, x.plane + 1)
      /\ ~Stray(p, x.plane) /\ p.size >= Word
  BY <1>1 DEF Underway
<1>3. Stopped(p, y, early)
  BY <1>2 DEF Stopped, Refused, Placed
<1> QED
  BY <1>3, SamePlane DEF Refused

-----------------------------------------------------------------------------
(* Both walks keep what Walk says *)

\* The first state: nothing is laid out.
LEMMA WalkStarts ==
  ASSUME NEW p \in Payloads, NEW early \in BOOLEAN, NEW x,
         x = [at |-> "enter", plane |-> 1, offset |-> 0, layout |-> << >>,
              answer |-> [kind |-> "None"]]
  PROVE  Walk(p, x, early)
<1>1. Laid(p, x.layout) /\ Len(x.layout) = 0
  BY EmptySeq DEF Laid
<1>2. x.plane \in 1 .. NumPlanes /\ x.plane - 1 = 0
  BY PayloadFacts
<1>3. Underway(p, x, early)
  BY <1>1 DEF Underway, Ready
<1> QED
  BY <1>1, <1>2, <1>3 DEF Walk

LEMMA ParserKeeps ==
  ASSUME payload \in Payloads, Walk(payload, ParserAt, FALSE), Parser!ParseNext
  PROVE  payload' = payload /\ Walk(payload, ParserAt', FALSE)
<1> DEFINE p == payload
           x == ParserAt
           y == ParserAt'
<1>1. /\ x.at = pAt /\ x.plane = pPlane /\ x.offset = pOffset
      /\ x.layout = pLayout /\ x.answer = pAnswer
      /\ y.at = pAt' /\ y.plane = pPlane' /\ y.offset = pOffset'
      /\ y.layout = pLayout' /\ y.answer = pAnswer'
  BY DEF ParserAt
<1>2. /\ Parser!InfoOffset = InfoOf(p)
      /\ Parser!TableBytes = TableBytes
      /\ Parser!Total = TotalOf(p, pPlane)
      /\ Parser!Here.kind = p.planes[pPlane].kind
  BY DEF Parser!InfoOffset, Parser!Word, InfoOf, Word, Parser!TableBytes,
         TableBytes, Parser!Total, Parser!Here, TotalOf, EndOf
<1>3. /\ \A i : Parser!Previous(i) = PrevOf(p, pPlane, i)
      /\ Parser!BadEnds = BadOf(p, pPlane)
  BY DEF Parser!Previous, Parser!Here, PrevOf, EndOf, Parser!BadEnds, BadOf,
         Parser!Word, Word
<1>4. \A n : Parser!TooShort(n) = Short(p, pOffset, n)
  BY <1>2 DEF Parser!TooShort, Short, Parser!Max, Max
<1>5. Walk(p, x, FALSE) /\ p \in Payloads /\ FALSE \in BOOLEAN
  OBVIOUS
<1>6. pPlane \in 1 .. NumPlanes
  BY <1>5, <1>1 DEF Walk
<1>7. CASE Parser!Enter
  <2>1. /\ payload' = p /\ x.at = "enter"
        /\ IF p.size < Word THEN Refused(x, y, [kind |-> "MissingFrameInfo"])
           ELSE Moved(x, y, "descriptor", x.offset)
    BY <1>1, <1>7
       DEF Parser!Enter, Parser!Refuse, Parser!Word, Word, Refused, Moved
  <2> HIDE DEF p, x, y
  <2> QED
    BY <1>5, <2>1, EnterKeeps DEF p, y
<1>8. CASE Parser!TakeDescriptor
  <2>1. /\ payload' = p /\ x.at = "descriptor"
        /\ IF x.offset + DescriptorBytes > InfoOf(p)
           THEN Refused(x, y, Short(p, x.offset, DescriptorBytes))
           ELSE Moved(x, y, "table", x.offset + DescriptorBytes)
    BY <1>1, <1>2, <1>4, <1>8
       DEF Parser!TakeDescriptor, Parser!Take, Parser!Refuse, Refused, Moved
  <2> HIDE DEF p, x, y
  <2> QED
    BY <1>5, <2>1, TakeDescriptorKeeps DEF p, y
<1>9. CASE Parser!TakeTable
  <2>1. /\ payload' = p /\ x.at = "table"
        /\ IF x.offset + TableBytes > InfoOf(p)
           THEN Refused(x, y, Short(p, x.offset, TableBytes))
           ELSE Moved(x, y, "ends", x.offset + TableBytes)
    BY <1>1, <1>2, <1>4, <1>9
       DEF Parser!TakeTable, Parser!Take, Parser!Refuse, Refused, Moved
  <2> HIDE DEF p, x, y
  <2> QED
    BY <1>5, <2>1, TakeTableKeeps DEF p, y
<1>10. CASE Parser!CheckEnds("data")
  <2>1. /\ payload' = p /\ x.at = "ends"
        /\ IF BadOf(p, x.plane) # {} THEN Refused(x, y, BadEnd(p, x.plane))
           ELSE Moved(x, y, "data", x.offset)
    BY <1>1, <1>3, <1>10
       DEF Parser!CheckEnds, Parser!Refuse, Parser!Min, Min, BadEnd, EndOf,
           Parser!Here, Refused, Moved
  <2> HIDE DEF p, x, y
  <2> QED
    BY <1>5, <2>1, CheckEndsKeeps DEF p, y
<1>11. CASE Parser!TakeData("build")
  <2>1. pOffset \in Nat
    <3>1. x.at = "data"
      BY <1>1, <1>11 DEF Parser!TakeData
    <3> HIDE DEF p, x
    <3>2. EndsGood(p, x) /\ x.offset = From(x) + HeadBytes
      BY <1>5, <3>1, WalkTyped DEF Underway
    <3>3. From(x) \in Nat
      BY <1>5, <3>1, <3>2, WalkTyped DEF EndsGood, HeadFits
    <3> QED
      BY <1>1, <3>2, <3>3, PayloadFacts
  <2>2. [descriptor |-> pOffset - Parser!TableBytes - DescriptorBytes,
         table |-> pOffset - Parser!TableBytes, slices |-> Parser!Extents]
          = Part(p, pPlane, pOffset - HeadBytes)
    <3>1. /\ pOffset - TableBytes - DescriptorBytes = pOffset - HeadBytes
          /\ pOffset - TableBytes = pOffset - HeadBytes + DescriptorBytes
          /\ pOffset - HeadBytes + HeadBytes = pOffset
      BY <1>5, <2>1, PayloadFacts
    <3>2. Parser!Extents =
            [i \in 1 .. NumSlices |-> [start |-> pOffset + PrevOf(p, pPlane, i),
                                       end |-> pOffset + EndOf(p, pPlane, i)]]
      BY <1>3 DEF Parser!Extents, Parser!Here, EndOf
    <3> QED
      BY <1>2, <3>1, <3>2 DEF Part
  <2>3. /\ payload' = p /\ x.at = "data"
        /\ IF x.offset + TotalOf(p, x.plane) > InfoOf(p)
           THEN Refused(x, y, Short(p, x.offset, TotalOf(p, x.plane)))
           ELSE /\ y.at = "build"
                /\ y.plane = x.plane /\ y.answer = x.answer
                /\ y.offset = x.offset + TotalOf(p, x.plane)
                /\ y.layout = Append(x.layout, Part(p, x.plane, x.offset - HeadBytes))
    BY <1>1, <1>2, <1>4, <1>11, <2>2 DEF Parser!TakeData, Parser!Refuse, Refused
  <2> HIDE DEF p, x, y
  <2> QED
    BY <1>5, <2>3, TakeDataKeeps DEF p, y
<1>12. CASE Parser!BuildTable
  <2>1. Parser!BuildAnswer(p.planes[pPlane].kind) \in BuildErrors \cup {"Ok"}
    <3>1. p.planes[pPlane].kind \in Kinds
      BY <1>5, <1>6, PayloadFacts
    <3> QED
      BY <3>1 DEF Kinds, BuildErrors, Parser!BuildAnswer
  <2>2. payload' = p /\ x.at = "build"
    BY <1>1, <1>12 DEF Parser!BuildTable, Parser!Refuse
  <2>3. \/ y.answer.kind \in BuildErrors /\ Refused(x, y, y.answer)
        \/ IF Stray(p, x.plane) THEN Refused(x, y, StrayAnswer(p, x.plane))
           ELSE Moved(x, y, "next", x.offset)
    <3>1. CASE Parser!BuildAnswer(p.planes[pPlane].kind) # "Ok"
      BY <1>1, <1>2, <1>12, <2>1, <3>1 DEF Parser!BuildTable, Parser!Refuse, Refused
    <3>2. CASE Parser!BuildAnswer(p.planes[pPlane].kind) = "Ok"
      BY <1>1, <1>2, <1>12, <3>2
         DEF Parser!BuildTable, Parser!Refuse, Refused, Moved, Stray, StrayAnswer,
             Parser!StrayData
    <3> QED
      BY <3>1, <3>2
  <2> HIDE DEF p, x, y
  <2> QED
    BY <1>5, <2>2, <2>3, BuildTableKeeps DEF p, y
<1>13. CASE Parser!NextPlane
  <2>1. /\ payload' = p /\ x.at = "next" /\ x.plane < NumPlanes
        /\ y.at = "descriptor" /\ y.plane = x.plane + 1
        /\ y.offset = x.offset /\ y.layout = x.layout /\ y.answer = x.answer
    BY <1>1, <1>13 DEF Parser!NextPlane
  <2> HIDE DEF p, x, y
  <2> QED
    BY <1>5, <2>1, NextPlaneKeeps DEF p, y
<1>14. CASE Parser!EndOfPlanes
  <2>1. /\ payload' = p /\ x.at = "next" /\ x.plane = NumPlanes
        /\ Refused(x, y, IF x.offset # InfoOf(p) THEN Leftover(p, x.offset)
                         ELSE [kind |-> "Ok"])
    BY <1>1, <1>2, <1>14 DEF Parser!EndOfPlanes, Parser!Refuse, Refused, Leftover
  <2> HIDE DEF p, x, y
  <2> QED
    BY <1>5, <2>1, EndOfPlanesKeeps DEF p, y
<1> QED
  BY <1>7, <1>8, <1>9, <1>10, <1>11, <1>12, <1>13, <1>14 DEF Parser!ParseNext

LEMMA PeekKeeps ==
  ASSUME payload \in Payloads, Walk(payload, PeekAt, TRUE), Peek!PeekNext
  PROVE  payload' = payload /\ Walk(payload, PeekAt', TRUE)
<1> DEFINE p == payload
           x == PeekAt
           y == PeekAt'
<1>1. /\ x.at = iAt /\ x.plane = iPlane /\ x.offset = iOffset
      /\ x.layout = iLayout /\ x.answer = iAnswer
      /\ y.at = iAt' /\ y.plane = iPlane' /\ y.offset = iOffset'
      /\ y.layout = iLayout' /\ y.answer = iAnswer'
  BY DEF PeekAt
<1>2. /\ Peek!InfoOffset = InfoOf(p)
      /\ Peek!TableBytes = TableBytes
      /\ Peek!Total = TotalOf(p, iPlane)
      /\ Peek!Here.kind = p.planes[iPlane].kind
  BY DEF Peek!InfoOffset, Peek!Word, InfoOf, Word, Peek!TableBytes,
         TableBytes, Peek!Total, Peek!Here, TotalOf, EndOf
<1>3. /\ \A i : Peek!Previous(i) = PrevOf(p, iPlane, i)
      /\ Peek!BadEnds = BadOf(p, iPlane)
  BY DEF Peek!Previous, Peek!Here, PrevOf, EndOf, Peek!BadEnds, BadOf,
         Peek!Word, Word
<1>4. \A n : Peek!TooShort(n) = Short(p, iOffset, n)
  BY <1>2 DEF Peek!TooShort, Short, Peek!Max, Max
<1>5. Walk(p, x, TRUE) /\ p \in Payloads /\ TRUE \in BOOLEAN
  OBVIOUS
<1>6. iPlane \in 1 .. NumPlanes
  BY <1>5, <1>1 DEF Walk
<1>7. CASE Peek!Enter
  <2>1. /\ payload' = p /\ x.at = "enter"
        /\ IF p.size < Word THEN Refused(x, y, [kind |-> "MissingFrameInfo"])
           ELSE Moved(x, y, "descriptor", x.offset)
    BY <1>1, <1>7
       DEF Peek!Enter, Peek!Refuse, Peek!Word, Word, Refused, Moved
  <2> HIDE DEF p, x, y
  <2> QED
    BY <1>5, <2>1, EnterKeeps DEF p, y
<1>8. CASE Peek!TakeDescriptor
  <2>1. /\ payload' = p /\ x.at = "descriptor"
        /\ IF x.offset + DescriptorBytes > InfoOf(p)
           THEN Refused(x, y, Short(p, x.offset, DescriptorBytes))
           ELSE Moved(x, y, "table", x.offset + DescriptorBytes)
    BY <1>1, <1>2, <1>4, <1>8
       DEF Peek!TakeDescriptor, Peek!Take, Peek!Refuse, Refused, Moved
  <2> HIDE DEF p, x, y
  <2> QED
    BY <1>5, <2>1, TakeDescriptorKeeps DEF p, y
<1>9. CASE Peek!TakeTable
  <2>1. /\ payload' = p /\ x.at = "table"
        /\ IF x.offset + TableBytes > InfoOf(p)
           THEN Refused(x, y, Short(p, x.offset, TableBytes))
           ELSE Moved(x, y, "ends", x.offset + TableBytes)
    BY <1>1, <1>2, <1>4, <1>9
       DEF Peek!TakeTable, Peek!Take, Peek!Refuse, Refused, Moved
  <2> HIDE DEF p, x, y
  <2> QED
    BY <1>5, <2>1, TakeTableKeeps DEF p, y
<1>10. CASE Peek!CheckEnds("single")
  <2>1. /\ payload' = p /\ x.at = "ends"
        /\ IF BadOf(p, x.plane) # {} THEN Refused(x, y, BadEnd(p, x.plane))
           ELSE Moved(x, y, "single", x.offset)
    BY <1>1, <1>3, <1>10
       DEF Peek!CheckEnds, Peek!Refuse, Peek!Min, Min, BadEnd, EndOf,
           Peek!Here, Refused, Moved
  <2> HIDE DEF p, x, y
  <2> QED
    BY <1>5, <2>1, CheckEndsKeeps DEF p, y
<1>11. CASE Peek!TakeData("next")
  <2>1. iOffset \in Nat
    <3>1. x.at = "data"
      BY <1>1, <1>11 DEF Peek!TakeData
    <3> HIDE DEF p, x
    <3>2. EndsGood(p, x) /\ x.offset = From(x) + HeadBytes
      BY <1>5, <3>1, WalkTyped DEF Underway
    <3>3. From(x) \in Nat
      BY <1>5, <3>1, <3>2, WalkTyped DEF EndsGood, HeadFits
    <3> QED
      BY <1>1, <3>2, <3>3, PayloadFacts
  <2>2. [descriptor |-> iOffset - Peek!TableBytes - DescriptorBytes,
         table |-> iOffset - Peek!TableBytes, slices |-> Peek!Extents]
          = Part(p, iPlane, iOffset - HeadBytes)
    <3>1. /\ iOffset - TableBytes - DescriptorBytes = iOffset - HeadBytes
          /\ iOffset - TableBytes = iOffset - HeadBytes + DescriptorBytes
          /\ iOffset - HeadBytes + HeadBytes = iOffset
      BY <1>5, <2>1, PayloadFacts
    <3>2. Peek!Extents =
            [i \in 1 .. NumSlices |-> [start |-> iOffset + PrevOf(p, iPlane, i),
                                       end |-> iOffset + EndOf(p, iPlane, i)]]
      BY <1>3 DEF Peek!Extents, Peek!Here, EndOf
    <3> QED
      BY <1>2, <3>1, <3>2 DEF Part
  <2>3. /\ payload' = p /\ x.at = "data"
        /\ IF x.offset + TotalOf(p, x.plane) > InfoOf(p)
           THEN Refused(x, y, Short(p, x.offset, TotalOf(p, x.plane)))
           ELSE /\ y.at = "next"
                /\ y.plane = x.plane /\ y.answer = x.answer
                /\ y.offset = x.offset + TotalOf(p, x.plane)
                /\ y.layout = Append(x.layout, Part(p, x.plane, x.offset - HeadBytes))
    BY <1>1, <1>2, <1>4, <1>11, <2>2 DEF Peek!TakeData, Peek!Refuse, Refused
  <2> HIDE DEF p, x, y
  <2> QED
    BY <1>5, <2>3, TakeDataKeeps DEF p, y
<1>12. CASE Peek!CheckSingle
  <2>1. /\ payload' = p /\ x.at = "single"
        /\ IF Stray(p, x.plane) THEN Refused(x, y, StrayAnswer(p, x.plane))
           ELSE Moved(x, y, "data", x.offset)
    BY <1>1, <1>2, <1>12
       DEF Peek!CheckSingle, Peek!Refuse, Refused, Moved, Stray, StrayAnswer,
           Peek!StrayData
  <2> HIDE DEF p, x, y
  <2> QED
    BY <1>5, <2>1, CheckSingleKeeps DEF p, y
<1>13. CASE Peek!NextPlane
  <2>1. /\ payload' = p /\ x.at = "next" /\ x.plane < NumPlanes
        /\ y.at = "descriptor" /\ y.plane = x.plane + 1
        /\ y.offset = x.offset /\ y.layout = x.layout /\ y.answer = x.answer
    BY <1>1, <1>13 DEF Peek!NextPlane
  <2> HIDE DEF p, x, y
  <2> QED
    BY <1>5, <2>1, NextPlaneKeeps DEF p, y
<1>14. CASE Peek!EndOfPlanes
  <2>1. /\ payload' = p /\ x.at = "next" /\ x.plane = NumPlanes
        /\ Refused(x, y, IF x.offset # InfoOf(p) THEN Leftover(p, x.offset)
                         ELSE [kind |-> "Ok"])
    BY <1>1, <1>2, <1>14 DEF Peek!EndOfPlanes, Peek!Refuse, Refused, Leftover
  <2> HIDE DEF p, x, y
  <2> QED
    BY <1>5, <2>1, EndOfPlanesKeeps DEF p, y
<1> QED
  BY <1>7, <1>8, <1>9, <1>10, <1>11, <1>12, <1>13, <1>14 DEF Peek!PeekNext

\* What each walk has established wherever it stands (parse_payload,
\* peek_frame).
THEOREM WhatTheWalksKnow == Spec => []IInv
<1>1. Init => IInv
  <2> SUFFICES ASSUME Init PROVE IInv
    OBVIOUS
  <2>1. payload \in Payloads
    BY DEF Init, Payloads
  <2>2. ParserAt = [at |-> "enter", plane |-> 1, offset |-> 0, layout |-> << >>,
                    answer |-> [kind |-> "None"]]
    BY DEF Init, ParserAt, Parser!WalkInit
  <2>3. PeekAt = [at |-> "enter", plane |-> 1, offset |-> 0, layout |-> << >>,
                  answer |-> [kind |-> "None"]]
    BY DEF Init, PeekAt, Peek!WalkInit
  <2> QED
    BY <2>1, <2>2, <2>3, WalkStarts DEF IInv
<1>2. IInv /\ [Next]_vars => IInv'
  <2> SUFFICES ASSUME IInv, [Next]_vars PROVE IInv'
    OBVIOUS
  <2>1. /\ payload \in Payloads
        /\ Walk(payload, ParserAt, FALSE) /\ Walk(payload, PeekAt, TRUE)
    BY DEF IInv
  <2>2. CASE Parse
    <3>1. payload' = payload /\ Walk(payload, ParserAt', FALSE)
      BY <2>1, <2>2, ParserKeeps DEF Parse
    <3>2. PeekAt' = PeekAt
      BY <2>2 DEF Parse, iVars, PeekAt
    <3> QED
      BY <2>1, <3>1, <3>2 DEF IInv
  <2>3. CASE Inspect
    <3>1. payload' = payload /\ Walk(payload, PeekAt', TRUE)
      BY <2>1, <2>3, PeekKeeps DEF Inspect
    <3>2. ParserAt' = ParserAt
      BY <2>3 DEF Inspect, pVars, ParserAt
    <3> QED
      BY <2>1, <3>1, <3>2 DEF IInv
  <2>4. CASE UNCHANGED vars
    <3>1. payload' = payload /\ ParserAt' = ParserAt /\ PeekAt' = PeekAt
      BY <2>4 DEF vars, pVars, iVars, ParserAt, PeekAt
    <3> QED
      BY <2>1, <3>1 DEF IInv
  <2> QED
    BY <2>2, <2>3, <2>4 DEF Next, Done
<1> QED
  BY <1>1, <1>2, PTL DEF Spec

-----------------------------------------------------------------------------
(* Two walks over one payload *)

\* Two layouts of a payload put every plane they share at the same place.
LEMMA SameStarts ==
  ASSUME NEW p \in Payloads, NEW lay, NEW other,
         Laid(p, lay), Len(lay) <= NumPlanes,
         Laid(p, other), Len(other) <= NumPlanes
  PROVE  \A q \in Nat :
           q \in 1 .. Len(lay) + 1 /\ q \in 1 .. Len(other) + 1
             => Begin(lay, q) = Begin(other, q)
<1> DEFINE shared(q) == q \in 1 .. Len(lay) + 1 /\ q \in 1 .. Len(other) + 1
           T == {q \in Nat : shared(q) /\ Begin(lay, q) # Begin(other, q)}
<1>1. Len(lay) \in Nat /\ Len(other) \in Nat
  BY BeginNext
<1>2. ASSUME T # {} PROVE FALSE
  <2>1. PICK m \in T : \A k \in T : m <= k
    <3>1. T \in SUBSET Nat
      OBVIOUS
    <3> HIDE DEF T
    <3> QED
      BY <1>2, <3>1, LeastNat
  <2>2. m \in Nat /\ shared(m) /\ Begin(lay, m) # Begin(other, m)
    BY <2>1
  <2>3. m # 1
    BY <2>2 DEF Begin
  <2>4. /\ m - 1 \in 1 .. Len(lay) /\ m - 1 \in 1 .. Len(other) /\ m - 1 \in Nat
        /\ (m - 1) + 1 = m /\ shared(m - 1) /\ ~(m <= m - 1)
    BY <1>1, <2>2, <2>3
  <2>5. Begin(lay, m - 1) = Begin(other, m - 1)
    BY <2>1, <2>4
  <2>6. /\ Begin(lay, m) = Begin(lay, m - 1) + HeadBytes + TotalOf(p, m - 1)
        /\ Begin(other, m) = Begin(other, m - 1) + HeadBytes + TotalOf(p, m - 1)
    <3> HIDE DEF T, shared
    <3>1. Begin(lay, (m - 1) + 1) = Begin(lay, m - 1) + HeadBytes + TotalOf(p, m - 1)
      BY <2>4, BeginNext
    <3>2. Begin(other, (m - 1) + 1)
            = Begin(other, m - 1) + HeadBytes + TotalOf(p, m - 1)
      BY <2>4, BeginNext
    <3> QED
      BY <2>4, <3>1, <3>2
  <2> QED
    BY <2>2, <2>5, <2>6
<1> QED
  BY <1>2

\* Two layouts of as many planes are the same.
LEMMA SameLayout ==
  ASSUME NEW p \in Payloads, NEW lay, NEW other,
         Laid(p, lay), Len(lay) <= NumPlanes, Laid(p, other), Len(other) = Len(lay)
  PROVE  lay = other
<1>1. Len(lay) \in Nat
  BY BeginNext
<1>2. ASSUME NEW q \in 1 .. Len(lay) PROVE lay[q] = other[q]
  <2>1. q \in Nat /\ q \in 1 .. Len(lay) + 1 /\ q \in 1 .. Len(other) + 1
    BY <1>1
  <2>2. Begin(lay, q) = Begin(other, q)
    BY <2>1, SameStarts
  <2> QED
    BY <2>2 DEF Laid
<1> QED
  BY <1>2, SeqEqual DEF Laid

\* The answer that a walk gives of plane q when the plane starts at b.
Verdict(p, q, b, answer, early) ==
  \/ p.size < Word /\ answer = [kind |-> "MissingFrameInfo"]
  \/ /\ p.size >= Word
     /\ \/ /\ b + DescriptorBytes > InfoOf(p)
           /\ answer = Short(p, b, DescriptorBytes)
        \/ /\ b + DescriptorBytes <= InfoOf(p) /\ b + HeadBytes > InfoOf(p)
           /\ answer = Short(p, b + DescriptorBytes, TableBytes)
        \/ /\ b + HeadBytes <= InfoOf(p) /\ BadOf(p, q) # {}
           /\ answer = BadEnd(p, q)
        \/ /\ b + HeadBytes <= InfoOf(p) /\ BadOf(p, q) = {}
           /\ Stray(p, q)
           /\ early \/ b + HeadBytes + TotalOf(p, q) <= InfoOf(p)
           /\ answer = StrayAnswer(p, q)
        \/ /\ b + HeadBytes <= InfoOf(p) /\ BadOf(p, q) = {}
           /\ early => ~Stray(p, q)
           /\ b + HeadBytes + TotalOf(p, q) > InfoOf(p)
           /\ answer = Short(p, b + HeadBytes, TotalOf(p, q))
        \/ ~early /\ answer.kind \in BuildErrors
        \/ /\ b + HeadBytes <= InfoOf(p) /\ BadOf(p, q) = {} /\ ~Stray(p, q)
           /\ b + HeadBytes + TotalOf(p, q) <= InfoOf(p) /\ q = NumPlanes
           /\ LET from == b + HeadBytes + TotalOf(p, q)
              IN  answer = IF from = InfoOf(p) THEN [kind |-> "Ok"]
                           ELSE Leftover(p, from)

\* A walk that has stopped has a layout of the planes before the one it
\* stopped at, and perhaps of that one, and its answer is the verdict on it.
LEMMA AtTheStop ==
  ASSUME NEW p \in Payloads, NEW early \in BOOLEAN, NEW x,
         Walk(p, x, early), x.at = "done"
  PROVE  /\ x.plane \in 1 .. NumPlanes /\ x.plane \in Nat
         /\ Laid(p, x.layout) /\ Len(x.layout) \in Nat
         /\ Len(x.layout) = x.plane - 1 \/ Len(x.layout) = x.plane
         /\ Len(x.layout) <= NumPlanes
         /\ From(x) \in Nat
         /\ Verdict(p, x.plane, From(x), x.answer, early)
<1>1. /\ x.plane \in 1 .. NumPlanes /\ x.plane \in Nat /\ Laid(p, x.layout)
      /\ Stopped(p, x, early)
  BY PayloadFacts DEF Walk
<1>2. Len(x.layout) = x.plane - 1 \/ Len(x.layout) = x.plane
  BY <1>1 DEF Stopped, Ready, Placed, HeadFits, EndsGood
<1>3. Len(x.layout) <= NumPlanes
  BY <1>1, <1>2, PayloadFacts
<1>4. Len(x.layout) \in Nat
  BY <1>1, <1>3, BeginNext
<1>5. From(x) \in Nat
  <2>1. x.plane \in 1 .. Len(x.layout) + 1
    BY <1>1, <1>2
  <2> QED
    BY <1>1, <1>3, <2>1, BeginNext DEF From
<1>6. ASSUME Placed(x)
      PROVE  /\ BadOf(p, x.plane) = {}
             /\ From(x) + HeadBytes + TotalOf(p, x.plane) <= InfoOf(p)
             /\ From(x) + HeadBytes <= InfoOf(p)
             /\ Begin(x.layout, x.plane + 1) = From(x) + HeadBytes + TotalOf(p, x.plane)
  <2>1. x.plane \in 1 .. Len(x.layout)
    BY <1>1, <1>6 DEF Placed
  <2>2. /\ BadOf(p, x.plane) = {}
        /\ From(x) + HeadBytes + TotalOf(p, x.plane) <= InfoOf(p)
    BY <1>1, <2>1 DEF Laid, From
  <2>3. Begin(x.layout, x.plane + 1) = From(x) + HeadBytes + TotalOf(p, x.plane)
    BY <1>1, <1>3, <2>1, BeginNext DEF From
  <2>4. TotalOf(p, x.plane) \in Nat
    BY <1>1, PayloadFacts
  <2> QED
    BY <1>5, <2>2, <2>3, <2>4, PayloadFacts
<1>7. Verdict(p, x.plane, From(x), x.answer, early)
  BY <1>1, <1>6 DEF Stopped, Verdict, EndsGood, HeadFits
<1> QED
  BY <1>1, <1>2, <1>3, <1>4, <1>5, <1>7

\* A walk stops at a plane that another one passes only for a codebook.
LEMMA EarlierStop ==
  ASSUME NEW p \in Payloads, NEW x, NEW y, NEW xearly \in BOOLEAN,
         NEW yearly \in BOOLEAN, Walk(p, x, xearly), Walk(p, y, yearly),
         x.at = "done", y.at = "done", x.plane < y.plane
  PROVE  ~xearly /\ x.answer.kind \in BuildErrors
<1> DEFINE q == x.plane
           b == From(x)
<1>1. /\ q \in 1 .. NumPlanes /\ q \in Nat /\ b \in Nat
      /\ Laid(p, x.layout) /\ Len(x.layout) \in Nat /\ Len(x.layout) <= NumPlanes
      /\ q \in 1 .. Len(x.layout) + 1
      /\ Verdict(p, q, b, x.answer, xearly)
  BY AtTheStop
<1>2. /\ y.plane \in 1 .. NumPlanes /\ y.plane \in Nat
      /\ Laid(p, y.layout) /\ Len(y.layout) \in Nat /\ Len(y.layout) <= NumPlanes
      /\ Len(y.layout) = y.plane - 1 \/ Len(y.layout) = y.plane
  BY AtTheStop
<1>3. q \in 1 .. Len(y.layout) /\ q \in 1 .. Len(y.layout) + 1 /\ q # NumPlanes
  BY <1>1, <1>2
<1>4. b = Begin(y.layout, q)
  BY <1>1, <1>2, <1>3, SameStarts DEF From
<1>5. BadOf(p, q) = {} /\ b + HeadBytes + TotalOf(p, q) <= InfoOf(p)
  BY <1>2, <1>3, <1>4 DEF Laid
<1>6. ~Stray(p, q)
  <2>1. q \in 1 .. y.plane - 1
    BY <1>1, <1>2
  <2> QED
    BY <2>1 DEF Walk
<1>7. TotalOf(p, q) \in Nat
  BY <1>1, PayloadFacts
<1> HIDE DEF q, b
<1>8. /\ p.size >= Word /\ ~(p.size < Word)
      /\ ~(b + DescriptorBytes > InfoOf(p)) /\ ~(b + HeadBytes > InfoOf(p))
      /\ ~(b + HeadBytes + TotalOf(p, q) > InfoOf(p))
  <2>1. /\ p.size \in Nat /\ InfoOf(p) \in Int /\ InfoOf(p) = p.size - 4
        /\ DescriptorBytes \in Nat /\ TableBytes \in Nat
        /\ HeadBytes = DescriptorBytes + TableBytes
    BY PayloadFacts
  <2> QED
    BY <1>1, <1>5, <1>7, <2>1 DEF Word
<1> QED
  BY <1>1, <1>3, <1>5, <1>6, <1>8 DEF Verdict

\* Two verdicts on one plane.
LEMMA SameVerdict ==
  ASSUME NEW p \in Payloads, NEW q \in 1 .. NumPlanes, NEW b \in Nat,
         NEW answer, NEW other,
         Verdict(p, q, b, answer, FALSE), Verdict(p, q, b, other, TRUE)
  PROVE  \/ other = answer
         \/ answer.kind \in BuildErrors
         \/ /\ answer.kind = "ChunkTooShort"
            /\ other.kind = "SingleSymbolPlaneHasSliceData"
<1>1. TotalOf(p, q) \in Nat
  BY PayloadFacts
<1>2. /\ p.size < Word <=> ~(p.size >= Word)
      /\ b + DescriptorBytes > InfoOf(p) <=> ~(b + DescriptorBytes <= InfoOf(p))
      /\ b + HeadBytes > InfoOf(p) <=> ~(b + HeadBytes <= InfoOf(p))
      /\ b + HeadBytes + TotalOf(p, q) > InfoOf(p)
           <=> ~(b + HeadBytes + TotalOf(p, q) <= InfoOf(p))
      /\ b + DescriptorBytes > InfoOf(p) => b + HeadBytes > InfoOf(p)
  BY <1>1, PayloadFacts DEF Word
<1>3. /\ \A f, n : Short(p, f, n).kind = "ChunkTooShort"
      /\ StrayAnswer(p, q).kind = "SingleSymbolPlaneHasSliceData"
  BY DEF Short, StrayAnswer
<1> QED
  BY <1>2, <1>3 DEF Verdict

\* A payload is accepted only when all of its planes are laid out, up to
\* where frame_info begins.
LEMMA Accepted ==
  ASSUME NEW p \in Payloads, NEW early \in BOOLEAN, NEW x, Walk(p, x, early),
         x.at = "done", x.answer.kind = "Ok"
  PROVE  /\ x.plane = NumPlanes /\ Len(x.layout) = NumPlanes
         /\ Begin(x.layout, NumPlanes + 1) = InfoOf(p)
         /\ p.size >= Word
<1>1. Stopped(p, x, early)
  BY DEF Walk
<1>2. /\ \A f, n : Short(p, f, n).kind # "Ok"
      /\ \A q : BadEnd(p, q).kind # "Ok" /\ StrayAnswer(p, q).kind # "Ok"
      /\ \A f : Leftover(p, f).kind # "Ok"
      /\ "Ok" \notin BuildErrors
      /\ [kind |-> "MissingFrameInfo"].kind # "Ok"
  BY DEF Short, BadEnd, StrayAnswer, Leftover, BuildErrors
<1> QED
  BY <1>1, <1>2 DEF Stopped, Placed

\* What the decoder accepts the inspector accepts with the same extents, and
\* where they refuse differently the decoder stopped at a codebook, or a
\* single-symbol plane's stray data is cut off (WalksAgree; parse_payload,
\* peek_frame).
THEOREM TheWalksAgree == Spec => []WalksAgree
<1>1. IInv => WalksAgree
  <2> SUFFICES ASSUME IInv, BothDone PROVE
        /\ pAnswer.kind = "Ok" => iAnswer.kind = "Ok" /\ iLayout = pLayout
        /\ iAnswer # pAnswer =>
             \/ pAnswer.kind \in BuildErrors
             \/ /\ pAnswer.kind = "ChunkTooShort"
                /\ iAnswer.kind = "SingleSymbolPlaneHasSliceData"
                /\ iPlane = pPlane
    BY DEF WalksAgree
  <2> DEFINE p == payload
             x == ParserAt
             y == PeekAt
  <2>1. /\ p \in Payloads /\ Walk(p, x, FALSE) /\ Walk(p, y, TRUE)
        /\ x.at = "done" /\ y.at = "done"
    BY DEF IInv, BothDone, ParserAt, PeekAt
  <2>2. /\ x.plane = pPlane /\ x.answer = pAnswer /\ x.layout = pLayout
        /\ y.plane = iPlane /\ y.answer = iAnswer /\ y.layout = iLayout
    BY DEF ParserAt, PeekAt
  <2> HIDE DEF p, x, y
  <2>3. /\ x.plane \in 1 .. NumPlanes /\ x.plane \in Nat
        /\ Laid(p, x.layout) /\ Len(x.layout) \in Nat
        /\ Len(x.layout) = x.plane - 1 \/ Len(x.layout) = x.plane
        /\ Len(x.layout) <= NumPlanes /\ From(x) \in Nat
        /\ Verdict(p, x.plane, From(x), x.answer, FALSE)
    BY <2>1, AtTheStop
  <2>4. /\ y.plane \in 1 .. NumPlanes /\ y.plane \in Nat
        /\ Laid(p, y.layout) /\ Len(y.layout) \in Nat
        /\ Len(y.layout) = y.plane - 1 \/ Len(y.layout) = y.plane
        /\ Len(y.layout) <= NumPlanes /\ From(y) \in Nat
        /\ Verdict(p, y.plane, From(y), y.answer, TRUE)
    BY <2>1, AtTheStop
  <2>5. ~(y.plane < x.plane)
    BY <2>1, EarlierStop
  <2>6. CASE x.plane < y.plane
    <3>1. x.answer.kind \in BuildErrors
      BY <2>1, <2>6, EarlierStop
    <3> QED
      BY <2>2, <3>1 DEF BuildErrors
  <2>7. CASE x.plane = y.plane
    <3>1. From(y) = From(x)
      <4>1. x.plane \in 1 .. Len(x.layout) + 1 /\ x.plane \in 1 .. Len(y.layout) + 1
        BY <2>3, <2>4, <2>7
      <4> QED
        BY <2>1, <2>3, <2>4, <2>7, <4>1, SameStarts DEF From
    <3>2. \/ y.answer = x.answer
          \/ x.answer.kind \in BuildErrors
          \/ /\ x.answer.kind = "ChunkTooShort"
             /\ y.answer.kind = "SingleSymbolPlaneHasSliceData"
      BY <2>1, <2>3, <2>4, <2>7, <3>1, SameVerdict
    <3>3. ASSUME x.answer.kind = "Ok"
          PROVE  y.answer.kind = "Ok" /\ y.layout = x.layout
      <4>1. y.answer.kind = "Ok"
        BY <3>2, <3>3 DEF BuildErrors
      <4>2. Len(x.layout) = NumPlanes /\ Len(y.layout) = NumPlanes
        BY <2>1, <3>3, <4>1, Accepted
      <4> QED
        BY <2>1, <2>3, <2>4, <4>1, <4>2, SameLayout
    <3> QED
      BY <2>2, <2>7, <3>2, <3>3
  <2> QED
    BY <2>3, <2>4, <2>5, <2>6, <2>7
<1> QED
  BY <1>1, WhatTheWalksKnow, PTL

-----------------------------------------------------------------------------
(* Every byte in one part *)

In(c, part) == c >= part[1] /\ c < part[2]

\* The parts of plane q when it starts at b.
PartsOf(p, q, b) ==
  {<<b, b + DescriptorBytes>>, <<b + DescriptorBytes, b + HeadBytes>>}
    \cup {<<b + HeadBytes + PrevOf(p, q, i), b + HeadBytes + EndOf(p, q, i)>> :
            i \in 1 .. NumSlices}

\* The slice ends of a plane that has passed its checks rise in whole words.
LEMMA EndsRise ==
  ASSUME NEW p \in Payloads, NEW q \in 1 .. NumPlanes, BadOf(p, q) = {}
  PROVE  /\ PrevOf(p, q, 1) = 0
         /\ \A i \in 1 .. NumSlices :
              /\ PrevOf(p, q, i) <= EndOf(p, q, i)
              /\ EndOf(p, q, i) <= TotalOf(p, q)
              /\ PrevOf(p, q, i) % 4 = 0 /\ EndOf(p, q, i) % 4 = 0
         /\ \A i, j \in 1 .. NumSlices : i < j => EndOf(p, q, i) <= PrevOf(p, q, j)
<1> DEFINE f == [i \in 1 .. NumSlices |-> EndOf(p, q, i)]
<1>1. /\ NumSlices \in Nat \ {0}
      /\ \A i \in 1 .. NumSlices : EndOf(p, q, i) \in Nat /\ PrevOf(p, q, i) \in Nat
  BY PayloadFacts
<1>2. \A i \in 1 .. NumSlices :
        PrevOf(p, q, i) <= EndOf(p, q, i) /\ EndOf(p, q, i) % 4 = 0
  <2> TAKE i \in 1 .. NumSlices
  <2>1. ~(EndOf(p, q, i) < PrevOf(p, q, i) \/ EndOf(p, q, i) % Word # 0)
    BY DEF BadOf
  <2> QED
    BY <1>1, <2>1 DEF Word
<1>3. \A i \in 1 .. NumSlices - 1 : EndOf(p, q, i) <= EndOf(p, q, i + 1)
  <2> TAKE i \in 1 .. NumSlices - 1
  <2>1. i + 1 \in 1 .. NumSlices /\ i + 1 # 1 /\ (i + 1) - 1 = i
    BY <1>1
  <2>2. PrevOf(p, q, i + 1) = EndOf(p, q, i)
    BY <2>1 DEF PrevOf
  <2> QED
    BY <1>2, <2>1, <2>2
<1>4. \A i, j \in 1 .. NumSlices : i <= j => EndOf(p, q, i) <= EndOf(p, q, j)
  <2>1. \A i \in 1 .. NumSlices : f[i] = EndOf(p, q, i)
    OBVIOUS
  <2>2. \A i \in 1 .. NumSlices - 1 : f[i] <= f[i + 1]
    <3> TAKE i \in 1 .. NumSlices - 1
    <3>1. i \in 1 .. NumSlices /\ i + 1 \in 1 .. NumSlices
      BY <1>1
    <3> QED
      BY <1>3, <2>1, <3>1
  <2> HIDE DEF f
  <2>3. \A i, j \in 1 .. NumSlices : i <= j => f[i] <= f[j]
    BY <1>1, <2>1, <2>2, Rising
  <2> QED
    BY <2>1, <2>3
<1>5. PrevOf(p, q, 1) = 0
  BY DEF PrevOf
<1>6. ASSUME NEW i \in 1 .. NumSlices
      PROVE  /\ EndOf(p, q, i) <= TotalOf(p, q)
             /\ PrevOf(p, q, i) % 4 = 0
  <2>1. NumSlices \in 1 .. NumSlices /\ i <= NumSlices
    BY <1>1
  <2>2. EndOf(p, q, i) <= TotalOf(p, q)
    BY <1>4, <2>1 DEF TotalOf
  <2>3. CASE i = 1
    BY <1>5, <2>2, <2>3
  <2>4. CASE i # 1
    <3>1. i - 1 \in 1 .. NumSlices
      BY <1>1, <2>4
    <3> QED
      BY <1>2, <2>2, <2>4, <3>1 DEF PrevOf
  <2> QED
    BY <2>3, <2>4
<1>7. ASSUME NEW i \in 1 .. NumSlices, NEW j \in 1 .. NumSlices, i < j
      PROVE  EndOf(p, q, i) <= PrevOf(p, q, j)
  <2>1. j # 1 /\ j - 1 \in 1 .. NumSlices /\ i <= j - 1
    BY <1>1, <1>7
  <2> QED
    BY <1>4, <2>1 DEF PrevOf
<1> QED
  BY <1>2, <1>5, <1>6, <1>7

\* The parts of a plane lie in it, and each byte of it is in one of them.
LEMMA OnePartOfPlane ==
  ASSUME NEW p \in Payloads, NEW q \in 1 .. NumPlanes, BadOf(p, q) = {},
         NEW b \in Nat, NEW c \in Nat
  PROVE  /\ \A part \in PartsOf(p, q, b) :
              In(c, part) => b <= c /\ c < b + HeadBytes + TotalOf(p, q)
         /\ b <= c /\ c < b + HeadBytes + TotalOf(p, q)
              => \E part \in PartsOf(p, q, b) : In(c, part)
         /\ \A part, other \in PartsOf(p, q, b) :
              In(c, part) /\ In(c, other) => part = other
<1> DEFINE h == b + HeadBytes
           slice(i) == <<h + PrevOf(p, q, i), h + EndOf(p, q, i)>>
           descriptor == <<b, b + DescriptorBytes>>
           table == <<b + DescriptorBytes, h>>
<1>1. /\ NumSlices \in Nat \ {0} /\ TotalOf(p, q) \in Nat
      /\ DescriptorBytes \in Nat /\ TableBytes \in Nat
      /\ h = b + DescriptorBytes + TableBytes /\ h \in Nat
      /\ \A i \in 1 .. NumSlices : EndOf(p, q, i) \in Nat /\ PrevOf(p, q, i) \in Nat
  BY PayloadFacts
<1>2. /\ PrevOf(p, q, 1) = 0
      /\ \A i \in 1 .. NumSlices :
           /\ PrevOf(p, q, i) <= EndOf(p, q, i)
           /\ EndOf(p, q, i) <= TotalOf(p, q)
      /\ \A i, j \in 1 .. NumSlices : i < j => EndOf(p, q, i) <= PrevOf(p, q, j)
  BY EndsRise
<1>3. PartsOf(p, q, b) = {descriptor, table} \cup {slice(i) : i \in 1 .. NumSlices}
  BY DEF PartsOf
<1>4. /\ In(c, descriptor) <=> b <= c /\ c < b + DescriptorBytes
      /\ In(c, table) <=> b + DescriptorBytes <= c /\ c < h
      /\ \A i \in 1 .. NumSlices :
           In(c, slice(i)) <=> h + PrevOf(p, q, i) <= c /\ c < h + EndOf(p, q, i)
  BY <1>1 DEF In
<1> HIDE DEF h, slice, descriptor, table
<1>5. \A i \in 1 .. NumSlices : In(c, slice(i)) => h <= c /\ c < h + TotalOf(p, q)
  <2> TAKE i \in 1 .. NumSlices
  <2>1. /\ EndOf(p, q, i) \in Nat /\ PrevOf(p, q, i) \in Nat
        /\ EndOf(p, q, i) <= TotalOf(p, q)
        /\ In(c, slice(i)) <=> h + PrevOf(p, q, i) <= c /\ c < h + EndOf(p, q, i)
    BY <1>1, <1>2, <1>4
  <2> QED
    BY <1>1, <2>1
<1>6. \A i, j \in 1 .. NumSlices : In(c, slice(i)) /\ In(c, slice(j)) => i = j
  <2>1. ASSUME NEW i \in 1 .. NumSlices, NEW j \in 1 .. NumSlices, i < j,
               In(c, slice(i)), In(c, slice(j))
        PROVE  FALSE
    <3>1. /\ EndOf(p, q, i) \in Nat /\ PrevOf(p, q, j) \in Nat
          /\ EndOf(p, q, i) <= PrevOf(p, q, j)
          /\ c < h + EndOf(p, q, i) /\ h + PrevOf(p, q, j) <= c
      BY <1>1, <1>2, <1>4, <2>1
    <3> QED
      BY <1>1, <3>1
  <2>2. \A i, j \in 1 .. NumSlices : i < j \/ j < i \/ i = j
    BY <1>1
  <2> QED
    BY <2>1, <2>2
<1>7. ASSUME h <= c, c < h + TotalOf(p, q)
      PROVE  \E i \in 1 .. NumSlices : In(c, slice(i))
  <2> DEFINE T == {i \in Nat : i \in 1 .. NumSlices /\ c < h + EndOf(p, q, i)}
  <2>1. NumSlices \in T
    BY <1>1, <1>7 DEF TotalOf
  <2>2. PICK m \in T : \A k \in T : m <= k
    <3>1. T \in SUBSET Nat /\ T # {}
      BY <2>1
    <3> HIDE DEF T
    <3> QED
      BY <3>1, LeastNat
  <2>3. m \in 1 .. NumSlices /\ m \in Nat /\ c < h + EndOf(p, q, m)
    BY <2>2
  <2>4. h + PrevOf(p, q, m) <= c
    <3>1. CASE m = 1
      BY <1>1, <1>2, <1>7, <3>1
    <3>2. CASE m # 1
      <4>1. m - 1 \in 1 .. NumSlices /\ m - 1 \in Nat /\ ~(m <= m - 1)
        BY <1>1, <2>3, <3>2
      <4>2. ~(c < h + EndOf(p, q, m - 1))
        BY <2>2, <4>1
      <4>3. EndOf(p, q, m - 1) \in Nat
        BY <1>1, <4>1
      <4> QED
        BY <1>1, <3>2, <4>2, <4>3 DEF PrevOf
    <3> QED
      BY <3>1, <3>2
  <2> QED
    BY <1>4, <2>3, <2>4
<1>8. ASSUME NEW part \in PartsOf(p, q, b), In(c, part)
      PROVE  b <= c /\ c < h + TotalOf(p, q)
  <2>1. CASE part = descriptor \/ part = table
    BY <1>1, <1>4, <1>8, <2>1
  <2>2. CASE \E i \in 1 .. NumSlices : part = slice(i)
    BY <1>1, <1>5, <1>8, <2>2
  <2> QED
    BY <1>3, <2>1, <2>2
<1>9. ASSUME b <= c, c < h + TotalOf(p, q)
      PROVE  \E part \in PartsOf(p, q, b) : In(c, part)
  <2>1. CASE c < b + DescriptorBytes
    BY <1>3, <1>4, <1>9, <2>1
  <2>2. CASE ~(c < b + DescriptorBytes) /\ c < h
    BY <1>1, <1>3, <1>4, <2>2
  <2>3. CASE ~(c < h)
    <3>1. h <= c
      BY <1>1, <2>3
    <3> QED
      BY <1>3, <1>7, <1>9, <3>1
  <2> QED
    BY <2>1, <2>2, <2>3
<1>10. ASSUME NEW part \in PartsOf(p, q, b), NEW other \in PartsOf(p, q, b),
              In(c, part), In(c, other)
       PROVE  part = other
  <2>1. /\ In(c, descriptor) => ~In(c, table)
        /\ \A i \in 1 .. NumSlices :
             In(c, slice(i)) => ~In(c, descriptor) /\ ~In(c, table)
    BY <1>1, <1>4, <1>5
  <2> QED
    BY <1>3, <1>6, <1>10, <2>1
<1> QED
  BY <1>8, <1>9, <1>10 DEF h

\* The parts of a layout are those of its planes, and frame_info.
LEMMA PartsByPlane ==
  ASSUME payload \in Payloads, NEW lay, Laid(payload, lay), Len(lay) <= NumPlanes
  PROVE  Parts(lay) =
           (UNION {PartsOf(payload, q, Begin(lay, q)) : q \in 1 .. Len(lay)})
             \cup {<<payload.size - 4, payload.size>>}
<1> DEFINE p == payload
<1>1. DOMAIN lay = 1 .. Len(lay)
  BY LenProperties DEF Laid
<1>2. 1 \in 1 .. NumSlices
  BY PayloadFacts
<1>3. ASSUME NEW q \in 1 .. Len(lay)
      PROVE  /\ lay[q].descriptor = Begin(lay, q)
             /\ lay[q].table = Begin(lay, q) + DescriptorBytes
             /\ lay[q].slices[1].start = Begin(lay, q) + HeadBytes
             /\ \A i \in 1 .. NumSlices :
                  /\ lay[q].slices[i].start = Begin(lay, q) + HeadBytes + PrevOf(p, q, i)
                  /\ lay[q].slices[i].end = Begin(lay, q) + HeadBytes + EndOf(p, q, i)
  <2>1. lay[q] = Part(p, q, Begin(lay, q))
    BY DEF Laid
  <2>2. \A i \in 1 .. NumSlices :
          /\ lay[q].slices[i].start = Begin(lay, q) + HeadBytes + PrevOf(p, q, i)
          /\ lay[q].slices[i].end = Begin(lay, q) + HeadBytes + EndOf(p, q, i)
    BY <2>1 DEF Part
  <2>3. Begin(lay, q) \in Nat
    <3>1. q \in 1 .. Len(lay) + 1
      BY BeginNext
    <3> QED
      BY <3>1, BeginNext
  <2>4. lay[q].slices[1].start = Begin(lay, q) + HeadBytes
    BY <1>2, <2>2, <2>3, PayloadFacts DEF PrevOf
  <2> QED
    BY <2>1, <2>2, <2>4 DEF Part
<1> DEFINE heads == UNION {{<<lay[q].descriptor, lay[q].table>>,
                            <<lay[q].table, lay[q].slices[1].start>>} :
                              q \in DOMAIN lay}
           slices == UNION {{<<lay[q].slices[s].start, lay[q].slices[s].end>> :
                               s \in 1 .. NumSlices} : q \in DOMAIN lay}
           b(q) == Begin(lay, q)
           all == UNION {PartsOf(p, q, b(q)) : q \in 1 .. Len(lay)}
<1>4. heads = UNION {{<<b(q), b(q) + DescriptorBytes>>,
                      <<b(q) + DescriptorBytes, b(q) + HeadBytes>>} :
                        q \in 1 .. Len(lay)}
  BY <1>1, <1>3
<1>5. slices = UNION {{<<b(q) + HeadBytes + PrevOf(p, q, s),
                         b(q) + HeadBytes + EndOf(p, q, s)>> :
                           s \in 1 .. NumSlices} : q \in 1 .. Len(lay)}
  BY <1>1, <1>3
<1>6. all = heads \cup slices
  <2> HIDE DEF b, heads, slices
  <2> QED
    BY <1>4, <1>5 DEF PartsOf
<1>7. Parts(lay) = heads \cup slices \cup {<<payload.size - 4, payload.size>>}
  BY DEF Parts
<1> HIDE DEF heads, slices, all
<1> QED
  BY <1>6, <1>7 DEF all

\* Every byte of an accepted payload belongs to one part of it, and every
\* slice is a number of whole words (EveryByteOnce; parse_payload).
THEOREM EveryByteHasOnePart == Spec => []EveryByteOnce
<1>1. IInv => EveryByteOnce
  <2> SUFFICES ASSUME IInv, pAnswer.kind = "Ok" PROVE
        /\ \A c \in 0 .. payload.size - 1 :
             Cardinality({part \in Parts(pLayout) : c >= part[1] /\ c < part[2]}) = 1
        /\ \A q \in DOMAIN pLayout, s \in 1 .. NumSlices :
             LET slice == pLayout[q].slices[s]
             IN  slice.end >= slice.start /\ (slice.end - slice.start) % 4 = 0
    BY DEF EveryByteOnce
  <2> DEFINE p == payload
             x == ParserAt
             N == NumPlanes
             b(q) == Begin(pLayout, q)
             info == <<p.size - 4, p.size>>
  <2>1. /\ p \in Payloads /\ Walk(p, x, FALSE)
        /\ x.plane = pPlane /\ x.answer = pAnswer /\ x.layout = pLayout
    BY DEF IInv, ParserAt
  <2>2. x.at = "done"
    <3> SUFFICES ASSUME x.at # "done" PROVE FALSE
      OBVIOUS
    <3>1. Underway(p, x, FALSE)
      BY <2>1 DEF Walk
    <3>2. pAnswer = [kind |-> "None"]
      BY <2>1, <3>1 DEF Underway
    <3> QED
      BY <3>2
  <2>3. /\ Len(pLayout) = N /\ b(N + 1) = InfoOf(p) /\ p.size >= Word
        /\ Laid(p, pLayout)
    <3> HIDE DEF p, x
    <3>1. Laid(p, x.layout)
      BY <2>1 DEF Walk
    <3> QED
      BY <2>1, <2>2, <3>1, Accepted
  <2>4. /\ N \in Nat \ {0} /\ p.size \in Nat /\ InfoOf(p) = p.size - 4
        /\ InfoOf(p) \in Nat /\ HeadBytes \in Nat
        /\ \A q \in 1 .. N : TotalOf(p, q) \in Nat
    BY <2>1, <2>3, PayloadFacts DEF Word
  <2>5. \A q \in 1 .. N + 1 : b(q) \in Nat
    BY <2>1, <2>3, <2>4, BeginNext
  <2>6. \A q \in 1 .. N :
          b(q + 1) = b(q) + HeadBytes + TotalOf(p, q) /\ BadOf(p, q) = {}
    <3>1. \A q \in 1 .. N : b(q + 1) = b(q) + HeadBytes + TotalOf(p, q)
      <4>1. Len(pLayout) <= NumPlanes
        BY <2>3, <2>4
      <4> HIDE DEF p, x
      <4> QED
        BY <2>1, <2>3, <4>1, BeginNext
    <3> QED
      BY <2>3, <3>1 DEF Laid
  <2>7. \A j, k \in 1 .. N + 1 : j <= k => b(j) <= b(k)
    <3> DEFINE f == [q \in 1 .. N + 1 |-> b(q)]
    <3>1. \A q \in 1 .. N + 1 : f[q] = b(q) /\ f[q] \in Int
      BY <2>5
    <3>2. \A q \in 1 .. (N + 1) - 1 : f[q] <= f[q + 1]
      <4> TAKE q \in 1 .. (N + 1) - 1
      <4>1. q \in 1 .. N /\ q \in 1 .. N + 1 /\ q + 1 \in 1 .. N + 1
        BY <2>4
      <4>2. b(q) <= b(q + 1)
        <5>1. /\ b(q) \in Nat /\ TotalOf(p, q) \in Nat
              /\ b(q + 1) = b(q) + HeadBytes + TotalOf(p, q)
          BY <2>4, <2>5, <2>6, <4>1
        <5> HIDE DEF b
        <5> QED
          BY <2>4, <5>1
      <4> QED
        BY <3>1, <4>1, <4>2
    <3>3. N + 1 \in Nat
      BY <2>4
    <3> HIDE DEF f
    <3>4. \A j, k \in 1 .. N + 1 : j <= k => f[j] <= f[k]
      BY <3>1, <3>2, <3>3, Rising
    <3> QED
      BY <3>1, <3>4
  <2>8. Parts(pLayout) = (UNION {PartsOf(p, q, b(q)) : q \in 1 .. N}) \cup {info}
    <3>1. payload \in Payloads /\ Laid(payload, pLayout) /\ Len(pLayout) = N
      BY <2>1, <2>3
    <3>2. Len(pLayout) <= NumPlanes
      BY <2>4, <3>1
    <3> QED
      BY <3>1, <3>2, PartsByPlane
  <2>9. ASSUME NEW c \in 0 .. p.size - 1
        PROVE  Cardinality({part \in Parts(pLayout) : c >= part[1] /\ c < part[2]}) = 1
    <3> DEFINE holders == {part \in Parts(pLayout) : In(c, part)}
    <3>1. c \in Nat /\ c < p.size
      BY <2>4
    <3>2. In(c, info) <=> InfoOf(p) <= c
      BY <2>4, <3>1 DEF In
    <3>3. ASSUME NEW q \in 1 .. N
          PROVE  /\ \A part \in PartsOf(p, q, b(q)) :
                      In(c, part) => b(q) <= c /\ c < b(q + 1)
                 /\ b(q) <= c /\ c < b(q + 1)
                      => \E part \in PartsOf(p, q, b(q)) : In(c, part)
                 /\ \A part, other \in PartsOf(p, q, b(q)) :
                      In(c, part) /\ In(c, other) => part = other
      <4>1. /\ b(q) \in Nat /\ BadOf(p, q) = {}
            /\ b(q + 1) = b(q) + HeadBytes + TotalOf(p, q)
        <5>1. q \in 1 .. N + 1
          BY <2>4
        <5> QED
          BY <2>5, <2>6, <5>1
      <4> HIDE DEF b, p, N
      <4> QED
        BY <2>1, <3>1, <4>1, OnePartOfPlane DEF N
    <3> HIDE DEF info, b, p, N
    \* Two planes have no byte in common.
    <3>4. ASSUME NEW q \in 1 .. N, NEW r \in 1 .. N,
                 b(q) <= c, c < b(q + 1), b(r) <= c, c < b(r + 1)
          PROVE  q = r
      <4>1. ASSUME NEW j \in 1 .. N, NEW k \in 1 .. N, j < k, c < b(j + 1), b(k) <= c
            PROVE  FALSE
        <5>1. j + 1 \in 1 .. N + 1 /\ k \in 1 .. N + 1 /\ j + 1 <= k
          BY <2>4, <4>1
        <5>2. b(j + 1) <= b(k) /\ b(j + 1) \in Nat /\ b(k) \in Nat
          BY <2>5, <2>7, <5>1
        <5> QED
          BY <3>1, <4>1, <5>2
      <4>2. q < r \/ r < q \/ q = r
        BY <2>4
      <4> QED
        BY <3>4, <4>1, <4>2
    <3>5. \E part \in Parts(pLayout) : In(c, part)
      <4>1. CASE InfoOf(p) <= c
        BY <2>8, <3>2, <4>1
      <4>2. CASE ~(InfoOf(p) <= c)
        <5> DEFINE T == {q \in Nat : q \in 1 .. N /\ c < b(q + 1)}
        <5>1. N \in T
          BY <2>3, <2>4, <3>1, <4>2
        <5>2. PICK m \in T : \A k \in T : m <= k
          <6>1. T \in SUBSET Nat /\ T # {}
            BY <5>1
          <6> HIDE DEF T
          <6> QED
            BY <6>1, LeastNat
        <5>3. m \in 1 .. N /\ m \in Nat /\ c < b(m + 1)
          BY <5>2
        <5>4. b(m) <= c
          <6>1. CASE m = 1
            BY <3>1, <6>1 DEF b, Begin
          <6>2. CASE m # 1
            <7>1. /\ m - 1 \in 1 .. N /\ m - 1 \in Nat /\ ~(m <= m - 1)
                  /\ (m - 1) + 1 = m /\ m \in 1 .. N + 1
              BY <2>4, <5>3, <6>2
            <7>2. ~(c < b((m - 1) + 1))
              BY <5>2, <7>1
            <7>3. ~(c < b(m)) /\ b(m) \in Nat
              BY <2>5, <7>1, <7>2
            <7> QED
              BY <3>1, <7>3
          <6> QED
            BY <6>1, <6>2
        <5> HIDE DEF T
        <5> QED
          BY <2>8, <3>3, <5>3, <5>4
      <4> QED
        BY <4>1, <4>2
    <3>6. ASSUME NEW part \in Parts(pLayout), NEW other \in Parts(pLayout),
                 In(c, part), In(c, other)
          PROVE  part = other
      <4>1. \A a \in Parts(pLayout) : a = info \/ \E q \in 1 .. N : a \in PartsOf(p, q, b(q))
        BY <2>8
      \* No plane reaches into frame_info.
      <4>2. ASSUME NEW q \in 1 .. N, NEW a \in PartsOf(p, q, b(q)), In(c, a), In(c, info)
            PROVE  FALSE
        <5>1. q + 1 \in 1 .. N + 1 /\ N + 1 \in 1 .. N + 1 /\ q + 1 <= N + 1
          BY <2>4
        <5>2. b(q + 1) <= b(N + 1) /\ b(q + 1) \in Nat
          BY <2>5, <2>7, <5>1
        <5>3. c < b(q + 1) /\ InfoOf(p) <= c
          BY <3>2, <3>3, <4>2
        <5> QED
          BY <2>3, <2>4, <3>1, <5>2, <5>3
      <4>3. ASSUME NEW q \in 1 .. N, NEW r \in 1 .. N,
                   part \in PartsOf(p, q, b(q)), other \in PartsOf(p, r, b(r))
            PROVE  part = other
        <5>1. q = r
          BY <3>3, <3>4, <3>6, <4>3
        <5> QED
          BY <3>3, <3>6, <4>3, <5>1
      <4> QED
        BY <3>6, <4>1, <4>2, <4>3
    <3>7. \E part : holders = {part}
      BY <3>5, <3>6
    <3>8. Cardinality(holders) = 1
      <4> HIDE DEF holders
      <4> QED
        BY <3>7, FS_Singleton
    <3> QED
      BY <3>8 DEF In
  <2>10. ASSUME NEW q \in DOMAIN pLayout, NEW s \in 1 .. NumSlices
         PROVE  LET slice == pLayout[q].slices[s]
                IN  slice.end >= slice.start /\ (slice.end - slice.start) % 4 = 0
    <3>1. q \in 1 .. N
      BY <2>3, LenProperties DEF Laid
    <3>2. pLayout[q] = Part(p, q, b(q)) /\ BadOf(p, q) = {}
      BY <2>3, <3>1 DEF Laid
    <3>3. /\ pLayout[q].slices[s].start = b(q) + HeadBytes + PrevOf(p, q, s)
          /\ pLayout[q].slices[s].end = b(q) + HeadBytes + EndOf(p, q, s)
      BY <3>2 DEF Part
    <3>4. /\ PrevOf(p, q, s) <= EndOf(p, q, s)
          /\ PrevOf(p, q, s) % 4 = 0 /\ EndOf(p, q, s) % 4 = 0
      BY <2>1, <3>1, <3>2, EndsRise
    <3>5. PrevOf(p, q, s) \in Nat /\ EndOf(p, q, s) \in Nat
      BY <2>1, <3>1, PayloadFacts
    <3>6. b(q) \in Nat
      BY <2>4, <2>5, <3>1
    <3> DEFINE e == EndOf(p, q, s)
               v == PrevOf(p, q, s)
    <3>7. e - v >= 0 /\ (e - v) % 4 = 0
      <4> HIDE DEF e, v
      <4> QED
        BY <3>4, <3>5 DEF e, v
    <3>8. pLayout[q].slices[s].end - pLayout[q].slices[s].start = e - v
      BY <2>4, <3>3, <3>5, <3>6
    <3>9. pLayout[q].slices[s].end >= pLayout[q].slices[s].start
      BY <2>4, <3>3, <3>4, <3>5, <3>6
    <3> QED
      BY <3>7, <3>8, <3>9
  <2> QED
    BY <2>9, <2>10
<1> QED
  BY <1>1, WhatTheWalksKnow, PTL

-----------------------------------------------------------------------------
(* The sums over a layout *)

Pixels(p) == [i \in 1 .. NumSlices |-> Peek!PixelCount(p, i)]
PlaneData == [p \in DOMAIN iLayout |-> Peek!SliceDataTotal(p)]
PlaneSizes == [p \in DOMAIN iLayout |-> Peek!TotalSize(p)]
Cells == (1 .. NumPlanes) \X (1 .. NumSlices)
SliceSizes ==
  [at \in Cells |-> iLayout[at[1]].slices[at[2]].end - iLayout[at[1]].slices[at[2]].start]

\* total_pixels is the sum over the slices.
LEMMA PixelsAddUp ==
  ASSUME NEW p
  PROVE  Peek!TotalPixels(p) = SumOf(Pixels(p), 1 .. NumSlices)
<1> DEFINE one(s) == CHOOSE x \in s : TRUE
           S == 1 .. NumSlices
           w == Pixels(p)
           A(g) == g = [s \in SUBSET S |->
                     IF s = {} THEN 0
                     ELSE Peek!PixelCount(p, one(s)) + g[s \ {one(s)}]]
           c == CHOOSE g : A(g)
<1>1. IsFiniteSet(S)
  BY FormatAssumption, OneToN
<1>2. \A g : A(g) <=> Adds(g, w, S)
  <2> TAKE g
  <2>1. \A s \in SUBSET S : s # {} =>
          w[one(s)] = Peek!PixelCount(p, one(s))
    BY DEF Pixels
  <2> HIDE DEF w, S
  <2>2. [s \in SUBSET S |->
           IF s = {} THEN 0
           ELSE w[one(s)] + g[s \ {one(s)}]]
        = [s \in SUBSET S |->
             IF s = {} THEN 0
             ELSE Peek!PixelCount(p, one(s)) + g[s \ {one(s)}]]
    BY <2>1
  <2> QED
    BY <2>2 DEF Adds
<1>3. A(c)
  <2>1. \E g : A(g)
    <3> HIDE DEF A, w, S
    <3> QED
      BY <1>1, <1>2, AddsExists
  <2> QED
    BY <2>1
<1>4. Peek!TotalPixels(p) = c[S]
  BY DEF Peek!TotalPixels, Peek!MapThenSumSet, Peek!MapThenFoldSet
<1>5. Adds(c, w, S)
  BY <1>2, <1>3
<1>6. c[S] = SumOf(w, S)
  <2>1. S \in SUBSET S
    OBVIOUS
  <2> HIDE DEF A, c, w, S
  <2> QED
    BY <1>1, <1>5, <2>1, SumBy
<1> QED
  BY <1>4, <1>6

\* total_slice_data_bytes is the sum over the planes.
LEMMA DataAddsUp ==
  ASSUME IsFiniteSet(DOMAIN iLayout)
  PROVE  Peek!TotalSliceDataBytes = SumOf(PlaneData, DOMAIN iLayout)
<1> DEFINE one(s) == CHOOSE x \in s : TRUE
           S == DOMAIN iLayout
           w == PlaneData
           A(g) == g = [s \in SUBSET S |->
                     IF s = {} THEN 0
                     ELSE Peek!SliceDataTotal(one(s)) + g[s \ {one(s)}]]
           c == CHOOSE g : A(g)
<1>1. IsFiniteSet(S)
  OBVIOUS
<1>2. \A g : A(g) <=> Adds(g, w, S)
  <2> TAKE g
  <2>1. \A s \in SUBSET S : s # {} =>
          w[one(s)] = Peek!SliceDataTotal(one(s))
    BY DEF PlaneData
  <2> HIDE DEF w, S
  <2>2. [s \in SUBSET S |->
           IF s = {} THEN 0
           ELSE w[one(s)] + g[s \ {one(s)}]]
        = [s \in SUBSET S |->
             IF s = {} THEN 0
             ELSE Peek!SliceDataTotal(one(s)) + g[s \ {one(s)}]]
    BY <2>1
  <2> QED
    BY <2>2 DEF Adds
<1>3. A(c)
  <2>1. \E g : A(g)
    <3> HIDE DEF A, w, S
    <3> QED
      BY <1>1, <1>2, AddsExists
  <2> QED
    BY <2>1
<1>4. Peek!TotalSliceDataBytes = c[S]
  BY DEF Peek!TotalSliceDataBytes, Peek!MapThenSumSet, Peek!MapThenFoldSet
<1>5. Adds(c, w, S)
  BY <1>2, <1>3
<1>6. c[S] = SumOf(w, S)
  <2>1. S \in SUBSET S
    OBVIOUS
  <2> HIDE DEF A, c, w, S
  <2> QED
    BY <1>1, <1>5, <2>1, SumBy
<1> QED
  BY <1>4, <1>6

\* total_size is the sum over the planes, and frame_info.
LEMMA SizesAddUp ==
  ASSUME IsFiniteSet(DOMAIN iLayout)
  PROVE  Peek!MapThenSumSet(Peek!TotalSize, DOMAIN iLayout) = SumOf(PlaneSizes, DOMAIN iLayout)
<1> DEFINE one(s) == CHOOSE x \in s : TRUE
           S == DOMAIN iLayout
           w == PlaneSizes
           A(g) == g = [s \in SUBSET S |->
                     IF s = {} THEN 0
                     ELSE Peek!TotalSize(one(s)) + g[s \ {one(s)}]]
           c == CHOOSE g : A(g)
<1>1. IsFiniteSet(S)
  OBVIOUS
<1>2. \A g : A(g) <=> Adds(g, w, S)
  <2> TAKE g
  <2>1. \A s \in SUBSET S : s # {} =>
          w[one(s)] = Peek!TotalSize(one(s))
    BY DEF PlaneSizes
  <2> HIDE DEF w, S
  <2>2. [s \in SUBSET S |->
           IF s = {} THEN 0
           ELSE w[one(s)] + g[s \ {one(s)}]]
        = [s \in SUBSET S |->
             IF s = {} THEN 0
             ELSE Peek!TotalSize(one(s)) + g[s \ {one(s)}]]
    BY <2>1
  <2> QED
    BY <2>2 DEF Adds
<1>3. A(c)
  <2>1. \E g : A(g)
    <3> HIDE DEF A, w, S
    <3> QED
      BY <1>1, <1>2, AddsExists
  <2> QED
    BY <2>1
<1>4. Peek!MapThenSumSet(Peek!TotalSize, DOMAIN iLayout) = c[S]
  BY DEF Peek!MapThenSumSet, Peek!MapThenFoldSet
<1>5. Adds(c, w, S)
  BY <1>2, <1>3
<1>6. c[S] = SumOf(w, S)
  <2>1. S \in SUBSET S
    OBVIOUS
  <2> HIDE DEF A, c, w, S
  <2> QED
    BY <1>1, <1>5, <2>1, SumBy
<1> QED
  BY <1>4, <1>6

\* The data of all slices, as LayoutAddsUp adds it up.
LEMMA SlicesAddUp ==
  MapThenSumSet(LAMBDA at : iLayout[at[1]].slices[at[2]].end
                              - iLayout[at[1]].slices[at[2]].start,
                (1 .. NumPlanes) \X (1 .. NumSlices))
    = SumOf(SliceSizes, Cells)
<1> DEFINE one(s) == CHOOSE x \in s : TRUE
           length(at) ==
             iLayout[at[1]].slices[at[2]].end - iLayout[at[1]].slices[at[2]].start
           S == Cells
           w == SliceSizes
           A(g) == g = [s \in SUBSET S |->
                     IF s = {} THEN 0
                     ELSE length(one(s)) + g[s \ {one(s)}]]
           c == CHOOSE g : A(g)
<1>1. IsFiniteSet(S)
  BY FormatAssumption, OneToN, FS_Product DEF Cells
<1>2. \A g : A(g) <=> Adds(g, w, S)
  <2> TAKE g
  <2>1. \A s \in SUBSET S : s # {} =>
          w[one(s)] = length(one(s))
    BY DEF SliceSizes
  <2> HIDE DEF w, S
  <2>2. [s \in SUBSET S |->
           IF s = {} THEN 0
           ELSE w[one(s)] + g[s \ {one(s)}]]
        = [s \in SUBSET S |->
             IF s = {} THEN 0
             ELSE length(one(s)) + g[s \ {one(s)}]]
    BY <2>1
  <2> QED
    BY <2>2 DEF Adds
<1>3. A(c)
  <2>1. \E g : A(g)
    <3> HIDE DEF A, w, S
    <3> QED
      BY <1>1, <1>2, AddsExists
  <2> QED
    BY <2>1
<1>4. MapThenSumSet(LAMBDA at : iLayout[at[1]].slices[at[2]].end
                                    - iLayout[at[1]].slices[at[2]].start,
                      (1 .. NumPlanes) \X (1 .. NumSlices))
        = c[S]
  BY DEF MapThenSumSet, MapThenFoldSet, Cells
<1>5. Adds(c, w, S)
  BY <1>2, <1>3
<1>6. c[S] = SumOf(w, S)
  <2>1. S \in SUBSET S
    OBVIOUS
  <2> HIDE DEF A, c, w, S
  <2> QED
    BY <1>1, <1>5, <2>1, SumBy
<1> QED
  BY <1>4, <1>6

\* What the accessors say of one plane of an accepted payload.
LEMMA PlaneNumbers ==
  ASSUME payload \in Payloads, Laid(payload, iLayout), Len(iLayout) = NumPlanes,
         NEW q \in 1 .. NumPlanes
  PROVE  /\ Begin(iLayout, q) \in Nat /\ Begin(iLayout, q + 1) \in Nat
         /\ Peek!SliceDataTotal(q) = TotalOf(payload, q)
         /\ Peek!TotalSize(q) = Begin(iLayout, q + 1) - Begin(iLayout, q)
         /\ \A i \in 1 .. NumSlices :
              SliceSizes[Cell(q, i)] = EndOf(payload, q, i) - PrevOf(payload, q, i)
<1> DEFINE p == payload
           b == Begin(iLayout, q)
           d == b + DescriptorBytes
           total == TotalOf(p, q)
<1>1. /\ NumSlices \in Nat \ {0} /\ NumPlanes \in Nat \ {0}
      /\ DescriptorBytes \in Nat \ {0} /\ TableBytes \in Nat \ {0}
      /\ HeadBytes \in Nat /\ HeadBytes = DescriptorBytes + TableBytes
      /\ total \in Nat
      /\ \A i \in 1 .. NumSlices : EndOf(p, q, i) \in Nat /\ PrevOf(p, q, i) \in Nat
  <2>1. payload \in Payloads
    OBVIOUS
  <2> QED
    BY <2>1, PayloadFacts
<1>2. Len(iLayout) <= NumPlanes /\ q \in 1 .. Len(iLayout)
  BY <1>1
<1>3. b \in Nat /\ Begin(iLayout, q + 1) \in Nat /\ Begin(iLayout, q + 1) = b + HeadBytes + total
  BY <1>2, BeginNext
<1>4. iLayout[q] = Part(p, q, b)
  BY <1>2 DEF Laid
<1>5. /\ iLayout[q].table = d
      /\ \A i \in 1 .. NumSlices :
           /\ iLayout[q].slices[i].start = b + HeadBytes + PrevOf(p, q, i)
           /\ iLayout[q].slices[i].end = b + HeadBytes + EndOf(p, q, i)
  BY <1>4 DEF Part
<1>6. iLayout[q].slices[NumSlices].end - (iLayout[q].table + TableBytes) = total
  <2>1. iLayout[q].slices[NumSlices].end = b + HeadBytes + total
    BY <1>1, <1>5 DEF TotalOf
  <2> HIDE DEF b, total
  <2> QED
    BY <1>1, <1>3, <1>5, <2>1
<1>7. Peek!SliceDataTotal(q) = total
  <2> DEFINE S == {0, total}
  <2>1. Peek!SliceDataTotal(q) = Max(S)
    BY <1>6 DEF Peek!SliceDataTotal, Peek!Max, Max, Peek!TableBytes, TableBytes, Peek!Word, Word
  <2>2. S \in SUBSET (0 .. total) /\ S # {}
    BY <1>1
  <2>3. Max(S) \in S /\ \A x \in S : x <= Max(S)
    <3> HIDE DEF S
    <3> QED
      BY <1>1, <2>2, MaxIsGreatest
  <2>4. Max(S) = total
    <3> DEFINE m == Max(S)
    <3> HIDE DEF m, total
    <3>1. m \in {0, total} /\ total <= m
      BY <2>3 DEF m
    <3> QED
      BY <1>1, <3>1 DEF m
  <2> QED
    BY <2>1, <2>4
<1>8. Peek!TotalSize(q) = HeadBytes + total
  BY <1>1, <1>7 DEF Peek!TotalSize, Peek!TableBytes, TableBytes, Peek!Word, Word
<1>9. ASSUME NEW i \in 1 .. NumSlices
      PROVE  SliceSizes[Cell(q, i)] = EndOf(p, q, i) - PrevOf(p, q, i)
  <2> DEFINE e == EndOf(p, q, i)
             v == PrevOf(p, q, i)
  <2>1. SliceSizes[Cell(q, i)] = iLayout[q].slices[i].end - iLayout[q].slices[i].start
    BY DEF SliceSizes, Cells, Cell
  <2>2. SliceSizes[Cell(q, i)] = (b + HeadBytes + e) - (b + HeadBytes + v)
    BY <1>5, <2>1
  <2>3. e \in Nat /\ v \in Nat
    BY <1>1
  <2> HIDE DEF b, e, v
  <2>4. (b + HeadBytes + e) - (b + HeadBytes + v) = e - v
    BY <1>1, <1>3, <2>3
  <2> QED
    BY <2>2, <2>4 DEF e, v
<1>10. Peek!TotalSize(q) = Begin(iLayout, q + 1) - b
  <2> HIDE DEF b, total
  <2> QED
    BY <1>1, <1>3, <1>8
<1> QED
  BY <1>3, <1>7, <1>9, <1>10

\* The sizes of the planes and frame_info make up an accepted payload.
LEMMA FrameSize ==
  ASSUME payload \in Payloads, Laid(payload, iLayout), Len(iLayout) = NumPlanes,
         Begin(iLayout, NumPlanes + 1) = InfoOf(payload)
  PROVE  Peek!FrameTotalSize = payload.size
<1> DEFINE f == [q \in 0 .. NumPlanes |-> Begin(iLayout, q + 1)]
<1>1. payload.size \in Nat /\ InfoOf(payload) = payload.size - 4 /\ NumPlanes \in Nat \ {0}
  BY PayloadFacts
<1>2. DOMAIN iLayout = 1 .. NumPlanes
  <2>1. iLayout \in Seq(PartSet)
    BY DEF Laid
  <2> QED
    BY <2>1, LenProperties
<1>3. IsFiniteSet(DOMAIN iLayout)
  BY <1>1, <1>2, OneToN
<1>4. \A q \in 0 .. NumPlanes : f[q] \in Int
  <2> TAKE q \in 0 .. NumPlanes
  <2>1. f[q] = Begin(iLayout, q + 1)
    OBVIOUS
  <2>2. CASE q = 0
    BY <2>1, <2>2 DEF Begin
  <2>3. CASE q # 0
    <3>1. q \in 1 .. NumPlanes
      BY <1>1, <2>3
    <3> HIDE DEF f
    <3> QED
      BY <2>1, <3>1, PlaneNumbers
  <2> QED
    BY <2>2, <2>3
<1>5. \A q \in 1 .. NumPlanes : PlaneSizes[q] = f[q] - f[q - 1]
  <2> TAKE q \in 1 .. NumPlanes
  <2>1. PlaneSizes[q] = Begin(iLayout, q + 1) - Begin(iLayout, q)
    BY <1>2, PlaneNumbers DEF PlaneSizes
  <2>2. f[q] = Begin(iLayout, q + 1) /\ f[q - 1] = Begin(iLayout, q)
    BY <1>1
  <2> QED
    BY <2>1, <2>2
<1>6. f[0] = 0 /\ f[NumPlanes] = payload.size - 4
  BY <1>1 DEF Begin
<1>7. SumOf(PlaneSizes, 1 .. NumPlanes) = f[NumPlanes] - f[0]
  <2> HIDE DEF f
  <2> QED
    BY <1>1, <1>4, <1>5, Telescopes
<1>8. Peek!MapThenSumSet(Peek!TotalSize, DOMAIN iLayout) = payload.size - 4
  <2> HIDE DEF f
  <2> QED
    BY <1>1, <1>2, <1>3, <1>6, <1>7, SizesAddUp
<1>9. Peek!FrameTotalSize = payload.size - 4 + 4
  BY <1>8 DEF Peek!FrameTotalSize, Peek!Word
<1> QED
  BY <1>1, <1>9

\* The data of the slices is the data in all.
LEMMA SliceData ==
  ASSUME payload \in Payloads, Laid(payload, iLayout), Len(iLayout) = NumPlanes
  PROVE  Peek!TotalSliceDataBytes = SumOf(SliceSizes, Cells)
<1> DEFINE p == payload
<1>1. /\ NumPlanes \in Nat \ {0} /\ NumSlices \in Nat \ {0}
      /\ \A q \in 1 .. NumPlanes :
           /\ TotalOf(p, q) \in Nat
           /\ \A i \in 1 .. NumSlices : EndOf(p, q, i) \in Nat /\ PrevOf(p, q, i) \in Nat
  <2>1. payload \in Payloads
    OBVIOUS
  <2> QED
    BY <2>1, PayloadFacts
<1>2. DOMAIN iLayout = 1 .. NumPlanes
  <2>1. iLayout \in Seq(PartSet)
    BY DEF Laid
  <2> QED
    BY <2>1, LenProperties
<1>3. IsFiniteSet(DOMAIN iLayout)
  BY <1>1, <1>2, OneToN
<1>4. \A q \in 1 .. NumPlanes, i \in 1 .. NumSlices : SliceSizes[Cell(q, i)] \in Int
  <2> TAKE q \in 1 .. NumPlanes, i \in 1 .. NumSlices
  <2>1. SliceSizes[Cell(q, i)] = EndOf(p, q, i) - PrevOf(p, q, i)
    BY PlaneNumbers
  <2> QED
    BY <1>1, <2>1
\* Within a plane each slice starts where the one before it ends.
<1>5. ASSUME NEW q \in 1 .. NumPlanes
      PROVE  PlaneData[q] = SumOf(SliceSizes, RowCells(q, NumSlices))
  <2> DEFINE v == [i \in 1 .. NumSlices |-> SliceSizes[Cell(q, i)]]
             e == [i \in 0 .. NumSlices |-> IF i = 0 THEN 0 ELSE EndOf(p, q, i)]
             sum == SumOf(v, 1 .. NumSlices)
             row == SumOf(SliceSizes, RowCells(q, NumSlices))
  <2>1. \A i \in 0 .. NumSlices : e[i] \in Int
    BY <1>1
  <2>2. \A i \in 1 .. NumSlices : v[i] = e[i] - e[i - 1]
    <3> TAKE i \in 1 .. NumSlices
    <3>1. v[i] = EndOf(p, q, i) - PrevOf(p, q, i)
      BY PlaneNumbers
    <3>2. e[i] = EndOf(p, q, i) /\ e[i - 1] = PrevOf(p, q, i)
      BY <1>1 DEF PrevOf
    <3> QED
      BY <3>1, <3>2
  <2>3. e[0] = 0 /\ e[NumSlices] = TotalOf(p, q)
    BY <1>1 DEF TotalOf
  <2>4. sum = e[NumSlices] - e[0]
    <3> HIDE DEF v, e
    <3> QED
      BY <1>1, <2>1, <2>2, Telescopes
  <2>5. row = sum
    <3>1. \A i \in 1 .. NumSlices :
            SliceSizes[Cell(q, i)] \in Int /\ v[i] = SliceSizes[Cell(q, i)]
      BY <1>4
    <3>2. NumSlices \in Nat
      BY <1>1
    <3> HIDE DEF v
    <3> QED
      BY <3>1, <3>2, SumOfRow
  <2>6. PlaneData[q] = TotalOf(p, q)
    BY <1>2, PlaneNumbers DEF PlaneData
  <2>7. sum = TotalOf(p, q)
    <3> HIDE DEF sum, e
    <3> QED
      BY <1>1, <2>3, <2>4
  <2> QED
    BY <2>5, <2>6, <2>7
<1>6. SumOf(SliceSizes, Cells) = SumOf(PlaneData, 1 .. NumPlanes)
  <2>1. NumPlanes \in Nat /\ NumSlices \in Nat
    BY <1>1
  <2>2. Cells = AllCells(NumPlanes, NumSlices)
    BY DEF Cells, AllCells
  <2>3. SumOf(SliceSizes, AllCells(NumPlanes, NumSlices)) = SumOf(PlaneData, 1 .. NumPlanes)
    <3>1. \A a \in 1 .. NumPlanes, i \in 1 .. NumSlices : SliceSizes[Cell(a, i)] \in Int
      BY <1>4
    <3>2. \A a \in 1 .. NumPlanes : PlaneData[a] = SumOf(SliceSizes, RowCells(a, NumSlices))
      BY <1>5
    <3>3. PICK w, u : w = SliceSizes /\ u = PlaneData
      OBVIOUS
    <3>4. \A a \in 1 .. NumPlanes, i \in 1 .. NumSlices : w[Cell(a, i)] \in Int
      BY <3>1, <3>3
    <3>5. \A a \in 1 .. NumPlanes : u[a] = SumOf(w, RowCells(a, NumSlices))
      BY <3>2, <3>3
    <3>6. SumOf(w, AllCells(NumPlanes, NumSlices)) = SumOf(u, 1 .. NumPlanes)
      BY <2>1, <3>4, <3>5, SumOfTable
    <3> QED
      BY <3>3, <3>6
  <2> QED
    BY <2>2, <2>3
<1> QED
  BY <1>2, <1>3, <1>6, DataAddsUp

-----------------------------------------------------------------------------
(* Rows and pixels *)

\* The rows of a slice, counted, and those of its plane.
LEMMA RowsShared ==
  ASSUME NEW p \in 1 .. NumPlanes
  PROVE  /\ Dims[p].width \in Nat /\ Dims[p].height \in Nat
         /\ \A i \in 1 .. NumSlices :
              /\ Peek!RowsOf(p, i) = SliceRows(Dims[p].height, NumSlices, i - 1)
              /\ Cardinality(Peek!RowsOf(p, i)) \in Nat
              /\ Cardinality(Peek!RowsOf(p, i))
                   = RowStart(Dims[p].height, NumSlices, i)
                       - RowStart(Dims[p].height, NumSlices, i - 1)
              /\ Peek!PixelCount(p, i)
                   = (Cardinality(Peek!RowsOf(p, i)) * Dims[p].width) % 2 ^ PixelBits
<1> DEFINE h == Dims[p].height
           n == NumSlices
<1>1. Dims[p].width \in Nat /\ h \in Nat /\ n \in Nat \ {0}
  BY FormatAssumption, InspectAssumption DEF Dims
<1>2. ASSUME NEW i \in 1 .. n
      PROVE  /\ Peek!RowsOf(p, i) = SliceRows(h, n, i - 1)
             /\ Cardinality(Peek!RowsOf(p, i)) \in Nat
             /\ Cardinality(Peek!RowsOf(p, i)) = RowStart(h, n, i) - RowStart(h, n, i - 1)
             /\ Peek!PixelCount(p, i)
                  = (Cardinality(Peek!RowsOf(p, i)) * Dims[p].width) % 2 ^ PixelBits
  <2> DEFINE s == i - 1
             from == RowStart(h, n, s)
             count == RowCount(h, n, s)
             last == from + count - 1
  <2>1. s \in Nat /\ s + 1 = i
    BY <1>1
  <2>2. Peek!RowsOf(p, i) = SliceRows(h, n, s)
    BY DEF Peek!RowsOf, Peek!SliceRows, SliceRows, Peek!RowStart, RowStart,
           Peek!RowEnd, RowEnd
  <2>3. /\ count \in Nat /\ from + count = RowStart(h, n, s + 1)
        /\ SliceRows(h, n, s) = from .. last
    <3> HIDE DEF h, n, s
    <3> QED
      BY <1>1, <2>1, RowCountNat
  <2>4. from \in Nat
    <3> HIDE DEF h, n, s
    <3> QED
      BY <1>1, <2>1, RowStartMonotone
  <2>5. Cardinality(from .. last) = count
    <3> HIDE DEF from, count
    <3>1. from \in Int /\ last \in Int
      BY <2>3, <2>4
    <3> DEFINE top == last
    <3>2. top \in Int /\ top = from + count - 1
      BY <3>1
    <3> HIDE DEF top
    <3>3. Cardinality(from .. top) = IF from > top THEN 0 ELSE top - from + 1
      BY <3>1, <3>2, FS_Interval
    <3>4. Cardinality(from .. top) = count
      BY <2>3, <2>4, <3>2, <3>3
    <3> QED
      BY <3>4 DEF top
  <2>6. Cardinality(Peek!RowsOf(p, i)) = count
    <3> HIDE DEF last, count, from
    <3> QED
      BY <2>2, <2>3, <2>5
  <2>7. Peek!PixelCount(p, i) = (count * Dims[p].width) % 2 ^ PixelBits
    BY DEF Peek!PixelCount, Peek!RowCount, RowCount, Peek!RowStart, RowStart,
           Peek!RowEnd, RowEnd
  <2>8. count = RowStart(h, n, i) - RowStart(h, n, i - 1)
    <3>1. from + count = RowStart(h, n, i)
      BY <2>1, <2>3
    <3> HIDE DEF count, h, n
    <3> QED
      BY <2>3, <2>4, <3>1
  <2> HIDE DEF count
  <2> QED
    BY <2>2, <2>3, <2>6, <2>7, <2>8
<1> QED
  BY <1>1, <1>2

\* Every row of a plane is in one slice.
LEMMA RowInOneSlice ==
  ASSUME NEW p \in 1 .. NumPlanes, NEW row \in 0 .. Dims[p].height - 1
  PROVE  Cardinality({i \in 1 .. NumSlices : row \in Peek!RowsOf(p, i)}) = 1
<1> DEFINE h == Dims[p].height
           n == NumSlices
           holders == {i \in 1 .. n : row \in Peek!RowsOf(p, i)}
<1>1. /\ h \in Nat /\ n \in Nat \ {0}
      /\ \A i \in 1 .. n : Peek!RowsOf(p, i) = SliceRows(h, n, i - 1)
  BY FormatAssumption, RowsShared
<1>2. PICK s \in 0 .. n - 1 : row \in SliceRows(h, n, s)
  <2> HIDE DEF n
  <2> QED
    BY <1>1, RowInSlice
<1>3. s + 1 \in 1 .. n /\ (s + 1) - 1 = s
  BY <1>1
<1>4. s + 1 \in holders
  BY <1>1, <1>2, <1>3
<1>5. ASSUME NEW i \in holders PROVE i = s + 1
  <2>1. i - 1 \in Nat /\ s \in Nat /\ i \in Int
    BY <1>1
  <2>2. row \in SliceRows(h, n, i - 1)
    BY <1>1
  <2>3. i - 1 = s
    <3> HIDE DEF h, n
    <3> QED
      BY <1>1, <1>2, <2>1, <2>2, SlicesDisjoint
  <2> QED
    BY <2>1, <2>3
<1>6. holders = {s + 1}
  BY <1>4, <1>5
<1> HIDE DEF holders
<1>7. Cardinality(holders) = 1
  BY <1>6, FS_Singleton
<1> QED
  BY <1>7 DEF holders

\* The pixels of the slices are those of their plane, and fewer if the count of
\* a slice does not fit its width.
LEMMA PixelsShared ==
  ASSUME NEW p \in 1 .. NumPlanes
  PROVE  LET fits == \A i \in 1 .. NumSlices :
               Cardinality(Peek!RowsOf(p, i)) * Dims[p].width < 2 ^ PixelBits
         IN  IF fits
             THEN Peek!TotalPixels(p) = Dims[p].width * Dims[p].height
             ELSE Peek!TotalPixels(p) < Dims[p].width * Dims[p].height
<1> DEFINE h == Dims[p].height
           w == Dims[p].width
           n == NumSlices
           U == 1 .. n
           top == 2 ^ PixelBits
           count == [i \in U |-> Cardinality(Peek!RowsOf(p, i))]
           full == [i \in U |-> w * count[i]]
           v == Pixels(p)
           from == [i \in 0 .. n |-> RowStart(h, n, i)]
<1>1. w \in Nat /\ h \in Nat /\ n \in Nat \ {0} /\ IsFiniteSet(U)
  BY FormatAssumption, RowsShared, OneToN
<1>2. top \in Nat /\ top >= 1
  BY InspectAssumption, PowPos
<1>3. \A i \in U : count[i] \in Nat /\ count[i] = from[i] - from[i - 1]
  <2> TAKE i \in U
  <2>1. i \in 0 .. n /\ i - 1 \in 0 .. n
    BY <1>1
  <2>2. from[i] = RowStart(h, n, i) /\ from[i - 1] = RowStart(h, n, i - 1)
    BY <2>1
  <2>3. /\ Cardinality(Peek!RowsOf(p, i)) \in Nat
        /\ Cardinality(Peek!RowsOf(p, i)) = RowStart(h, n, i) - RowStart(h, n, i - 1)
    BY RowsShared
  <2> QED
    BY <2>2, <2>3
<1>4. \A i \in 0 .. n : from[i] \in Int
  <2> TAKE i \in 0 .. n
  <2>1. i \in Nat /\ i <= i
    OBVIOUS
  <2>2. RowStart(h, n, i) \in Nat
    <3> HIDE DEF h, n
    <3> QED
      BY <1>1, <2>1, RowStartMonotone
  <2> QED
    BY <2>2
<1>5. from[0] = 0 /\ from[n] = h
  <2>1. 0 \in 0 .. n /\ n \in 0 .. n
    BY <1>1
  <2>2. RowStart(h, n, 0) = 0 /\ RowStart(h, n, n) = h
    <3> HIDE DEF h, n
    <3> QED
      BY <1>1, SlicesSpanPlane
  <2> QED
    BY <2>1, <2>2
<1>6. SumOf(count, U) = h
  <2>1. SumOf(count, U) = from[n] - from[0]
    <3> HIDE DEF count, from, h, n
    <3> QED
      BY <1>1, <1>3, <1>4, Telescopes
  <2> HIDE DEF from, count
  <2> QED
    BY <1>1, <1>5, <2>1
<1>7. SumOf(full, U) = w * h
  <2>1. \A i \in U : count[i] \in Int /\ full[i] = w * count[i]
    <3>1. \A i \in U : full[i] = w * count[i]
      <4> HIDE DEF count, w
      <4> QED
        OBVIOUS
    <3>2. \A i \in U : count[i] \in Int
      <4> HIDE DEF full, count, w, U, from
      <4>1. \A i \in U : count[i] \in Nat
        BY <1>3
      <4> QED
        BY <4>1
    <3> HIDE DEF full, count, w, U
    <3> QED
      BY <3>1, <3>2
  <2>2. w \in Int
    BY <1>1
  <2>3. SumOf(full, U) = w * SumOf(count, U)
    <3> HIDE DEF full, count, U, w
    <3> QED
      BY <1>1, <2>1, <2>2, SumTimes
  <2> QED
    BY <1>6, <2>3
<1>8. Peek!TotalPixels(p) = SumOf(v, U)
  BY PixelsAddUp
<1>9. \A i \in U : full[i] \in Nat /\ v[i] = full[i] % top
  <2> TAKE i \in U
  <2>1. v[i] = (count[i] * w) % top
    BY RowsShared DEF Pixels
  <2>2. count[i] \in Nat
    BY <1>3
  <2>3. count[i] * w = w * count[i] /\ w * count[i] \in Nat
    <3> DEFINE c == count[i]
    <3> HIDE DEF c, w
    <3> QED
      BY <1>1, <2>2, MulNat DEF c
  <2>4. full[i] = w * count[i]
    OBVIOUS
  <2> HIDE DEF full, v, count, w, top
  <2> QED
    BY <2>1, <2>3, <2>4
<1>10. \A i \in U : (Cardinality(Peek!RowsOf(p, i)) * w < top) <=> (full[i] < top)
  <2> TAKE i \in U
  <2>1. full[i] = w * count[i] /\ count[i] = Cardinality(Peek!RowsOf(p, i))
    OBVIOUS
  <2>2. count[i] \in Nat
    BY <1>3
  <2>3. count[i] * w = w * count[i]
    <3> DEFINE c == count[i]
    <3> HIDE DEF c, w
    <3> QED
      BY <1>1, <2>2 DEF c
  <2> HIDE DEF full, count, w, top
  <2> QED
    BY <2>1, <2>3
<1> HIDE DEF v, full, count, top, U
\* What fits is kept, what does not loses at least the width's range.
<1>11. \A i \in U : v[i] \in Int /\ full[i] \in Int /\ v[i] <= full[i]
                 /\ (full[i] < top => v[i] = full[i])
                 /\ (~(full[i] < top) => v[i] < full[i])
  <2> TAKE i \in U
  <2> DEFINE f == full[i]
             r == v[i]
  <2>1. f \in Nat /\ r = f % top
    BY <1>9
  <2> HIDE DEF f, r
  <2>2. r \in Int /\ r <= f /\ (f < top => r = f) /\ (~(f < top) => r < f)
    <3>1. r \in 0 .. top - 1
      BY <1>2, <2>1
    <3>2. f < top => r = f
      BY <1>2, <2>1
    <3> QED
      BY <1>2, <2>1, <3>1, <3>2
  <2> QED
    BY <2>1, <2>2 DEF f, r
<1>12. CASE \A i \in U : full[i] < top
  <2>1. \A i \in U : v[i] = full[i]
    BY <1>11, <1>12
  <2>2. SumOf(v, U) = SumOf(full, U)
    BY <1>1, <2>1, SumSame
  <2>3. \A i \in 1 .. NumSlices : Cardinality(Peek!RowsOf(p, i)) * w < top
    BY <1>10, <1>12 DEF U
  <2> QED
    BY <1>7, <1>8, <2>2, <2>3 DEF top
<1>13. CASE ~(\A i \in U : full[i] < top)
  <2>1. PICK c \in U : ~(full[c] < top)
    BY <1>13
  <2>2. v[c] < full[c]
    BY <1>11, <2>1
  <2>3. SumOf(v, U) < SumOf(full, U)
    BY <1>1, <1>11, <2>2, SumBelow
  <2>4. ~(\A i \in 1 .. NumSlices : Cardinality(Peek!RowsOf(p, i)) * w < top)
    BY <1>10, <2>1 DEF U
  <2> QED
    BY <1>7, <1>8, <2>3, <2>4 DEF top
<1> QED
  BY <1>12, <1>13

-----------------------------------------------------------------------------
(* The inspector's sums *)

\* While it has no answer the inspector gives none, and what it accepts ends
\* where frame_info begins.
Stands ==
  /\ iAt # "done" => iAnswer.kind = "None"
  /\ iAnswer.kind = "Ok" => iAt = "done" /\ iOffset = InfoOf(payload)

\* What the accessors say of an accepted layout is consistent, and frame_info is
\* missing for the walk exactly if peek_frame_info misses it (LayoutAddsUp;
\* peek_frame, peek_frame_info, FrameLayout's and PlaneLayout's sums).
THEOREM SumsComeOut == Spec => []LayoutAddsUp
<1>1. Init => Stands
  BY DEF Init, Peek!WalkInit, Stands
<1>2. Stands /\ IInv /\ [Next]_vars => Stands'
  <2> SUFFICES ASSUME Stands, IInv, [Next]_vars PROVE Stands'
    OBVIOUS
  <2>1. CASE Parse
    <3>1. UNCHANGED iVars /\ payload' = payload
      BY <2>1, ParserKeeps DEF Parse, IInv
    <3> QED
      BY <3>1 DEF Stands, iVars, InfoOf
  <2>2. CASE Inspect
    <3>1. payload' = payload
      BY <2>2, PeekKeeps DEF Inspect, IInv
    <3>2. "None" # "Ok"
      OBVIOUS
    <3>3. CASE Peek!EndOfPlanes
      <4>1. \/ iAnswer'.kind = "ChunkTooShort" /\ iAt' = "done"
            \/ iAnswer'.kind = "Ok" /\ iAt' = "done" /\ iOffset' = iOffset
               /\ iOffset = Peek!InfoOffset
        BY <3>3 DEF Peek!EndOfPlanes, Peek!Refuse
      <4> QED
        BY <3>1, <4>1 DEF Stands, InfoOf, Word, Peek!InfoOffset, Peek!Word
    <3>4. CASE ~Peek!EndOfPlanes
      <4>1. iAt # "done"
        BY <2>2 DEF Inspect, Peek!PeekNext, Peek!Enter, Peek!TakeDescriptor, Peek!TakeTable,
                    Peek!CheckEnds, Peek!CheckSingle, Peek!TakeData, Peek!NextPlane,
                    Peek!EndOfPlanes
      <4>2. \/ iAt' # "done" /\ iAnswer' = iAnswer
            \/ iAt' = "done" /\ iAnswer'.kind # "Ok"
        BY <2>2, <3>4
           DEF Inspect, Peek!PeekNext, Peek!Enter, Peek!TakeDescriptor, Peek!TakeTable,
               Peek!CheckEnds, Peek!CheckSingle, Peek!TakeData, Peek!NextPlane,
               Peek!Refuse, Peek!Take, Peek!TooShort, Peek!StrayData
      <4> QED
        BY <4>1, <4>2, <3>2 DEF Stands
    <3> QED
      BY <3>3, <3>4
  <2>3. CASE UNCHANGED vars
    BY <2>3 DEF vars, iVars, Stands, InfoOf
  <2> QED
    BY <2>1, <2>2, <2>3 DEF Next, Done
<1>3. IInv /\ Stands => LayoutAddsUp
  <2> SUFFICES ASSUME IInv, Stands, iAt = "done" PROVE LayoutAddsUp
    BY DEF LayoutAddsUp
  <2> DEFINE x == PeekAt
  <2>1. /\ payload \in Payloads /\ Walk(payload, x, TRUE) /\ Laid(payload, iLayout)
        /\ x.at = "done" /\ x.answer = iAnswer /\ x.layout = iLayout
    BY DEF IInv, PeekAt, Walk
  <2>2. (iAnswer.kind = "MissingFrameInfo") <=> (Peek!PeekFrameInfo.kind = "MissingFrameInfo")
    <3>1. Stopped(payload, x, TRUE)
      BY <2>1 DEF Walk
    <3>2. /\ \A f, n : Short(payload, f, n).kind # "MissingFrameInfo"
          /\ \A q : /\ BadEnd(payload, q).kind # "MissingFrameInfo"
                    /\ StrayAnswer(payload, q).kind # "MissingFrameInfo"
          /\ \A f : Leftover(payload, f).kind # "MissingFrameInfo"
      BY DEF Short, BadEnd, StrayAnswer, Leftover
    <3>3. (iAnswer.kind = "MissingFrameInfo") <=> payload.size < Word
      <4> HIDE DEF x
      <4>1. payload.size \in Nat /\ Word \in Nat
        BY <2>1, PayloadFacts DEF Word
      <4>2. payload.size >= Word <=> ~(payload.size < Word)
        BY <4>1
      <4> QED
        BY <2>1, <3>1, <3>2, <4>2 DEF Stopped
    <3> QED
      BY <3>3 DEF Peek!PeekFrameInfo, Peek!Word, Word
  <2>3. ASSUME iAnswer.kind = "Ok"
        PROVE  /\ Len(iLayout) = NumPlanes
               /\ Begin(iLayout, NumPlanes + 1) = InfoOf(payload)
               /\ payload.size >= Word
    <3> HIDE DEF x
    <3> QED
      BY <2>1, <2>3, Accepted
  <2>4. ASSUME iAnswer.kind = "Ok" PROVE Peek!FrameTotalSize = payload.size
    BY <2>1, <2>3, <2>4, FrameSize
  <2>5. ASSUME iAnswer.kind = "Ok" PROVE iOffset = Peek!PeekFrameInfo.at
    <3>1. payload.size \in Nat
      BY <2>1, PayloadFacts
    <3>2. ~(payload.size < 4)
      BY <2>3, <2>5, <3>1 DEF Word
    <3> QED
      BY <2>5, <3>2 DEF Stands, InfoOf, Word, Peek!PeekFrameInfo, Peek!Word
  <2>6. ASSUME iAnswer.kind = "Ok"
        PROVE  Peek!TotalSliceDataBytes =
                 MapThenSumSet(LAMBDA at : iLayout[at[1]].slices[at[2]].end
                                             - iLayout[at[1]].slices[at[2]].start,
                               (1 .. NumPlanes) \X (1 .. NumSlices))
    <3>1. Peek!TotalSliceDataBytes = SumOf(SliceSizes, Cells)
      BY <2>1, <2>3, <2>6, SliceData
    <3> QED
      BY <3>1, SlicesAddUp
  <2> QED
    BY <2>2, <2>4, <2>5, <2>6, RowInOneSlice, PixelsShared DEF LayoutAddsUp
<1> QED
  BY <1>1, <1>2, <1>3, WhatTheWalksKnow, PTL DEF Spec
=============================================================================
