---------------------------- MODULE ChunkInspect ----------------------------
(***************************************************************************)
(* The decoder and the inspector given the same payload, whole, cut short, *)
(* too long, or malformed in any of its parts.                             *)
(***************************************************************************)
EXTENDS ChunkFormat, Sequences, FiniteSets, FiniteSetsExt

CONSTANTS Ends,         \* the slice ends a payload may name
          MaxSize,
          Width, Height, ChromaWidth, ChromaHeight,
          PixelBits

\* Slice ends, sizes and dimensions are unsigned words.
ASSUME InspectAssumption ==
  /\ Ends \subseteq Nat /\ MaxSize \in Nat /\ PixelBits \in Nat
  /\ {Width, Height, ChromaWidth, ChromaHeight} \subseteq Nat

Dims == [p \in 1 .. NumPlanes |->
           IF p = 1 THEN [width |-> Width, height |-> Height]
           ELSE [width |-> ChromaWidth, height |-> ChromaHeight]]

VARIABLES payload,
          pAt, pPlane, pOffset, pLayout, pAnswer,       \* parse_payload
          iAt, iPlane, iOffset, iLayout, iAnswer        \* peek_frame

Parser == INSTANCE PayloadParser
  WITH at <- pAt, plane <- pPlane, offset <- pOffset, layout <- pLayout,
       answer <- pAnswer
Peek == INSTANCE FramePeek
  WITH at <- iAt, plane <- iPlane, offset <- iOffset, layout <- iLayout,
       answer <- iAnswer

pVars == <<pAt, pPlane, pOffset, pLayout, pAnswer>>
iVars == <<iAt, iPlane, iOffset, iLayout, iAnswer>>
vars == <<payload, pVars, iVars>>

Kinds == {"Complete", "Single", "Unused", "Incomplete", "TwoZeros"}
PlaneParts == [kind : Kinds, ends : [1 .. NumSlices -> Ends]]

Init ==
  /\ payload \in [size : 0 .. MaxSize, planes : [1 .. NumPlanes -> PlaneParts]]
  /\ Parser!WalkInit /\ Peek!WalkInit

\* The two never meet; one after the other is as good as any order.
Parse == Parser!ParseNext /\ UNCHANGED iVars
Inspect == pAt = "done" /\ Peek!PeekNext /\ UNCHANGED pVars
Done == iAt = "done" /\ UNCHANGED vars

Next == Parse \/ Inspect \/ Done

Spec == Init /\ [][Next]_vars

-----------------------------------------------------------------------------
BothDone == pAt = "done" /\ iAt = "done"
BuildErrors == {"KraftViolation", "MultipleSingleSymbolSentinels"}

\* The parts of a payload: the bytes of each, by its first and its end.
Parts(layout) ==
  LET heads == UNION {{<<layout[p].descriptor, layout[p].table>>,
                       <<layout[p].table, layout[p].slices[1].start>>} :
                         p \in DOMAIN layout}
      slices == UNION {{<<layout[p].slices[s].start, layout[p].slices[s].end>> :
                          s \in 1 .. NumSlices} : p \in DOMAIN layout}
  IN  heads \cup slices \cup {<<payload.size - 4, payload.size>>}

\* An accepted payload is cut up without gap or overlap: every byte of it
\* belongs to one descriptor, one table, one slice or frame_info, and every
\* slice is a number of whole words.
EveryByteOnce ==
  pAnswer.kind = "Ok" =>
    /\ \A b \in 0 .. payload.size - 1 :
         Cardinality({part \in Parts(pLayout) :
                        b >= part[1] /\ b < part[2]}) = 1
    /\ \A p \in DOMAIN pLayout, s \in 1 .. NumSlices :
         LET slice == pLayout[p].slices[s]
         IN  slice.end >= slice.start /\ (slice.end - slice.start) % 4 = 0

\* The two walks agree.  What the decoder accepts the inspector accepts, with
\* the same extents; what only the inspector accepts the decoder refuses for a
\* codebook; and where both refuse they give the same error, unless the decoder
\* stopped at a codebook or the plane has a single symbol and its stray data is
\* cut off (parse_payload, peek_frame).
WalksAgree ==
  BothDone =>
    /\ pAnswer.kind = "Ok" => iAnswer.kind = "Ok" /\ iLayout = pLayout
    /\ iAnswer # pAnswer =>
         \/ pAnswer.kind \in BuildErrors
         \/ /\ pAnswer.kind = "ChunkTooShort"
            /\ iAnswer.kind = "SingleSymbolPlaneHasSliceData"
            /\ iPlane = pPlane

\* What the layout's accessors say of an accepted payload is consistent: its
\* sizes add up to the payload, the data of its slices to the data in all, the
\* slices tile the rows of their plane, their pixels are the plane's unless a
\* slice's count overflows, and the planes end where peek_frame_info reads;
\* which fails for exactly the payloads that peek_frame calls too short for it.
LayoutAddsUp ==
  iAt = "done" =>
    /\ (iAnswer.kind = "MissingFrameInfo") = (Peek!PeekFrameInfo.kind = "MissingFrameInfo")
    /\ iAnswer.kind = "Ok" =>
         /\ Peek!FrameTotalSize = payload.size
         /\ iOffset = Peek!PeekFrameInfo.at
         /\ Peek!TotalSliceDataBytes =
              MapThenSumSet(LAMBDA at : iLayout[at[1]].slices[at[2]].end
                                          - iLayout[at[1]].slices[at[2]].start,
                            (1 .. NumPlanes) \X (1 .. NumSlices))
         /\ \A p \in 1 .. NumPlanes :
              LET slice == 1 .. NumSlices
                  fits == \A i \in slice :
                    Cardinality(Peek!RowsOf(p, i)) * Dims[p].width < 2 ^ PixelBits
              IN  /\ \A row \in 0 .. Dims[p].height - 1 :
                       Cardinality({i \in slice : row \in Peek!RowsOf(p, i)}) = 1
                  /\ IF fits
                     THEN Peek!TotalPixels(p) = Dims[p].width * Dims[p].height
                     ELSE Peek!TotalPixels(p) < Dims[p].width * Dims[p].height

\* src/inspect.rs:46-47: the inspector reports the precise error variant the
\* full decoder would surface at the same point in the walk.
SameErrorVariant ==
  BothDone /\ iPlane = pPlane /\ pAnswer.kind \notin {"Ok"} \cup BuildErrors
    => iAnswer.kind = pAnswer.kind
=============================================================================
