----------------------------- MODULE ChunkWalk -----------------------------
(***************************************************************************)
(* The walk over a chunk payload that parse_payload of src/decoder.rs and  *)
(* peek_frame of src/inspect.rs each spell out: for every plane a          *)
(* descriptor, a table of slice ends and the slice data, and frame_info at *)
(* the end.  The two differ only in when they look at the descriptor, and  *)
(* their modules add that step.                                            *)
(*                                                                         *)
(* A payload is a record: its `size` in bytes, and per plane what the walk *)
(* reads there, the `kind` of descriptor and the slice `ends`.             *)
(***************************************************************************)
EXTENDS ChunkFormat, Sequences, FiniteSets, FiniteSetsExt

VARIABLES payload,
          at,           \* the step of the walk, or "done"
          plane,        \* plane_idx, from 1
          offset,
          layout,       \* per plane, where its parts start and each slice's extent
          answer        \* "Ok" or the error

progress == <<at, plane, offset, layout, answer>>
InfoOffset == payload.size - Word
Here == payload.planes[plane]
Total == Here.ends[NumSlices]

WalkInit ==
  /\ at = "enter"
  /\ plane = 1 /\ offset = 0 /\ layout = << >>
  /\ answer = [kind |-> "None"]

Refuse(error) ==
  /\ at' = "done"
  /\ answer' = error
  /\ UNCHANGED <<payload, plane, offset, layout>>

\* have: saturating_sub.
TooShort(needed) ==
  [kind |-> "ChunkTooShort", offset |-> offset, needed |-> needed,
   have |-> Max({0, InfoOffset - offset})]

Enter ==
  /\ at = "enter"
  /\ IF payload.size < Word
     THEN Refuse([kind |-> "MissingFrameInfo"])
     ELSE /\ at' = "descriptor"
          /\ UNCHANGED <<payload, plane, offset, layout, answer>>

Take(bytes, next) ==
  IF offset + bytes > InfoOffset
  THEN Refuse(TooShort(bytes))
  ELSE /\ offset' = offset + bytes
       /\ at' = next
       /\ UNCHANGED <<payload, plane, layout, answer>>

TakeDescriptor == at = "descriptor" /\ Take(DescriptorBytes, "table")

TakeTable == at = "table" /\ Take(TableBytes, "ends")

\* The ends are checked in order, each against the one before it and then for
\* alignment; the first that fails is reported.
Previous(i) == IF i = 1 THEN 0 ELSE Here.ends[i - 1]
BadEnds ==
  {i \in 1 .. NumSlices : Here.ends[i] < Previous(i) \/ Here.ends[i] % Word # 0}

CheckEnds(next) ==
  /\ at = "ends"
  /\ IF BadEnds # {}
     THEN LET i == Min(BadEnds)
          IN  Refuse(IF Here.ends[i] < Previous(i)
                     THEN [kind |-> "NonMonotonicSliceOffsets"]
                     ELSE [kind |-> "SliceNotWordAligned", value |-> Here.ends[i]])
     ELSE /\ at' = next
          /\ UNCHANGED <<payload, plane, offset, layout, answer>>

\* The slices lie between one end and the next, from where the data starts.
Extents ==
  [i \in 1 .. NumSlices |-> [start |-> offset + Previous(i), end |-> offset + Here.ends[i]]]

\* Mutant of TakeData: the data is not checked to be there.
TakeDataUnchecked(next) ==
  /\ at = "data"
  /\ layout' = Append(layout,
        [descriptor |-> offset - TableBytes - DescriptorBytes,
         table |-> offset - TableBytes, slices |-> Extents])
  /\ offset' = offset + Total
  /\ at' = next
  /\ UNCHANGED <<payload, plane, answer>>

TakeData(next) ==
  /\ at = "data"
  /\ IF offset + Total > InfoOffset
     THEN Refuse(TooShort(Total))
     ELSE /\ layout' = Append(layout,
                 [descriptor |-> offset - TableBytes - DescriptorBytes,
                  table |-> offset - TableBytes, slices |-> Extents])
          /\ offset' = offset + Total
          /\ at' = next
          /\ UNCHANGED <<payload, plane, answer>>

\* A single-symbol plane carries no slice data.
StrayData ==
  [kind |-> "SingleSymbolPlaneHasSliceData", plane |-> plane, length |-> Total]

NextPlane ==
  /\ at = "next"
  /\ plane < NumPlanes
  /\ plane' = plane + 1
  /\ at' = "descriptor"
  /\ UNCHANGED <<payload, offset, layout, answer>>

\* Mutant of EndOfPlanes: bytes left over are ignored.
EndOfPlanesLoose ==
  /\ at = "next"
  /\ plane = NumPlanes
  /\ at' = "done"
  /\ answer' = [kind |-> "Ok"]
  /\ UNCHANGED <<payload, plane, offset, layout>>

\* The planes must end where frame_info begins.
EndOfPlanes ==
  /\ at = "next"
  /\ plane = NumPlanes
  /\ IF offset # InfoOffset
     THEN Refuse([kind |-> "ChunkTooShort", offset |-> offset,
                  needed |-> InfoOffset - offset, have |-> 0])
     ELSE /\ at' = "done"
          /\ answer' = [kind |-> "Ok"]
          /\ UNCHANGED <<payload, plane, offset, layout>>
=============================================================================
