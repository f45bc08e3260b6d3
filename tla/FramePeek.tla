----------------------------- MODULE FramePeek -----------------------------
(***************************************************************************)
(* peek_frame of src/inspect.rs: the walk of ChunkWalk without a codebook. *)
(* Whether a plane has a single symbol is read off its descriptor, before  *)
(* the slice data is looked for.  Then what a caller may ask of the layout *)
(* it returns: rows and pixels of each slice, and the sums over them.      *)
(***************************************************************************)
EXTENDS ChunkWalk, SlicePartition

CONSTANTS Dims,         \* per plane [width, height], by the stream's config
          PixelBits     \* 32, the width of pixel_count

\* Mutant of CheckSingle: any descriptor without a code counts.
CheckSingleUnused ==
  /\ at = "single"
  /\ IF Here.kind \in {"Single", "Unused"} /\ Total # 0
     THEN Refuse(StrayData)
     ELSE /\ at' = "data"
          /\ UNCHANGED <<payload, plane, offset, layout, answer>>

CheckSingle ==
  /\ at = "single"
  /\ IF Here.kind = "Single" /\ Total # 0
     THEN Refuse(StrayData)
     ELSE /\ at' = "data"
          /\ UNCHANGED <<payload, plane, offset, layout, answer>>

PeekNext ==
  \/ Enter \/ TakeDescriptor \/ TakeTable \/ CheckEnds("single")
  \/ CheckSingle \/ TakeData("next") \/ NextPlane \/ EndOfPlanes

-----------------------------------------------------------------------------
(* The layout: planes from 1, slices from 1 *)

RowsOf(p, i) == SliceRows(Dims[p].height, NumSlices, i - 1)

\* Mutant of PixelCount: every slice is given the same number of rows.
PixelCountEvenly(p, i) ==
  ((Dims[p].height \div NumSlices) * Dims[p].width) % 2 ^ PixelBits

PixelCount(p, i) ==
  (RowCount(Dims[p].height, NumSlices, i - 1) * Dims[p].width) % 2 ^ PixelBits

\* total_pixels sums the counts in 64 bits.
TotalPixels(p) == MapThenSumSet(LAMBDA i : PixelCount(p, i), 1 .. NumSlices)

\* The last slice's end, counted from where the plane's slice data starts.
SliceDataTotal(p) ==
  Max({0, layout[p].slices[NumSlices].end - (layout[p].table + TableBytes)})

TotalSize(p) == DescriptorBytes + TableBytes + SliceDataTotal(p)

TotalSliceDataBytes == MapThenSumSet(SliceDataTotal, DOMAIN layout)
FrameTotalSize == MapThenSumSet(TotalSize, DOMAIN layout) + Word

\* peek_frame_info looks at nothing but the payload's size.
PeekFrameInfo ==
  IF payload.size < Word THEN [kind |-> "MissingFrameInfo"]
  ELSE [kind |-> "Ok", at |-> payload.size - Word]
=============================================================================
