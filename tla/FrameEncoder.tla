---------------------------- MODULE FrameEncoder ----------------------------
(***************************************************************************)
(* One frame from samples to a chunk payload: encode_frame of              *)
(* src/encoder.rs around the plane encoder, and the repacking that         *)
(* send_frame of src/registry.rs does before it.  Which thread predicts or *)
(* packs which slice is PlaneEncoder's matter and changes no byte.         *)
(*                                                                         *)
(* A plane of samples is its `size` in bytes and one sample of it, its     *)
(* `shade`: the colour transform works on each pixel alone, and prediction *)
(* is undone by the same predictor (PlanePredict).  Coded, a plane is the  *)
(* predictor and the shade it was predicted from, and the rows of each of  *)
(* its slices.                                                             *)
(***************************************************************************)
EXTENDS StreamSetup, SlicePartition, FiniteSets, FiniteSetsExt

CONSTANT Depth      \* 256; samples wrap at it

ASSUME DepthAssumption == Depth \in Nat \ {0}

Seed == Depth \div 2
MaxSlices == 256

PlaneDimOf(stream, i) == PlaneDim(stream.fourcc, i, stream.width, stream.height)
PlaneSize(stream, i) == PlaneDimOf(stream, i).width * PlaneDimOf(stream, i).height
PlaneIds(stream) == 1 .. PlaneCount(stream.fourcc)

-----------------------------------------------------------------------------
(* send_frame: a video plane is its stride and length in bytes *)

\* Mutant of Repack: a plane without padding is taken whole.
RepackUntrimmed(cfg, i, plane) ==
  LET dim == PlaneDimOf(cfg, i)
  IN  IF plane.stride < dim.width \/ plane.length < plane.stride * dim.height
      THEN Fail("InvalidFrame")
      ELSE Succeed([size |-> IF plane.stride = dim.width THEN plane.length
                             ELSE dim.width * dim.height,
                    shade |-> plane.shade])

\* The first `width` bytes of each row, or of the whole plane if it is tight.
Repack(cfg, i, plane) ==
  LET dim == PlaneDimOf(cfg, i)
  IN  IF plane.stride < dim.width \/ plane.length < plane.stride * dim.height
      THEN Fail("InvalidFrame")
      ELSE Succeed([size |-> dim.width * dim.height, shade |-> plane.shade])

\* The frame as encode_frame wants it, or the refusal of the first bad plane.
FrameFromVideo(cfg, video, predictor) ==
  LET repacked == [i \in DOMAIN video |-> Repack(cfg, i, video[i])]
  IN  IF Len(video) # PlaneCount(cfg.fourcc)
         \/ \E i \in DOMAIN video : repacked[i].kind # "Ok"
      THEN Fail("InvalidFrame")
      ELSE Succeed([fourcc |-> cfg.fourcc, width |-> cfg.width,
                    height |-> cfg.height, predictor |-> predictor,
                    slices |-> NumSlices(cfg.extradata),
                    planes |-> [i \in DOMAIN video |-> repacked[i].value]])

-----------------------------------------------------------------------------
(* encode_frame *)

\* Mutant of SmallestHeight: only the first plane is looked at.
SmallestHeightLuma(frame) == PlaneDimOf(frame, 1).height

SmallestHeight(frame) ==
  Min({PlaneDimOf(frame, i).height : i \in PlaneIds(frame)})

\* prepare_planes: the checks in their order.
Prepare(frame) ==
  IF ~DimsFit(frame.fourcc, frame.width, frame.height)
  THEN Fail("DimensionConstraint")
  ELSE IF Len(frame.planes) # PlaneCount(frame.fourcc)
  THEN Fail("EncoderPlaneSizeMismatch")
  ELSE IF frame.slices = 0 \/ frame.slices > MaxSlices
  THEN Fail("InvalidSliceCount")
  ELSE IF frame.slices > SmallestHeight(frame)
  THEN Fail("SliceCountExceedsPlaneHeight")
  ELSE IF \E i \in PlaneIds(frame) : frame.planes[i].size # PlaneSize(frame, i)
  THEN Fail("EncoderPlaneSizeMismatch")
  ELSE Succeed(frame.planes)

\* Mutant of Decorrelated: red is taken against the new blue.
DecorrelatedChained(fourcc, planes) ==
  LET blue == (planes[2].shade - planes[1].shade + Seed) % Depth
  IN  IF IsRgbFamily(fourcc)
      THEN [planes EXCEPT ![2].shade = blue,
                          ![3].shade = (@ - blue + Seed) % Depth]
      ELSE planes

\* Blue and red less green, wrapped; green and alpha stay.
Decorrelated(fourcc, planes) ==
  IF IsRgbFamily(fourcc)
  THEN [planes EXCEPT ![2].shade = (@ - planes[1].shade + Seed) % Depth,
                      ![3].shade = (@ - planes[1].shade + Seed) % Depth]
  ELSE planes

\* build_plane_blob: one entry per slice, from 0, each with its rows.
PlaneBlob(frame, i, shade) ==
  LET height == PlaneDimOf(frame, i).height
  IN  [predicted |-> <<frame.predictor, shade>>,
       rows |-> [s \in 0 .. frame.slices - 1 |-> RowCount(height, frame.slices, s)]]

\* The planes in their order, and frame_info.
AssemblePayload(frame, planes) ==
  [planes |-> [i \in PlaneIds(frame) |-> PlaneBlob(frame, i, planes[i].shade)],
   frameInfo |-> AsFrameInfoBits(frame.predictor)]

\* The payload of planes that are as they should be.  No plane fails to be
\* coded (PackageMerge, PlaneEncoder).
Coded(frame) == AssemblePayload(frame, Decorrelated(frame.fourcc, frame.planes))

Encode(frame) == AndThen(Prepare(frame), LAMBDA planes : Succeed(Coded(frame)))
=============================================================================
