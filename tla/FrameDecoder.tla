---------------------------- MODULE FrameDecoder ----------------------------
(***************************************************************************)
(* One chunk payload to a frame: the decode_frame entries of               *)
(* src/decoder.rs, finish_decode and finish_decode_strict.  A plane is     *)
(* decoded in one step, to the outcome that PlaneDecode promises of every  *)
(* path and thread budget: all its rows, or the error of its first slice   *)
(* that has one.                                                           *)
(*                                                                         *)
(* On the way to the decoder a payload has four more parts: `parse`, what  *)
(* parse_payload says of it (PayloadParser), and per plane whether its     *)
(* descriptor still names a code, and the `condition` of each slice:       *)
(* "whole", "cut" so that codes are missing, or "dirty" after the last.    *)
(***************************************************************************)
EXTENDS FrameEncoder

VARIABLES cfg,          \* StreamConfig
          payload,
          strict,       \* which entry was called
          decoding,     \* "idle", "planes", "done"
          decoded,      \* the planes so far
          answer        \* the frame, or the error and the slice it is about

decodeVars == <<cfg, payload, strict, decoding, decoded, answer>>

DecoderInit ==
  /\ strict = FALSE
  /\ decoding = "idle"
  /\ decoded = << >>
  /\ answer = [kind |-> "None"]

Answer(a) ==
  /\ decoding' = "done"
  /\ answer' = a
  /\ UNCHANGED <<cfg, payload, decoded>>

\* decode_frame and its variants, or decode_frame_strict: the payload is parsed
\* before anything is decoded.
StartDecode(isStrict) ==
  /\ decoding = "idle"
  /\ strict' = isStrict
  /\ IF payload.parse # "Ok"
     THEN Answer(Fail(payload.parse))
     ELSE /\ decoding' = "planes"
          /\ UNCHANGED <<cfg, payload, decoded, answer>>

Slices == 0 .. NumSlices(cfg.extradata) - 1

RowsOfSlice(i, s) ==
  RowCount(PlaneDimOf(cfg, i).height, NumSlices(cfg.extradata), s)

\* What decode_slice or decode_slice_strict says of the slice's bytes.
SliceVerdict(plane, s) ==
  CASE ~plane.coded -> "HuffmanDecodeFailure"
    [] plane.coded /\ plane.condition[s] = "cut" -> "SliceTruncated"
    [] plane.coded /\ plane.condition[s] = "dirty" ->
         IF strict THEN "NonZeroPadding" ELSE "Ok"
    [] plane.coded /\ plane.condition[s] = "whole" -> "Ok"

\* Mutant of BadSlices: slices without rows are looked at as well.
BadSlicesAll(i) == {s \in Slices : SliceVerdict(payload.planes[i], s) # "Ok"}

\* A slice without rows is passed over, in the strict entry too.
BadSlices(i) ==
  {s \in Slices : RowsOfSlice(i, s) > 0 /\ SliceVerdict(payload.planes[i], s) # "Ok"}

\* Undoing the prediction with the predictor of this frame.
Unpredicted(predicted) ==
  IF predicted[1] = FromFrameInfo(payload.frameInfo) THEN predicted[2] ELSE 0

DecodePlane ==
  /\ decoding = "planes"
  /\ Len(decoded) < PlaneCount(cfg.fourcc)
  /\ LET i == Len(decoded) + 1
     IN  IF BadSlices(i) # {}
         THEN LET s == Min(BadSlices(i))
              IN  Answer([kind |-> SliceVerdict(payload.planes[i], s),
                          plane |-> i, slice |-> s])
         ELSE /\ decoded' = Append(decoded,
                    [label |-> PlaneLabels(cfg.fourcc)[i],
                     dim |-> PlaneDimOf(cfg, i),
                     shade |-> Unpredicted(payload.planes[i].predicted)])
              /\ UNCHANGED <<cfg, payload, decoding, answer>>
  /\ UNCHANGED strict

\* Blue and red plus green, wrapped.
Recorrelated(planes) ==
  IF IsRgbFamily(cfg.fourcc)
  THEN [planes EXCEPT ![2].shade = (@ + planes[1].shade - Seed) % Depth,
                      ![3].shade = (@ + planes[1].shade - Seed) % Depth]
  ELSE planes

FinishFrame ==
  /\ decoding = "planes"
  /\ Len(decoded) = PlaneCount(cfg.fourcc)
  /\ Answer(Succeed([fourcc |-> cfg.fourcc, width |-> cfg.width,
                     height |-> cfg.height, frameInfo |-> payload.frameInfo,
                     predictor |-> FromFrameInfo(payload.frameInfo),
                     planes |-> Recorrelated(decoded)]))
  /\ UNCHANGED strict

DecodeStep == DecodePlane \/ FinishFrame

-----------------------------------------------------------------------------
(* Errors *)

\* category() of src/error.rs.
Category(error) ==
  CASE error \in {"UnknownFourcc", "ExtradataTruncated", "InvalidFrameInfoSize",
                  "DimensionConstraint"} -> "StreamShape"
    [] error \in {"InvalidSliceCount", "SliceCountExceedsPlaneHeight",
                  "EncoderPlaneSizeMismatch", "InvalidInput"} -> "ApiMisuse"
    [] error \in {"HuffmanBitClear", "InterlacedNotSupported",
                  "UnsupportedPrediction"} -> "Unsupported"
    [] error \in {"ChunkTooShort", "NonMonotonicSliceOffsets",
                  "SliceNotWordAligned", "KraftViolation",
                  "MultipleSingleSymbolSentinels",
                  "SingleSymbolPlaneHasSliceData", "HuffmanDecodeFailure",
                  "SliceTruncated", "NonZeroPadding", "MissingFrameInfo"}
         -> "MalformedStream"
=============================================================================
