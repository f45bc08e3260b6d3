---------------------------- MODULE StreamSetup -----------------------------
(***************************************************************************)
(* What a stream is, before any frame: the five FourCCs, the predictor in  *)
(* frame_info, the extradata block and the configuration made of them      *)
(* (src/fourcc.rs), and the two factories of src/registry.rs that build a  *)
(* configuration from the parameters a container hands over.               *)
(*                                                                         *)
(* Extradata on the wire is a record of its fields and its `length` in     *)
(* bytes; of the flags word the Huffman bit, the interlaced bit and the    *)
(* high byte, the slice count less one, are told apart.  Parameters are a  *)
(* record [tag, pixelFormat, width, height, extradata].                    *)
(***************************************************************************)
EXTENDS Integers, Sequences

CONSTANT Absent     \* Option::None of a parameter

Fourccs == {"ULY0", "ULY2", "ULY4", "ULRG", "ULRA"}

ASSUME AbsentAssumption == Absent \notin Fourccs

Fail(error) == [kind |-> error]
Succeed(v) == [kind |-> "Ok", value |-> v]

\* The `?` operator: the first failure is the result.
AndThen(result, Continue(_)) ==
  IF result.kind = "Ok" THEN Continue(result.value) ELSE result

-----------------------------------------------------------------------------
(* Planes *)

PlaneCount(fourcc) == IF fourcc = "ULRA" THEN 4 ELSE 3

IsRgbFamily(fourcc) == fourcc \in {"ULRG", "ULRA"}

\* The planes in wire order, as PlaneLabel::for_fourcc names them.
PlaneLabels(fourcc) ==
  CASE fourcc \in {"ULY0", "ULY2", "ULY4"} -> <<"Y", "U", "V">>
    [] fourcc = "ULRG" -> <<"G", "B", "R">>
    [] fourcc = "ULRA" -> <<"G", "B", "R", "A">>

\* plane_dim; the planes are numbered from 1.
PlaneDim(fourcc, i, w, h) ==
  [width  |-> IF fourcc \in {"ULY0", "ULY2"} /\ i \in {2, 3} THEN w \div 2 ELSE w,
   height |-> IF fourcc = "ULY0" /\ i \in {2, 3} THEN h \div 2 ELSE h]

\* validate_dims.
DimsFit(fourcc, w, h) ==
  /\ w > 0 /\ h > 0
  /\ fourcc \in {"ULY0", "ULY2"} => w % 2 = 0
  /\ fourcc = "ULY0" => h % 2 = 0

\* Bits 8 and 9 of frame_info.
PredictorOrder == <<"None", "Left", "Gradient", "Median">>
FromFrameInfo(info) == PredictorOrder[((info \div 256) % 4) + 1]
AsFrameInfoBits(predictor) ==
  256 * ((CHOOSE i \in 1 .. 4 : PredictorOrder[i] = predictor) - 1)

-----------------------------------------------------------------------------
(* Extradata and configuration *)

ExtradataBytes == 16
FrameInfoSize == 4

SourceFormatTag(fourcc) ==
  CASE fourcc = "ULY0" -> "YV12" [] fourcc = "ULY2" -> "YUY2"
    [] fourcc = "ULY4" -> "YV24" [] fourcc = "ULRG" -> "0x18010000"
    [] fourcc = "ULRA" -> "0x18020000"

\* Anything past the sixteenth byte is dropped.
Parse(bytes) ==
  IF bytes.length < ExtradataBytes THEN Fail("ExtradataTruncated")
  ELSE IF bytes.frameInfoSize # FrameInfoSize THEN Fail("InvalidFrameInfoSize")
  ELSE IF ~bytes.huffman THEN Fail("HuffmanBitClear")
  ELSE IF bytes.interlaced THEN Fail("InterlacedNotSupported")
  ELSE Succeed([bytes EXCEPT !.length = ExtradataBytes])

NumSlices(extradata) == extradata.slicesLessOne + 1

CanonicalExtradataFor(fourcc, n) ==
  IF n = 0 \/ n > 256 THEN Fail("InvalidSliceCount")
  ELSE Succeed([length |-> ExtradataBytes, version |-> "0x010000f0",
                tag |-> SourceFormatTag(fourcc), frameInfoSize |-> FrameInfoSize,
                huffman |-> TRUE, interlaced |-> FALSE,
                slicesLessOne |-> (n - 1) % 256])

\* A slice count of zero cannot be written down.
NewConfig(fourcc, w, h, extradata) ==
  IF ~DimsFit(fourcc, w, h) THEN Fail("DimensionConstraint")
  ELSE Succeed([fourcc |-> fourcc, width |-> w, height |-> h,
                extradata |-> extradata])

-----------------------------------------------------------------------------
(* Factories *)

\* A tag that is no FourCC of the family counts as absent.
FourccFromParams(params) == IF params.tag \in Fourccs THEN params.tag ELSE Absent

FourccFromPixelFormat(format) ==
  CASE format = "Yuv420P" -> "ULY0" [] format = "Yuv422P" -> "ULY2"
    [] format = "Yuv444P" -> "ULY4"
    [] OTHER -> Absent

HasDims(params) == params.width # Absent /\ params.height # Absent

\* The decoder's: without every piece there is no configuration yet.
BuildStreamConfig(params) ==
  IF FourccFromParams(params) = Absent \/ ~HasDims(params)
     \/ params.extradata.length = 0
  THEN Succeed(Absent)
  ELSE AndThen(Parse(params.extradata),
               LAMBDA x : NewConfig(params.tag, params.width, params.height, x))

\* The encoder's: the tag comes before the pixel format, and one slice is the
\* default.
BuildEncoderConfig(params) ==
  LET fourcc == IF FourccFromParams(params) # Absent THEN params.tag
                ELSE FourccFromPixelFormat(params.pixelFormat)
      extradata == IF params.extradata.length = 0
                   THEN CanonicalExtradataFor(fourcc, 1)
                   ELSE Parse(params.extradata)
  IN  IF fourcc = Absent \/ ~HasDims(params) THEN Fail("MissingParameter")
      ELSE AndThen(extradata,
                   LAMBDA x : NewConfig(fourcc, params.width, params.height, x))

\* Mutant of OutputParams: the tag is passed on as it came.
OutputParamsEchoed(params, cfg) ==
  [tag |-> params.tag, pixelFormat |-> params.pixelFormat,
   width |-> cfg.width, height |-> cfg.height, extradata |-> cfg.extradata]

\* What make_encoder publishes for the container to store; to_bytes writes the
\* extradata's fields back as they are.
OutputParams(params, cfg) ==
  [tag |-> cfg.fourcc, pixelFormat |-> params.pixelFormat,
   width |-> cfg.width, height |-> cfg.height, extradata |-> cfg.extradata]
=============================================================================
