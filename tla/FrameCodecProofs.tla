-------------------------- MODULE FrameCodecProofs --------------------------
(***************************************************************************)
(* For every set of parameters, every frame size, sample depth and slice   *)
(* count, and every damage to the payload: the two ends agree on the       *)
(* stream, no slice of this encoder is empty, what was not damaged comes   *)
(* back as the frame that was sent, and an error is that of the first      *)
(* slice with a reason and of the right category.                          *)
(*                                                                         *)
(* And of a caller's session with the two trait objects, for every number  *)
(* of frames and every order of calls, refused calls, damaged packets and  *)
(* reconfigurations, failed or not, included: nothing that was accepted is *)
(* lost, repeated or reordered, a packet's outcome is its own, it is       *)
(* decoded as the stream configured last, and Eof comes when everything is *)
(* answered.                                                               *)
(***************************************************************************)
EXTENDS FrameCodec, CodecSession, SlicePartitionProofs, SequenceTheorems, FiniteSetTheorems

USE AbsentAssumption, DepthAssumption, CodecAssumption

-----------------------------------------------------------------------------
(* The inductive invariant *)

Predictions == {"None", "Left", "Gradient", "Median"}
Conditions == {"whole", "cut", "dirty"}

\* What NewConfig lets through.
GoodStream(c) ==
  /\ c.fourcc \in Fourccs
  /\ c.width \in Nat /\ c.height \in Nat
  /\ DimsFit(c.fourcc, c.width, c.height)
  /\ c.extradata.slicesLessOne \in 0 .. 255

\* Each factory was called on what the code before it made.
Setup ==
  /\ params \in Params
  /\ stage = "encoder" => made = Nothing
  /\ stage # "encoder" => made = BuildEncoderConfig(params)
  /\ stage \in {"decoder", "frame", "elsewhere", "payload"} => made.kind = "Ok"
  /\ made.kind = "Ok" /\ stage # "decoder" => cfg = made.value

\* A frame with nothing wrong but, perhaps, too many slices for its height.
Fits(f) ==
  /\ f.fourcc = cfg.fourcc /\ f.width = cfg.width /\ f.height = cfg.height
  /\ f.slices = NumSlices(cfg.extradata)
  /\ f.predictor \in Predictions
  /\ f.planes \in Seq([size : Nat, shade : 0 .. Depth - 1])
  /\ Len(f.planes) = PlaneCount(f.fourcc)
  /\ \A i \in PlaneIds(f) : f.planes[i].size = PlaneSize(f, i)

\* What encoding has said, and of which frame.
Sending ==
  /\ stage \in {"encoder", "decoder", "frame"} => sent = Nothing
  /\ \/ sent = Nothing
     \/ sent = Fail("InvalidFrame")
     \/ /\ sent = Encode(frame)
        /\ viaTrait => Fits(frame)
  /\ sent # Nothing => made.kind = "Ok"
  /\ sent.kind = "Ok" \/ stage \in {"elsewhere", "payload"} => Fits(frame)

\* A payload p of the frame f, however damaged, and of no other.
Shade(f, i) == Decorrelated(f.fourcc, f.planes)[i].shade
CodedPlanes ==
  [predicted : Predictions \X (0 .. Depth - 1), coded : BOOLEAN,
   condition : [Slices -> Conditions]]
Packed(f, p) ==
  /\ p \in [parse : {"Ok", "ChunkTooShort"},
            frameInfo : {AsFrameInfoBits(f.predictor)},
            planes : [PlaneIds(cfg) -> CodedPlanes]]
  /\ \A i \in PlaneIds(cfg) : p.planes[i].predicted = <<f.predictor, Shade(f, i)>>
Packing == stage = "payload" => Fits(frame) /\ Packed(frame, payload)

\* Plane i as it comes out of the decoder, before the colours are put back.
DecodedPlane(i) ==
  [label |-> PlaneLabels(cfg.fourcc)[i], dim |-> PlaneDimOf(cfg, i),
   shade |-> Shade(frame, i)]

\* The answer is the frame of the decoded planes, or about the first bad slice
\* of the plane after them.
Answered ==
  IF payload.parse # "Ok" THEN answer = Fail(payload.parse)
  ELSE \/ /\ Len(decoded) = PlaneCount(cfg.fourcc)
          /\ answer = Succeed([fourcc |-> cfg.fourcc, width |-> cfg.width,
                               height |-> cfg.height,
                               frameInfo |-> payload.frameInfo,
                               predictor |-> frame.predictor,
                               planes |-> Recorrelated(decoded)])
       \/ LET i == Len(decoded) + 1
              s == Min(BadSlices(i))
          IN  /\ i \in PlaneIds(cfg) /\ BadSlices(i) # {}
              /\ answer = [kind |-> SliceVerdict(payload.planes[i], s),
                           plane |-> i, slice |-> s]

\* The planes are decoded in their order, and none after one that is bad.
Decoding ==
  /\ decoding \in {"idle", "planes", "done"}
  /\ decoding = "idle" => decoded = << >>
  /\ decoding \in {"idle", "planes"} => answer = Nothing
  /\ decoding \in {"planes", "done"} =>
       /\ stage = "payload"
       /\ Len(decoded) \in 0 .. PlaneCount(cfg.fourcc)
       /\ decoded = [i \in 1 .. Len(decoded) |-> DecodedPlane(i)]
       /\ \A i \in 1 .. Len(decoded) : BadSlices(i) = {}
  /\ decoding = "planes" => payload.parse = "Ok"
  /\ decoding = "done" => Answered

IInv == Setup /\ Sending /\ Packing /\ Decoding

-----------------------------------------------------------------------------
(* The factories *)

\* Extradata that was parsed parses again, to itself.
LEMMA ParsedIsStable ==
  ASSUME NEW b,
         {"length", "frameInfoSize", "huffman", "interlaced", "slicesLessOne"}
           \subseteq DOMAIN b,
         NEW x, Parse(b).kind = "Ok", x = Parse(b).value
  PROVE  /\ Parse(b) = Succeed(x) /\ Parse(x) = Succeed(x)
         /\ x.length = ExtradataBytes /\ x.slicesLessOne = b.slicesLessOne
<1>1. /\ ~(b.length < ExtradataBytes) /\ b.frameInfoSize = FrameInfoSize
      /\ b.huffman /\ ~b.interlaced
      /\ Parse(b) = Succeed([b EXCEPT !.length = ExtradataBytes])
  BY DEF Parse, Fail, Succeed
<1>2. x = [b EXCEPT !.length = ExtradataBytes]
  BY <1>1 DEF Succeed
<1>3. /\ x.length = ExtradataBytes /\ x.frameInfoSize = FrameInfoSize
      /\ x.huffman /\ ~x.interlaced /\ x.slicesLessOne = b.slicesLessOne
  BY <1>1, <1>2
<1>4. [x EXCEPT !.length = ExtradataBytes] = x
  BY <1>2
<1>5. Parse(x) = Succeed([x EXCEPT !.length = ExtradataBytes])
  BY <1>3 DEF Parse, ExtradataBytes
<1> QED
  BY <1>1, <1>2, <1>3, <1>4, <1>5

\* So does the block make_encoder writes when it is given none.
LEMMA CanonicalIsStable ==
  ASSUME NEW f
  PROVE  \E x : /\ CanonicalExtradataFor(f, 1) = Succeed(x)
                /\ Parse(x) = Succeed(x)
                /\ x.length = ExtradataBytes /\ x.slicesLessOne = 0
<1> DEFINE x == [length |-> ExtradataBytes, version |-> "0x010000f0",
                 tag |-> SourceFormatTag(f), frameInfoSize |-> FrameInfoSize,
                 huffman |-> TRUE, interlaced |-> FALSE, slicesLessOne |-> 0]
<1>1. CanonicalExtradataFor(f, 1) = Succeed(x)
  BY DEF CanonicalExtradataFor
<1>2. /\ x.length = ExtradataBytes /\ x.frameInfoSize = FrameInfoSize
      /\ x.huffman /\ ~x.interlaced /\ x.slicesLessOne = 0
  OBVIOUS
<1>3. [x EXCEPT !.length = ExtradataBytes] = x
  <2>1. x = [k \in DOMAIN x |-> x[k]]
    OBVIOUS
  <2> HIDE DEF x
  <2> QED
    BY <1>2, <2>1
<1> HIDE DEF x
<1>4. Parse(x) = Succeed([x EXCEPT !.length = ExtradataBytes])
  BY <1>2 DEF Parse, ExtradataBytes
<1> QED
  BY <1>1, <1>2, <1>3, <1>4

\* A stream the encoder's factory accepts is a good one; made again from what
\* the encoder publishes, it is the same to both factories.
LEMMA StreamIsStable ==
  ASSUME NEW p \in Params, BuildEncoderConfig(p).kind = "Ok",
         NEW c, c = BuildEncoderConfig(p).value,
         NEW o, o = OutputParams(p, c)
  PROVE  /\ GoodStream(c)
         /\ BuildEncoderConfig(p) = Succeed(c)
         /\ BuildStreamConfig(o) = Succeed(c)
         /\ BuildEncoderConfig(o) = Succeed(c)
<1> DEFINE f == IF FourccFromParams(p) # Absent THEN p.tag
                ELSE FourccFromPixelFormat(p.pixelFormat)
           e == IF p.extradata.length = 0 THEN CanonicalExtradataFor(f, 1)
                ELSE Parse(p.extradata)
<1>1. /\ f # Absent /\ HasDims(p)
      /\ BuildEncoderConfig(p) =
           AndThen(e, LAMBDA x : NewConfig(f, p.width, p.height, x))
  BY DEF BuildEncoderConfig, Fail
<1>2. f \in Fourccs
  BY <1>1 DEF FourccFromParams, FourccFromPixelFormat, Fourccs
<1>3. p.width \in Nat /\ p.height \in Nat
  BY <1>1, ParamsAssumption DEF HasDims
<1> HIDE DEF f
<1>4. e.kind = "Ok"
  BY <1>1 DEF AndThen
<1>5. PICK x : /\ e = Succeed(x) /\ Parse(x) = Succeed(x)
               /\ x.length = ExtradataBytes /\ x.slicesLessOne \in 0 .. 255
  <2>1. CASE p.extradata.length = 0
    BY <2>1, CanonicalIsStable
  <2>2. CASE p.extradata.length # 0
    BY <2>2, <1>4, ParsedIsStable, ParamsAssumption
  <2> QED
    BY <2>1, <2>2
<1>6. e.value = x
  BY <1>5 DEF Succeed
<1> HIDE DEF e
<1>7. BuildEncoderConfig(p) = NewConfig(f, p.width, p.height, x)
  BY <1>1, <1>4, <1>6 DEF AndThen
<1>8. /\ DimsFit(f, p.width, p.height)
      /\ c = [fourcc |-> f, width |-> p.width, height |-> p.height, extradata |-> x]
      /\ BuildEncoderConfig(p) = Succeed(c)
  BY <1>7 DEF NewConfig, Fail, Succeed
<1>9. GoodStream(c)
  BY <1>2, <1>3, <1>5, <1>8 DEF GoodStream
<1>10. /\ o.tag = f /\ o.width = p.width /\ o.height = p.height /\ o.extradata = x
  BY <1>8 DEF OutputParams
<1>11. /\ FourccFromParams(o) = f /\ FourccFromParams(o) # Absent /\ HasDims(o)
       /\ o.extradata.length # 0 /\ Parse(o.extradata) = Succeed(x)
       /\ Succeed(x).kind = "Ok" /\ Succeed(x).value = x
  BY <1>1, <1>2, <1>5, <1>10
  DEF FourccFromParams, HasDims, ExtradataBytes, Succeed
<1>12. /\ BuildStreamConfig(o) = NewConfig(f, p.width, p.height, x)
       /\ BuildEncoderConfig(o) = NewConfig(f, p.width, p.height, x)
  BY <1>10, <1>11 DEF BuildStreamConfig, BuildEncoderConfig, AndThen
<1> QED
  BY <1>7, <1>8, <1>9, <1>12

\* Given every piece, the two factories do the same.
LEMMA FactoriesAgree ==
  ASSUME NEW p, Complete(p), p.extradata.length \in Nat
  PROVE  BuildStreamConfig(p) = BuildEncoderConfig(p)
<1>1. /\ FourccFromParams(p) # Absent /\ p.tag # Absent /\ HasDims(p)
      /\ p.extradata.length # 0
  BY DEF Complete, FourccFromParams
<1> QED
  BY <1>1 DEF BuildStreamConfig, BuildEncoderConfig, AndThen

\* A stream the encoder's factory refuses is refused for its shape, for what
\* the codec does not support, or for a parameter that is not there.
LEMMA FactoryErrors ==
  ASSUME NEW p, BuildEncoderConfig(p).kind # "Ok"
  PROVE  BuildEncoderConfig(p).kind \in
           {"MissingParameter", "ExtradataTruncated", "InvalidFrameInfoSize",
            "HuffmanBitClear", "InterlacedNotSupported", "DimensionConstraint"}
<1> DEFINE f == IF FourccFromParams(p) # Absent THEN p.tag
                ELSE FourccFromPixelFormat(p.pixelFormat)
           e == IF p.extradata.length = 0 THEN CanonicalExtradataFor(f, 1)
                ELSE Parse(p.extradata)
<1>1. e.kind \in {"Ok", "ExtradataTruncated", "InvalidFrameInfoSize",
                  "HuffmanBitClear", "InterlacedNotSupported"}
  <2>1. CanonicalExtradataFor(f, 1).kind = "Ok"
    BY DEF CanonicalExtradataFor, Succeed
  <2> QED
    BY <2>1 DEF Parse, Succeed, Fail
<1>2. \/ BuildEncoderConfig(p) = Fail("MissingParameter")
      \/ BuildEncoderConfig(p) =
           AndThen(e, LAMBDA x : NewConfig(f, p.width, p.height, x))
  BY DEF BuildEncoderConfig
<1> HIDE DEF e, f
<1>3. \A x : NewConfig(f, p.width, p.height, x).kind \in {"Ok", "DimensionConstraint"}
  BY DEF NewConfig, Succeed, Fail
<1> QED
  BY <1>1, <1>2, <1>3 DEF AndThen, Fail

-----------------------------------------------------------------------------
(* Planes and slices of a stream *)

\* Every plane of a good stream has at least one sample.
LEMMA PlanesOfStream ==
  ASSUME NEW c, GoodStream(c)
  PROVE  /\ PlaneCount(c.fourcc) \in {3, 4}
         /\ PlaneIds(c) = 1 .. PlaneCount(c.fourcc)
         /\ NumSlices(c.extradata) \in 1 .. MaxSlices
         /\ \A i \in PlaneIds(c) :
              /\ PlaneDimOf(c, i).width \in Nat \ {0}
              /\ PlaneDimOf(c, i).height \in Nat \ {0}
              /\ PlaneSize(c, i) \in Nat
<1>1. PlaneCount(c.fourcc) \in {3, 4} /\ PlaneIds(c) = 1 .. PlaneCount(c.fourcc)
  BY DEF PlaneCount, PlaneIds
<1>2. NumSlices(c.extradata) \in 1 .. MaxSlices
  BY DEF GoodStream, NumSlices, MaxSlices
<1>3. ASSUME NEW i \in PlaneIds(c)
      PROVE  /\ PlaneDimOf(c, i).width \in Nat \ {0}
             /\ PlaneDimOf(c, i).height \in Nat \ {0}
             /\ PlaneSize(c, i) \in Nat
  <2> DEFINE w == c.width
             h == c.height
             pw == PlaneDimOf(c, i).width
             ph == PlaneDimOf(c, i).height
  <2>1. /\ pw = IF c.fourcc \in {"ULY0", "ULY2"} /\ i \in {2, 3} THEN w \div 2 ELSE w
        /\ ph = IF c.fourcc = "ULY0" /\ i \in {2, 3} THEN h \div 2 ELSE h
        /\ PlaneSize(c, i) = pw * ph
    BY DEF PlaneDimOf, PlaneDim, PlaneSize
  <2>2. /\ w \in Nat /\ h \in Nat /\ w > 0 /\ h > 0
        /\ c.fourcc \in {"ULY0", "ULY2"} => w % 2 = 0
        /\ c.fourcc = "ULY0" => h % 2 = 0
    BY DEF GoodStream, DimsFit
  <2> HIDE DEF w, h, pw, ph
  <2>3. \A n \in Nat : n > 0 /\ n % 2 = 0 => n \div 2 \in Nat /\ n \div 2 > 0
    OBVIOUS
  <2>4. pw \in Nat /\ pw > 0 /\ ph \in Nat /\ ph > 0
    BY <2>1, <2>2, <2>3
  <2>5. pw * ph \in Nat
    BY <2>4, MulNat
  <2> QED
    BY <2>1, <2>4, <2>5 DEF pw, ph
<1> QED
  BY <1>1, <1>2, <1>3

\* A frame that fits has the planes of its stream.
LEMMA PlanesOfFrame ==
  ASSUME NEW f, Fits(f)
  PROVE  /\ PlaneIds(f) = PlaneIds(cfg)
         /\ PlaneCount(f.fourcc) = PlaneCount(cfg.fourcc)
         /\ \A i : /\ PlaneDimOf(f, i) = PlaneDimOf(cfg, i)
                   /\ PlaneSize(f, i) = PlaneSize(cfg, i)
BY DEF Fits, PlaneIds, PlaneDimOf, PlaneSize

\* The smallest height is the height of a plane, and no plane is lower.
LEMMA SmallestIsLeast ==
  ASSUME NEW f, GoodStream(cfg), Fits(f)
  PROVE  /\ SmallestHeight(f) \in Nat
         /\ \A i \in PlaneIds(f) : SmallestHeight(f) <= PlaneDimOf(f, i).height
<1> DEFINE S == {PlaneDimOf(f, i).height : i \in PlaneIds(f)}
<1>1. \A i \in PlaneIds(f) : PlaneDimOf(f, i).height \in Nat
  BY PlanesOfStream, PlanesOfFrame
<1>2. S \in SUBSET Nat
  BY <1>1
<1>3. 1 \in PlaneIds(f)
  BY PlanesOfStream, PlanesOfFrame
<1>4. S # {}
  BY <1>3
<1>5. \E m \in S : \A k \in S : m <= k
  BY <1>2, <1>4, LeastNat
<1>6. SmallestHeight(f) = CHOOSE m \in S : \A k \in S : m <= k
  BY DEF SmallestHeight, Min
<1> HIDE DEF S
<1>7. SmallestHeight(f) \in S /\ \A k \in S : SmallestHeight(f) <= k
  BY <1>5, <1>6
<1> QED
  BY <1>2, <1>7 DEF S

\* With no more slices than rows, every slice has a row.
LEMMA SliceHasRow ==
  ASSUME NEW ph \in Nat, NEW n \in Nat \ {0}, n <= ph, NEW s \in Nat
  PROVE  RowCount(ph, n, s) > 0
<1>1. ph * s \in Nat /\ ph * (s + 1) = ph * s + ph
  BY MulNat
<1>2. ph * s + n \in Nat /\ ph * s + ph \in Nat /\ ph * s + n <= ph * s + ph
  BY <1>1
<1>3. (ph * s + n) \div n <= (ph * (s + 1)) \div n
  BY <1>1, <1>2, DivMono
<1>4. \A a \in Nat : (a + n) \div n = a \div n + 1
  OBVIOUS
<1>5. (ph * s) \div n \in Nat /\ (ph * (s + 1)) \div n \in Nat
  BY <1>1, <1>2, DivDef
<1> QED
  BY <1>1, <1>3, <1>4, <1>5 DEF RowCount, RowStart, RowEnd

-----------------------------------------------------------------------------
(* Encoding *)

EncodeErrors ==
  {"DimensionConstraint", "EncoderPlaneSizeMismatch", "InvalidSliceCount",
   "SliceCountExceedsPlaneHeight"}

\* encode_frame gives the payload or one of the errors of prepare_planes.
LEMMA EncodeOutcomes ==
  ASSUME NEW f
  PROVE  \/ Prepare(f).kind = "Ok" /\ Encode(f) = Succeed(Coded(f))
         \/ Prepare(f).kind \in EncodeErrors /\ Encode(f) = Prepare(f)
<1>1. Prepare(f).kind \in EncodeErrors \cup {"Ok"}
  BY DEF Prepare, Fail, Succeed, EncodeErrors
<1>2. Encode(f) = IF Prepare(f).kind = "Ok" THEN Succeed(Coded(f)) ELSE Prepare(f)
  BY DEF Encode, AndThen
<1> QED
  BY <1>1, <1>2 DEF EncodeErrors

\* Only its slice count can be held against a frame that fits.
LEMMA FittingFrame ==
  ASSUME NEW f, GoodStream(cfg), Fits(f)
  PROVE  /\ f.slices \in 1 .. MaxSlices
         /\ Encode(f) = IF f.slices > SmallestHeight(f)
                        THEN Fail("SliceCountExceedsPlaneHeight")
                        ELSE Succeed(Coded(f))
<1>1. f.slices \in 1 .. MaxSlices
  BY PlanesOfStream DEF Fits
<1>2. DimsFit(f.fourcc, f.width, f.height)
  BY DEF GoodStream, Fits
<1>3. ~(f.slices = 0 \/ f.slices > MaxSlices)
  BY <1>1 DEF MaxSlices
<1>4. Prepare(f) = IF f.slices > SmallestHeight(f)
                   THEN Fail("SliceCountExceedsPlaneHeight")
                   ELSE Succeed(f.planes)
  BY <1>2, <1>3 DEF Prepare, Fits
<1>5. Prepare(f).kind = IF f.slices > SmallestHeight(f)
                        THEN "SliceCountExceedsPlaneHeight" ELSE "Ok"
  BY <1>4 DEF Fail, Succeed
<1> QED
  BY <1>1, <1>4, <1>5 DEF Encode, AndThen

SamplePlanes == [size : Nat, shade : 0 .. Depth - 1]

\* A function on 1 .. n is a sequence of length n.
LEMMA SequenceOf ==
  ASSUME NEW S, NEW n \in Nat, NEW f \in [1 .. n -> S]
  PROVE  f \in Seq(S) /\ Len(f) = n
BY SeqDef

\* What send_frame makes of a video frame fits the stream, or is refused.
LEMMA RepackedFits ==
  ASSUME GoodStream(cfg), NEW picture \in Pictures,
         NEW predictor \in Predictions, NEW pad, NEW odd, NEW extra,
         NEW video, video = Video(picture, pad, odd, extra),
         NEW v \in {video, Tail(video)},
         NEW input, input = FrameFromVideo(cfg, v, predictor)
  PROVE  \/ input = Fail("InvalidFrame")
         \/ /\ input.kind = "Ok"
            /\ Fits(input.value)
<1> DEFINE n == PlaneCount(cfg.fourcc)
           repacked == [i \in DOMAIN v |-> Repack(cfg, i, v[i])]
           S == {video[i] : i \in 1 .. n}
<1>1. /\ n \in {3, 4} /\ PlaneIds(cfg) = 1 .. n
      /\ \A i \in 1 .. n : PlaneSize(cfg, i) \in Nat
  BY PlanesOfStream
<1>2. /\ DOMAIN video = 1 .. n
      /\ \A i \in 1 .. n : video[i].shade = picture[i]
      /\ video \in [1 .. n -> S]
  BY <1>1 DEF Video
<1>3. video \in Seq(S) /\ Len(video) = n
  BY <1>1, <1>2, SequenceOf
<1>4. CASE v = Tail(video)
  <2>1. video # << >>
    BY <1>1, <1>3, EmptySeq
  <2>2. Len(v) = n - 1
    BY <1>3, <1>4, <2>1, HeadTailProperties
  <2> QED
    BY <1>1, <2>2 DEF FrameFromVideo
<1>5. CASE v = video /\ input # Fail("InvalidFrame")
  <2>1. /\ \A i \in DOMAIN v : repacked[i].kind = "Ok"
        /\ input = Succeed([fourcc |-> cfg.fourcc, width |-> cfg.width,
                            height |-> cfg.height, predictor |-> predictor,
                            slices |-> NumSlices(cfg.extradata),
                            planes |-> [i \in DOMAIN v |-> repacked[i].value]])
    BY <1>5 DEF FrameFromVideo
  <2> DEFINE g == [i \in DOMAIN v |-> repacked[i].value]
  <2>2. ASSUME NEW i \in 1 .. n
        PROVE  g[i] = [size |-> PlaneSize(cfg, i), shade |-> picture[i]]
    <3>1. /\ i \in DOMAIN v /\ g[i] = Repack(cfg, i, v[i]).value
          /\ Repack(cfg, i, v[i]).kind = "Ok"
      BY <1>2, <1>5, <2>1
    <3>2. Repack(cfg, i, v[i]) = Succeed([size |-> PlaneSize(cfg, i),
                                          shade |-> v[i].shade])
      BY <3>1 DEF Repack, Fail, PlaneSize
    <3> QED
      BY <1>2, <1>5, <3>1, <3>2 DEF Succeed
  <2>3. DOMAIN g = 1 .. n
    BY <1>2, <1>5
  <2>4. \A i \in 1 .. n : picture[i] \in 0 .. Depth - 1
    BY <1>1, PicturesAssumption
  <2> HIDE DEF g
  <2>5. g = [i \in 1 .. n |-> g[i]]
    <3>1. g = [i \in DOMAIN g |-> g[i]]
      BY DEF g
    <3> QED
      BY <2>3, <3>1
  <2>6. g \in [1 .. n -> SamplePlanes]
    BY <1>1, <2>2, <2>4, <2>5 DEF SamplePlanes
  <2>7. g \in Seq(SamplePlanes) /\ Len(g) = n
    BY <1>1, <2>6, SequenceOf
  <2>8. /\ input.kind = "Ok"
        /\ input.value = [fourcc |-> cfg.fourcc, width |-> cfg.width,
                          height |-> cfg.height, predictor |-> predictor,
                          slices |-> NumSlices(cfg.extradata), planes |-> g]
    BY <2>1 DEF Succeed, g
  <2>9. /\ PlaneIds(input.value) = 1 .. n
        /\ \A i : PlaneSize(input.value, i) = PlaneSize(cfg, i)
    BY <1>1, <2>8 DEF PlaneIds, PlaneSize, PlaneDimOf
  <2> QED
    BY <2>2, <2>7, <2>8, <2>9 DEF Fits, SamplePlanes
<1> QED
  BY <1>4, <1>5

\* The frame built by hand fits.
LEMMA DirectFits ==
  ASSUME GoodStream(cfg), NEW picture \in Pictures
  PROVE  Fits(Direct(picture, "Left"))
<1> DEFINE n == PlaneCount(cfg.fourcc)
           f == Direct(picture, "Left")
           g == [i \in PlaneIds(cfg) |->
                   [size |-> PlaneSize(cfg, i), shade |-> picture[i]]]
<1>1. /\ n \in {3, 4} /\ PlaneIds(cfg) = 1 .. n
      /\ \A i \in 1 .. n : PlaneSize(cfg, i) \in Nat
  BY PlanesOfStream
<1>2. \A i \in 1 .. n : picture[i] \in 0 .. Depth - 1
  BY <1>1, PicturesAssumption
<1>3. g \in [1 .. n -> SamplePlanes]
  BY <1>1, <1>2 DEF SamplePlanes
<1>4. g \in Seq(SamplePlanes) /\ Len(g) = n
  BY <1>1, <1>3, SequenceOf
<1>5. f = [fourcc |-> cfg.fourcc, width |-> cfg.width, height |-> cfg.height,
           predictor |-> "Left", slices |-> NumSlices(cfg.extradata), planes |-> g]
  BY DEF Direct
<1>6. \A i \in 1 .. n : g[i].size = PlaneSize(cfg, i)
  BY <1>1
<1> HIDE DEF f, g
<1>7. /\ PlaneIds(f) = 1 .. n
      /\ \A i : PlaneSize(f, i) = PlaneSize(cfg, i)
  BY <1>1, <1>5 DEF PlaneIds, PlaneSize, PlaneDimOf
<1>8. Fits(f)
  BY <1>4, <1>5, <1>6, <1>7 DEF Fits, SamplePlanes, Predictions
<1> QED
  BY <1>8 DEF f

\* A frame that is wrong in one thing is refused, and not for its slices alone.
LEMMA MisshapenRefused ==
  ASSUME GoodStream(cfg), NEW picture \in Pictures,
         NEW g \in Misshapen(Direct(picture, "Left"))
  PROVE  Encode(g).kind \in EncodeErrors /\ ~OnlyTooManySlices(g)
<1> DEFINE f == Direct(picture, "Left")
           n == PlaneCount(cfg.fourcc)
<1>1. /\ n \in {3, 4} /\ PlaneIds(cfg) = 1 .. n
      /\ \A i \in 1 .. n : PlaneSize(cfg, i) \in Nat
  BY PlanesOfStream
<1>2. /\ f.fourcc = cfg.fourcc /\ f.width = cfg.width /\ f.height = cfg.height
      /\ f.planes \in Seq(SamplePlanes) /\ Len(f.planes) = n
      /\ \A i \in 1 .. n : f.planes[i].size = PlaneSize(cfg, i)
  BY <1>1, DirectFits, PlanesOfFrame DEF Fits, SamplePlanes
<1>3. /\ {"fourcc", "width", "height", "slices", "planes"} \subseteq DOMAIN f
      /\ f = [k \in DOMAIN f |-> f[k]]
  BY DEF Direct
<1> HIDE DEF f
<1>4. \/ g = [f EXCEPT !.width = 0] \/ g = [f EXCEPT !.slices = 0]
      \/ g = [f EXCEPT !.slices = MaxSlices + 1]
      \/ g = [f EXCEPT !.planes = Tail(@)]
      \/ g = [f EXCEPT !.planes[Len(f.planes)].size = @ + 1]
  BY DEF Misshapen, f
<1>5. ASSUME Prepare(g).kind \in EncodeErrors \ {"SliceCountExceedsPlaneHeight"}
      PROVE  Encode(g).kind \in EncodeErrors /\ ~OnlyTooManySlices(g)
  BY <1>5, EncodeOutcomes DEF OnlyTooManySlices, EncodeErrors
<1>6. CASE g = [f EXCEPT !.width = 0]
  <2>1. ~DimsFit(g.fourcc, g.width, g.height)
    BY <1>3, <1>6 DEF DimsFit
  <2> QED
    BY <1>5, <2>1 DEF Prepare, Fail, EncodeErrors
<1>7. CASE g = [f EXCEPT !.slices = 0] \/ g = [f EXCEPT !.slices = MaxSlices + 1]
  <2>1. g.slices = 0 \/ g.slices > MaxSlices
    BY <1>3, <1>7 DEF MaxSlices
  <2> QED
    BY <1>5, <2>1 DEF Prepare, Fail, EncodeErrors
<1>8. CASE g = [f EXCEPT !.planes = Tail(@)]
  <2>1. g.planes = Tail(f.planes) /\ g.fourcc = f.fourcc
    BY <1>3, <1>8
  <2>2. f.planes # << >>
    BY <1>1, <1>2, EmptySeq
  <2>3. Len(g.planes) = n - 1
    BY <1>2, <2>1, <2>2, HeadTailProperties
  <2>4. Len(g.planes) # PlaneCount(g.fourcc)
    BY <1>1, <1>2, <2>1, <2>3
  <2> QED
    BY <1>5, <2>4 DEF Prepare, Fail, EncodeErrors
<1>9. CASE g = [f EXCEPT !.planes[Len(f.planes)].size = @ + 1]
  <2>1. /\ g.planes = [f.planes EXCEPT ![n].size = @ + 1]
        /\ g.fourcc = f.fourcc /\ g.width = f.width /\ g.height = f.height
    BY <1>2, <1>3, <1>9
  <2>2. n \in DOMAIN f.planes /\ f.planes[n] \in SamplePlanes
    BY <1>1, <1>2, LenProperties, ElementOfSeq
  <2>3. g.planes[n].size = PlaneSize(cfg, n) + 1
    <3>1. g.planes[n] = [f.planes[n] EXCEPT !.size = f.planes[n].size + 1]
      BY <2>1, <2>2
    <3>2. "size" \in DOMAIN f.planes[n]
      BY <2>2 DEF SamplePlanes
    <3>3. f.planes[n].size = PlaneSize(cfg, n)
      BY <1>1, <1>2
    <3> QED
      BY <3>1, <3>2, <3>3
  <2>4. n \in PlaneIds(g) /\ PlaneSize(g, n) = PlaneSize(cfg, n)
    BY <1>1, <1>2, <2>1 DEF PlaneIds, PlaneSize, PlaneDimOf
  <2>5. g.planes[n].size # PlaneSize(g, n)
    BY <1>1, <2>3, <2>4
  <2>6. Prepare(g).kind # "Ok"
    BY <2>4, <2>5 DEF Prepare, Fail
  <2> QED
    BY <2>4, <2>5, <2>6, EncodeOutcomes DEF OnlyTooManySlices
<1> QED
  BY <1>4, <1>6, <1>7, <1>8, <1>9

-----------------------------------------------------------------------------
(* The setup and the sending are as they should be *)

\* The configuration a frame is coded and decoded with is a good one.
LEMMA ConfigIsGood ==
  ASSUME Setup, made.kind = "Ok"
  PROVE  /\ GoodStream(made.value)
         /\ made = Succeed(made.value)
         /\ stage # "decoder" => GoodStream(cfg) /\ cfg = made.value
<1>1. made = BuildEncoderConfig(params) /\ params \in Params
  BY DEF Setup, Nothing
<1> QED
  BY <1>1, StreamIsStable DEF Setup

\* What every action after the setup leaves alone.
LEMMA SetupFixed ==
  ASSUME SendFrame \/ EncodeDirectly \/ EncodeElsewhere \/ Damage \/ Decode
         \/ Done \/ UNCHANGED vars
  PROVE  params' = params /\ made' = made /\ cfg' = cfg
BY DEF SendFrame, EncodeDirectly, EncodeFrame, EncodeElsewhere, Damage, Decode,
   Done, vars, setupVars, decodeVars, DecodeStep, DecodePlane, FinishFrame,
   StartDecode, Answer

LEMMA SetupInit == Init => Setup
BY DEF Init, Setup, Nothing

\* The factories are called in their order and their answers kept.
LEMMA SetupStep == Setup /\ [Next]_vars => Setup'
<1> SUFFICES ASSUME Setup, [Next]_vars PROVE Setup'
  OBVIOUS
<1>1. CASE MakeEncoder
  BY <1>1 DEF MakeEncoder, Setup
<1>2. CASE MakeDecoder
  <2>1. /\ made.kind = "Ok" /\ params \in Params /\ stage = "decoder"
        /\ made = BuildEncoderConfig(params)
    BY <1>2 DEF MakeDecoder, Setup
  <2>2. BuildStreamConfig(OutputParams(params, made.value)) = Succeed(made.value)
    BY <2>1, StreamIsStable
  <2>3. cfg' = made.value
    BY <1>2, <2>2 DEF MakeDecoder, Succeed
  <2>4. params' = params /\ made' = made /\ stage' \in {"frame", "done"}
    BY <1>2 DEF MakeDecoder, setupVars
  <2> QED
    BY <2>1, <2>3, <2>4 DEF Setup
<1>3. CASE SendFrame \/ EncodeDirectly
  <2>1. stage = "frame" /\ stage' \in {"elsewhere", "payload", "done"}
    BY <1>3 DEF SendFrame, EncodeDirectly, EncodeFrame, Shipped, NothingShipped
  <2> QED
    BY <1>3, <2>1, SetupFixed DEF Setup
<1>4. CASE EncodeElsewhere
  <2>1. stage = "elsewhere" /\ stage' = "payload"
    BY <1>4 DEF EncodeElsewhere, Shipped
  <2> QED
    BY <1>4, <2>1, SetupFixed DEF Setup
<1>5. CASE Damage \/ Decode \/ Done \/ UNCHANGED vars
  <2>1. stage' = stage
    BY <1>5 DEF Damage, Decode, Done, vars
  <2> QED
    BY <1>5, <2>1, SetupFixed DEF Setup
<1> QED
  BY <1>1, <1>2, <1>3, <1>4, <1>5 DEF Next

LEMMA SendingInit == Init => Sending
BY DEF Init, Sending, Nothing

\* encode_frame is called with a frame that fits, or says that it does not.
LEMMA EncodeFrameSends ==
  ASSUME NEW input, NEW trait, EncodeFrame(input, trait), cfg' = cfg,
         made' = made, made.kind = "Ok",
         \/ Fits(input)
         \/ /\ ~trait
            /\ Encode(input).kind # "Ok" /\ ~OnlyTooManySlices(input)
  PROVE  /\ Sending' /\ frame' = input /\ sent' = Encode(input)
         /\ stage' \in {"payload", "elsewhere", "done"}
         /\ stage' = "payload" =>
              Fits(input) /\ Encode(input).kind = "Ok"
              /\ payload' = Intact(Encode(input).value)
<1>1. /\ frame' = input /\ viaTrait' = trait /\ sent' = Encode(input)
      /\ \/ /\ Encode(input).kind = "Ok"
            /\ payload' = Intact(Encode(input).value) /\ stage' = "payload"
         \/ /\ Encode(input).kind # "Ok" /\ OnlyTooManySlices(input)
            /\ stage' = "elsewhere"
         \/ Encode(input).kind # "Ok" /\ stage' = "done"
  BY DEF EncodeFrame, Shipped, NothingShipped
<1>2. \A f : Fits(f)' <=> Fits(f)
  BY DEF Fits, PlaneIds, PlaneSize, PlaneDimOf
<1>3. Encode(frame)' = Encode(input)
  BY <1>1 DEF Encode
<1> QED
  BY <1>1, <1>2, <1>3 DEF Sending

\* A frame that is sent or encoded directly is answered for as it should be.
LEMMA FrameSent ==
  ASSUME Setup, SendFrame \/ EncodeDirectly
  PROVE  /\ Sending'
         /\ stage' \in {"payload", "elsewhere", "done"}
         /\ stage' = "payload" =>
              Fits(frame)' /\ payload' = Intact(Coded(frame'))
<1>0. /\ cfg' = cfg /\ made' = made /\ made.kind = "Ok" /\ GoodStream(cfg)
      /\ stage = "frame"
  BY SetupFixed, ConfigIsGood DEF Setup, SendFrame, EncodeDirectly
<1>1. \A f : Fits(f)' <=> Fits(f)
  BY <1>0 DEF Fits, PlaneIds, PlaneSize, PlaneDimOf
<1>2. ASSUME NEW input, NEW trait, EncodeFrame(input, trait),
             \/ Fits(input)
             \/ /\ ~trait
                /\ Encode(input).kind # "Ok" /\ ~OnlyTooManySlices(input)
      PROVE  /\ Sending'
             /\ stage' \in {"payload", "elsewhere", "done"}
             /\ stage' = "payload" =>
                  Fits(frame)' /\ payload' = Intact(Coded(frame'))
  <2>1. Encode(input).kind = "Ok" => Encode(input).value = Coded(input)
    BY EncodeOutcomes DEF EncodeErrors, Succeed
  <2>2. /\ Sending' /\ frame' = input
        /\ stage' \in {"payload", "elsewhere", "done"}
        /\ stage' = "payload" =>
             Fits(input) /\ Encode(input).kind = "Ok"
             /\ payload' = Intact(Encode(input).value)
    BY <1>0, <1>2, EncodeFrameSends
  <2>3. Fits(frame)' <=> Fits(input)
    BY <1>0, <2>2 DEF Fits, PlaneIds, PlaneSize, PlaneDimOf
  <2> QED
    BY <2>1, <2>2, <2>3
<1>3. CASE SendFrame
  <2>1. PICK picture \in Pictures, predictor \in {PredictorOrder[i] : i \in 1 .. 4},
             pad \in -1 .. 1, extra \in -1 .. 1, odd \in PlaneIds(cfg),
             short \in BOOLEAN :
          LET video == Video(picture, pad, odd, extra)
              input == FrameFromVideo(cfg, IF short THEN Tail(video) ELSE video,
                                      predictor)
          IN  IF input.kind = "Ok" THEN EncodeFrame(input.value, TRUE)
              ELSE /\ viaTrait' = TRUE /\ sent' = input
                   /\ NothingShipped
                   /\ UNCHANGED <<setupVars, frame, problems, cfg, strict,
                                  decoding, decoded, answer>>
    BY <1>3 DEF SendFrame
  <2> DEFINE video == Video(picture, pad, odd, extra)
             v == IF short THEN Tail(video) ELSE video
             input == FrameFromVideo(cfg, v, predictor)
  <2>2. predictor \in Predictions
    BY DEF Predictions, PredictorOrder
  <2>3. \/ input = Fail("InvalidFrame")
        \/ input.kind = "Ok" /\ Fits(input.value)
    BY <1>0, <2>2, RepackedFits
  <2>4. \/ input.kind = "Ok" /\ EncodeFrame(input.value, TRUE)
        \/ /\ input.kind # "Ok" /\ sent' = input
           /\ NothingShipped
           /\ frame' = frame
    BY <2>1
  <2> HIDE DEF input
  <2>5. CASE input.kind = "Ok" /\ EncodeFrame(input.value, TRUE)
    <3>1. Fits(input.value)
      BY <2>3, <2>5 DEF Fail
    <3> QED
      BY <1>2, <2>5, <3>1
  <2>6. CASE input.kind # "Ok" /\ sent' = input /\ NothingShipped /\ frame' = frame
    <3>1. sent' = Fail("InvalidFrame") /\ sent'.kind # "Ok" /\ stage' = "done"
      BY <2>3, <2>6 DEF NothingShipped, Fail
    <3> QED
      BY <1>0, <3>1 DEF Sending, Fail
  <2> QED
    BY <2>4, <2>5, <2>6
<1>4. CASE EncodeDirectly
  <2>0. PICK picture \in Pictures :
          \E input \in {Direct(picture, "Left")} \cup Misshapen(Direct(picture, "Left")) :
            EncodeFrame(input, FALSE)
    BY <1>4 DEF EncodeDirectly
  <2>1. PICK input \in {Direct(picture, "Left")} \cup Misshapen(Direct(picture, "Left")) :
          EncodeFrame(input, FALSE)
    BY <2>0
  <2>2. \/ Fits(input)
        \/ Encode(input).kind # "Ok" /\ ~OnlyTooManySlices(input)
    BY <1>0, DirectFits, MisshapenRefused DEF EncodeErrors
  <2> QED
    BY <1>2, <2>1, <2>2
<1> QED
  BY <1>3, <1>4

\* Once said, what encode_frame has said stays, and of the same frame.
LEMMA SendingStep == Setup /\ Sending /\ [Next]_vars => Sending'
<1> SUFFICES ASSUME Setup, Sending, [Next]_vars PROVE Sending'
  OBVIOUS
<1>1. CASE MakeEncoder \/ MakeDecoder
  <2>1. /\ sent' = sent /\ stage' # "encoder" /\ stage' \notin {"elsewhere", "payload"}
        /\ sent = Nothing
    BY <1>1 DEF MakeEncoder, MakeDecoder, encodeVars, Sending
  <2> QED
    BY <2>1 DEF Sending, Nothing
<1>2. CASE SendFrame \/ EncodeDirectly
  BY <1>2, FrameSent
<1>3. CASE EncodeElsewhere \/ Damage \/ Decode \/ Done \/ UNCHANGED vars
  <2>1. /\ sent' = sent /\ frame' = frame /\ viaTrait' = viaTrait
        /\ stage' = stage \/ (stage = "elsewhere" /\ stage' = "payload")
    BY <1>3 DEF EncodeElsewhere, Shipped, Damage, Decode, Done, vars, encodeVars
  <2>2. cfg' = cfg /\ made' = made
    BY <1>3, SetupFixed
  <2>3. (Fits(frame)' <=> Fits(frame)) /\ Encode(frame)' = Encode(frame)
    BY <2>1, <2>2 DEF Fits, PlaneIds, PlaneSize, PlaneDimOf, Encode
  <2> QED
    BY <2>1, <2>2, <2>3 DEF Sending
<1> QED
  BY <1>1, <1>2, <1>3 DEF Next

-----------------------------------------------------------------------------
(* Payloads *)

\* The bits of frame_info give the predictor back.
LEMMA PredictorSurvives ==
  ASSUME NEW p \in Predictions
  PROVE  FromFrameInfo(AsFrameInfoBits(p)) = p
<1> DEFINE k == CHOOSE i \in 1 .. 4 : PredictorOrder[i] = p
<1>1. k \in 1 .. 4 /\ PredictorOrder[k] = p
  <2>1. \E i \in 1 .. 4 : PredictorOrder[i] = p
    BY DEF Predictions, PredictorOrder
  <2> QED
    BY <2>1
<1>2. AsFrameInfoBits(p) = 256 * (k - 1)
  BY DEF AsFrameInfoBits
<1> HIDE DEF k
<1>3. ((256 * (k - 1)) \div 256) % 4 = k - 1
  BY <1>1
<1>4. (k - 1) + 1 = k
  BY <1>1
<1> QED
  BY <1>1, <1>2, <1>3, <1>4 DEF FromFrameInfo

\* The planes of a frame that fits, and what the colour transform makes of
\* them.
LEMMA ShadesOfFrame ==
  ASSUME NEW f, GoodStream(cfg), Fits(f)
  PROVE  /\ DOMAIN f.planes = PlaneIds(cfg)
         /\ \A i \in PlaneIds(cfg) :
              /\ f.planes[i] \in SamplePlanes
              /\ Shade(f, i) \in 0 .. Depth - 1
              /\ Shade(f, i) =
                   IF IsRgbFamily(f.fourcc) /\ i \in {2, 3}
                   THEN (f.planes[i].shade - (f.planes[1].shade - Seed)) % Depth
                   ELSE f.planes[i].shade
<1> DEFINE n == PlaneCount(cfg.fourcc)
           s == f.planes
<1>1. n \in {3, 4} /\ PlaneIds(cfg) = 1 .. n
  BY PlanesOfStream
<1>2. s \in [1 .. n -> SamplePlanes]
  <2>1. s \in Seq(SamplePlanes) /\ Len(s) = n
    BY DEF Fits, SamplePlanes
  <2> QED
    BY <1>1, <2>1, LenProperties, ElementOfSeq
<1> DEFINE blue == (s[2].shade - s[1].shade + Seed) % Depth
           red == (s[3].shade - s[1].shade + Seed) % Depth
<1>3. \A i \in 1 .. n : s[i].shade \in 0 .. Depth - 1
  BY <1>2 DEF SamplePlanes
<1>4. Seed \in Int
  BY DEF Seed
<1>5. \A i \in {2, 3} :
        /\ s[i].shade - s[1].shade + Seed = s[i].shade - (s[1].shade - Seed)
        /\ s[i].shade - s[1].shade + Seed \in Int
  <2>1. \A a, b, c \in Int : a - b + c = a - (b - c) /\ a - b + c \in Int
    OBVIOUS
  <2>2. \A i \in {1, 2, 3} : s[i].shade \in Int
    BY <1>1, <1>3
  <2> HIDE DEF s
  <2> QED
    BY <1>4, <2>1, <2>2
<1>6. \A x \in Int : x % Depth \in 0 .. Depth - 1
  OBVIOUS
<1> HIDE DEF s
<1>7. CASE IsRgbFamily(f.fourcc)
  <2> DEFINE g1 == [s EXCEPT ![2].shade = blue]
             g == [g1 EXCEPT ![3].shade = red]
  <2>1. Decorrelated(f.fourcc, s) = g
    BY <1>7 DEF Decorrelated
  <2>2. /\ DOMAIN g1 = 1 .. n
        /\ g1[2] = [s[2] EXCEPT !.shade = blue]
        /\ \A i \in 1 .. n : i # 2 => g1[i] = s[i]
    BY <1>1, <1>2
  <2> HIDE DEF g1
  <2>3. /\ DOMAIN g = 1 .. n
        /\ g[3] = [s[3] EXCEPT !.shade = red]
        /\ \A i \in 1 .. n : i # 3 => g[i] = g1[i]
    BY <1>1, <2>2
  <2>4. g[2].shade = blue /\ g[3].shade = red
    BY <1>1, <1>2, <2>2, <2>3 DEF SamplePlanes
  <2>5. \A i \in 1 .. n : Shade(f, i) = g[i].shade
    BY <2>1 DEF Shade, s, g1
  <2> HIDE DEF g
  <2>6. Shade(f, 2) = blue /\ Shade(f, 3) = red
    BY <1>1, <2>4, <2>5
  <2>7. \A i \in 1 .. n : i \notin {2, 3} => Shade(f, i) = s[i].shade
    BY <2>2, <2>5, <2>3
  <2> QED
    BY <1>1, <1>2, <1>3, <1>5, <1>6, <1>7, <2>6, <2>7 DEF s
<1>8. CASE ~IsRgbFamily(f.fourcc)
  BY <1>1, <1>2, <1>3, <1>8 DEF Shade, Decorrelated, s
<1> QED
  BY <1>7, <1>8

\* What leaves an encoder is a payload of the frame, undamaged.
LEMMA IntactPacked ==
  ASSUME NEW f, GoodStream(cfg), Fits(f)
  PROVE  Packed(f, Intact(Coded(f)))
<1> DEFINE blob == [i \in PlaneIds(f) |-> PlaneBlob(f, i, Shade(f, i))]
           p == Intact(Coded(f))
           wrapped == [i \in PlaneIds(cfg) |->
                         [predicted |-> <<f.predictor, Shade(f, i)>>, coded |-> TRUE,
                          condition |-> [s \in Slices |-> "whole"]]]
<1>1. Coded(f) = [planes |-> blob, frameInfo |-> AsFrameInfoBits(f.predictor)]
  BY DEF Coded, AssemblePayload, Shade
<1>2. PlaneIds(f) = PlaneIds(cfg) /\ f.slices = NumSlices(cfg.extradata)
  BY PlanesOfFrame DEF Fits
<1>3. ASSUME NEW i \in PlaneIds(cfg)
      PROVE  /\ blob[i].predicted = <<f.predictor, Shade(f, i)>>
             /\ DOMAIN blob[i].rows = Slices
  BY <1>2 DEF PlaneBlob, Slices
<1> HIDE DEF blob
<1>4. DOMAIN blob = PlaneIds(cfg)
  BY <1>2 DEF blob
<1>5. p = [parse |-> "Ok", frameInfo |-> AsFrameInfoBits(f.predictor),
           planes |-> wrapped]
  <2>1. Coded(f).planes = blob /\ Coded(f).frameInfo = AsFrameInfoBits(f.predictor)
    BY <1>1
  <2>2. wrapped = [i \in DOMAIN blob |->
                     [predicted |-> blob[i].predicted, coded |-> TRUE,
                      condition |-> [s \in DOMAIN blob[i].rows |-> "whole"]]]
    BY <1>3, <1>4
  <2> QED
    BY <2>1, <2>2 DEF Intact
<1>6. \A i \in PlaneIds(cfg) : Shade(f, i) \in 0 .. Depth - 1
  BY ShadesOfFrame
<1>7. f.predictor \in Predictions
  BY DEF Fits
<1>8. \A i \in PlaneIds(cfg) : wrapped[i] \in CodedPlanes
  BY <1>6, <1>7 DEF CodedPlanes, Conditions
<1> HIDE DEF p
<1> QED
  BY <1>5, <1>8 DEF Packed, p

\* Damage leaves it a payload of the frame.
LEMMA DamagedPacked ==
  ASSUME NEW f, NEW p, Packed(f, p), NEW q \in Damaged(p)
  PROVE  Packed(f, q)
<1>0. /\ p.planes \in [PlaneIds(cfg) -> CodedPlanes]
      /\ p = [p EXCEPT !.parse = p.parse] /\ DOMAIN p = {"parse", "frameInfo", "planes"}
  BY DEF Packed
<1>1. CASE q = [p EXCEPT !.parse = "ChunkTooShort"]
  BY <1>1 DEF Packed
<1>2. ASSUME NEW i \in PlaneIds(cfg), NEW plane \in CodedPlanes,
             plane.predicted = p.planes[i].predicted,
             q = [p EXCEPT !.planes = [p.planes EXCEPT ![i] = plane]]
      PROVE  Packed(f, q)
  <2> DEFINE g == [p.planes EXCEPT ![i] = plane]
  <2>1. /\ g \in [PlaneIds(cfg) -> CodedPlanes]
        /\ \A j \in PlaneIds(cfg) : g[j].predicted = p.planes[j].predicted
    BY <1>0, <1>2
  <2> HIDE DEF g
  <2>2. q.planes = g /\ q \in [parse : {"Ok", "ChunkTooShort"},
                               frameInfo : {AsFrameInfoBits(f.predictor)},
                               planes : [PlaneIds(cfg) -> CodedPlanes]]
    BY <1>2, <2>1 DEF Packed, g
  <2> QED
    BY <2>1, <2>2 DEF Packed
<1>3. CASE \E i \in DOMAIN p.planes : q = [p EXCEPT !.planes[i].coded = FALSE]
  <2>1. PICK i \in PlaneIds(cfg) : q = [p EXCEPT !.planes[i].coded = FALSE]
    BY <1>0, <1>3
  <2> DEFINE plane == [p.planes[i] EXCEPT !.coded = FALSE]
  <2>2. plane \in CodedPlanes /\ plane.predicted = p.planes[i].predicted
    BY <1>0 DEF CodedPlanes
  <2>3. q = [p EXCEPT !.planes = [p.planes EXCEPT ![i] = plane]]
    BY <2>1
  <2> HIDE DEF plane
  <2> QED
    BY <1>2, <2>2, <2>3
<1>4. CASE \E i \in DOMAIN p.planes, s \in Slices, c \in {"cut", "dirty"} :
             q = [p EXCEPT !.planes[i].condition[s] = c]
  <2>1. PICK i \in PlaneIds(cfg), s \in Slices, c \in {"cut", "dirty"} :
          q = [p EXCEPT !.planes[i].condition[s] = c]
    BY <1>0, <1>4
  <2> DEFINE plane == [p.planes[i] EXCEPT !.condition[s] = c]
  <2>2. plane \in CodedPlanes /\ plane.predicted = p.planes[i].predicted
    BY <1>0 DEF CodedPlanes, Conditions
  <2>3. q = [p EXCEPT !.planes = [p.planes EXCEPT ![i] = plane]]
    BY <2>1
  <2> HIDE DEF plane
  <2> QED
    BY <1>2, <2>2, <2>3
<1> QED
  BY <1>1, <1>3, <1>4 DEF Damaged

LEMMA PackingInit == Init => Packing
BY DEF Init, Packing

\* A payload is one of the frame from the encoder to the decoder.
LEMMA PackingStep == Setup /\ Sending /\ Packing /\ [Next]_vars => Packing'
<1> SUFFICES ASSUME Setup, Sending, Packing, [Next]_vars PROVE Packing'
  OBVIOUS
<1>1. ASSUME GoodStream(cfg), cfg' = cfg,
             stage' = "payload" => Fits(frame') /\ Packed(frame', payload')
      PROVE  Packing'
  <2>1. \A f : Fits(f)' <=> Fits(f)
    BY <1>1 DEF Fits, PlaneIds, PlaneSize, PlaneDimOf
  <2>2. Slices' = Slices /\ PlaneIds(cfg)' = PlaneIds(cfg)
    BY <1>1 DEF Slices, PlaneIds
  <2>3. Packed(frame, payload)' <=> Packed(frame', payload')
    BY <2>2 DEF Packed, CodedPlanes, Shade
  <2>4. Fits(frame)' <=> Fits(frame')
    BY <1>1 DEF Fits, PlaneIds, PlaneSize, PlaneDimOf
  <2> QED
    BY <1>1, <2>3, <2>4 DEF Packing
<1>2. CASE MakeEncoder \/ MakeDecoder
  BY <1>2 DEF MakeEncoder, MakeDecoder, Packing
<1>3. CASE SendFrame \/ EncodeDirectly
  <2>1. cfg' = cfg /\ GoodStream(cfg)
    BY <1>3, SetupFixed, ConfigIsGood DEF Setup, SendFrame, EncodeDirectly
  <2>2. stage' = "payload" => Fits(frame') /\ payload' = Intact(Coded(frame'))
    <3>1. Fits(frame)' <=> Fits(frame')
      BY <2>1 DEF Fits, PlaneIds, PlaneSize, PlaneDimOf
    <3> QED
      BY <1>3, <3>1, FrameSent
  <2> QED
    BY <1>1, <2>1, <2>2, IntactPacked
<1>4. CASE EncodeElsewhere
  <2>1. cfg' = cfg /\ GoodStream(cfg) /\ stage = "elsewhere"
    BY <1>4, SetupFixed, ConfigIsGood DEF Setup, EncodeElsewhere
  <2>2. frame' = frame /\ Fits(frame) /\ payload' = Intact(Coded(frame))
    BY <1>4, <2>1 DEF EncodeElsewhere, Shipped, encodeVars, Sending
  <2> QED
    BY <1>1, <2>1, <2>2, IntactPacked
<1>5. CASE Damage
  <2>1. cfg' = cfg /\ GoodStream(cfg) /\ stage = "payload"
    BY <1>5, SetupFixed, ConfigIsGood DEF Setup, Damage
  <2>2. frame' = frame /\ Fits(frame) /\ Packed(frame, payload)
        /\ payload' \in Damaged(payload)
    BY <1>5, <2>1 DEF Damage, encodeVars, Packing
  <2> QED
    BY <1>1, <2>1, <2>2, DamagedPacked
<1>6. CASE Decode \/ Done \/ UNCHANGED vars
  <2>1. stage' = stage /\ frame' = frame /\ payload' = payload /\ cfg' = cfg
    BY <1>6, SetupFixed DEF Decode, DecodeStep, DecodePlane, FinishFrame,
       StartDecode, Answer, Done, vars, encodeVars, decodeVars
  <2>2. stage = "payload" => GoodStream(cfg)
    BY ConfigIsGood DEF Setup
  <2> QED
    BY <1>1, <2>1, <2>2 DEF Packing
<1> QED
  BY <1>2, <1>3, <1>4, <1>5, <1>6 DEF Next

-----------------------------------------------------------------------------
(* Decoding *)

\* The least of a plane's bad slices is one of them.
LEMMA FirstBad ==
  ASSUME GoodStream(cfg), NEW i, BadSlices(i) # {}
  PROVE  /\ Min(BadSlices(i)) \in BadSlices(i)
         /\ \A q \in BadSlices(i) : Min(BadSlices(i)) <= q
<1> DEFINE B == BadSlices(i)
<1>1. B \in SUBSET Nat /\ B # {}
  BY PlanesOfStream DEF BadSlices, Slices
<1>2. \E m \in B : \A q \in B : m <= q
  BY <1>1, LeastNat
<1> HIDE DEF B
<1>3. Min(B) \in B /\ \A q \in B : Min(B) <= q
  BY <1>2 DEF Min
<1> QED
  BY <1>3 DEF B

LEMMA DecodingInit == Init => Decoding
BY DEF Init, DecoderInit, Decoding, Nothing

\* Nothing of the decode is disturbed by what leaves it alone.
LEMMA DecodingKept ==
  ASSUME Decoding,
         UNCHANGED <<cfg, frame, payload, strict, decoding, decoded, answer>>,
         stage = "payload" => stage' = "payload"
  PROVE  Decoding'
<1>1. \A i : /\ DecodedPlane(i)' = DecodedPlane(i)
             /\ BadSlices(i)' = BadSlices(i)
  BY DEF DecodedPlane, PlaneDimOf, Shade, BadSlices, Slices, RowsOfSlice,
     SliceVerdict
<1>2. \A i, s : SliceVerdict(payload.planes[i], s)' = SliceVerdict(payload.planes[i], s)
  BY DEF SliceVerdict
<1>3. Answered' <=> Answered
  BY <1>1, <1>2 DEF Answered, Recorrelated, PlaneIds
<1> QED
  BY <1>1, <1>3 DEF Decoding

\* A plane that is taken up is decoded to the shade it was coded with.
LEMMA PlaneComesOut ==
  ASSUME Packed(frame, payload), Fits(frame), NEW i \in PlaneIds(cfg)
  PROVE  Unpredicted(payload.planes[i].predicted) = Shade(frame, i)
<1>1. /\ payload.planes[i].predicted = <<frame.predictor, Shade(frame, i)>>
      /\ payload.frameInfo = AsFrameInfoBits(frame.predictor)
  BY DEF Packed
<1>2. FromFrameInfo(payload.frameInfo) = frame.predictor
  BY <1>1, PredictorSurvives DEF Fits
<1> QED
  BY <1>1, <1>2 DEF Unpredicted

\* One more plane after the first n is the first n + 1.
LEMMA PlanesGrow ==
  ASSUME NEW n \in Nat, decoded = [i \in 1 .. n |-> DecodedPlane(i)]
  PROVE  LET longer == Append(decoded, DecodedPlane(n + 1))
         IN  Len(longer) = n + 1 /\ longer = [i \in 1 .. n + 1 |-> DecodedPlane(i)]
<1> DEFINE S == {DecodedPlane(i) : i \in 1 .. n + 1}
           e == [i \in 1 .. n + 1 |-> DecodedPlane(i)]
           longer == Append(decoded, DecodedPlane(n + 1))
<1>1. /\ decoded \in [1 .. n -> S] /\ e \in [1 .. n + 1 -> S]
      /\ DecodedPlane(n + 1) \in S /\ n + 1 \in Nat
  OBVIOUS
<1>2. /\ decoded \in Seq(S) /\ Len(decoded) = n
      /\ e \in Seq(S) /\ Len(e) = n + 1
  <2> HIDE DEF S, e
  <2> QED
    BY <1>1, SequenceOf
<1> HIDE DEF S
<1>3. /\ longer \in Seq(S) /\ Len(longer) = n + 1
      /\ \A i \in 1 .. n : longer[i] = decoded[i]
      /\ longer[n + 1] = DecodedPlane(n + 1)
  BY <1>1, <1>2, AppendProperties
<1>4. \A i \in 1 .. n + 1 : longer[i] = e[i]
  BY <1>3
<1> HIDE DEF e, longer
<1>5. longer = e
  BY <1>2, <1>3, <1>4, SeqEqual
<1> QED
  BY <1>3, <1>5 DEF e, longer

\* One step of the decoder.
LEMMA DecodeStepKeeps ==
  ASSUME Setup, Packing, Decoding, Decode
  PROVE  Decoding'
<1> DEFINE n == PlaneCount(cfg.fourcc)
<1>1. /\ GoodStream(cfg) /\ Fits(frame) /\ Packed(frame, payload)
      /\ stage = "payload"
  BY ConfigIsGood DEF Decode, Setup, Packing
<1>2. n \in {3, 4} /\ PlaneIds(cfg) = 1 .. n
  BY <1>1, PlanesOfStream
<1>3. UNCHANGED <<cfg, payload, frame>> /\ stage' = "payload"
  BY <1>1 DEF Decode, StartDecode, DecodeStep, DecodePlane, FinishFrame, Answer,
     encodeVars
<1>4. \A i : DecodedPlane(i)' = DecodedPlane(i)
  BY <1>3 DEF DecodedPlane, PlaneDimOf, Shade
<1>5. CASE \E isStrict \in BOOLEAN : StartDecode(isStrict)
  <2>1. /\ decoding = "idle" /\ decoded = << >> /\ decoded' = decoded
        /\ answer = Nothing
        /\ \/ /\ payload.parse # "Ok" /\ decoding' = "done"
              /\ answer' = Fail(payload.parse)
           \/ payload.parse = "Ok" /\ decoding' = "planes" /\ answer' = answer
    BY <1>5 DEF StartDecode, Answer, Decoding
  <2>2. Len(decoded) = 0 /\ decoded = [i \in 1 .. Len(decoded) |-> DecodedPlane(i)]
    BY <2>1
  <2>3. /\ Len(decoded') \in 0 .. n /\ 1 .. Len(decoded') = {}
        /\ decoded' = [i \in 1 .. Len(decoded') |-> DecodedPlane(i)']
    BY <1>2, <2>1, <2>2
  <2>4. decoding' = "done" => Answered'
    BY <1>3, <2>1 DEF Answered
  <2> QED
    BY <1>3, <2>1, <2>3, <2>4 DEF Decoding
<1>6. ASSUME decoding = "planes", strict' = strict
      PROVE  /\ \A i, s : SliceVerdict(payload.planes[i], s)' =
                            SliceVerdict(payload.planes[i], s)
             /\ \A i : BadSlices(i)' = BadSlices(i)
  BY <1>3, <1>6 DEF BadSlices, Slices, RowsOfSlice, PlaneDimOf, SliceVerdict
<1>7. ASSUME decoding = "planes"
      PROVE  /\ payload.parse = "Ok" /\ answer = Nothing
             /\ Len(decoded) \in 0 .. n
             /\ decoded = [i \in 1 .. Len(decoded) |-> DecodedPlane(i)]
             /\ \A i \in 1 .. Len(decoded) : BadSlices(i) = {}
  BY <1>7 DEF Decoding
<1>8. CASE FinishFrame
  <2>1. /\ decoding = "planes" /\ strict' = strict /\ decoded' = decoded
        /\ decoding' = "done" /\ Len(decoded) = n
        /\ answer' = Succeed([fourcc |-> cfg.fourcc, width |-> cfg.width,
                              height |-> cfg.height,
                              frameInfo |-> payload.frameInfo,
                              predictor |-> FromFrameInfo(payload.frameInfo),
                              planes |-> Recorrelated(decoded)])
    BY <1>8 DEF FinishFrame, Answer
  <2>2. FromFrameInfo(payload.frameInfo) = frame.predictor
    BY <1>1, PredictorSurvives DEF Packed, Fits
  <2>3. Recorrelated(decoded)' = Recorrelated(decoded)
    BY <1>3, <2>1 DEF Recorrelated
  <2>4. Answered'
    BY <1>3, <1>7, <2>1, <2>2, <2>3 DEF Answered
  <2> QED
    BY <1>3, <1>4, <1>6, <1>7, <2>1, <2>4 DEF Decoding
<1>9. CASE DecodePlane
  <2> DEFINE i == Len(decoded) + 1
             s == Min(BadSlices(i))
  <2>1. decoding = "planes" /\ strict' = strict /\ Len(decoded) < n
    BY <1>9 DEF DecodePlane
  <2>2. i \in PlaneIds(cfg)
    BY <1>2, <1>7, <2>1
  <2>3. CASE BadSlices(i) # {}
    <3>1. /\ decoding' = "done" /\ decoded' = decoded
          /\ answer' = [kind |-> SliceVerdict(payload.planes[i], s),
                        plane |-> i, slice |-> s]
      BY <1>9, <2>3 DEF DecodePlane, Answer
    <3>2. PlaneIds(cfg)' = PlaneIds(cfg)
      BY <1>3 DEF PlaneIds
    <3>3. Answered'
      BY <1>3, <1>6, <1>7, <2>1, <2>2, <2>3, <3>1, <3>2 DEF Answered
    <3> QED
      BY <1>3, <1>4, <1>6, <1>7, <2>1, <3>1, <3>3 DEF Decoding
  <2>4. CASE BadSlices(i) = {}
    <3>1. /\ decoding' = decoding /\ answer' = answer
          /\ decoded' = Append(decoded,
               [label |-> PlaneLabels(cfg.fourcc)[i], dim |-> PlaneDimOf(cfg, i),
                shade |-> Unpredicted(payload.planes[i].predicted)])
      BY <1>9, <2>4 DEF DecodePlane
    <3>2. decoded' = Append(decoded, DecodedPlane(i))
      BY <1>1, <2>2, <3>1, PlaneComesOut DEF DecodedPlane
    <3>3. Len(decoded) \in Nat /\ decoded = [j \in 1 .. Len(decoded) |-> DecodedPlane(j)]
      BY <1>7, <2>1
    <3>4. decoded' = [j \in 1 .. i |-> DecodedPlane(j)]
      BY <3>2, <3>3, PlanesGrow
    <3>5. Len(decoded') = i
      BY <3>3, <3>4, PlanesGrow
    <3>6. \A j \in 1 .. i : BadSlices(j) = {}
      BY <1>7, <2>1, <2>4, <3>3
    <3> HIDE DEF i
    <3>7. i \in 0 .. n
      BY <1>2, <2>2
    <3> QED
      BY <1>3, <1>4, <1>6, <1>7, <2>1, <3>1, <3>4, <3>5, <3>6, <3>7 DEF Decoding
  <2> QED
    BY <2>3, <2>4
<1> QED
  BY <1>5, <1>8, <1>9 DEF Decode, DecodeStep

LEMMA DecodingStep == Setup /\ Packing /\ Decoding /\ [Next]_vars => Decoding'
<1> SUFFICES ASSUME Setup, Packing, Decoding, [Next]_vars PROVE Decoding'
  OBVIOUS
<1>1. ASSUME decoding = "idle", UNCHANGED <<decoding, decoded, answer>>
      PROVE  Decoding'
  BY <1>1 DEF Decoding
<1>2. CASE \/ MakeEncoder \/ MakeDecoder \/ SendFrame \/ EncodeDirectly
           \/ EncodeElsewhere \/ Damage
  <2>1. decoding = "idle"
    BY <1>2 DEF Decoding, MakeEncoder, MakeDecoder, SendFrame, EncodeDirectly,
       EncodeElsewhere, Damage
  <2>2. UNCHANGED <<decoding, decoded, answer>>
    BY <1>2 DEF MakeEncoder, MakeDecoder, SendFrame, EncodeDirectly, EncodeFrame,
       EncodeElsewhere, Damage, decodeVars
  <2> QED
    BY <1>1, <2>1, <2>2
<1>3. CASE Decode
  BY <1>3, DecodeStepKeeps
<1>4. CASE Done \/ UNCHANGED vars
  BY <1>4, DecodingKept DEF Done, vars, encodeVars, decodeVars
<1> QED
  BY <1>2, <1>3, <1>4 DEF Next

THEOREM Correctness == Spec => []IInv
<1>1. Init => IInv
  BY SetupInit, SendingInit, PackingInit, DecodingInit DEF IInv
<1>2. IInv /\ [Next]_vars => IInv'
  BY SetupStep, SendingStep, PackingStep, DecodingStep DEF IInv
<1> QED
  BY <1>1, <1>2, PTL DEF Spec

-----------------------------------------------------------------------------
(* What follows *)

\* From whatever parameters a stream is made, the decoder made from what the
\* encoder publishes has the encoder's configuration, and given every piece
\* both factories say the same.
THEOREM EndsAgree == Spec => []SetupAgrees
<1>1. IInv => SetupAgrees
  <2> SUFFICES ASSUME Setup PROVE SetupAgrees
    BY DEF IInv
  <2>1. ASSUME made.kind = "Ok"
        PROVE  /\ stage # "decoder" => cfg = made.value
               /\ BuildEncoderConfig(OutputParams(params, made.value)) = made
               /\ NumSlices(made.value.extradata) \in 1 .. MaxSlices
    <3>1. made = BuildEncoderConfig(params) /\ params \in Params
      BY <2>1 DEF Setup, Nothing
    <3>2. /\ GoodStream(made.value) /\ BuildEncoderConfig(params) = Succeed(made.value)
          /\ BuildEncoderConfig(OutputParams(params, made.value)) = Succeed(made.value)
      BY <2>1, <3>1, StreamIsStable
    <3> QED
      BY <2>1, <3>1, <3>2, PlanesOfStream DEF Setup
  <2>2. Complete(params) => BuildStreamConfig(params) = BuildEncoderConfig(params)
    BY FactoriesAgree, ParamsAssumption DEF Setup
  <2> QED
    BY <2>1, <2>2 DEF SetupAgrees
<1> QED
  BY <1>1, Correctness, PTL

\* However many slices a stream has and however its planes are subsampled,
\* every slice of a payload this encoder makes has a row, and the slices of a
\* plane follow each other from its first row to its last.
THEOREM EverySliceHasRows == Spec => []NoEmptySlices
<1>1. IInv => NoEmptySlices
  <2> SUFFICES ASSUME Setup, Sending, sent.kind = "Ok", NEW i \in PlaneIds(frame)
               PROVE  LET rows == sent.value.planes[i].rows
                          height == PlaneDimOf(frame, i).height
                      IN  /\ \A s \in DOMAIN rows : rows[s] > 0
                          /\ \E first \in [0 .. frame.slices -> 0 .. height] :
                               /\ first[0] = 0 /\ first[frame.slices] = height
                               /\ \A s \in DOMAIN rows :
                                    first[s + 1] = first[s] + rows[s]
    BY DEF IInv, NoEmptySlices
  <2> DEFINE n == frame.slices
             height == PlaneDimOf(frame, i).height
             rows == sent.value.planes[i].rows
             first == [q \in 0 .. n |-> RowStart(height, n, q)]
  <2>1. GoodStream(cfg) /\ Fits(frame) /\ sent = Encode(frame)
    BY ConfigIsGood DEF Setup, Sending, Nothing, Fail
  <2>2. /\ n \in Nat \ {0} /\ n <= SmallestHeight(frame)
        /\ sent = Succeed(Coded(frame))
    <3>1. n \in 1 .. MaxSlices /\ ~(n > SmallestHeight(frame))
          /\ sent = Succeed(Coded(frame))
      BY <2>1, FittingFrame DEF Fail
    <3> QED
      BY <2>1, <3>1, SmallestIsLeast DEF MaxSlices
  <2>3. height \in Nat /\ n <= height
    <3>1. height \in Nat
      BY <2>1, PlanesOfStream, PlanesOfFrame
    <3> QED
      BY <2>1, <2>2, <3>1, SmallestIsLeast
  <2>4. /\ DOMAIN rows = 0 .. n - 1
        /\ \A s \in DOMAIN rows : rows[s] = RowCount(height, n, s)
    BY <2>2 DEF Succeed, Coded, AssemblePayload, PlaneBlob
  <2> HIDE DEF rows, height, n
  <2>5. \A s \in DOMAIN rows : rows[s] > 0
    BY <2>2, <2>3, <2>4, SliceHasRow
  <2>6. first \in [0 .. n -> 0 .. height]
    <3>1. ASSUME NEW q \in 0 .. n PROVE RowStart(height, n, q) \in 0 .. height
      <4>1. q \in Nat /\ q <= n
        BY <2>2
      <4>2. RowStart(height, n, q) \in Nat /\ RowStart(height, n, q) <= RowStart(height, n, n)
        BY <2>2, <2>3, <4>1, RowStartMonotone
      <4> QED
        BY <2>2, <2>3, <4>2, SlicesSpanPlane
    <3> QED
      BY <3>1
  <2>7. first[0] = 0 /\ first[n] = height
    BY <2>2, <2>3, SlicesSpanPlane
  <2>8. \A s \in DOMAIN rows : first[s + 1] = first[s] + rows[s]
    <3> SUFFICES ASSUME NEW s \in 0 .. n - 1
                 PROVE  first[s + 1] = first[s] + rows[s]
      BY <2>4
    <3>1. s \in Nat /\ s \in 0 .. n /\ s + 1 \in 0 .. n
      BY <2>2
    <3>2. first[s] = RowStart(height, n, s) /\ first[s + 1] = RowStart(height, n, s + 1)
      BY <3>1
    <3>3. RowStart(height, n, s) + RowCount(height, n, s) = RowStart(height, n, s + 1)
      BY <2>2, <2>3, <3>1, RowCountNat
    <3> QED
      BY <2>4, <3>2, <3>3
  <2> HIDE DEF first
  <2> QED
    BY <2>5, <2>6, <2>7, <2>8 DEF rows, height, n
<1> QED
  BY <1>1, Correctness, PTL

\* A slice has a reason to be refused when and only when the decoder finds it
\* bad.
LEMMA BadForAReason ==
  ASSUME GoodStream(cfg), Fits(frame), Packed(frame, payload),
         NEW i \in PlaneIds(cfg), NEW s \in Slices
  PROVE  HasReason(i, s) <=> s \in BadSlices(i)
<1> DEFINE n == frame.slices
           height == PlaneDimOf(frame, i).height
           plane == payload.planes[i]
<1>1. /\ n = NumSlices(cfg.extradata) /\ n \in Nat \ {0} /\ s \in Nat
      /\ height = PlaneDimOf(cfg, i).height /\ height \in Nat
  <2>1. NumSlices(cfg.extradata) \in 1 .. 256 /\ PlaneDimOf(cfg, i).height \in Nat
    BY PlanesOfStream DEF MaxSlices
  <2>2. n = NumSlices(cfg.extradata) /\ height = PlaneDimOf(cfg, i).height
    BY PlanesOfFrame DEF Fits
  <2> QED
    BY <2>1, <2>2 DEF Slices
<1>2. plane.coded \in BOOLEAN /\ plane.condition[s] \in Conditions
  BY DEF Packed, CodedPlanes
<1>3. SliceRows(height, n, s) # {} <=> RowsOfSlice(i, s) > 0
  <2> HIDE DEF n, height
  <2>1. /\ RowCount(height, n, s) \in Nat /\ RowStart(height, n, s) \in Nat
        /\ SliceRows(height, n, s) =
             RowStart(height, n, s) .. RowStart(height, n, s) + RowCount(height, n, s) - 1
    <3>1. s \in Nat /\ n \in Nat \ {0} /\ height \in Nat /\ s <= s
      BY <1>1
    <3>2. RowStart(height, n, s) \in Nat
      BY <3>1, RowStartMonotone
    <3> QED
      BY <3>1, <3>2, RowCountNat
  <2>2. RowsOfSlice(i, s) = RowCount(height, n, s)
    BY <1>1 DEF RowsOfSlice
  <2>3. \A a, c \in Nat : a .. a + c - 1 # {} <=> c > 0
    <3>1. \A a, c \in Nat : c > 0 => a \in a .. a + c - 1
      OBVIOUS
    <3>2. \A a, c \in Nat : ~(c > 0) => a .. a + c - 1 = {}
      OBVIOUS
    <3> QED
      BY <3>1, <3>2
  <2> QED
    BY <2>1, <2>2, <2>3
<1> HIDE DEF plane, n, height
<1>4. SliceVerdict(plane, s) # "Ok" <=>
        \/ ~plane.coded \/ plane.condition[s] = "cut"
        \/ strict /\ plane.condition[s] = "dirty"
  BY <1>2 DEF SliceVerdict, Conditions
<1> QED
  BY <1>3, <1>4 DEF HasReason, BadSlices, n, height, plane

\* A slice that is bad is so for one of three reasons.
LEMMA BadVerdict ==
  ASSUME Packed(frame, payload), NEW i \in PlaneIds(cfg), NEW s \in BadSlices(i)
  PROVE  SliceVerdict(payload.planes[i], s) \in
           {"HuffmanDecodeFailure", "SliceTruncated", "NonZeroPadding"}
<1>1. /\ payload.planes[i].coded \in BOOLEAN
      /\ payload.planes[i].condition[s] \in Conditions
      /\ SliceVerdict(payload.planes[i], s) # "Ok"
  BY DEF Packed, CodedPlanes, BadSlices
<1> QED
  BY <1>1 DEF SliceVerdict, Conditions

\* What a decode that is done has said.
LEMMA AnswerIs ==
  ASSUME IInv, decoding = "done"
  PROVE  /\ GoodStream(cfg) /\ Fits(frame) /\ Packed(frame, payload)
         /\ payload.parse # "Ok" => answer = Fail("ChunkTooShort")
                                    /\ payload.parse = "ChunkTooShort"
         /\ payload.parse = "Ok" =>
              \/ /\ \A i \in PlaneIds(cfg) : BadSlices(i) = {}
                 /\ answer = Succeed([fourcc |-> cfg.fourcc, width |-> cfg.width,
                               height |-> cfg.height,
                               frameInfo |-> payload.frameInfo,
                               predictor |-> frame.predictor,
                               planes |-> Recorrelated([i \in PlaneIds(cfg) |->
                                                          DecodedPlane(i)])])
              \/ \E i \in PlaneIds(cfg), s \in Slices :
                   /\ s \in BadSlices(i)
                   /\ \A q \in BadSlices(i) : s <= q
                   /\ \A j \in PlaneIds(cfg) : j < i => BadSlices(j) = {}
                   /\ answer = [kind |-> SliceVerdict(payload.planes[i], s),
                                plane |-> i, slice |-> s]
<1>1. GoodStream(cfg) /\ Fits(frame) /\ Packed(frame, payload)
  BY ConfigIsGood DEF IInv, Decoding, Packing, Setup
<1>2. payload.parse \in {"Ok", "ChunkTooShort"}
  BY <1>1 DEF Packed
<1>3. /\ Answered /\ Len(decoded) \in Nat
      /\ decoded = [i \in 1 .. Len(decoded) |-> DecodedPlane(i)]
      /\ \A i \in 1 .. Len(decoded) : BadSlices(i) = {}
  BY DEF IInv, Decoding
<1>4. PlaneIds(cfg) = 1 .. PlaneCount(cfg.fourcc)
  BY DEF PlaneIds
<1>5. ASSUME payload.parse = "Ok", Len(decoded) = PlaneCount(cfg.fourcc),
             answer = Succeed([fourcc |-> cfg.fourcc, width |-> cfg.width,
                               height |-> cfg.height,
                               frameInfo |-> payload.frameInfo,
                               predictor |-> frame.predictor,
                               planes |-> Recorrelated(decoded)])
      PROVE  /\ \A i \in PlaneIds(cfg) : BadSlices(i) = {}
             /\ answer = Succeed([fourcc |-> cfg.fourcc, width |-> cfg.width,
                               height |-> cfg.height,
                               frameInfo |-> payload.frameInfo,
                               predictor |-> frame.predictor,
                               planes |-> Recorrelated([i \in PlaneIds(cfg) |->
                                                          DecodedPlane(i)])])
  <2>1. decoded = [i \in PlaneIds(cfg) |-> DecodedPlane(i)]
    BY <1>3, <1>4, <1>5
  <2> QED
    BY <1>3, <1>4, <1>5, <2>1
<1>6. ASSUME payload.parse = "Ok", NEW i, i = Len(decoded) + 1,
             i \in PlaneIds(cfg), BadSlices(i) # {},
             NEW s, s = Min(BadSlices(i)),
             answer = [kind |-> SliceVerdict(payload.planes[i], s),
                       plane |-> i, slice |-> s]
      PROVE  /\ s \in Slices /\ s \in BadSlices(i)
             /\ \A q \in BadSlices(i) : s <= q
             /\ \A j \in PlaneIds(cfg) : j < i => BadSlices(j) = {}
  <2>1. s \in BadSlices(i) /\ \A q \in BadSlices(i) : s <= q
    BY <1>1, <1>6, FirstBad
  <2>2. s \in Slices
    BY <2>1 DEF BadSlices
  <2>3. \A j \in PlaneIds(cfg) : j < i => j \in 1 .. Len(decoded)
    BY <1>3, <1>4, <1>6
  <2> QED
    BY <1>3, <2>1, <2>2, <2>3
<1>7. payload.parse # "Ok" => answer = Fail("ChunkTooShort")
                              /\ payload.parse = "ChunkTooShort"
  BY <1>2, <1>3 DEF Answered
<1> QED
  BY <1>1, <1>3, <1>5, <1>6, <1>7 DEF Answered

\* Whatever was done to the payload, the error is that of the first slice that
\* the entry called has reason to refuse, and there is none without a reason.
THEOREM FirstError == Spec => []FirstProblemReported
<1>1. IInv => FirstProblemReported
  <2> SUFFICES ASSUME IInv, decoding = "done", payload.parse = "Ok"
               PROVE  IF Refusable = {} THEN answer.kind = "Ok"
                      ELSE LET first == CHOOSE x \in Refusable :
                                          \A y \in Refusable : Earlier(x, y)
                           IN  /\ answer.kind # "Ok"
                               /\ <<answer.plane, answer.slice>> = first
    BY AnswerIs DEF FirstProblemReported
  <2>1. /\ GoodStream(cfg) /\ Fits(frame) /\ Packed(frame, payload)
    BY AnswerIs
  <2>2. PlaneIds(cfg) \subseteq Nat /\ Slices \subseteq Nat
    BY <2>1, PlanesOfStream DEF Slices, MaxSlices
  <2>3. Refusable = {x \in PlaneIds(cfg) \X Slices : x[2] \in BadSlices(x[1])}
    <3>1. DOMAIN payload.planes = PlaneIds(cfg)
      BY <2>1 DEF Packed
    <3> QED
      BY <2>1, <3>1, BadForAReason DEF Refusable
  <2>4. CASE \A i \in PlaneIds(cfg) : BadSlices(i) = {}
    <3>1. Refusable = {}
      BY <2>3, <2>4
    <3>2. answer.kind = "Ok"
      BY <2>4, AnswerIs DEF Succeed
    <3> QED
      BY <3>1, <3>2
  <2>5. CASE \E i \in PlaneIds(cfg) : BadSlices(i) # {}
    <3>1. PICK i \in PlaneIds(cfg), s \in Slices :
            /\ s \in BadSlices(i)
            /\ \A q \in BadSlices(i) : s <= q
            /\ \A j \in PlaneIds(cfg) : j < i => BadSlices(j) = {}
            /\ answer = [kind |-> SliceVerdict(payload.planes[i], s),
                         plane |-> i, slice |-> s]
      BY <2>5, AnswerIs
    <3> DEFINE x == <<i, s>>
    <3>2. x \in Refusable
      BY <2>3, <3>1
    <3>3. ASSUME NEW y \in Refusable PROVE Earlier(x, y)
      <4>1. y[1] \in PlaneIds(cfg) /\ y[2] \in BadSlices(y[1]) /\ y[2] \in Slices
        BY <2>3
      <4>2. y[1] \in Nat /\ y[2] \in Nat /\ i \in Nat /\ s \in Nat
        BY <2>2, <3>1, <4>1
      <4>3. i <= y[1] /\ (y[1] = i => s <= y[2])
        BY <3>1, <4>1, <4>2
      <4> QED
        BY <4>2, <4>3 DEF Earlier
    <3>4. ASSUME NEW y \in Refusable, \A z \in Refusable : Earlier(y, z)
          PROVE  y = x
      <4>1. Earlier(y, x) /\ Earlier(x, y)
        BY <3>2, <3>3, <3>4
      <4>2. y \in PlaneIds(cfg) \X Slices
        BY <2>3
      <4>3. y[1] \in Nat /\ y[2] \in Nat /\ i \in Nat /\ s \in Nat
        BY <2>2, <4>2
      <4>4. y[1] = i /\ y[2] = s
        BY <4>1, <4>3 DEF Earlier
      <4> QED
        BY <4>2, <4>4
    <3>5. (CHOOSE y \in Refusable : \A z \in Refusable : Earlier(y, z)) = x
      BY <3>2, <3>3, <3>4
    <3>6. answer.kind # "Ok" /\ <<answer.plane, answer.slice>> = x
      BY <3>1 DEF BadSlices
    <3> QED
      BY <3>2, <3>5, <3>6
  <2> QED
    BY <2>4, <2>5
<1> QED
  BY <1>1, Correctness, PTL

\* The planes of a FourCC have different labels.
LEMMA LabelsDiffer ==
  ASSUME NEW fourcc \in Fourccs
  PROVE  LET n == PlaneCount(fourcc)
         IN  Cardinality({PlaneLabels(fourcc)[i] : i \in 1 .. n}) = n
<1> DEFINE n == PlaneCount(fourcc)
           l == PlaneLabels(fourcc)
           L == {l[i] : i \in 1 .. n}
<1>1. Cardinality({}) = 0 /\ IsFiniteSet({})
  BY FS_EmptySet
<1>0. ASSUME NEW S, NEW x, IsFiniteSet(S), x \notin S
      PROVE  /\ IsFiniteSet(S \cup {x})
             /\ Cardinality(S \cup {x}) = Cardinality(S) + 1
  BY <1>0, FS_AddElement
<1>2. ASSUME NEW a, NEW b, NEW c, a # b, a # c, b # c
      PROVE  IsFiniteSet({a, b, c}) /\ Cardinality({a, b, c}) = 3
  <2>1. IsFiniteSet({a}) /\ Cardinality({a}) = 1
    <3>1. {} \cup {a} = {a} /\ a \notin {}
      OBVIOUS
    <3> QED
      BY <1>0, <1>1, <3>1
  <2>2. IsFiniteSet({a, b}) /\ Cardinality({a, b}) = 2
    <3>1. {a} \cup {b} = {a, b} /\ b \notin {a}
      BY <1>2
    <3>2. IsFiniteSet({a} \cup {b}) /\ Cardinality({a} \cup {b}) = 1 + 1
      BY <1>0, <2>1, <3>1
    <3> QED
      BY <3>1, <3>2
  <2>3. {a, b} \cup {c} = {a, b, c} /\ c \notin {a, b}
    BY <1>2
  <2>4. /\ IsFiniteSet({a, b} \cup {c})
        /\ Cardinality({a, b} \cup {c}) = 2 + 1
    BY <1>0, <2>2, <2>3
  <2> QED
    BY <2>3, <2>4
<1>3. CASE n = 3
  <2>1. L = {l[1], l[2], l[3]}
    <3>1. 1 .. 3 = {1, 2, 3}
      OBVIOUS
    <3> QED
      BY <1>3, <3>1
  <2>2. l[1] # l[2] /\ l[1] # l[3] /\ l[2] # l[3]
    BY <1>3 DEF PlaneCount, PlaneLabels, Fourccs
  <2> HIDE DEF l, L, n
  <2> QED
    BY <1>2, <1>3, <2>1, <2>2 DEF L, n, l
<1>4. CASE n = 4
  <2>1. L = {l[1], l[2], l[3]} \cup {l[4]}
    <3>1. 1 .. 4 = {1, 2, 3, 4}
      OBVIOUS
    <3> QED
      BY <1>4, <3>1
  <2>2. /\ l[1] # l[2] /\ l[1] # l[3] /\ l[2] # l[3]
        /\ l[4] \notin {l[1], l[2], l[3]}
    BY <1>4 DEF PlaneCount, PlaneLabels, Fourccs
  <2> HIDE DEF l, L, n
  <2>3. IsFiniteSet({l[1], l[2], l[3]}) /\ Cardinality({l[1], l[2], l[3]}) = 3
    BY <1>2, <2>2
  <2>4. Cardinality(L) = 3 + 1
    BY <2>1, <2>2, <2>3, FS_AddElement
  <2> QED
    BY <1>4, <2>4 DEF L, n, l
<1> QED
  BY <1>3, <1>4 DEF PlaneCount

\* Putting the colours back undoes taking them apart, whatever the depth.
LEMMA ColoursComeBack ==
  ASSUME GoodStream(cfg), Fits(frame),
         NEW g, g = Recorrelated([i \in PlaneIds(cfg) |-> DecodedPlane(i)])
  PROVE  /\ DOMAIN g = PlaneIds(cfg) /\ Len(g) = PlaneCount(cfg.fourcc)
         /\ \A i \in PlaneIds(cfg) :
              /\ g[i].label = PlaneLabels(cfg.fourcc)[i]
              /\ g[i].dim = PlaneDimOf(cfg, i)
              /\ g[i].shade = frame.planes[i].shade
<1> DEFINE n == PlaneCount(cfg.fourcc)
           d == [i \in PlaneIds(cfg) |-> DecodedPlane(i)]
           p == frame.planes[1].shade - Seed
<1>1. n \in {3, 4} /\ PlaneIds(cfg) = 1 .. n
  BY PlanesOfStream
<1>2. \A i \in 1 .. n : frame.planes[i].shade \in 0 .. Depth - 1
  BY <1>1, ShadesOfFrame DEF SamplePlanes
<1>3. Seed \in Int /\ p \in Int
  BY <1>1, <1>2 DEF Seed
<1>4. /\ DOMAIN d = 1 .. n
      /\ \A i \in 1 .. n :
           d[i] = [label |-> PlaneLabels(cfg.fourcc)[i], dim |-> PlaneDimOf(cfg, i),
                   shade |-> Shade(frame, i)]
  BY <1>1 DEF DecodedPlane
<1> HIDE DEF d
<1>5. cfg.fourcc = frame.fourcc
  BY DEF Fits
<1>6. ASSUME DOMAIN g = 1 .. n PROVE Len(g) = n
  BY <1>1, <1>6
<1>7. CASE ~IsRgbFamily(cfg.fourcc)
  <2>1. g = d
    BY <1>7 DEF Recorrelated, d
  <2>2. \A i \in 1 .. n : Shade(frame, i) = frame.planes[i].shade
    BY <1>1, <1>5, <1>7, ShadesOfFrame
  <2>3. DOMAIN g = 1 .. n /\ Len(g) = n
    BY <1>4, <1>6, <2>1
  <2>4. ASSUME NEW i \in 1 .. n
        PROVE  /\ g[i].label = PlaneLabels(cfg.fourcc)[i]
               /\ g[i].dim = PlaneDimOf(cfg, i)
               /\ g[i].shade = frame.planes[i].shade
    BY <1>4, <2>1, <2>2
  <2> QED
    BY <1>1, <2>3, <2>4
<1>8. CASE IsRgbFamily(cfg.fourcc)
  <2> DEFINE blue == (d[2].shade + d[1].shade - Seed) % Depth
             red == (d[3].shade + d[1].shade - Seed) % Depth
             g1 == [d EXCEPT ![2].shade = blue]
             g2 == [g1 EXCEPT ![3].shade = red]
  <2>1. g = g2
    BY <1>8 DEF Recorrelated, d
  <2>2. /\ DOMAIN g1 = 1 .. n
        /\ g1[2] = [d[2] EXCEPT !.shade = blue]
        /\ \A i \in 1 .. n : i # 2 => g1[i] = d[i]
    BY <1>1, <1>4
  <2> HIDE DEF g1
  <2>3. /\ DOMAIN g2 = 1 .. n
        /\ g2[3] = [d[3] EXCEPT !.shade = red]
        /\ \A i \in 1 .. n : i # 3 => g2[i] = g1[i]
    BY <1>1, <2>2
  <2> HIDE DEF g2
  <2>4. ASSUME NEW i \in {2, 3}
        PROVE  (d[i].shade + d[1].shade - Seed) % Depth = frame.planes[i].shade
    <3>1. /\ d[i].shade = (frame.planes[i].shade - p) % Depth
          /\ d[1].shade = frame.planes[1].shade
      <4>1. i \in PlaneIds(cfg) /\ 1 \in PlaneIds(cfg) /\ i # 1 /\ 1 \notin {2, 3}
        BY <1>1
      <4>2. d[i].shade = Shade(frame, i) /\ d[1].shade = Shade(frame, 1)
        BY <1>1, <1>4, <4>1
      <4>3. Shade(frame, i) = (frame.planes[i].shade - p) % Depth
        BY <1>5, <1>8, <4>1, ShadesOfFrame
      <4>4. Shade(frame, 1) = frame.planes[1].shade
        BY <4>1, ShadesOfFrame
      <4> QED
        BY <4>2, <4>3, <4>4
    <3>2. /\ d[i].shade \in Int
          /\ d[i].shade + d[1].shade - Seed = d[i].shade + p
      <4>1. Shade(frame, i) \in 0 .. Depth - 1
        BY <1>1, ShadesOfFrame
      <4>2. d[i].shade \in Int
        BY <1>1, <1>4, <4>1
      <4>3. frame.planes[1].shade \in Int
        BY <1>1, <1>2
      <4>4. \A a, b, c \in Int : a + b - c = a + (b - c)
        OBVIOUS
      <4> QED
        BY <1>3, <3>1, <4>2, <4>3, <4>4
    <3>3. (((frame.planes[i].shade - p) % Depth) + p) % Depth = frame.planes[i].shade
      <4>1. frame.planes[i].shade \in 0 .. Depth - 1
        BY <1>1, <1>2
      <4> HIDE DEF p
      <4> QED
        BY <1>3, <4>1, WrapCancel
    <3> QED
      BY <3>1, <3>2, <3>3
  <2>5. blue = frame.planes[2].shade /\ red = frame.planes[3].shade
    BY <2>4
  <2> HIDE DEF blue, red
  <2>6. \A i \in 1 .. n : i \notin {2, 3} =>
          g[i] = d[i] /\ Shade(frame, i) = frame.planes[i].shade
    BY <1>1, <2>1, <2>2, <2>3, ShadesOfFrame
  <2>7. /\ g[2] = [d[2] EXCEPT !.shade = frame.planes[2].shade]
        /\ g[3] = [d[3] EXCEPT !.shade = frame.planes[3].shade]
    BY <1>1, <2>1, <2>2, <2>3, <2>5
  <2>8. ASSUME NEW i \in 1 .. n
        PROVE  /\ g[i].label = PlaneLabels(cfg.fourcc)[i]
               /\ g[i].dim = PlaneDimOf(cfg, i)
               /\ g[i].shade = frame.planes[i].shade
    BY <1>1, <1>4, <2>6, <2>7
  <2> QED
    BY <1>1, <1>6, <2>1, <2>3, <2>8
<1> QED
  BY <1>7, <1>8

\* What was neither cut nor uncoded on its way comes back as the frame that was
\* sent, from either entry that has no reason to refuse it.
THEOREM LosslessFrames == Spec => []FramesComeBack
<1>1. IInv => FramesComeBack
  <2> SUFFICES ASSUME IInv, decoding = "done", Clean(payload)
               PROVE  answer.kind = "Ok" /\ SameFrame(answer.value)
    BY DEF FramesComeBack
  <2> DEFINE g == Recorrelated([i \in PlaneIds(cfg) |-> DecodedPlane(i)])
             n == PlaneCount(cfg.fourcc)
  <2>1. GoodStream(cfg) /\ Fits(frame) /\ Packed(frame, payload)
    BY AnswerIs
  <2>2. \A i \in PlaneIds(cfg) : BadSlices(i) = {}
    <3>1. DOMAIN payload.planes = PlaneIds(cfg)
      BY <2>1 DEF Packed
    <3>2. \A i \in PlaneIds(cfg), s \in Slices :
            SliceVerdict(payload.planes[i], s) = "Ok"
      BY <3>1 DEF Clean, SliceVerdict
    <3> QED
      BY <3>2 DEF BadSlices
  <2>3. answer = Succeed([fourcc |-> cfg.fourcc, width |-> cfg.width,
                          height |-> cfg.height, frameInfo |-> payload.frameInfo,
                          predictor |-> frame.predictor, planes |-> g])
    BY <2>2, AnswerIs DEF Clean
  <2> HIDE DEF g
  <2>4. /\ DOMAIN g = PlaneIds(cfg) /\ Len(g) = n
        /\ \A i \in PlaneIds(cfg) :
             /\ g[i].label = PlaneLabels(cfg.fourcc)[i]
             /\ g[i].dim = PlaneDimOf(cfg, i)
             /\ g[i].shade = frame.planes[i].shade
    BY <2>1, ColoursComeBack DEF g
  <2>5. {g[i].label : i \in DOMAIN g} = {PlaneLabels(cfg.fourcc)[i] : i \in 1 .. n}
    BY <2>4 DEF PlaneIds
  <2>6. Cardinality({g[i].label : i \in DOMAIN g}) = Len(g)
    BY <2>1, <2>4, <2>5, LabelsDiffer DEF GoodStream
  <2>7. \A i \in DOMAIN g : g[i].dim.width * g[i].dim.height = frame.planes[i].size
    <3>1. /\ PlaneIds(frame) = DOMAIN g
          /\ \A i \in DOMAIN g : PlaneSize(frame, i) = PlaneSize(cfg, i)
      BY <2>1, <2>4, PlanesOfFrame
    <3>2. \A i \in DOMAIN g : frame.planes[i].size = PlaneSize(cfg, i)
      BY <2>1, <3>1 DEF Fits
    <3> QED
      BY <2>4, <3>2 DEF PlaneSize
  <2> QED
    BY <2>1, <2>3, <2>4, <2>6, <2>7 DEF SameFrame, Fits, Succeed
<1> QED
  BY <1>1, Correctness, PTL

\* Whoever is at fault, the category of the error says so.
THEOREM RightBlame == Spec => []BlameTheRightSide
<1>1. IInv => BlameTheRightSide
  <2> SUFFICES ASSUME IInv PROVE BlameTheRightSide
    OBVIOUS
  <2>1. ASSUME made.kind \notin {"None", "Ok", "MissingParameter"}
        PROVE  Category(made.kind) \in {"StreamShape", "Unsupported"}
    <3>1. made = BuildEncoderConfig(params)
      BY <2>1 DEF IInv, Setup, Nothing
    <3>2. made.kind \in {"ExtradataTruncated", "InvalidFrameInfoSize",
                         "HuffmanBitClear", "InterlacedNotSupported",
                         "DimensionConstraint"}
      BY <2>1, <3>1, FactoryErrors
    <3> QED
      BY <3>2 DEF Category
  <2>2. ASSUME sent.kind \notin {"None", "Ok", "InvalidFrame"}
        PROVE  /\ Category(sent.kind) \in {"ApiMisuse", "StreamShape"}
               /\ viaTrait => sent.kind = "SliceCountExceedsPlaneHeight"
    <3>1. /\ sent = Encode(frame)
          /\ viaTrait => Fits(frame)
      BY <2>2 DEF IInv, Sending, Nothing, Fail
    <3>2. GoodStream(cfg)
      BY <2>2, ConfigIsGood DEF IInv, Setup, Sending, Nothing
    <3>3. sent.kind \in EncodeErrors
      BY <2>2, <3>1, EncodeOutcomes DEF Succeed
    <3>4. Category(sent.kind) \in {"ApiMisuse", "StreamShape"}
      BY <3>3 DEF EncodeErrors, Category
    <3> QED
      BY <2>2, <3>1, <3>2, <3>4, FittingFrame DEF Fail, Succeed
  <2>3. ASSUME answer.kind \notin {"None", "Ok"}
        PROVE  Category(answer.kind) = "MalformedStream"
    <3>1. decoding = "done"
      BY <2>3 DEF IInv, Decoding, Nothing
    <3>2. answer.kind \in {"ChunkTooShort", "HuffmanDecodeFailure",
                           "SliceTruncated", "NonZeroPadding"}
      BY <2>3, <3>1, AnswerIs, BadVerdict DEF Fail, Succeed
    <3> QED
      BY <3>2 DEF Category
  <2> QED
    BY <2>1, <2>2, <2>3 DEF BlameTheRightSide
<1> QED
  BY <1>1, Correctness, PTL

-----------------------------------------------------------------------------
(* The trait objects: a session of frames and packets *)

(* The inductive invariant *)

Packets ==
  [data : [frame : Nat, predictor : Predictors], stream : {Own},
   intact : BOOLEAN, pts : Nat]

Replies ==
  {Enc!Reply("InvalidData")}
    \cup [kind : {"Frame"}, frame : Nat, stream : Streams, pts : Nat]

Answers == [reply : Replies, asked : Streams \cup {NoStream}]

\* What the history variables hold.
HistoryTyped ==
  /\ wire \in Seq(Packets) /\ handed \in Seq(Packets)
  /\ outcomes \in Seq(Answers)

\* The i-th frame as the encoder makes a packet of it.
Encoded(i) == [frame |-> i, predictor |-> accepted[i]]

Held(slot) == IF slot = {} THEN 0 ELSE 1

\* Every accepted frame is in one place.
Counted ==
  /\ Len(handed) = Len(outcomes) + Held(decPending)
  /\ Len(accepted) = Len(handed) + Len(wire) + Held(encPending)

\* And that place is the one its number says.
InPlace ==
  /\ \A i \in 1 .. Len(handed) :
       handed[i].data = Encoded(i) /\ handed[i].pts = i
  /\ \A i \in 1 .. Len(wire) :
       /\ wire[i].data = Encoded(Len(handed) + i)
       /\ wire[i].pts = Len(handed) + i
  /\ decPending # {} => decPending = {handed[Len(handed)]}
  /\ encPending # {} => encPending = {Encoded(Len(accepted))}

\* The decoder holds the configuration it last said Ok to.
HoldsWhatWasAsked == config = asked

\* What the two Eofs stand for.
EofStands ==
  /\ encReply.kind = "Eof" => encEof /\ encPending = {}
  /\ decEof => encEof /\ encPending = {} /\ wire = << >>
  /\ decReply.kind = "Eof" => decEof /\ decPending = {}

SessionInv ==
  /\ HistoryTyped /\ Counted /\ InPlace /\ HoldsWhatWasAsked /\ EofStands
  /\ EachPacketItsOwnOutcome /\ DecodedAsConfigured

\* The part of the invariant that only the slots and the history decide.
Places ==
  /\ HistoryTyped /\ Counted /\ InPlace /\ HoldsWhatWasAsked
  /\ EachPacketItsOwnOutcome /\ DecodedAsConfigured

-----------------------------------------------------------------------------
(* Type correctness *)

\* The initial states are typed.
LEMMA TypeInit == SessionInit => TypeOK
<1> SUFFICES ASSUME SessionInit PROVE TypeOK
  OBVIOUS
<1>1. accepted \in Seq(Predictors) /\ Len(accepted) <= MaxFrames
  BY EmptySeq, SessionAssumption DEF SessionInit
<1>2. encReply.kind = "Ok" /\ decReply.kind = "Ok"
  BY DEF SessionInit, Enc!EncoderInit, Dec!DecoderInit, Enc!Reply, Dec!Reply
<1> QED
  BY <1>1, <1>2 DEF SessionInit, Enc!EncoderInit, Dec!DecoderInit, TypeOK, Kinds

\* The predictor an accepted frame is encoded with is one of the four.
LEMMA ChosenIsPredictor ==
  ASSUME TypeOK, NEW f \in Frames
  PROVE  Enc!Chosen(f) \in Predictors
BY DEF TypeOK, Frames, Enc!Chosen

\* A step preserves the types.
LEMMA TypeStep == TypeOK /\ [SessionNext]_sessionVars => TypeOK'
<1> SUFFICES ASSUME TypeOK, [SessionNext]_sessionVars PROVE TypeOK'
  OBVIOUS
<1> USE DEF TypeOK, Kinds, decVars, encVars, history
<1>1. CASE PushFrame
  <2>1. PICK f \in Frames :
          \/ /\ Enc!SendFrameAccepted(f)
             /\ accepted' = Append(accepted, Enc!Chosen(f))
          \/ /\ Enc!SendFrameRefused(f)
             /\ UNCHANGED accepted
    BY <1>1 DEF PushFrame
  <2>2. UNCHANGED decVars /\ Len(accepted) < MaxFrames
    BY <1>1 DEF PushFrame
  <2>3. CASE Enc!SendFrameAccepted(f) /\ accepted' = Append(accepted, Enc!Chosen(f))
    <3>1. accepted' \in Seq(Predictors) /\ Len(accepted') = Len(accepted) + 1
      BY <2>3, ChosenIsPredictor, AppendProperties
    <3>2. Len(accepted') <= MaxFrames
      BY <2>2, <3>1, LenProperties, SessionAssumption
    <3> QED
      BY <2>2, <2>3, <3>1, <3>2 DEF Enc!SendFrameAccepted, Enc!Reply
  <2>4. CASE Enc!SendFrameRefused(f) /\ UNCHANGED accepted
    BY <2>2, <2>4 DEF Enc!SendFrameRefused, Enc!Reply
  <2> QED
    BY <2>1, <2>3, <2>4
<1>2. CASE PullPacket
  BY <1>2 DEF PullPacket, Enc!ReceivePacket, Enc!ReceiveNoPacket, Enc!Reply
<1>3. CASE EndOfFrames
  BY <1>3 DEF EndOfFrames, Enc!FlushEncoder, Enc!Reply
<1>4. CASE TuneEncoder
  BY <1>4 DEF TuneEncoder, Enc!SetPredictor, Enc!Reply
<1>5. CASE PushPacket
  BY <1>5 DEF PushPacket, Dec!SendPacketAccepted, Dec!SendPacketRefused, Dec!Reply
<1>6. CASE PullFrame
  BY <1>6 DEF PullFrame, Dec!ReceiveFrame, Dec!ReceiveNoFrame, Dec!Decoded,
     Dec!Reply
<1>7. CASE EndOfPackets
  BY <1>7 DEF EndOfPackets, Dec!FlushDecoder, Dec!Reply
<1>8. CASE TuneDecoder
  BY <1>8 DEF TuneDecoder, Dec!Configure, Dec!Reply
<1>9. CASE UNCHANGED sessionVars
  BY <1>9 DEF sessionVars
<1> QED
  BY <1>1, <1>2, <1>3, <1>4, <1>5, <1>6, <1>7, <1>8, <1>9 DEF SessionNext

-----------------------------------------------------------------------------
(* The invariant is inductive *)

\* A session starts with nothing anywhere.
LEMMA InvInit == SessionInit => SessionInv
<1> SUFFICES ASSUME SessionInit PROVE SessionInv
  OBVIOUS
<1>1. /\ accepted = << >> /\ wire = << >> /\ handed = << >> /\ outcomes = << >>
      /\ encPending = {} /\ decPending = {} /\ ~decEof
      /\ encReply.kind = "Ok" /\ decReply.kind = "Ok"
  BY DEF SessionInit, Enc!EncoderInit, Dec!DecoderInit, Enc!Reply, Dec!Reply
<1>2. HistoryTyped
  BY <1>1, EmptySeq DEF HistoryTyped
<1>3. Counted /\ InPlace /\ HoldsWhatWasAsked
  BY <1>1 DEF SessionInit, Counted, InPlace, HoldsWhatWasAsked, Held
<1>4. EachPacketItsOwnOutcome /\ DecodedAsConfigured
  BY <1>1 DEF EachPacketItsOwnOutcome, DecodedAsConfigured
<1> QED
  BY <1>1, <1>2, <1>3, <1>4 DEF SessionInv, EofStands

\* Refused calls, flushes, tuning and empty answers move nothing.
LEMMA NothingMoves ==
  ASSUME Places,
         UNCHANGED <<accepted, wire, handed, outcomes, encPending, decPending>>,
         config = asked => config' = asked'
  PROVE  Places'
BY DEF Places, HistoryTyped, Counted, InPlace, Held, Encoded, HoldsWhatWasAsked,
   EachPacketItsOwnOutcome, DecodedAsConfigured

\* send_frame puts the next frame into the empty slot of the encoder.
LEMMA FrameAccepted ==
  ASSUME TypeOK, Places, NEW f \in Frames, Enc!SendFrameAccepted(f),
         accepted' = Append(accepted, Enc!Chosen(f)),
         UNCHANGED <<decVars, wire, handed, outcomes, asked>>
  PROVE  Places'
<1>1. /\ accepted \in Seq(Predictors) /\ Len(accepted) \in Nat
      /\ Len(accepted') = Len(accepted) + 1
      /\ accepted'[Len(accepted) + 1] = Enc!Chosen(f)
      /\ \A i \in 1 .. Len(accepted) : accepted'[i] = accepted[i]
  BY ChosenIsPredictor, AppendProperties, LenProperties DEF TypeOK
<1>2. /\ encPending = {} /\ f.id = Len(accepted) + 1
      /\ encPending' = {[frame |-> f.id, predictor |-> Enc!Chosen(f)]}
      /\ decPending' = decPending /\ config' = config /\ asked' = asked
      /\ wire' = wire /\ handed' = handed /\ outcomes' = outcomes
  BY DEF Enc!SendFrameAccepted, Enc!Accepts, Frames, decVars
<1>3. Len(wire) \in Nat /\ Len(handed) \in Nat
  BY LenProperties DEF Places, HistoryTyped
<1>4. Len(accepted) = Len(handed) + Len(wire)
  BY <1>2, <1>3 DEF Places, Counted, Held
<1>5. Counted'
  BY <1>1, <1>2, <1>3, <1>4 DEF Places, Counted, Held
<1>6. \A i \in 1 .. Len(accepted) : Encoded(i)' = Encoded(i)
  BY <1>1 DEF Encoded
<1>7. \A i \in 1 .. Len(handed) : i \in 1 .. Len(accepted)
  BY <1>3, <1>4
<1>8. \A i \in 1 .. Len(wire) : Len(handed) + i \in 1 .. Len(accepted)
  BY <1>3, <1>4
<1>9. encPending' = {Encoded(Len(accepted))'}
  BY <1>1, <1>2 DEF Encoded
<1>10. InPlace'
  BY <1>2, <1>6, <1>7, <1>8, <1>9 DEF Places, InPlace
<1> QED
  BY <1>2, <1>5, <1>10 DEF Places, HistoryTyped, HoldsWhatWasAsked,
     EachPacketItsOwnOutcome, DecodedAsConfigured

\* receive_packet moves the packet from the slot to the end of the container.
LEMMA PacketPulled ==
  ASSUME TypeOK, Places, Enc!ReceivePacket, NEW intact \in BOOLEAN,
         wire' = Append(wire, [data |-> encReply'.data, stream |-> Own,
                               intact |-> intact,
                               pts |-> Len(handed) + Len(wire) + 1]),
         UNCHANGED <<decVars, accepted, handed, outcomes, asked>>
  PROVE  Places'
<1> DEFINE p == [data |-> encReply'.data, stream |-> Own,
                 intact |-> intact,
                 pts |-> Len(handed) + Len(wire) + 1]
<1>1. /\ encPending # {} /\ encPending' = {}
      /\ encReply'.data = CHOOSE d \in encPending : TRUE
      /\ decPending' = decPending /\ config' = config /\ asked' = asked
      /\ accepted' = accepted /\ handed' = handed /\ outcomes' = outcomes
  BY DEF Enc!ReceivePacket, decVars
<1>2. /\ Len(wire) \in Nat /\ Len(handed) \in Nat /\ Len(accepted) \in Nat
      /\ wire \in Seq(Packets)
  BY LenProperties DEF Places, HistoryTyped, TypeOK
<1>3. Len(accepted) = Len(handed) + Len(wire) + 1
  BY <1>1, <1>2 DEF Places, Counted, Held
<1>4. encReply'.data = Encoded(Len(accepted))
  BY <1>1 DEF Places, InPlace
<1>5. p \in Packets
  <2>1. Len(accepted) \in 1 .. Len(accepted)
    BY <1>2, <1>3
  <2>2. accepted[Len(accepted)] \in Predictors
    BY <2>1, ElementOfSeq DEF TypeOK
  <2> QED
    BY <1>2, <1>4, <2>2 DEF Packets, Encoded
<1>6. p.data = Encoded(Len(accepted)) /\ p.pts = Len(handed) + Len(wire) + 1
  BY <1>4
<1> HIDE DEF p
<1>7. wire' = Append(wire, p)
  BY DEF p
<1>8. /\ wire' \in Seq(Packets) /\ Len(wire') = Len(wire) + 1
      /\ wire'[Len(wire) + 1] = p
      /\ \A i \in 1 .. Len(wire) : wire'[i] = wire[i]
  BY <1>2, <1>5, <1>7, AppendProperties
<1>9. Counted'
  <2>1. /\ Held(encPending) = 1 /\ Held(encPending)' = 0
        /\ Held(decPending)' = Held(decPending)
    BY <1>1 DEF Held
  <2> QED
    BY <1>1, <1>2, <1>8, <2>1 DEF Places, Counted
<1>10. \A i : Encoded(i)' = Encoded(i)
  BY <1>1 DEF Encoded
<1>11. \A i \in 1 .. Len(wire') : wire'[i].data = Encoded(Len(handed) + i)
                                  /\ wire'[i].pts = Len(handed) + i
  <2> SUFFICES ASSUME NEW i \in 1 .. Len(wire')
               PROVE  wire'[i].data = Encoded(Len(handed) + i)
                      /\ wire'[i].pts = Len(handed) + i
    OBVIOUS
  <2>1. CASE i \in 1 .. Len(wire)
    BY <2>1, <1>8 DEF Places, InPlace
  <2>2. CASE i = Len(wire) + 1
    BY <2>2, <1>2, <1>3, <1>6, <1>8
  <2> QED
    BY <2>1, <2>2, <1>2, <1>8
<1>12. InPlace'
  BY <1>1, <1>10, <1>11 DEF Places, InPlace
<1> QED
  BY <1>1, <1>8, <1>9, <1>12 DEF Places, HistoryTyped, HoldsWhatWasAsked,
     EachPacketItsOwnOutcome, DecodedAsConfigured

\* send_packet moves the oldest packet of the container into the empty slot of
\* the decoder.
LEMMA PacketPushed ==
  ASSUME TypeOK, Places, wire # << >>, Dec!SendPacketAccepted(Head(wire)),
         wire' = Tail(wire), handed' = Append(handed, Head(wire)),
         UNCHANGED <<encVars, accepted, outcomes, asked>>
  PROVE  Places'
<1> DEFINE p == Head(wire)
<1>1. /\ decPending = {} /\ decPending' = {p} /\ config' = config /\ asked' = asked
      /\ encPending' = encPending
      /\ accepted' = accepted /\ outcomes' = outcomes
  BY DEF Dec!SendPacketAccepted, encVars
<1>2. /\ Len(wire) \in Nat /\ Len(handed) \in Nat /\ Len(accepted) \in Nat
      /\ wire \in Seq(Packets) /\ handed \in Seq(Packets)
      /\ Len(outcomes) \in Nat
  BY LenProperties DEF Places, HistoryTyped, TypeOK
<1>3. /\ p \in Packets /\ p = wire[1]
      /\ wire' \in Seq(Packets) /\ Len(wire') = Len(wire) - 1
      /\ \A i \in 1 .. Len(wire') : wire'[i] = wire[i + 1]
  BY <1>2, HeadTailProperties
<1>4. Len(wire) >= 1
  BY <1>2, EmptySeq
<1>5. p.data = Encoded(Len(handed) + 1) /\ p.pts = Len(handed) + 1
  BY <1>2, <1>3, <1>4 DEF Places, InPlace
<1> HIDE DEF p
<1>6. /\ handed' \in Seq(Packets) /\ Len(handed') = Len(handed) + 1
      /\ handed'[Len(handed) + 1] = p
      /\ \A i \in 1 .. Len(handed) : handed'[i] = handed[i]
  BY <1>2, <1>3, AppendProperties DEF p
<1>7. Counted'
  <2>1. /\ Held(decPending) = 0 /\ Held(decPending)' = 1
        /\ Held(encPending)' = Held(encPending) /\ Held(encPending) \in Nat
    BY <1>1 DEF Held
  <2> QED
    BY <1>1, <1>2, <1>3, <1>6, <2>1 DEF Places, Counted
<1>8. \A i : Encoded(i)' = Encoded(i)
  BY <1>1 DEF Encoded
<1>9. \A i \in 1 .. Len(handed') : handed'[i].data = Encoded(i)
                                   /\ handed'[i].pts = i
  <2> SUFFICES ASSUME NEW i \in 1 .. Len(handed')
               PROVE  handed'[i].data = Encoded(i) /\ handed'[i].pts = i
    OBVIOUS
  <2>1. CASE i \in 1 .. Len(handed)
    BY <2>1, <1>6 DEF Places, InPlace
  <2>2. CASE i = Len(handed) + 1
    BY <2>2, <1>5, <1>6
  <2> QED
    BY <2>1, <2>2, <1>2, <1>6
<1>10. \A i \in 1 .. Len(wire') : wire'[i].data = Encoded(Len(handed') + i)
                                  /\ wire'[i].pts = Len(handed') + i
  <2> SUFFICES ASSUME NEW i \in 1 .. Len(wire')
               PROVE  wire'[i].data = Encoded(Len(handed') + i)
                      /\ wire'[i].pts = Len(handed') + i
    OBVIOUS
  <2>1. i + 1 \in 1 .. Len(wire) /\ wire'[i] = wire[i + 1]
    BY <1>2, <1>3
  <2>2. Len(handed) + (i + 1) = Len(handed') + i
    BY <1>2, <1>3, <1>6
  <2> QED
    BY <2>1, <2>2 DEF Places, InPlace
<1>11. InPlace'
  BY <1>1, <1>6, <1>8, <1>9, <1>10 DEF Places, InPlace
<1>12. Len(outcomes) = Len(handed)
  BY <1>1, <1>2 DEF Places, Counted, Held
<1>13. DOMAIN outcomes = 1 .. Len(handed) /\ DOMAIN handed = 1 .. Len(handed)
       /\ DOMAIN handed' = 1 .. Len(handed) + 1
  BY <1>2, <1>6, <1>12, LenProperties DEF Places, HistoryTyped
<1>14. EachPacketItsOwnOutcome' /\ DecodedAsConfigured'
  <2>1. \A i \in DOMAIN outcomes : i \in DOMAIN handed' /\ handed'[i] = handed[i]
    BY <1>2, <1>6, <1>13
  <2> QED
    BY <1>1, <2>1 DEF Places, EachPacketItsOwnOutcome, DecodedAsConfigured
<1> QED
  BY <1>1, <1>3, <1>6, <1>7, <1>11, <1>14 DEF Places, HistoryTyped,
     HoldsWhatWasAsked

\* receive_frame answers for the packet in the slot, whatever becomes of it.
LEMMA FramePulled ==
  ASSUME TypeOK, Places, Dec!ReceiveFrame,
         outcomes' = Append(outcomes, [reply |-> decReply', asked |-> asked]),
         UNCHANGED <<encVars, accepted, wire, handed, asked>>
  PROVE  Places'
<1> DEFINE n == Len(handed)
           p == handed[n]
           o == [reply |-> decReply', asked |-> asked]
<1>1. /\ decPending # {} /\ decPending' = {} /\ config' = config /\ asked' = asked
      /\ decReply' \in Dec!Decoded(CHOOSE q \in decPending : TRUE)
      /\ encPending' = encPending
      /\ accepted' = accepted /\ wire' = wire /\ handed' = handed
  BY DEF Dec!ReceiveFrame, encVars
<1>2. /\ n \in Nat /\ Len(outcomes) \in Nat /\ Len(wire) \in Nat
      /\ handed \in Seq(Packets) /\ outcomes \in Seq(Answers)
  BY LenProperties DEF Places, HistoryTyped
<1>3. n = Len(outcomes) + 1
  BY <1>1, <1>2 DEF Places, Counted, Held
<1>4. /\ p.data = Encoded(n) /\ p.pts = n /\ p.stream = Own
      /\ p.intact \in BOOLEAN
  <2>1. n \in 1 .. n
    BY <1>2, <1>3
  <2>2. p \in Packets
    BY <1>2, <2>1, ElementOfSeq
  <2> QED
    BY <2>1, <2>2 DEF Places, InPlace, Packets
<1>5. decReply' \in Dec!Decoded(p)
  BY <1>1 DEF Places, InPlace
<1>6. config = asked /\ asked \in Streams \cup {NoStream}
  BY DEF Places, HoldsWhatWasAsked, TypeOK
<1>7. \/ /\ decReply' = Enc!Reply("InvalidData")
         /\ ~p.intact \/ asked # Own
      \/ /\ decReply' = [kind |-> "Frame", frame |-> n, stream |-> asked, pts |-> n]
         /\ asked \in Streams
         /\ asked = Own => p.intact
  <2> DEFINE read == [kind |-> "Frame", frame |-> n, stream |-> asked, pts |-> n]
             refused == Enc!Reply("InvalidData")
  <2>1. /\ p.data.frame = n /\ refused = Dec!Reply("InvalidData")
        /\ p.intact \in BOOLEAN
    BY <1>4 DEF Encoded, Dec!Reply, Enc!Reply
  <2>2. decReply' \in CASE asked = NoStream -> {refused}
                        [] asked = Own -> {IF p.intact THEN read ELSE refused}
                        [] asked \notin {NoStream, Own} -> {refused, read}
    BY <1>4, <1>5, <1>6, <2>1 DEF Dec!Decoded
  <2> HIDE DEF read, refused, p
  <2>3. CASE asked = NoStream
    BY <2>2, <2>3, SessionAssumption DEF refused
  <2>4. CASE asked = Own
    BY <2>1, <2>2, <2>4, SessionAssumption DEF refused, read
  <2>5. CASE asked \notin {NoStream, Own}
    BY <1>6, <2>2, <2>5 DEF refused, read
  <2> QED
    BY <2>3, <2>4, <2>5
<1> HIDE DEF p, n
<1>8. o \in Answers
  BY <1>2, <1>6, <1>7 DEF Answers, Replies
<1>9. o.reply = decReply' /\ o.asked = asked
  OBVIOUS
<1> HIDE DEF o
<1>10. /\ outcomes' \in Seq(Answers) /\ Len(outcomes') = n
       /\ outcomes'[n] = o
       /\ \A i \in 1 .. n - 1 : outcomes'[i] = outcomes[i]
  BY <1>2, <1>3, <1>8, AppendProperties DEF o
<1>11. Counted'
  <2>1. /\ Held(decPending)' = 0 /\ Held(encPending)' = Held(encPending)
    BY <1>1 DEF Held
  <2> QED
    BY <1>1, <1>2, <1>3, <1>10, <2>1 DEF Places, Counted, n
<1>12. \A i : Encoded(i)' = Encoded(i)
  BY <1>1 DEF Encoded
<1>13. InPlace'
  BY <1>1, <1>12 DEF Places, InPlace
<1>14. /\ DOMAIN outcomes' = 1 .. n /\ DOMAIN handed = 1 .. n
       /\ DOMAIN outcomes = 1 .. n - 1
  BY <1>2, <1>3, <1>10, LenProperties DEF n
<1>15. \A i \in 1 .. n : i = n \/ i \in 1 .. n - 1
  BY <1>2
<1>16. Enc!Reply("InvalidData").kind = "InvalidData"
  BY DEF Enc!Reply
<1>17. HoldsWhatWasAsked'
  BY <1>1, <1>6 DEF HoldsWhatWasAsked
<1>18. EachPacketItsOwnOutcome'
  BY <1>1, <1>7, <1>9, <1>10, <1>14, <1>15, <1>16
  DEF Places, EachPacketItsOwnOutcome, p
<1>19. DecodedAsConfigured'
  BY <1>1, <1>7, <1>9, <1>10, <1>14, <1>15, <1>16
  DEF Places, DecodedAsConfigured, p
<1> QED
  BY <1>1, <1>10, <1>11, <1>13, <1>17, <1>18, <1>19 DEF Places, HistoryTyped

\* Every step keeps each frame in its place.
LEMMA PlacesStep == TypeOK /\ Places /\ [SessionNext]_sessionVars => Places'
<1> SUFFICES ASSUME TypeOK, Places, [SessionNext]_sessionVars PROVE Places'
  OBVIOUS
<1>1. CASE PushFrame
  <2>1. PICK f \in Frames :
          \/ /\ Enc!SendFrameAccepted(f)
             /\ accepted' = Append(accepted, Enc!Chosen(f))
          \/ /\ Enc!SendFrameRefused(f)
             /\ UNCHANGED accepted
    BY <1>1 DEF PushFrame
  <2>2. UNCHANGED <<decVars, wire, handed, outcomes, asked>>
    BY <1>1 DEF PushFrame
  <2>3. CASE Enc!SendFrameAccepted(f) /\ accepted' = Append(accepted, Enc!Chosen(f))
    BY <2>2, <2>3, FrameAccepted
  <2>4. CASE Enc!SendFrameRefused(f) /\ UNCHANGED accepted
    BY <2>2, <2>4, NothingMoves DEF Enc!SendFrameRefused, decVars
  <2> QED
    BY <2>1, <2>3, <2>4
<1>2. CASE PullPacket
  <2>1. CASE Enc!ReceivePacket
    BY <1>2, <2>1, PacketPulled
    DEF PullPacket, Enc!ReceivePacket, Enc!ReceiveNoPacket
  <2>2. CASE ~Enc!ReceivePacket
    BY <1>2, <2>2, NothingMoves DEF PullPacket, Enc!ReceiveNoPacket, decVars, history
  <2> QED
    BY <2>1, <2>2
<1>3. CASE EndOfFrames \/ TuneEncoder
  BY <1>3, NothingMoves DEF EndOfFrames, TuneEncoder, Enc!FlushEncoder,
     Enc!SetPredictor, decVars, history
<1>4. CASE PushPacket
  <2>1. CASE Dec!SendPacketRefused
    BY <1>4, <2>1, NothingMoves DEF PushPacket, Dec!SendPacketRefused,
       Dec!SendPacketAccepted, encVars
  <2>2. CASE ~Dec!SendPacketRefused
    BY <1>4, <2>2, PacketPushed DEF PushPacket
  <2> QED
    BY <2>1, <2>2
<1>5. CASE PullFrame
  <2>1. CASE Dec!ReceiveFrame
    BY <1>5, <2>1, FramePulled
    DEF PullFrame, Dec!ReceiveFrame, Dec!ReceiveNoFrame
  <2>2. CASE ~Dec!ReceiveFrame
    BY <1>5, <2>2, NothingMoves DEF PullFrame, Dec!ReceiveNoFrame, encVars, history
  <2> QED
    BY <2>1, <2>2
<1>6. CASE EndOfPackets
  BY <1>6, NothingMoves DEF EndOfPackets, Dec!FlushDecoder, encVars, history
<1>7. CASE TuneDecoder
  <2>1. PICK c \in Streams \cup {NoStream} :
          /\ Dec!Configure(c)
          /\ asked' = IF decReply'.kind = "Ok" THEN c ELSE asked
    BY <1>7 DEF TuneDecoder
  <2>2. config = asked => config' = asked'
    BY <2>1 DEF Dec!Configure, Dec!Reply
  <2>3. UNCHANGED <<accepted, wire, handed, outcomes, encPending, decPending>>
    BY <1>7, <2>1 DEF TuneDecoder, Dec!Configure, encVars
  <2> QED
    BY <2>2, <2>3, NothingMoves
<1>8. CASE UNCHANGED sessionVars
  BY <1>8, NothingMoves DEF sessionVars, encVars, decVars, history
<1> QED
  BY <1>1, <1>2, <1>3, <1>4, <1>5, <1>6, <1>7, <1>8 DEF SessionNext

\* Nothing is sent after an Eof, so an Eof stays true.
LEMMA EofStep == EofStands /\ [SessionNext]_sessionVars => EofStands'
<1> SUFFICES ASSUME EofStands, [SessionNext]_sessionVars PROVE EofStands'
  OBVIOUS
<1> USE DEF EofStands, encVars, decVars, history
<1>1. CASE PushFrame
  BY <1>1 DEF PushFrame, Enc!SendFrameAccepted, Enc!SendFrameRefused, Enc!Reply
<1>2. CASE PullPacket
  BY <1>2 DEF PullPacket, Enc!ReceivePacket, Enc!ReceiveNoPacket, Enc!Reply
<1>3. CASE EndOfFrames \/ TuneEncoder
  BY <1>3 DEF EndOfFrames, TuneEncoder, Enc!FlushEncoder, Enc!SetPredictor,
     Enc!Reply
<1>4. CASE PushPacket
  BY <1>4 DEF PushPacket, Dec!SendPacketAccepted, Dec!SendPacketRefused, Dec!Reply
<1>5. CASE PullFrame
  BY <1>5 DEF PullFrame, Dec!ReceiveFrame, Dec!ReceiveNoFrame, Dec!Decoded,
     Dec!Reply
<1>6. CASE EndOfPackets
  BY <1>6 DEF EndOfPackets, Dec!FlushDecoder, Dec!Reply
<1>7. CASE TuneDecoder
  BY <1>7 DEF TuneDecoder, Dec!Configure, Dec!Reply
<1>8. CASE UNCHANGED sessionVars
  BY <1>8 DEF sessionVars
<1> QED
  BY <1>1, <1>2, <1>3, <1>4, <1>5, <1>6, <1>7, <1>8 DEF SessionNext

-----------------------------------------------------------------------------
(* Where the accepted frames are *)

Data == [frame : Nat, predictor : Predictors]

\* A sequence of one element.
LEMMA SequenceOfOne ==
  ASSUME NEW S, NEW x \in S
  PROVE  <<x>> \in Seq(S) /\ Len(<<x>>) = 1 /\ <<x>>[1] = x
OBVIOUS

\* The two slots read as sequences of at most one packet.
LEMMA SlotSequences ==
  ASSUME TypeOK, SessionInv,
         NEW d, d = IF decPending = {} THEN << >>
                    ELSE <<(CHOOSE p \in decPending : TRUE).data>>,
         NEW e, e = IF encPending = {} THEN << >>
                    ELSE <<CHOOSE q \in encPending : TRUE>>
  PROVE  /\ d \in Seq(Data) /\ Len(d) = Held(decPending)
         /\ decPending # {} => d[1] = Encoded(Len(handed))
         /\ e \in Seq(Data) /\ Len(e) = Held(encPending)
         /\ encPending # {} => e[1] = Encoded(Len(accepted))
<1>1. /\ Len(handed) \in Nat /\ Len(outcomes) \in Nat /\ Len(accepted) \in Nat
      /\ Len(wire) \in Nat /\ handed \in Seq(Packets)
  BY LenProperties DEF SessionInv, HistoryTyped, TypeOK
<1>2. ASSUME decPending # {}
      PROVE  /\ d \in Seq(Data) /\ Len(d) = Held(decPending)
             /\ d[1] = Encoded(Len(handed))
  <2>1. Len(handed) \in 1 .. Len(handed)
    BY <1>1, <1>2 DEF SessionInv, Counted, Held
  <2>2. d = <<handed[Len(handed)].data>>
    BY <1>2 DEF SessionInv, InPlace
  <2>3. handed[Len(handed)] \in Packets
    BY <1>1, <2>1, ElementOfSeq
  <2>4. handed[Len(handed)].data \in Data
    BY <2>3 DEF Packets, Data
  <2> QED
    BY <1>2, <2>1, <2>2, <2>4 DEF SessionInv, InPlace, Held
<1>3. ASSUME encPending # {}
      PROVE  /\ e \in Seq(Data) /\ Len(e) = Held(encPending)
             /\ e[1] = Encoded(Len(accepted))
  <2>1. Len(accepted) \in 1 .. Len(accepted)
    <3>1. Held(encPending) = 1 /\ Held(decPending) \in Nat
      BY <1>3 DEF Held
    <3> QED
      BY <1>1, <3>1 DEF SessionInv, Counted
  <2>2. e = <<Encoded(Len(accepted))>>
    BY <1>3 DEF SessionInv, InPlace
  <2>3. accepted[Len(accepted)] \in Predictors
    BY <2>1, ElementOfSeq DEF TypeOK
  <2>4. Encoded(Len(accepted)) \in Data
    BY <1>1, <2>3 DEF Encoded, Data
  <2>5. Held(encPending) = 1
    BY <1>3 DEF Held
  <2> QED
    BY <2>2, <2>4, <2>5, SequenceOfOne
<1>4. ASSUME decPending = {}
      PROVE  d \in Seq(Data) /\ Len(d) = Held(decPending)
  BY <1>4, EmptySeq DEF Held
<1>5. ASSUME encPending = {}
      PROVE  e \in Seq(Data) /\ Len(e) = Held(encPending)
  BY <1>5, EmptySeq DEF Held
<1> QED
  BY <1>2, <1>3, <1>4, <1>5

\* Answered packets, the decoder's slot, the container and the encoder's slot,
\* one after the other, are the accepted frames in their order.
LEMMA PlacesInOrder == TypeOK /\ SessionInv => NothingLost
<1> SUFFICES ASSUME TypeOK, SessionInv PROVE NothingLost
  OBVIOUS
<1> DEFINE a == [i \in DOMAIN accepted |-> Encoded(i)]
           b == [i \in DOMAIN outcomes |-> handed[i].data]
           d == IF decPending = {} THEN << >>
                ELSE <<(CHOOSE p \in decPending : TRUE).data>>
           w == [i \in DOMAIN wire |-> wire[i].data]
           e == IF encPending = {} THEN << >>
                ELSE <<CHOOSE q \in encPending : TRUE>>
           O == Len(outcomes)
           H == Len(handed)
           W == Len(wire)
           A == Len(accepted)
           h == Held(decPending)
           g == Held(encPending)
<1>1. /\ accepted \in Seq(Predictors) /\ wire \in Seq(Packets)
      /\ handed \in Seq(Packets) /\ outcomes \in Seq(Answers)
  BY DEF TypeOK, SessionInv, HistoryTyped
<1>2. /\ O \in Nat /\ H \in Nat /\ W \in Nat /\ A \in Nat
      /\ DOMAIN accepted = 1 .. A /\ DOMAIN outcomes = 1 .. O
      /\ DOMAIN wire = 1 .. W
  BY <1>1, LenProperties
<1>3. /\ h \in {0, 1} /\ g \in {0, 1}
      /\ H = O + h /\ A = H + W + g
      /\ (h = 1) <=> (decPending # {})
      /\ (g = 1) <=> (encPending # {})
  BY DEF SessionInv, Counted, Held
<1>4. /\ \A i \in 1 .. A : accepted[i] \in Predictors
      /\ \A i \in 1 .. H : handed[i] \in Packets
      /\ \A i \in 1 .. W : wire[i] \in Packets
  BY <1>1, ElementOfSeq
<1>5. /\ \A i \in 1 .. A : Encoded(i) \in Data
      /\ \A i \in 1 .. H : handed[i].data \in Data
      /\ \A i \in 1 .. W : wire[i].data \in Data
  BY <1>4 DEF Encoded, Data, Packets
<1>6. /\ d \in Seq(Data) /\ Len(d) = h
      /\ h = 1 => d[1] = Encoded(H)
      /\ e \in Seq(Data) /\ Len(e) = g
      /\ g = 1 => e[1] = Encoded(A)
  BY <1>3, SlotSequences
<1>7. /\ \A i \in 1 .. H : handed[i].data = Encoded(i)
      /\ \A i \in 1 .. W : wire[i].data = Encoded(H + i)
  BY DEF SessionInv, InPlace
<1>8. NothingLost <=> a = b \o ((d \o w) \o e)
  BY DEF NothingLost, InFlight, Encoded
<1>a. a \in [1 .. A -> Data] /\ \A i \in 1 .. A : a[i] = Encoded(i)
  BY <1>2, <1>5
<1>b. b \in [1 .. O -> Data] /\ \A i \in 1 .. O : b[i] = Encoded(i)
  BY <1>2, <1>3, <1>5, <1>7
<1>w. w \in [1 .. W -> Data] /\ \A i \in 1 .. W : w[i] = Encoded(H + i)
  BY <1>2, <1>5, <1>7
<1> HIDE DEF a, b, d, w, e, O, H, W, A, h, g
<1>9. /\ a \in Seq(Data) /\ Len(a) = A /\ b \in Seq(Data) /\ Len(b) = O
      /\ w \in Seq(Data) /\ Len(w) = W
  BY <1>2, <1>a, <1>b, <1>w, SequenceOf
<1>10. /\ d \o w \in Seq(Data) /\ Len(d \o w) = h + W
       /\ \A i \in 1 .. h + W :
            (d \o w)[i] = IF i <= h THEN d[i] ELSE w[i - h]
  BY <1>6, <1>9, ConcatProperties
<1>11. \A i \in 1 .. h + W : (d \o w)[i] = Encoded(O + i)
  <2> SUFFICES ASSUME NEW i \in 1 .. h + W PROVE (d \o w)[i] = Encoded(O + i)
    OBVIOUS
  <2>1. CASE i <= h
    <3>1. i = 1 /\ h = 1 /\ O + i = H
      BY <1>2, <1>3, <2>1
    <3> QED
      BY <1>6, <1>10, <2>1, <3>1
  <2>2. CASE ~(i <= h)
    <3>1. i - h \in 1 .. W /\ H + (i - h) = O + i
      BY <1>2, <1>3, <2>2
    <3> QED
      BY <1>10, <1>w, <2>2, <3>1
  <2> QED
    BY <2>1, <2>2
<1>12. /\ (d \o w) \o e \in Seq(Data) /\ Len((d \o w) \o e) = h + W + g
       /\ \A i \in 1 .. h + W + g :
            ((d \o w) \o e)[i] = IF i <= h + W THEN (d \o w)[i] ELSE e[i - (h + W)]
  BY <1>6, <1>10, ConcatProperties
<1>13. \A i \in 1 .. h + W + g : ((d \o w) \o e)[i] = Encoded(O + i)
  <2> SUFFICES ASSUME NEW i \in 1 .. h + W + g
               PROVE  ((d \o w) \o e)[i] = Encoded(O + i)
    OBVIOUS
  <2>1. CASE i <= h + W
    <3>1. i \in 1 .. h + W
      BY <1>2, <1>3, <2>1
    <3> QED
      BY <1>11, <1>12, <2>1, <3>1
  <2>2. CASE ~(i <= h + W)
    <3>1. i - (h + W) = 1 /\ g = 1 /\ O + i = A
      BY <1>2, <1>3, <2>2
    <3> QED
      BY <1>6, <1>12, <2>2, <3>1
  <2> QED
    BY <2>1, <2>2
<1> DEFINE f == (d \o w) \o e
<1> HIDE DEF f
<1>14. /\ f \in Seq(Data) /\ Len(f) = h + W + g
       /\ \A i \in 1 .. h + W + g : f[i] = Encoded(O + i)
  BY <1>12, <1>13 DEF f
<1>15. /\ b \o f \in Seq(Data) /\ Len(b \o f) = A
       /\ \A i \in 1 .. A : (b \o f)[i] = IF i <= O THEN b[i] ELSE f[i - O]
  <2>1. Len(b) + Len(f) = A
    BY <1>2, <1>3, <1>9, <1>14
  <2>2. /\ b \o f \in Seq(Data) /\ Len(b \o f) = Len(b) + Len(f)
        /\ \A i \in 1 .. Len(b) + Len(f) :
             (b \o f)[i] = IF i <= Len(b) THEN b[i] ELSE f[i - Len(b)]
    BY <1>9, <1>14, ConcatProperties
  <2> QED
    BY <1>9, <2>1, <2>2
<1>16. \A i \in 1 .. A : a[i] = (b \o f)[i]
  <2> SUFFICES ASSUME NEW i \in 1 .. A PROVE Encoded(i) = (b \o f)[i]
    BY <1>a
  <2>1. CASE i <= O
    <3>1. i \in 1 .. O
      BY <1>2, <2>1
    <3> QED
      BY <1>15, <1>b, <2>1, <3>1
  <2>2. CASE ~(i <= O)
    <3>1. i - O \in 1 .. h + W + g /\ O + (i - O) = i
      BY <1>2, <1>3, <2>2
    <3> QED
      BY <1>14, <1>15, <2>2, <3>1
  <2> QED
    BY <2>1, <2>2
<1>17. a = b \o f
  BY <1>9, <1>15, <1>16, SeqEqual
<1> QED
  BY <1>8, <1>17 DEF f

-----------------------------------------------------------------------------
(* The theorems *)

\* The types of the two objects hold in every state, and with them the
\* invariant.
THEOREM SessionCorrectness == SessionSpec => [](TypeOK /\ SessionInv)
<1>1. SessionInit => TypeOK /\ SessionInv
  BY TypeInit, InvInit
<1>2. TypeOK /\ SessionInv /\ [SessionNext]_sessionVars => (TypeOK /\ SessionInv)'
  <2>1. SessionInv <=> Places /\ EofStands
    BY DEF SessionInv, Places
  <2>2. SessionInv' <=> Places' /\ EofStands'
    BY DEF SessionInv, Places
  <2> QED
    BY <2>1, <2>2, TypeStep, PlacesStep, EofStep
<1> QED
  BY <1>1, <1>2, PTL DEF SessionSpec

\* Both trait objects are type correct under every order of calls.
THEOREM TypeCorrect == SessionSpec => []TypeOK
BY SessionCorrectness, PTL

\* Nothing accepted is lost, repeated or reordered between send_frame and
\* receive_frame, refused calls and errors included, and each frame is encoded
\* with the predictor in force when it was sent.
THEOREM NoFrameLost == SessionSpec => []NothingLost
BY SessionCorrectness, PlacesInOrder, PTL

\* receive_frame answers for one packet at a time: a frame is made of its own
\* packet and carries its timestamp, and a refused packet was damaged, or the
\* stream it was encoded for was not the one configured.
THEOREM OwnOutcome == SessionSpec => []EachPacketItsOwnOutcome
<1>1. SessionInv => EachPacketItsOwnOutcome
  BY DEF SessionInv
<1> QED
  BY <1>1, SessionCorrectness, PTL

\* A packet is decoded as the stream of the last configure() that succeeded
\* before receive_frame, and as no other; for its own stream, an intact packet
\* gives its frame and a damaged one does not.
THEOREM DecodesAsConfigured == SessionSpec => []DecodedAsConfigured
<1>1. SessionInv => DecodedAsConfigured
  BY DEF SessionInv
<1> QED
  BY <1>1, SessionCorrectness, PTL

\* When receive_frame says Eof, every accepted frame was answered for.
THEOREM EofAfterLast == SessionSpec => []EofMeansDrained
<1>1. TypeOK /\ SessionInv => EofMeansDrained
  <2> SUFFICES ASSUME TypeOK, SessionInv, decReply.kind = "Eof"
               PROVE  Len(outcomes) = Len(accepted)
    BY DEF EofMeansDrained
  <2>1. decPending = {} /\ encPending = {} /\ wire = << >>
    BY DEF SessionInv, EofStands
  <2>2. Len(wire) = 0 /\ Len(handed) \in Nat /\ Len(outcomes) \in Nat
    BY <2>1, LenProperties DEF SessionInv, HistoryTyped
  <2> QED
    BY <2>1, <2>2 DEF SessionInv, Counted, Held
<1> QED
  BY <1>1, SessionCorrectness, PTL
=============================================================================
