----------------------------- MODULE FrameCodec -----------------------------
(***************************************************************************)
(* A stream from its parameters to a decoded frame: the encoder factory,   *)
(* the decoder factory on what the encoder published, one frame encoded    *)
(* through the trait object or directly, the payload on its way through a  *)
(* container that may damage it, and one of the two decodes.  A stream     *)
(* with more slices than the smallest plane has rows is refused by this    *)
(* encoder; such a payload comes from another one.                         *)
(***************************************************************************)
EXTENDS FrameDecoder

CONSTANTS Params,       \* the parameters that may be handed over
          Shots,        \* those whose stream is followed to a frame
          Pictures,     \* the shades of a frame's planes, by plane
          MaxProblems   \* bound: damage to one payload

ASSUME CodecAssumption == Shots \subseteq Params /\ MaxProblems \in Nat

\* Sizes are u32, the slice count is stored in a byte, samples are bytes.
ASSUME ParamsAssumption ==
  \A p \in Params :
    /\ {p.width, p.height} \subseteq Nat \cup {Absent}
    /\ {"length", "frameInfoSize", "huffman", "interlaced", "slicesLessOne"}
         \subseteq DOMAIN p.extradata
    /\ p.extradata.length \in Nat
    /\ p.extradata.slicesLessOne \in 0 .. 255
ASSUME PicturesAssumption ==
  \A picture \in Pictures : \A i \in 1 .. 4 : picture[i] \in 0 .. Depth - 1

VARIABLES params,
          stage,        \* "encoder", "decoder", "frame", "elsewhere", "payload", "done"
          made,         \* what make_encoder returned
          frame,        \* the frame handed to encode_frame
          viaTrait,     \* through send_frame
          sent,         \* what encoding it returned
          problems      \* damage done to the payload so far

setupVars == <<params, made>>
encodeVars == <<frame, viaTrait, sent>>
vars == <<setupVars, stage, encodeVars, problems, decodeVars>>

Nothing == [kind |-> "None"]

Init ==
  /\ params \in Params
  /\ stage = "encoder"
  /\ made = Nothing
  /\ frame = Absent /\ viaTrait = FALSE /\ sent = Nothing
  /\ problems = 0
  /\ cfg = Absent /\ payload = Absent
  /\ DecoderInit

MakeEncoder ==
  /\ stage = "encoder"
  /\ made' = BuildEncoderConfig(params)
  /\ stage' = IF made'.kind = "Ok" THEN "decoder" ELSE "done"
  /\ UNCHANGED <<params, encodeVars, problems, decodeVars>>

MakeDecoder ==
  /\ stage = "decoder"
  /\ LET built == BuildStreamConfig(OutputParams(params, made.value))
     IN  /\ cfg' = IF built.kind = "Ok" THEN built.value ELSE Absent
         /\ stage' = IF cfg' # Absent /\ params \in Shots THEN "frame" ELSE "done"
  /\ UNCHANGED <<setupVars, encodeVars, problems, payload, strict, decoding,
                 decoded, answer>>

\* A payload as it leaves an encoder.
Intact(coded) ==
  [parse |-> "Ok", frameInfo |-> coded.frameInfo,
   planes |-> [i \in DOMAIN coded.planes |->
                 [predicted |-> coded.planes[i].predicted, coded |-> TRUE,
                  condition |-> [s \in DOMAIN coded.planes[i].rows |-> "whole"]]]]

Shipped(coded) == payload' = Intact(coded) /\ stage' = "payload"
NothingShipped == stage' = "done" /\ UNCHANGED payload

\* Nothing is wrong with the frame but the slices.
OnlyTooManySlices(input) ==
  /\ Encode(input).kind = "SliceCountExceedsPlaneHeight"
  /\ \A i \in PlaneIds(input) : input.planes[i].size = PlaneSize(input, i)

EncodeFrame(input, trait) ==
  /\ frame' = input /\ viaTrait' = trait
  /\ sent' = Encode(input)
  /\ IF sent'.kind = "Ok" THEN Shipped(sent'.value)
     ELSE IF OnlyTooManySlices(input)
     THEN stage' = "elsewhere" /\ UNCHANGED payload
     ELSE NothingShipped
  /\ UNCHANGED <<setupVars, problems, cfg, strict, decoding, decoded, answer>>

\* A video frame whose planes are padded by `pad` bytes a row, one of them
\* with `extra` bytes at its end.
Video(picture, pad, odd, extra) ==
  [i \in PlaneIds(cfg) |->
     LET dim == PlaneDimOf(cfg, i)
         stride == dim.width + pad
     IN  [stride |-> stride, shade |-> picture[i],
          length |-> stride * dim.height + (IF i = odd THEN extra ELSE 0)]]

SendFrame ==
  /\ stage = "frame"
  /\ \E picture \in Pictures, predictor \in {PredictorOrder[i] : i \in 1 .. 4} :
       \E pad, extra \in -1 .. 1, odd \in PlaneIds(cfg), short \in BOOLEAN :
         LET video == Video(picture, pad, odd, extra)
             input == FrameFromVideo(cfg, IF short THEN Tail(video) ELSE video,
                                     predictor)
         IN  IF input.kind = "Ok" THEN EncodeFrame(input.value, TRUE)
             ELSE /\ viaTrait' = TRUE /\ sent' = input
                  /\ NothingShipped
                  /\ UNCHANGED <<setupVars, frame, problems, cfg, strict,
                                 decoding, decoded, answer>>

\* A frame built by hand, right but for at most one thing.
Direct(picture, predictor) ==
  [fourcc |-> cfg.fourcc, width |-> cfg.width, height |-> cfg.height,
   predictor |-> predictor, slices |-> NumSlices(cfg.extradata),
   planes |-> [i \in PlaneIds(cfg) |->
                 [size |-> PlaneSize(cfg, i), shade |-> picture[i]]]]
Misshapen(f) ==
  {[f EXCEPT !.width = 0], [f EXCEPT !.slices = 0],
   [f EXCEPT !.slices = MaxSlices + 1], [f EXCEPT !.planes = Tail(@)],
   [f EXCEPT !.planes[Len(f.planes)].size = @ + 1]}

EncodeDirectly ==
  /\ stage = "frame"
  /\ \E picture \in Pictures :
       LET f == Direct(picture, "Left")
       IN  \E input \in {f} \cup Misshapen(f) : EncodeFrame(input, FALSE)

\* Another encoder, without the cap on slices.
EncodeElsewhere ==
  /\ stage = "elsewhere"
  /\ Shipped(Coded(frame))
  /\ UNCHANGED <<setupVars, encodeVars, problems, cfg, strict, decoding, decoded,
                 answer>>

\* What a container may do to a payload on its way.
Damaged(p) ==
  {[p EXCEPT !.parse = "ChunkTooShort"]}
  \cup {[p EXCEPT !.planes[i].coded = FALSE] : i \in DOMAIN p.planes}
  \cup {[p EXCEPT !.planes[i].condition[s] = c] :
          i \in DOMAIN p.planes, s \in Slices, c \in {"cut", "dirty"}}

Damage ==
  /\ stage = "payload" /\ decoding = "idle"
  /\ problems < MaxProblems
  /\ payload' \in Damaged(payload)
  /\ problems' = problems + 1
  /\ UNCHANGED <<setupVars, stage, encodeVars, cfg, strict, decoding, decoded,
                 answer>>

Decode ==
  /\ stage = "payload"
  /\ DecodeStep \/ \E isStrict \in BOOLEAN : StartDecode(isStrict)
  /\ UNCHANGED <<setupVars, stage, encodeVars, problems>>

Done == (stage = "done" \/ decoding = "done") /\ UNCHANGED vars

Next ==
  \/ MakeEncoder \/ MakeDecoder \/ SendFrame \/ EncodeDirectly
  \/ EncodeElsewhere \/ Damage \/ Decode \/ Done

Spec == Init /\ [][Next]_vars
-----------------------------------------------------------------------------
\* The two ends agree on the stream.  A decoder made from what the encoder
\* publishes has the encoder's configuration, a second encoder made from it
\* has it too, and given every piece both factories accept the same
\* parameters (build_encoder_config, output_params, build_stream_config).
Complete(p) ==
  FourccFromParams(p) # Absent /\ HasDims(p) /\ p.extradata.length > 0
SetupAgrees ==
  /\ made.kind = "Ok" =>
       /\ stage # "decoder" => cfg = made.value
       /\ BuildEncoderConfig(OutputParams(params, made.value)) = made
       /\ NumSlices(made.value.extradata) \in 1 .. MaxSlices
  /\ Complete(params) => BuildStreamConfig(params) = BuildEncoderConfig(params)

\* Every payload this encoder makes gives each slice of each plane at least
\* one row, and the slices follow each other to the end of the plane: no
\* conformant decoder meets a slice without data in a plane with more than one
\* symbol (the interop cap of prepare_planes, which must look at the smallest
\* plane).
NoEmptySlices ==
  sent.kind = "Ok" =>
    \A i \in PlaneIds(frame) :
      LET rows == sent.value.planes[i].rows
          height == PlaneDimOf(frame, i).height
      IN  /\ \A s \in DOMAIN rows : rows[s] > 0
          /\ \E first \in [0 .. frame.slices -> 0 .. height] :
               /\ first[0] = 0 /\ first[frame.slices] = height
               /\ \A s \in DOMAIN rows : first[s + 1] = first[s] + rows[s]

\* Lossless from frame to frame: what was neither cut nor uncoded on its way
\* is decoded, leniently or, with clean padding, strictly, to the frame that
\* was sent, plane by plane, colours included.  (encode_frame, decode_frame,
\* forward_ and inverse_decorrelate_rgb; also for a payload of another encoder
\* with slices that have no rows.)
Clean(p) ==
  /\ p.parse = "Ok"
  /\ \A i \in DOMAIN p.planes :
       /\ p.planes[i].coded
       /\ \A s \in Slices :
            p.planes[i].condition[s] \in {"whole"} \cup (IF strict THEN {} ELSE {"dirty"})
SameFrame(got) ==
  /\ got.fourcc = frame.fourcc /\ got.predictor = frame.predictor
  /\ got.width = frame.width /\ got.height = frame.height
  /\ Len(got.planes) = Len(frame.planes)
  /\ Cardinality({got.planes[i].label : i \in DOMAIN got.planes}) = Len(got.planes)
  /\ \A i \in DOMAIN got.planes :
       /\ got.planes[i].dim.width * got.planes[i].dim.height = frame.planes[i].size
       /\ got.planes[i].shade = frame.planes[i].shade
FramesComeBack ==
  decoding = "done" /\ Clean(payload) =>
    answer.kind = "Ok" /\ SameFrame(answer.value)

\* The error is that of the first slice, in the order of the planes and then
\* of the slices, that the entry called has reason to refuse; a slice without
\* rows is never a reason, whatever its bytes, not even in the strict decode.
HasReason(i, s) ==
  /\ SliceRows(PlaneDimOf(frame, i).height, frame.slices, s) # {}
  /\ \/ ~payload.planes[i].coded
     \/ payload.planes[i].condition[s] = "cut"
     \/ strict /\ payload.planes[i].condition[s] = "dirty"
Refusable == {x \in (DOMAIN payload.planes) \X Slices : HasReason(x[1], x[2])}
Earlier(x, y) == x[1] < y[1] \/ (x[1] = y[1] /\ x[2] <= y[2])
FirstProblemReported ==
  decoding = "done" =>
    IF payload.parse # "Ok" THEN answer = Fail(payload.parse)
    ELSE IF Refusable = {} THEN answer.kind = "Ok"
    ELSE LET first == CHOOSE x \in Refusable : \A y \in Refusable : Earlier(x, y)
         IN  /\ answer.kind # "Ok"
             /\ <<answer.plane, answer.slice>> = first

\* An error tells the caller whose fault it is: one that decoding a configured
\* stream gives is about the bytes of this packet and no other, so the stream
\* may go on; one that encoding gives never is; and what send_frame repacked is
\* never refused for its planes (category() of src/error.rs).
BlameTheRightSide ==
  /\ made.kind \notin {"None", "Ok", "MissingParameter"} =>
       Category(made.kind) \in {"StreamShape", "Unsupported"}
  /\ sent.kind \notin {"None", "Ok", "InvalidFrame"} =>
       /\ Category(sent.kind) \in {"ApiMisuse", "StreamShape"}
       /\ viaTrait => sent.kind = "SliceCountExceedsPlaneHeight"
  /\ answer.kind \notin {"None", "Ok"} => Category(answer.kind) = "MalformedStream"
=============================================================================
