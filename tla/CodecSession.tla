---------------------------- MODULE CodecSession ----------------------------
(***************************************************************************)
(* A caller that drives both trait objects of src/registry.rs: frames go   *)
(* into the encoder, packets out of it and over a container into the       *)
(* decoder, and frames out.  The calls come in any order and number; a     *)
(* refused call is tried again.  The container may damage a packet, and    *)
(* stamps each one with the time the encoder leaves out.  The decoder may  *)
(* be configured at any time for the encoder's stream or for another one.  *)
(* The caller ends the stream as the framework asks: the encoder after the *)
(* last frame, a packet of it perhaps not fetched yet, and the decoder     *)
(* once the encoder has said Eof and the container is empty, its own last  *)
(* packet perhaps still waiting.                                           *)
(***************************************************************************)
EXTENDS Sequences, Integers

CONSTANTS Predictors, Unset,
          Streams, NoStream,
          Own,          \* the stream the encoder was made for
          MaxFrames     \* frames the caller has to send

ASSUME SessionAssumption ==
  MaxFrames \in Nat /\ Own \in Streams /\ NoStream \notin Streams

VARIABLES encPending, encEof, override, sliceFit, encReply,
          config, decPending, decEof, decReply,
          accepted,     \* the predictor each accepted frame was to use
          wire,         \* packets in the container, in order
          handed,       \* packets the decoder has accepted
          outcomes,     \* what receive_frame has answered for them
          asked         \* the stream of the last configure() that said Ok

Enc == INSTANCE TraitEncoder
Dec == INSTANCE TraitDecoder

encVars == <<encPending, encEof, override, sliceFit, encReply>>
decVars == <<config, decPending, decEof, decReply>>
history == <<accepted, wire, handed, outcomes, asked>>
sessionVars == <<encVars, decVars, history>>

SessionInit ==
  /\ Enc!EncoderInit
  /\ Dec!DecoderInit
  /\ accepted = << >> /\ wire = << >> /\ handed = << >> /\ outcomes = << >>
  /\ asked = config

-----------------------------------------------------------------------------
(* The encoder's side *)

\* The next frame; its id counts the frames accepted so far.
Frames == [id : {Len(accepted) + 1}, shaped : BOOLEAN, best : Predictors]

PushFrame ==
  /\ ~encEof
  /\ Len(accepted) < MaxFrames
  /\ \E frame \in Frames :
       \/ /\ Enc!SendFrameAccepted(frame)
          /\ accepted' = Append(accepted, Enc!Chosen(frame))
       \/ /\ Enc!SendFrameRefused(frame)
          /\ UNCHANGED accepted
  /\ UNCHANGED <<decVars, wire, handed, outcomes, asked>>

\* The container stamps the packet, and may damage it.
PullPacket ==
  \/ /\ Enc!ReceivePacket
     /\ \E intact \in BOOLEAN :
          wire' = Append(wire, [data |-> encReply'.data, stream |-> Own,
                                intact |-> intact,
                                pts |-> Len(handed) + Len(wire) + 1])
     /\ UNCHANGED <<decVars, accepted, handed, outcomes, asked>>
  \/ /\ Enc!ReceiveNoPacket
     /\ UNCHANGED <<decVars, history>>

EndOfFrames ==
  /\ ~encEof
  /\ Enc!FlushEncoder
  /\ UNCHANGED <<decVars, history>>

TuneEncoder ==
  /\ \E p \in Predictors \cup {Unset} : Enc!SetPredictor(p)
  /\ UNCHANGED <<decVars, history>>

-----------------------------------------------------------------------------
(* The decoder's side *)

PushPacket ==
  /\ wire # << >>
  /\ \/ /\ Dec!SendPacketAccepted(Head(wire))
        /\ wire' = Tail(wire)
        /\ handed' = Append(handed, Head(wire))
     \/ /\ Dec!SendPacketRefused
        /\ UNCHANGED <<wire, handed>>
  /\ UNCHANGED <<encVars, accepted, outcomes, asked>>

\* The answer, and the stream the caller had asked for by then.
PullFrame ==
  \/ /\ Dec!ReceiveFrame
     /\ outcomes' = Append(outcomes, [reply |-> decReply', asked |-> asked])
     /\ UNCHANGED <<encVars, accepted, wire, handed, asked>>
  \/ /\ Dec!ReceiveNoFrame
     /\ UNCHANGED <<encVars, history>>

EndOfPackets ==
  /\ ~decEof
  /\ encReply.kind = "Eof"
  /\ wire = << >>
  /\ Dec!FlushDecoder
  /\ UNCHANGED <<encVars, history>>

TuneDecoder ==
  /\ \E stream \in Streams \cup {NoStream} :
       /\ Dec!Configure(stream)
       /\ asked' = IF decReply'.kind = "Ok" THEN stream ELSE asked
  /\ UNCHANGED <<encVars, accepted, wire, handed, outcomes>>

-----------------------------------------------------------------------------
SessionNext ==
  \/ PushFrame \/ PullPacket \/ EndOfFrames \/ TuneEncoder
  \/ PushPacket \/ PullFrame \/ EndOfPackets \/ TuneDecoder

\* The caller keeps pumping what there is to pump; it may never send another
\* frame, tune or flush.
Fairness ==
  /\ WF_sessionVars(PullPacket) /\ WF_sessionVars(PushPacket)
  /\ WF_sessionVars(PullFrame)

SessionSpec == SessionInit /\ [][SessionNext]_sessionVars /\ Fairness

-----------------------------------------------------------------------------
(* Properties *)

Kinds == {"Ok", "Other", "InvalidData", "NeedMore", "Eof"}

TypeOK ==
  /\ encEof \in BOOLEAN /\ decEof \in BOOLEAN
  /\ override \in Predictors \cup {Unset}
  /\ sliceFit \in BOOLEAN
  /\ config \in Streams \cup {NoStream}
  /\ encReply.kind \in Kinds \cup {"Packet"}
  /\ decReply.kind \in Kinds \cup {"Frame"}
  /\ accepted \in Seq(Predictors)
  /\ Len(accepted) <= MaxFrames

\* The packets in flight, oldest first.
InFlight ==
  (IF decPending = {} THEN << >> ELSE <<(CHOOSE p \in decPending : TRUE).data>>)
    \o [i \in DOMAIN wire |-> wire[i].data]
    \o (IF encPending = {} THEN << >> ELSE <<CHOOSE d \in encPending : TRUE>>)

\* Nothing accepted is lost, repeated or reordered, refused calls and errors
\* included: the frames accepted are the packets answered for followed by
\* those in flight, each encoded with the predictor in force when the frame
\* was sent and not when the packet was fetched.
NothingLost ==
  [i \in DOMAIN accepted |-> [frame |-> i, predictor |-> accepted[i]]]
    = [i \in DOMAIN outcomes |-> handed[i].data] \o InFlight

\* receive_frame answers for one packet at a time: a frame is made of its own
\* packet and carries that packet's timestamp, and a packet that is refused was
\* damaged, or another stream or none was configured when it was decoded.
EachPacketItsOwnOutcome ==
  \A i \in DOMAIN outcomes :
    LET reply == outcomes[i].reply
    IN  /\ i \in DOMAIN handed
        /\ reply.kind = "Frame" => reply.frame = i /\ reply.pts = i
        /\ reply.kind # "Frame" =>
             /\ reply.kind = "InvalidData"
             /\ ~handed[i].intact \/ outcomes[i].asked # Own

\* A packet is decoded as the stream of the last configure() that succeeded
\* before receive_frame, whatever was in force when it was sent: never as one
\* that was replaced, and for the encoder's stream an intact packet gives its
\* frame, whatever damaged packets, failed configure() calls and other streams
\* came between.
DecodedAsConfigured ==
  \A i \in DOMAIN outcomes :
    LET reply == outcomes[i].reply
    IN  /\ reply.kind = "Frame" => reply.stream = outcomes[i].asked
        /\ outcomes[i].asked = Own =>
             (reply.kind = "Frame" <=> handed[i].intact)

\* Eof from the decoder means that every accepted frame was answered for.
EofMeansDrained ==
  decReply.kind = "Eof" => Len(outcomes) = Len(accepted)

\* Every accepted frame is answered for in the end: the caller has a finite
\* number of frames, so from some time on none is without its answer.
FramesComeOut == <>[](Len(outcomes) = Len(accepted))

\* After the caller ends the stream the decoder says Eof.
FlushEnds == decEof ~> (decReply.kind = "Eof")
=============================================================================
