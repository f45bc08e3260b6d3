---------------------------- MODULE TraitEncoder ----------------------------
(***************************************************************************)
(* The Encoder trait object of src/registry.rs: a one-slot buffer between  *)
(* send_frame, which encodes at once, and receive_packet.                  *)
(*                                                                         *)
(* A frame is a record: `id` names its samples, `shaped` says whether it   *)
(* is a video frame with the planes, strides and sizes the stream needs,   *)
(* and `best` is what choose_predictor picks for its first plane.          *)
(***************************************************************************)
EXTENDS Integers

CONSTANTS Predictors,   \* None, Left, Gradient, Median
          Unset         \* Option::None of the predictor override

VARIABLES encPending,   \* Option<Vec<u8>>: {} or the one encoded frame
          encEof,       \* flush was called
          override,     \* the pinned predictor, or Unset
          sliceFit,     \* cfg.num_slices() <= the smallest plane height
          encReply      \* what the last call returned

Reply(kind) == [kind |-> kind]

\* make_encoder: slices that do not fit are not noticed before send_frame.
EncoderInit ==
  /\ encPending = {}
  /\ encEof = FALSE
  /\ override = Unset
  /\ sliceFit \in BOOLEAN
  /\ encReply = Reply("Ok")

\* Mutant of Chosen: the heuristic is forgotten.
ChosenPinnedOnly(frame) == override

Chosen(frame) == IF override = Unset THEN frame.best ELSE override

Accepts(frame) == encPending = {} /\ frame.shaped /\ sliceFit

SendFrameRefused(frame) ==
  /\ ~Accepts(frame)
  /\ encReply' = Reply(IF encPending # {} THEN "Other" ELSE "InvalidData")
  /\ UNCHANGED <<encPending, encEof, override, sliceFit>>

SendFrameAccepted(frame) ==
  /\ Accepts(frame)
  /\ encPending' = {[frame |-> frame.id, predictor |-> Chosen(frame)]}
  /\ encReply' = Reply("Ok")
  /\ UNCHANGED <<encEof, override, sliceFit>>

\* Mutant of ReceivePacket: flush is looked at before the slot.
ReceivePacketUntilFlush ==
  /\ encPending # {} /\ ~encEof
  /\ encReply' = [kind |-> "Packet",
                  data |-> CHOOSE d \in encPending : TRUE, keyframe |-> TRUE]
  /\ encPending' = {}
  /\ UNCHANGED <<encEof, override, sliceFit>>

\* The packet carries the bytes, the keyframe flag, and no timestamp.
ReceivePacket ==
  /\ encPending # {}
  /\ encReply' = [kind |-> "Packet",
                  data |-> CHOOSE d \in encPending : TRUE, keyframe |-> TRUE]
  /\ encPending' = {}
  /\ UNCHANGED <<encEof, override, sliceFit>>

ReceiveNoPacket ==
  /\ encPending = {}
  /\ encReply' = Reply(IF encEof THEN "Eof" ELSE "NeedMore")
  /\ UNCHANGED <<encPending, encEof, override, sliceFit>>

FlushEncoder ==
  /\ encEof' = TRUE
  /\ encReply' = Reply("Ok")
  /\ UNCHANGED <<encPending, override, sliceFit>>

SetPredictor(p) ==
  /\ override' = p
  /\ encReply' = Reply("Ok")
  /\ UNCHANGED <<encPending, encEof, sliceFit>>
=============================================================================
