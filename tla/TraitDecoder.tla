---------------------------- MODULE TraitDecoder ----------------------------
(***************************************************************************)
(* The Decoder trait object of src/registry.rs: a one-slot buffer between  *)
(* send_packet and receive_frame, which decodes when it is called.         *)
(*                                                                         *)
(* A packet is a record: `data` is what was encoded, `stream` the stream   *)
(* configuration it was encoded for, `intact` says whether the payload     *)
(* still decodes as that stream, and `pts` is its timestamp.               *)
(***************************************************************************)
EXTENDS Integers

CONSTANTS Streams,      \* stream configurations: FourCC, size, extradata
          NoStream      \* Option::None of cfg

VARIABLES config,       \* Option<StreamConfig>
          decPending,   \* Option<Packet>: {} or the one packet
          decEof,       \* flush was called
          decReply      \* what the last call returned

Reply(kind) == [kind |-> kind]

\* make_decoder: parameters may be incomplete, and then cfg stays None.
DecoderInit ==
  /\ config \in Streams \cup {NoStream}
  /\ decPending = {}
  /\ decEof = FALSE
  /\ decReply = Reply("Ok")

\* Mutant of Configure: the old configuration is dropped before the parse.
ConfigureClears(stream) ==
  /\ config' = stream
  /\ decReply' = Reply(IF stream = NoStream THEN "InvalidData" ELSE "Ok")
  /\ UNCHANGED <<decPending, decEof>>

\* configure(), of the stream its arguments describe: NoStream when extradata
\* or dimensions are refused, and then nothing changes.  A packet that waits
\* stays where it is.
Configure(stream) ==
  /\ config' = IF stream = NoStream THEN config ELSE stream
  /\ decReply' = Reply(IF stream = NoStream THEN "InvalidData" ELSE "Ok")
  /\ UNCHANGED <<decPending, decEof>>

SendPacketRefused ==
  /\ decPending # {}
  /\ decReply' = Reply("Other")
  /\ UNCHANGED <<config, decPending, decEof>>

\* Mutant of SendPacketAccepted: the slot is overwritten.
SendPacketOverwrites(packet) ==
  /\ decPending' = {packet}
  /\ decReply' = Reply("Ok")
  /\ UNCHANGED <<config, decEof>>

SendPacketAccepted(packet) ==
  /\ decPending = {}
  /\ decPending' = {packet}
  /\ decReply' = Reply("Ok")
  /\ UNCHANGED <<config, decEof>>

\* What receive_frame may make of the packet it has taken out of the slot.
\* Nothing in a payload names its stream: read as another one, it is refused or
\* gives a frame of that other stream, as its bytes happen to allow.
Decoded(packet) ==
  LET refused == Reply("InvalidData")
      read == [kind |-> "Frame", frame |-> packet.data.frame,
               stream |-> config, pts |-> packet.pts]
  IN  CASE config = NoStream -> {refused}
        [] config = packet.stream -> {IF packet.intact THEN read ELSE refused}
        [] config \notin {NoStream, packet.stream} -> {refused, read}

\* Mutant of ReceiveFrame: a packet that fails stays in the slot.
ReceiveFrameKeepsFailed ==
  /\ decPending # {}
  /\ decReply' \in Decoded(CHOOSE p \in decPending : TRUE)
  /\ decPending' = IF decReply'.kind = "Frame" THEN {} ELSE decPending
  /\ UNCHANGED <<config, decEof>>

\* The packet is consumed whatever becomes of it.
ReceiveFrame ==
  /\ decPending # {}
  /\ decReply' \in Decoded(CHOOSE p \in decPending : TRUE)
  /\ decPending' = {}
  /\ UNCHANGED <<config, decEof>>

\* Mutants of ReceiveNoFrame: Eof is answered over a packet that waits, or
\* never.
ReceiveNoFrameEofFirst ==
  /\ decPending = {} \/ decEof
  /\ decReply' = Reply(IF decEof THEN "Eof" ELSE "NeedMore")
  /\ UNCHANGED <<config, decPending, decEof>>
ReceiveNoFrameNeedMore ==
  /\ decPending = {}
  /\ decReply' = Reply("NeedMore")
  /\ UNCHANGED <<config, decPending, decEof>>

ReceiveNoFrame ==
  /\ decPending = {}
  /\ decReply' = Reply(IF decEof THEN "Eof" ELSE "NeedMore")
  /\ UNCHANGED <<config, decPending, decEof>>

FlushDecoder ==
  /\ decEof' = TRUE
  /\ decReply' = Reply("Ok")
  /\ UNCHANGED <<config, decPending>>
=============================================================================
