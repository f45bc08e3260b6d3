--------------------------- MODULE PayloadParser ---------------------------
(***************************************************************************)
(* parse_payload of src/decoder.rs: the walk of ChunkWalk, building each   *)
(* plane's codebook after its slice data is found.                         *)
(***************************************************************************)
EXTENDS ChunkWalk

\* What HuffmanTable::build says of each kind of descriptor.
BuildAnswer(kind) ==
  CASE kind \in {"Complete", "Single", "Unused"} -> "Ok"
    [] kind = "Incomplete" -> "KraftViolation"
    [] kind = "TwoZeros" -> "MultipleSingleSymbolSentinels"

\* Mutant of BuildTable: stray data of a single-symbol plane is ignored.
BuildTableNoStray ==
  /\ at = "build"
  /\ IF BuildAnswer(Here.kind) # "Ok"
     THEN Refuse([kind |-> BuildAnswer(Here.kind)])
     ELSE /\ at' = "next"
          /\ UNCHANGED <<payload, plane, offset, layout, answer>>

BuildTable ==
  /\ at = "build"
  /\ IF BuildAnswer(Here.kind) # "Ok"
     THEN Refuse([kind |-> BuildAnswer(Here.kind)])
     ELSE IF Here.kind = "Single" /\ Total # 0
     THEN Refuse(StrayData)
     ELSE /\ at' = "next"
          /\ UNCHANGED <<payload, plane, offset, layout, answer>>

ParseNext ==
  \/ Enter \/ TakeDescriptor \/ TakeTable \/ CheckEnds("data")
  \/ TakeData("build") \/ BuildTable \/ NextPlane \/ EndOfPlanes
=============================================================================
