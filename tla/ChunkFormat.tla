---------------------------- MODULE ChunkFormat ----------------------------
(***************************************************************************)
(* The sizes a chunk payload is made of (src/decoder.rs, parse_payload).   *)
(***************************************************************************)
EXTENDS Integers

CONSTANTS NumPlanes,        \* 3 or 4, by the FourCC
          NumSlices,        \* 1 .. 256: Extradata stores the count less one
          DescriptorBytes   \* 256

ASSUME FormatAssumption ==
  /\ NumPlanes \in Nat \ {0} /\ NumSlices \in Nat \ {0}
  /\ DescriptorBytes \in Nat \ {0}

Word == 4       \* bytes of a slice end, of frame_info, and of a data word
TableBytes == Word * NumSlices
=============================================================================
