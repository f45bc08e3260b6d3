--------------------------- MODULE SliceDecoderMC ---------------------------
(***************************************************************************)
(* SliceDecoder on every slice of up to MaxWords words, damaged ones       *)
(* included, and the promise of SymbolStream.  The last shape is no        *)
(* complete code, and build refuses it.                                    *)
(***************************************************************************)
EXTENDS SliceDecoder

CONSTANTS Pixels,       \* the pixel counts to ask for
          MaxWords

ASSUME DecoderAssumption == Pixels \subseteq Nat /\ MaxWords \in Nat

U == Unused
Shapes == {<<1, 2, 3, 4, 4>>, <<2, 3, 2, 2, 3>>, <<1, U, U, U, 1>>,
           <<U, U, 0, U, U>>, <<U, U, U, U, U>>, <<1, U, 2, U, U>>}
MCLengths == {[s \in Symbols |-> shape[s + 1]] : shape \in Shapes}

MCInit ==
  /\ \E d \in Lengths : BuildResult(d) = "Ok" /\ table = Table(d)
  /\ \E k \in 0 .. MaxWords : stream \in [1 .. k * WordBits -> Bit]
  /\ nPixels \in Pixels
  /\ strict \in BOOLEAN
  /\ DecoderInit

MCNext ==
  \/ DecoderNext /\ UNCHANGED inputs
  \/ pc = "done" /\ UNCHANGED decoderVars

MCSpec == MCInit /\ [][MCNext]_decoderVars

-----------------------------------------------------------------------------
\* While the fast loop runs the register is the stream from the cursor on, and
\* zeros after it: that is why the slow loop can go on from the cursor.
RegisterMirrorsStream ==
  pc = "fast" =>
    /\ cursor + accLen = nextWord * WordBits
    /\ \A i \in Register :
         acc[i] = IF i <= accLen THEN stream[cursor + i] ELSE 0

\* A codebook that build accepted fills the code space: no bits fail to decode,
\* they can only run out.
OnlyTruncation ==
  result.kind = "HuffmanDecodeFailure" => DOMAIN table.code = {}

\* The fast loop, the slow loop and the lookup decode what SymbolStream
\* decodes, stop at the same bit with the same error, and strict decoding
\* names the first dirty bit of what is left.
Stream == INSTANCE SymbolStream
ImplementsSymbolStream == Stream!StreamSpec
=============================================================================
