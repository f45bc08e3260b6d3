--------------------------- MODULE SliceRoundTrip ---------------------------
(***************************************************************************)
(* One slice from residuals to words and back: pack_slice writes the words *)
(* that decode_slice or decode_slice_strict then reads, with the same      *)
(* codebook.                                                               *)
(***************************************************************************)
EXTENDS SliceDecoder

CONSTANT MaxResiduals   \* residuals in a slice

ASSUME ResidualsAssumption == MaxResiduals \in Nat

VARIABLES residuals, packing, index, value, word, bitsInWord

Packer == INSTANCE SlicePacker WITH packed <- stream

packVars == <<residuals, packing, index, value, word, bitsInWord>>
unpackVars == <<nPixels, strict, pc, acc, accLen, nextWord, cursor, scan, out, result>>
vars == <<table, stream, packVars, unpackVars>>

\* The encoder's descriptor is made from the residuals: every residual has a
\* code or is the plane's only symbol.
Alphabet(t) == IF t.single # {} THEN t.single ELSE DOMAIN t.code

Init ==
  /\ \E d \in Lengths, n \in 0 .. MaxResiduals :
       /\ BuildResult(d) = "Ok"
       /\ table = Table(d)
       /\ residuals \in [1 .. n -> Alphabet(Table(d))]
  /\ nPixels = Len(residuals)
  /\ strict \in BOOLEAN
  /\ Packer!PackerInit
  /\ DecoderInit

Pack == Packer!PackerNext /\ UNCHANGED unpackVars

Unpack ==
  /\ packing = "packed"
  /\ DecoderNext
  /\ UNCHANGED <<inputs, packVars>>

Done == pc = "done" /\ UNCHANGED vars

Next == Pack \/ Unpack \/ Done

Spec == Init /\ [][Next]_vars

-----------------------------------------------------------------------------
\* Lossless: no residual is refused, what was packed is what is decoded, and
\* the padding is clean, so that strict decoding, too, accepts every slice this
\* encoder writes.
RoundTrip ==
  /\ packing # "refused"
  /\ pc = "done" => result = [kind |-> "Ok"] /\ out = residuals

\* No word more than the codes need.
BitsNeeded ==
  MapThenSumSet(LAMBDA i : Len(table.code[residuals[i]]), DOMAIN residuals)
NoSpareWord ==
  packing = "packed" =>
    IF table.single # {} THEN stream = << >>
    ELSE Len(stream) - BitsNeeded \in 0 .. WordBits - 1
=============================================================================
