---------------------------- MODULE SlicePacker ----------------------------
(***************************************************************************)
(* pack_slice of src/encoder.rs over the BitWriter of src/huffman.rs: the  *)
(* codes of a slice's residuals are cut up to fill words, first bit first, *)
(* and the last word is padded with zeros.                                 *)
(***************************************************************************)
EXTENDS HuffmanTable

VARIABLES table, residuals,   \* the call's inputs
          packing,      \* "codes" while packing, then "packed" or "refused"
          index,        \* residuals taken so far
          value,        \* the bits of the current code still to write
          word,         \* the pending word
          bitsInWord,   \* how many of its bits are written
          packed        \* words committed so far, as bits

packInputs == <<table, residuals>>
writer == <<value, word, bitsInWord, packed>>
packVars == <<table, residuals, packing, index, value, word, bitsInWord, packed>>

EmptyWord == [i \in 1 .. WordBits |-> 0]

PackerInit ==
  /\ packing = "codes"
  /\ index = 0
  /\ value = << >> /\ word = EmptyWord /\ bitsInWord = 0 /\ packed = << >>

Codes == packing = "codes" /\ value = << >>

\* A single-symbol plane and an empty slice carry no bits.
PackNothing ==
  /\ Codes /\ index = 0
  /\ table.single # {} \/ residuals = << >>
  /\ packing' = "packed"
  /\ UNCHANGED <<packInputs, index, writer>>

\* code_for the next residual; without one the slice is refused.
NextCode ==
  /\ Codes /\ table.single = {} /\ index < Len(residuals)
  /\ IF residuals[index + 1] \in DOMAIN table.code
     THEN /\ value' = table.code[residuals[index + 1]]
          /\ index' = index + 1
          /\ UNCHANGED packing
     ELSE /\ packing' = "refused"
          /\ UNCHANGED <<value, index>>
  /\ UNCHANGED <<packInputs, word, bitsInWord, packed>>

Free == WordBits - bitsInWord
Fit == IF Free < Len(value) THEN Free ELSE Len(value)

\* The word with the first `take` bits of value put in.
Filled(take) ==
  [i \in 1 .. WordBits |->
     IF i - bitsInWord \in 1 .. take THEN value[i - bitsInWord] ELSE word[i]]

\* One turn of write_code's loop; a full word is flushed.
WriteChunk ==
  /\ packing = "codes" /\ value # << >>
  /\ value' = SubSeq(value, Fit + 1, Len(value))
  /\ IF bitsInWord + Fit = WordBits
     THEN /\ packed' = packed \o Filled(Fit)
          /\ word' = EmptyWord
          /\ bitsInWord' = 0
     ELSE /\ word' = Filled(Fit)
          /\ bitsInWord' = bitsInWord + Fit
          /\ UNCHANGED packed
  /\ UNCHANGED <<packInputs, packing, index>>

\* Mutants of PackFinish: the partial word is dropped, or an empty one added.
PackFinishDrops ==
  /\ Codes /\ table.single = {}
  /\ residuals # << >> /\ index = Len(residuals)
  /\ word' = EmptyWord /\ bitsInWord' = 0 /\ packing' = "packed"
  /\ UNCHANGED <<packInputs, index, value, packed>>
PackFinishAlwaysFlushes ==
  /\ Codes /\ table.single = {}
  /\ residuals # << >> /\ index = Len(residuals)
  /\ packed' = packed \o word
  /\ word' = EmptyWord /\ bitsInWord' = 0 /\ packing' = "packed"
  /\ UNCHANGED <<packInputs, index, value>>

\* finish()
PackFinish ==
  /\ Codes /\ table.single = {}
  /\ residuals # << >> /\ index = Len(residuals)
  /\ packed' = IF bitsInWord > 0 THEN packed \o word ELSE packed
  /\ word' = EmptyWord
  /\ bitsInWord' = 0
  /\ packing' = "packed"
  /\ UNCHANGED <<packInputs, index, value>>

PackerNext == PackNothing \/ NextCode \/ WriteChunk \/ PackFinish
=============================================================================
