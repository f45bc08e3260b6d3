---------------------------- MODULE SymbolStream ----------------------------
(***************************************************************************)
(* What decode_slice promises: the bits are read as one code after the     *)
(* other, each pixel being the symbol whose code comes next, until there   *)
(* are enough pixels or no code fits into what is left.                    *)
(***************************************************************************)
EXTENDS Integers, Sequences

VARIABLES table,        \* [single, code, longest], see HuffmanTable
          stream,       \* the slice's bits
          nPixels, strict,
          out,          \* symbols decoded so far
          cursor,       \* bits they took
          result        \* "None" while decoding

vars == <<table, stream, nPixels, strict, out, cursor, result>>

\* The next code is that of s.
NextIs(s) ==
  /\ s \in DOMAIN table.code
  /\ cursor + Len(table.code[s]) <= Len(stream)
  /\ \A i \in 1 .. Len(table.code[s]) : stream[cursor + i] = table.code[s][i]

Dirty == {i \in cursor + 1 .. Len(stream) : stream[i] = 1}
FirstDirty == CHOOSE i \in Dirty : \A j \in Dirty : i <= j

Ended == Len(out) = nPixels

\* Strict decoding looks at what is left; a bit position counts from 0.
Verdict ==
  IF strict /\ Dirty # {}
  THEN [kind |-> "NonZeroPadding", bit |-> FirstDirty - 1]
  ELSE [kind |-> "Ok"]

StreamInit ==
  /\ out = << >>
  /\ cursor = 0
  /\ result = [kind |-> "None"]

\* The only symbol of a single-symbol plane fills the slice.
Fill ==
  /\ \E s \in table.single : out' = [i \in 1 .. nPixels |-> s]
  /\ result' \in {result, Verdict}
  /\ UNCHANGED <<table, stream, nPixels, strict, cursor>>

Emit ==
  /\ ~Ended /\ table.single = {}
  /\ \E s \in DOMAIN table.code :
       /\ NextIs(s)
       /\ out' = Append(out, s)
       /\ cursor' = cursor + Len(table.code[s])
  /\ UNCHANGED <<table, stream, nPixels, strict, result>>

\* A code that is cut off, or no codebook at all.
Fail ==
  /\ ~Ended /\ table.single = {}
  /\ ~\E s \in DOMAIN table.code : NextIs(s)
  /\ result' = IF DOMAIN table.code = {}
               THEN [kind |-> "HuffmanDecodeFailure", bit |-> 0]
               ELSE [kind |-> "SliceTruncated", bit |-> cursor, decoded |-> Len(out)]
  /\ UNCHANGED <<table, stream, nPixels, strict, out, cursor>>

Answer ==
  /\ Ended
  /\ result' = Verdict
  /\ UNCHANGED <<table, stream, nPixels, strict, out, cursor>>

StreamNext == result.kind = "None" /\ (Fill \/ Emit \/ Fail \/ Answer)

StreamSpec == StreamInit /\ [][StreamNext]_vars
=============================================================================
