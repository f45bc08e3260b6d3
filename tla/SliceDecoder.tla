---------------------------- MODULE SliceDecoder ----------------------------
(***************************************************************************)
(* decode_slice_inner of src/huffman.rs and its two entry points: a fast   *)
(* loop over a two-word register, fed a word at a time, then a slow loop   *)
(* over the bit reader for the tail, and in strict mode a scan of the bits *)
(* that are left.                                                          *)
(*                                                                         *)
(* A slice is a sequence of whole words, here flattened to its bits, first *)
(* bit first (the reader takes a word's most significant bit first).       *)
(***************************************************************************)
EXTENDS HuffmanTable

CONSTANT Lengths        \* the descriptors a plane may have

ASSUME LengthsAssumption == Lengths \subseteq Descriptors

VARIABLES table, stream, nPixels, strict,     \* the call's inputs
          pc,           \* "enter", "fast", "slow", "tail" or "done"
          acc,          \* the register, first bit first
          accLen,       \* how many of its bits are valid
          nextWord,     \* words loaded so far
          cursor,       \* `consumed`, and then br.pos
          scan,         \* bp of first_nonzero_bit_from_here
          out, result

inputs == <<table, stream, nPixels, strict>>
register == <<acc, accLen, nextWord>>
decoderVars == <<table, stream, nPixels, strict, pc, acc, accLen, nextWord,
                 cursor, scan, out, result>>

Register == 1 .. 2 * WordBits
TotalBits == Len(stream)
TotalWords == TotalBits \div WordBits
Short == 1 .. LutBits
Long == LutBits + 1 .. WordBits
Ended == Len(out) = nPixels

None == [kind |-> "None"]
Failure == [kind |-> "HuffmanDecodeFailure", bit |-> cursor]
Truncated == [kind |-> "SliceTruncated", bit |-> cursor, decoded |-> Len(out)]

DecoderInit ==
  /\ pc = "enter"
  /\ acc = [i \in Register |-> 0]
  /\ accLen = 0 /\ nextWord = 0 /\ cursor = 0 /\ scan = 0
  /\ out = << >>
  /\ result = None

Return(r) ==
  /\ pc' = "done"
  /\ result' = r
  /\ UNCHANGED scan

\* Mutant of Finish: the scan starts after the words loaded, not at the cursor.
FinishAtWord ==
  IF strict
  THEN /\ pc' = "tail"
       /\ scan' = nextWord * WordBits
       /\ UNCHANGED result
  ELSE Return([kind |-> "Ok"])

\* decode_slice returns, decode_slice_strict looks at the tail first.
Finish ==
  IF strict
  THEN /\ pc' = "tail"
       /\ scan' = cursor
       /\ UNCHANGED result
  ELSE Return([kind |-> "Ok"])

-----------------------------------------------------------------------------
(* Before the loops *)

EnterTrivial ==
  /\ pc = "enter"
  /\ \/ /\ table.single # {}
        /\ \E s \in table.single : out' = [i \in 1 .. nPixels |-> s]
        /\ Finish
     \/ /\ table.single = {} /\ nPixels = 0
        /\ Finish
        /\ UNCHANGED out
     \/ /\ table.single = {} /\ nPixels > 0 /\ DOMAIN table.code = {}
        /\ Return(Failure)
        /\ UNCHANGED out
  /\ UNCHANGED <<register, cursor>>

EnterLoops ==
  /\ pc = "enter"
  /\ table.single = {} /\ nPixels > 0 /\ DOMAIN table.code # {}
  /\ pc' = "fast"
  /\ UNCHANGED <<register, cursor, scan, out, result>>

-----------------------------------------------------------------------------
(* The fast loop *)

CanRefill == accLen <= WordBits /\ nextWord < TotalWords

\* Mutant of OrWord: the word goes to the front of the register.
OrWordAtFront(reg, len, word) ==
  [i \in Register |->
     IF i \in 1 .. WordBits /\ stream[word * WordBits + i] = 1 THEN 1 ELSE reg[i]]

\* acc |= w << (32 - acc_len)
OrWord(reg, len, word) ==
  [i \in Register |->
     IF i - len \in 1 .. WordBits /\ stream[word * WordBits + i - len] = 1
     THEN 1 ELSE reg[i]]

\* acc <<= l
Shift(reg, l) ==
  [i \in Register |-> IF i + l \in Register THEN reg[i + l] ELSE 0]

Refill ==
  /\ pc = "fast" /\ ~Ended
  /\ CanRefill
  /\ acc' = OrWord(acc, accLen, nextWord)
  /\ accLen' = accLen + WordBits
  /\ nextWord' = nextWord + 1
  /\ UNCHANGED <<pc, cursor, scan, out, result>>

\* Enough buffered bits for any code.
Enough == accLen >= table.longest

FastLoop == pc = "fast" /\ ~Ended /\ ~CanRefill /\ Enough

\* The lookup resolves the short codes, the tiers above it the long ones.
FastHits ==
  LET short == Found(table, Short, acc, 0)
  IN  IF short # {} THEN short ELSE Found(table, Long, acc, 0)

\* Both errors are guards the code keeps though a complete code and the
\* buffered bits rule them out.
FastStep ==
  /\ FastLoop
  /\ LET s == ShortestOf(table, FastHits)
         l == Len(table.code[s])
     IN  IF FastHits = {} \/ cursor + l > TotalBits
         THEN /\ Return(IF FastHits = {} THEN Failure ELSE Truncated)
              /\ UNCHANGED <<acc, accLen, cursor, out>>
         ELSE /\ out' = Append(out, s)
              /\ acc' = Shift(acc, l)
              /\ accLen' = accLen - l
              /\ cursor' = cursor + l
              /\ UNCHANGED <<pc, scan, result>>
  /\ UNCHANGED nextWord

\* The bit reader takes over where the register stops.
LeaveFast ==
  /\ pc = "fast"
  /\ Ended \/ (~CanRefill /\ ~Enough)
  /\ pc' = "slow"
  /\ UNCHANGED <<register, cursor, scan, out, result>>

-----------------------------------------------------------------------------
(* The slow loop *)

Left == TotalBits - cursor

SlowLoop == pc = "slow" /\ ~Ended

\* Looked up when a whole key is left; otherwise, or on a miss, the tiers are
\* tried in turn until one is longer than what is left.
SlowHits ==
  LET short == IF Left >= LutBits THEN Found(table, Short, stream, cursor) ELSE {}
  IN  IF short # {} THEN short
      ELSE {s \in DOMAIN table.code :
              /\ Len(table.code[s]) <= Left
              /\ Matches(table.code[s], stream, cursor)}

SlowEmit ==
  /\ SlowLoop /\ SlowHits # {}
  /\ LET s == ShortestOf(table, SlowHits)
     IN  /\ out' = Append(out, s)
         /\ cursor' = cursor + Len(table.code[s])
  /\ UNCHANGED <<register, pc, scan, result>>

SlowFail ==
  /\ SlowLoop /\ SlowHits = {}
  /\ Return(IF table.longest > Left THEN Truncated ELSE Failure)
  /\ UNCHANGED <<register, cursor, out>>

SlowDone ==
  /\ pc = "slow" /\ Ended
  /\ Finish
  /\ UNCHANGED <<register, cursor, out>>

-----------------------------------------------------------------------------
(* first_nonzero_bit_from_here: bits up to a word boundary, then words *)

ScanBit ==
  /\ pc = "tail"
  /\ scan < TotalBits /\ scan % WordBits # 0
  /\ IF stream[scan + 1] = 1
     THEN Return([kind |-> "NonZeroPadding", bit |-> scan])
     ELSE /\ scan' = scan + 1
          /\ UNCHANGED <<pc, result>>
  /\ UNCHANGED <<register, cursor, out>>

ScanWord ==
  /\ pc = "tail"
  /\ scan < TotalBits /\ scan % WordBits = 0
  /\ LET set == {i \in 0 .. WordBits - 1 : stream[scan + i + 1] = 1}
     IN  IF set # {}
         THEN Return([kind |-> "NonZeroPadding", bit |-> scan + Min(set)])
         ELSE /\ scan' = scan + WordBits
              /\ UNCHANGED <<pc, result>>
  /\ UNCHANGED <<register, cursor, out>>

ScanDone ==
  /\ pc = "tail"
  /\ scan >= TotalBits
  /\ Return([kind |-> "Ok"])
  /\ UNCHANGED <<register, cursor, out>>

-----------------------------------------------------------------------------
DecoderNext ==
  \/ EnterTrivial \/ EnterLoops
  \/ Refill \/ FastStep \/ LeaveFast
  \/ SlowEmit \/ SlowFail \/ SlowDone
  \/ ScanBit \/ ScanWord \/ ScanDone
=============================================================================
