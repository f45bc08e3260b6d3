-------------------------- MODULE SliceRoundTripMC --------------------------
(***************************************************************************)
(* SliceRoundTrip with words of four bits and a two-bit lookup: codes that *)
(* end in the lookup, codes of both lengths above it, codes of a whole     *)
(* word, a single symbol, and no symbol at all.                            *)
(***************************************************************************)
EXTENDS SliceRoundTrip

U == Unused
Shapes == {<<1, 2, 3, 4, 4>>, <<4, 2, 1, 4, 3>>, <<2, 3, 2, 2, 3>>,
           <<1, U, U, U, 1>>, <<2, 2, U, 2, 2>>, <<3, 1, U, 3, 2>>,
           <<U, U, 0, U, U>>, <<U, U, U, U, U>>}
MCLengths == {[s \in Symbols |-> shape[s + 1]] : shape \in Shapes}
=============================================================================
