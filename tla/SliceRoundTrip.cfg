\* Up to four residuals: codes cross word boundaries and the register is
\* refilled while it holds bits.
CONSTANTS
  NumSymbols = 5
  Unused = 6
  LutBits = 2
  WordBits = 4
  MaxResiduals = 4
  Lengths <- MCLengths
SPECIFICATION Spec
INVARIANTS
  RoundTrip
  NoSpareWord
