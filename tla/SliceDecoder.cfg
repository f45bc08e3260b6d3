\* Three words: two fill the register and the third is loaded over what is
\* left of them.
CONSTANTS
  NumSymbols = 5
  Unused = 6
  LutBits = 2
  WordBits = 4
  MaxWords = 3
  Pixels = {0, 5}
  Lengths <- MCLengths
SPECIFICATION MCSpec
INVARIANTS
  RegisterMirrorsStream
  OnlyTruncation
PROPERTIES
  ImplementsSymbolStream
