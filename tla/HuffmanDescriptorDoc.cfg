\* What src/inspect.rs says a false answer means.
CONSTANTS
  NumSymbols = 5
  Unused = 6
  LutBits = 2
  WordBits = 3
  NumeratorBits = 4
SPECIFICATION DescriptorSpec
INVARIANTS
  FalseMeansRejected
