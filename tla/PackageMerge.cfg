\* Up to five residuals.  A cap of two leaves no room for all of them; three
\* makes the code flatter than the unlimited one; four never binds.
CONSTANTS
  NumSymbols = 5
  Unused = 6
  LutBits = 2
  WordBits = 4
  Caps = {2, 3, 4}
  MaxCount = 5
SPECIFICATION LengthsSpec
INVARIANTS
  Optimal
  EveryResidualCoded
