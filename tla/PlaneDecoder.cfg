\* Four slices over three rows: slice 0 has no rows.  The budgets give the
\* serial path (0, 1), two chunks of two, an empty third chunk (3), and one
\* slice per thread (4 and, clamped, 6).
CONSTANTS
  NumSlices = 4
  PlaneHeight = 3
  Errors = {"SliceTruncated", "HuffmanDecodeFailure"}
  Budgets = {0, 1, 2, 3, 4, 6}
SPECIFICATION Spec
INVARIANTS
  TypeOK
  BudgetIndependent
  PlaneComplete
  StripsAreSerialRanges
PROPERTIES
  LowestErrorKept
  Terminates
  ImplementsPlaneDecode
