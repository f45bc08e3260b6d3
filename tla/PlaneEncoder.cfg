\* Budgets: serial (0, 1), two chunks (2), three threads wanted but two used
\* (3: chunks of two), one slice per thread (4 and, clamped, 6).  A plane can
\* have one symbol, or several that no single slice has all of.
CONSTANTS
  NumSlices = 4
  Contents = {{"a"}, {"c"}, {"a", "b"}}
  Budgets = {0, 1, 2, 3, 4, 6}
SPECIFICATION Spec
INVARIANTS
  TypeOK
  BytesIndependentOfBudget
  PackingNeverFails
  DataMatchesDescriptor
PROPERTY
  Terminates
