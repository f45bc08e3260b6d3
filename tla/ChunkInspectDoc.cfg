\* What src/inspect.rs:46-47 says of the two.
CONSTANTS
  NumPlanes = 2
  NumSlices = 2
  DescriptorBytes = 4
  Ends = {0, 4, 6, 8}
  MaxSize = 45
  Width = 10
  Height = 6
  ChromaWidth = 5
  ChromaHeight = 3
  PixelBits = 4
SPECIFICATION Spec
INVARIANTS
  SameErrorVariant
