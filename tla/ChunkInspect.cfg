\* Two planes of two slices.  The ends are empty, one word, two words, and one
\* that is not aligned; the sizes go past the largest payload they describe.
\* The second plane's pixel counts fit their width, the first's do not.
CONSTANTS
  NumPlanes = 2
  NumSlices = 2
  DescriptorBytes = 4
  Ends = {0, 4, 6, 8}
  MaxSize = 45
  Width = 10
  Height = 6
  ChromaWidth = 5
  ChromaHeight = 3
  PixelBits = 4
SPECIFICATION Spec
INVARIANTS
  EveryByteOnce
  WalksAgree
  LayoutAddsUp
