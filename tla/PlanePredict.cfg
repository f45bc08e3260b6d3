\* Two columns, five rows in two slices of two and three rows: a first row, a
\* second and a third, in a slice that does not start the plane.  Samples of
\* one bit wrap at every step; the proofs are for every Depth.
CONSTANTS
  Width = 2
  PlaneHeight = 5
  SliceCount = 2
  Depth = 2
SPECIFICATION PredictSpec
INVARIANTS
  PredictTypeOK
  Lossless
