\* Samples wrap at three, so that adding and subtracting differ; two problems
\* in one payload, so that the order of planes and slices shows.
CONSTANTS
  Absent = Absent
  Depth = 3
  Params <- MCParams
  Shots <- MCShots
  Pictures <- MCPictures
  MaxProblems = 2
SPECIFICATION Spec
INVARIANTS
  SetupAgrees
  NoEmptySlices
  FramesComeBack
  FirstProblemReported
  BlameTheRightSide
