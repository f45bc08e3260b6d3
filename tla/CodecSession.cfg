\* Three frames: one in the encoder, one in the container and one in the
\* decoder at the same time.  Two predictors tell a pinned one from the
\* heuristic's choice, two streams the encoder's from another.
CONSTANTS
  Predictors = {"Gradient", "Median"}
  Unset = "Unset"
  Streams = {"own", "other"}
  NoStream = "NoStream"
  Own = "own"
  MaxFrames = 3
SPECIFICATION SessionSpec
INVARIANTS
  TypeOK
  NothingLost
  EachPacketItsOwnOutcome
  DecodedAsConfigured
  EofMeansDrained
PROPERTIES
  FramesComeOut
  FlushEnds
CHECK_DEADLOCK FALSE
