SPECIFICATION FairSpec
CONSTANTS
  Inputs <- Aligned
  Endings <- CrOnly
  Depth = 3
  Word = 256
INVARIANTS
  FileInRam
  ScreenRight
PROPERTY LoadEnds
CHECK_DEADLOCK FALSE
