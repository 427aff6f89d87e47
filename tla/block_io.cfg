SPECIFICATION Spec
CONSTANTS
  Lba = 4
  Bmax = 2
  Word = 8
  Polls = 1
  Values <- All
  Images <- Old
  Buffers <- Mine
  Zeros = 0
  Counts <- MCCounts
  Starts <- MCStarts
  MaxCalls = 2
INVARIANTS
  AllTransferred
  PrefixMoved
CHECK_DEADLOCK FALSE
