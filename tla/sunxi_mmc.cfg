SPECIFICATION FairSpec
CONSTANTS
  Words = 2
  Depth = 1
  Polls = 1
  Clocks <- MCClocks
  Osc = 240
  Pll6 = 6000
  Stalls = FALSE
  MaxCmds = 3
INVARIANTS
  OwnResponse
  AllWordsMoved
  NothingLeftOver
  ClockAsAsked
PROPERTY CallsReturn
CHECK_DEADLOCK FALSE
