SPECIFICATION FairSpec
CONSTANTS
  Word = 16777216
  PollTicks = 200000
  Overheads = {12}
  Entries <- MCEntries
  LockTurns = 200
  Wakes <- MCWakes
  Chips <- MCChips
INVARIANTS
  DelaysCounted
  BoardReady
  SizeIsFitted
PROPERTIES
  ClocksSafe
  BoardUp
CHECK_DEADLOCK FALSE
