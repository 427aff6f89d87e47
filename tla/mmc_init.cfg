SPECIFICATION FairSpec
CONSTANTS
  CardTypes <- AllCards
  Tries = 2
  ScrTries = 1
  SwitchTries = 2
  MaxFaults = 2
INVARIANTS
  InitAgrees
  BusFits
  KindRight
PROPERTY InitReturns
CHECK_DEADLOCK FALSE
