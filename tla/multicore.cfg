SPECIFICATION FairSpec
CONSTANTS
  CPU_CORE_COUNT = 4
  All = All
  Jobs <- TwoJobs
  MaxGos = 3
  Patient = TRUE
INVARIANTS
  RunsItsJob
  CoresPowered
PROPERTIES
  OthersKeepRunning
  GoReachesCores
CHECK_DEADLOCK FALSE
