SPECIFICATION FairSpec
CONSTANTS
  FatSectors = 4
  EntriesPerSector = 1
  FATBUFFBLOCKS = 2
  CountRange = 16
  Links <- MCTwoLinks
  Hi <- MCHiBoth
  Clusters <- MCClusters
  Faults <- NoFaults
INVARIANTS
  TypeOK
  WindowInRange
  CleanWindowMatches
PROPERTIES
  ImplementsMap
  ScanEnds
