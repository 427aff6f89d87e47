SPECIFICATION AlignedSpec
CONSTANTS
  FatSectors = 4
  EntriesPerSector = 3
  FATBUFFBLOCKS = 2
  CountRange = 16
  Links <- MCLinks
  Hi <- MCHi
  Clusters <- MCClusters
  Faults <- NoFaults
  EOC <- MCEOC
  DirSlots = 4
  DIRMAXCLUSTERS = 4
  E_ERROR = 3
  Root = 2
  InitCards <- AllCards
  Paths <- MCPaths
  DirPaths <- MCDirPaths
  Sizes <- FillSizes
  MaxCalls = 3
  MaxFaults = 1
  Retry = FALSE
INVARIANTS
  CreatedFilesStay
  NoCrossLink
  DataBeforeName
  ReadIsPrefix
PROPERTY CallsEnd
CHECK_DEADLOCK FALSE
