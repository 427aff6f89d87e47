SPECIFICATION BootSpec
CONSTANTS
  Volumes <- AllVolumes
  lba = 80
  LoaderBlocks = 3
  RamBlocks = 30
  Buffer = 10
  FATBUFFBLOCKS = 2
  EntriesPerSector = 2
  EOC = 99
  MinClusters = 5
  Word = 256
  DIRMAXCLUSTERS = 3
  Addrs = {4, 6, 14, 22}
  Sizes = {1, 4, 5, 8}
  Garbage <- MCGarbage
  MaxLoads = 2
  MaxFails = 2
INVARIANT LoaderSurvives
CHECK_DEADLOCK FALSE
