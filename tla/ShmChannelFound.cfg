SPECIFICATION FairSpec
CONSTANTS
  ChunkSize = 2
  FileLens <- FoundLens
CHECK_DEADLOCK FALSE
PROPERTIES
  FoundSent
