SPECIFICATION FairSpec
CONSTANTS
  ChunkSize = 2
  FileLens <- AllLens
CHECK_DEADLOCK FALSE
INVARIANTS
  TypeOK
  BufferExclusive
  DeliveredPrefix
  CacheGoneOnDestroy
PROPERTIES
  ImplementsTransfer
  CacheFreed
  RequestSettles
