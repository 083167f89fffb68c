SPECIFICATION FairSpec
CONSTANTS
  Clients <- Two
  UploadLen <- Lens
  ServerLen = 3
  SockBuf = 2
  maxnpending = 2
CHECK_DEADLOCK FALSE
INVARIANTS
  TypeOK
  FilesExact
  FailsOnlyCrossed
PROPERTIES
  ServedUnlessCrossed
