SPECIFICATION FairSpec
CONSTANTS
  Clients <- OneProgram
  Requests <- TwoEach
  Names <- SomePaths
  content <- SomeFiles
  Base = 2
  MaxLength = 5
  MaxStale = 2
  BUFFER_SIZE = 1
  SockBuf = 6
  MaxFds = 2
CHECK_DEADLOCK FALSE
INVARIANTS
  TypeOK
  OutcomeHonest
  DescriptorsExact
PROPERTIES
  RequestEnds
