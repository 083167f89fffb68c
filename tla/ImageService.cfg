SPECIFICATION FairSpec
CONSTANTS
  nthreads = 3
  N = 3
CHECK_DEADLOCK FALSE
INVARIANTS
  TypeOK
  OutputsExact
PROPERTIES
  ProgramEnds
