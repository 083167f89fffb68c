SPECIFICATION Spec
CONSTANTS
  nthreads = 3
  nrequests = 2
  workload <- TwoPaths
CHECK_DEADLOCK FALSE
INVARIANTS
  TypeOK
  QueueExact
  FilesExact
