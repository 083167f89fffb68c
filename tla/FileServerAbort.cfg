SPECIFICATION Spec
CONSTANTS
  Workers = {w1, w2}
  MaxClients = 2
  MaxFds = 2
  FileLens <- Found
CHECK_DEADLOCK FALSE
PROPERTIES
  AbortOwn
