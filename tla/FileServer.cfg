SPECIFICATION FairSpec
CONSTANTS
  Workers = {w1, w2}
  MaxClients = 2
  MaxFds = 2
  FileLens <- SomeLens
CHECK_DEADLOCK FALSE
INVARIANTS
  TypeOK
  NoLostWakeup
  HandledOnce
  DescriptorsExact
  OwnConnection
PROPERTIES
  ClientReleased
