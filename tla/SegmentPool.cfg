SPECIFICATION FairSpec
CONSTANTS
  Threads = {t1, t2, t3}
  NoThread = NoThread
  segments = 2
INVARIANTS
  TypeOK
  SegmentExclusive
  SegmentsConserved
  CounterSafe
  NoLostWakeup
  ObjectsExact
PROPERTIES
  WaiterWakes
