SPECIFICATION FairSpec
CONSTANTS
  Threads = {t1, t2}
  Segments = {s1}
  Workers = {w1, w2}
  mq_maxmsg = 1
  MAX_CACHE_REQUEST_LEN = 1
  MaxRequests = 3
  MaxRestarts = 0
CHECK_DEADLOCK FALSE
INVARIANTS
  AnswersMatch
PROPERTIES
  AllServed
