CONSTANTS
  Threads = {t1, t2}
  Timed = {t1, t2}
  MaxInterrupts = 0
SPECIFICATION FairSpec
PROPERTY TimeoutAborts
CHECK_DEADLOCK FALSE
