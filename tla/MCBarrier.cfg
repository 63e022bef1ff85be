CONSTANTS
  Threads = {t1, t2, t3, t4}
  Timed = {t1, t2}
  MaxInterrupts = 2
SPECIFICATION FairSpec
INVARIANTS ArrivalsCounted
PROPERTIES ImplementsBarrier InterruptFreesWaiters
CHECK_DEADLOCK FALSE
