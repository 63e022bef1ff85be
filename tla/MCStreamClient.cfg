CONSTANTS
  Senders = {s1, s2}
  MaxSends = 4
  MaxConnects = 3
SPECIFICATION FairSpec
INVARIANT OneFrameAtATime
PROPERTIES ImplementsFifoLink FirstConnectionDelivers
CHECK_DEADLOCK FALSE
