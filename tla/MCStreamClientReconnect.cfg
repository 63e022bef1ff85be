CONSTANTS
  Senders = {s1, s2}
  MaxSends = 3
  MaxConnects = 2
SPECIFICATION FairSpec
PROPERTY AcceptedGoesOut
CHECK_DEADLOCK FALSE
