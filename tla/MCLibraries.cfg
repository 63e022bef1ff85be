SPECIFICATION LibrariesSpec
CONSTANTS
  Users = {u1, u2}
  Nobody = nobody
  Containers = {c1, c2}
  Elements = {e1, e2}
  MaxElements = 2
  Exceptions = {x1, x2}
  Texts = {"first", "second"}
  MaxNodes = 3
  NsPerSec = 2
  MaxSec = 1
  Bits = 4
  MaxChanges = 3
  MaxWakeups = 2
  Threads = {t1, t2}
  Main = main
  MaxPending = 2
  MaxBad = 2
  ListLength = 3
INVARIANTS PointersSound CopiesWhole LocksBalanced ConfigurationHolds ThreadSound RoundFits ListIsOne
PROPERTIES WritersNotStarved PrepareCompletes RoundComplete
CHECK_DEADLOCK FALSE
