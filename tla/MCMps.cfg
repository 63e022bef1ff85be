CONSTANTS
  Wp = {w1, w2}
  NoWp = NoWp
  Station = 200
  ActionIds = {202}
  Payloads = {1, 2, 3}
  MaxCommands = 2
  MaxPoses = 1
SPECIFICATION FairSpec
INVARIANTS MiddleIsTrue BusyHoldsCommand AtMostOnce
PROPERTIES ReportedCommandRuns ShutdownJoins TrackingCatchesUp
CHECK_DEADLOCK FALSE
