CONSTANTS
  Wp = {w1}
  NoWp = NoWp
  Station = 400
  ActionIds = {401}
  Payloads = {1}
  MaxCommands = 1
  MaxPoses = 1
SPECIFICATION DSSpec
INVARIANT DeliversOrDoesNothing
CHECK_DEADLOCK FALSE
