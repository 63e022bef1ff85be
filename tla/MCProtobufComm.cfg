CONSTANTS
  MaxClients = 2
  MaxMessages = 2
  MaxSent = 2
  MaxSetups = 1
  Bodies = {b1, b2}
  Sizes = {0, 1, 11, 12, 13, 500, 1000, 1012, 1013, 1024, 1025}
  RECONNECT_ATTEMPTS = 2
  None = None
SPECIFICATION Spec
INVARIANTS TrafficInOrder RoundTrip BridgeLinked
PROPERTIES GoneIsForgotten QueuedGoesOut  Reconnects
CHECK_DEADLOCK FALSE
