CONSTANTS
  Wp = {w1, w2}
  NoWp = NoWp
  Brought = {w1}
  MaxPoses = 1
  Types = {"base", "ring", "cap"}
  Caps = {c1}
  NoCap = NoCap
  BaseIds = {101}
  RingIds = {202, 203}
  CapIds = {301, 302}
  DeliveryIds = {401}
  BasePayloads = {3}
  RingPayloads = {2}
  RingPayloads2 = {9}
  CapPayloads = {1, 2}
  DeliveryPayloads = {1}
  BaseCommands = 2
  RingCommands = 1
  CapCommands = 2
  DeliveryCommands = 1
SPECIFICATION FairSpec
PROPERTIES AwaitedBaseIsTracked RetrievedCapArrives SlideIsCounted
CHECK_DEADLOCK FALSE
