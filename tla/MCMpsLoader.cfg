CONSTANTS
  Wp = {w1, w2}
  NoWp = NoWp
  Brought = {w1, w2}
  MaxPoses = 1
  Types = {"base", "ring", "cap", "delivery"}
  Caps = {c1, c2}
  NoCap = NoCap
  BaseIds = {101, 102}
  RingIds = {202, 203}
  CapIds = {301, 302}
  DeliveryIds = {401, 402}
  BasePayloads = {2, 3, 9}
  RingPayloads = {1, 2}
  RingPayloads2 = {4}
  CapPayloads = {1, 2}
  DeliveryPayloads = {1, 2}
  BaseCommands = 2
  RingCommands = 2
  CapCommands = 3
  DeliveryCommands = 3
SPECIFICATION Spec
SYMMETRY Symmetry
INVARIANTS StationsKeepPromises CapsNotDuplicated
CHECK_DEADLOCK FALSE
