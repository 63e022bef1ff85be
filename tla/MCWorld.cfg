CONSTANTS
  Wp = {w1, w2, w3, w4, w5, w6}
  NoWp = NoWp
  MaxReturns = 1
  Slots = {1, 2}
  Pucks = {w1, w2, w3}
  Robots = {r1, r2}
  MaxOrders = 2
  MaxInstructs = 3
  MaxTime = 3
  Names = {"CBS", "CCS", "MRS"}
  Strangers = {"Puck"}
  Tags = {t1}
  MaxTicks = 5
  MaxEvents = 3
SPECIFICATION Spec
INVARIANTS ThingsInPlace ReportsTrue LightsFollow RobotServed
PROPERTIES ShelfIsRefilled AllStand
CHECK_DEADLOCK FALSE
