SPECIFICATION LateDestroySpec
CONSTANTS
  Proc = {p1, p2, p3}
  NPETERSONLOCKS = 1
PROPERTY DestroyedWaiterFails
CHECK_DEADLOCK FALSE
