SPECIFICATION RepairSpec
CONSTANTS
  Task = {t1, t2}
  AdminActions = {}
  MaxFaults = 1
PROPERTIES
  PaidIsSettled
CHECK_DEADLOCK FALSE
