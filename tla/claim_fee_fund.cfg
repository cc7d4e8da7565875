SPECIFICATION Spec
CONSTANTS
  Task = {t1, t2}
  AdminActions = {}
  MaxFaults = 0
INVARIANTS
  OneFeeFund
CHECK_DEADLOCK FALSE
