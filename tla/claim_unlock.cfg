SPECIFICATION Spec
CONSTANTS
  Task = {t1, t2}
  AdminActions = {"REJECT"}
  MaxFaults = 0
INVARIANTS
  TerminalUnlocks
CHECK_DEADLOCK FALSE
