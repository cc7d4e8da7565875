SPECIFICATION FairSpec
CONSTANTS
  Task = {t1, t2}
  AdminActions = {}
  MaxFaults = 0
PROPERTIES
  DecisionTakesEffect
CHECK_DEADLOCK FALSE
