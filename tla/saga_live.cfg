SPECIFICATION RepairSpec
CONSTANTS
  Task = {t1, t2}
  AdminActions = {}
  MaxFaults = 1
INVARIANTS
  LargeIsApproved
  BooksMatch
PROPERTIES
  DeadIsReleased
  PaidIsSettledUnlessFaulty
CHECK_DEADLOCK FALSE
