SPECIFICATION Spec
CONSTANTS
  Task = {t1, t2}
  AdminActions = {"CHECK", "FLAG", "REJECT", "CANCEL"}
  MaxFaults = 1
INVARIANTS
  SafetyInv
  ReleasedOnlyIfUnpaid
  ChargedOnlyIfPaid
  SettledInFull
  FirmFeeEarned
  EvidenceNotAhead
PROPERTIES
  KeepsPromise
CHECK_DEADLOCK FALSE
