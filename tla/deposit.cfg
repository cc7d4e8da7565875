SPECIFICATION Spec
CONSTANTS
  s1 = s1
  p1 = p1
  p2 = p2
  Payin = {p1, p2}
  Signal = {s1}
  SignalOf <- MCSignalOf
  Referenced = {p1}
  Calls = 3
  DeskAction = {"PAYIN_CONFIRMED", "APPROVE", "FREEZE"}
  RailAction = {"CONFIRM", "REORG", "FAIL", "CLEAR"}
  MaxEvents = 4
INVARIANTS
  TypeOK
  OneCreditPerTransfer
  SuspenseFunded
  ClearedIsBooked
  ScreenedCredit
  CreditIsTold
  BookedIsConfirmed
PROPERTY
  KeepsPromise
CHECK_DEADLOCK FALSE
