SPECIFICATION Spec
CONSTANTS
  c1 = c1
  c2 = c2
  maker = maker
  both = both
  boss = boss
  NoUser = NoUser
  User = {maker, both, boss}
  Role = {"A", "B"}
  RolesOf <- MCRolesOf
  SuperAdmin = {boss}
  SameUserDenied = TRUE
  CancelAllowed = TRUE
  Case = {c1, c2}
  Family = {"fee", "limit", "role", "policy", "level", "newRole"}
  Assignment <- MCAssignment
  MakerOf <- MCMakerOf
  Wanted <- MCWanted
  Governed = "fee"
  Value = {0, 1, 2}
  FirstValue = 0
  StepsOf <- MCStepsOf
  FixedSteps <- MCFixedSteps
  MaxFaults = 1
INVARIANTS
  ChangeInv
  FourEyes
  ApprovedInFull
  LimitOutcomeIsTrue
  OutcomeIsTrue
  NothingForgotten
PROPERTIES
  NoLostUpdate
  ImplementsControl
CHECK_DEADLOCK FALSE
