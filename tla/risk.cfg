SPECIFICATION FairSpec
CONSTANTS
  Worker = {w1, w2}
  MaxCra = 2
  MaxCases = 2
  MaxFaults = 1
  MaxOverlaps = 1
  Reports <- MCReports
  Documents = TRUE
INVARIANTS
  RiskInv
  FrozenHasOwner
PROPERTIES
  DowngradeIsDismissed
  DecisionSettles
CHECK_DEADLOCK FALSE
