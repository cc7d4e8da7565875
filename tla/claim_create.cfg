SPECIFICATION Spec
CONSTANTS
  r1 = r1
  r2 = r2
  r3 = r3
  q1 = q1
  q2 = q2
  Request = {r1, r2, r3}
  Quote = {q1, q2}
  QuoteOf <- MCQuoteOf
  Net <- MCNet
  Fee <- MCFee
  Balance = 6
  MaxFaults = 1
INVARIANTS
  FailedHoldsNothing
CHECK_DEADLOCK FALSE
