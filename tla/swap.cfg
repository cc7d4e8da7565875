SPECIFICATION Spec
CONSTANTS
  r1 = r1
  r2 = r2
  q1 = q1
  Request = {r1, r2}
  Quote = {q1}
  QuoteOf <- MCQuoteOf
  MaxLegAttempts = 2
  Attempts = 3
INVARIANTS
  TypeOK
  MovedOnce
  SwapSettled
  LedgerFollowsLegs
PROPERTY
  KeepsPromise
CHECK_DEADLOCK FALSE
