SPECIFICATION Spec
CONSTANTS
  d1 = d1
  d2 = d2
  Request = {d1, d2}
  Blank = Blank
  NoToken = NoToken
  Challenges = {n1, n2}
  Amount = {1}
  TierOf <- Tiers
  Daily = 1
  Balance = 4
  PINAttempts = 2
  Mismatches = 2
  MaxFaults = 0
INVARIANT SumIsNotRaced
CHECK_DEADLOCK FALSE
