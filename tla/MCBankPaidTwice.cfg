SPECIFICATION Spec
CONSTANTS
  p1 = p1
  p2 = p2
  w1 = w1
  o1 = o1
  NoPayout = NoPayout
  Payout = {p1}
  Worker = {w1}
  Operator = {}
  Kind <- Kinds
  Amount <- OneEach
  MaxAttempts = 2
  MaxClaims = 3
  MaxFaults = 1
INVARIANT NeverPaidTwice
CHECK_DEADLOCK FALSE
