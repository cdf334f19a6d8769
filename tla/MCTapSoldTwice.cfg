SPECIFICATION Spec
CONSTANTS
  t1 = t1
  NoTap = NoTap
  Tap = {t1}
  Share <- BothLegs
  Earned = {0}
  Price = {1, 2}
  MaxAttempts = 3
  MaxRounds = 3
  MaxRefusals = 1
  MaxFaults = 1
INVARIANT SoldOnce
CHECK_DEADLOCK FALSE
