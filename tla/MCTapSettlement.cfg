SPECIFICATION FairSpec
CONSTANTS
  t1 = t1
  NoTap = NoTap
  Tap = {t1}
  Share <- BothLegs
  Earned = {0, 2, 3}
  Price = {1, 2}
  MaxAttempts = 3
  MaxRounds = 3
  MaxRefusals = 2
  MaxFaults = 2
INVARIANTS
  ResoldOnlyRepriced
  FulfilledIsFilled
  HeardIsPaid
  NoCrossing
PROPERTIES
  ImplementsClaims
  SettledReachesMarket
  ReversalFollows
CHECK_DEADLOCK FALSE
