SPECIFICATION FairSpec
CONSTANTS
  t1 = t1
  w1 = w1
  h1 = h1
  h2 = h2
  NoTap = NoTap
  Tap = {t1}
  Worker = {w1}
  Hook = {h1, h2}
  Amount <- OneEach
  Earned = 1
  MaxAttempts = 2
  MaxFaults = 3
INVARIANTS
  TypeOK
  BooksFollowTheRow
  FeesBookedOnce
  SettledIsDelivered
  DeliveredOnce
  PaidOnlyAfterSweep
PROPERTIES
  ImplementsClaims
  EveryLegIsAnswered
CHECK_DEADLOCK FALSE
