SPECIFICATION FairSpec
CONSTANTS
  d1 = d1
  d2 = d2
  Request = {d1, d2}
  Blank = Blank
  NoToken = NoToken
  Challenges = {n1, n2}
  Amount = {1, 2, 3}
  TierOf <- Tiers
  Daily = 3
  Balance = 4
  PINAttempts = 2
  Mismatches = 2
  MaxFaults = 1
INVARIANTS
  ChallengeHonoured
  
  WithinDaily
  WrongsAreCounted
PROPERTIES
  EveryDebitEnds
CHECK_DEADLOCK FALSE
