SPECIFICATION FairSpec
CONSTANTS
  t1 = t1
  t2 = t2
  w1 = w1
  w2 = w2
  Transfer = {t1, t2}
  Cents <- Worth
  Ours = {t2}
  Withdrawal = {w1, w2}
  Cost <- Price
  Confirmations = 2
  MaxBlockSpan = 1
  StartBlock = 0
  MaxHead = 5
  MaxReorgs = 1
  MaxFaults = 1
INVARIANTS
  CreditedIsConfirmed
  Solvent
PROPERTIES
  EveryDepositCredited
  EveryWithdrawalEnds
CHECK_DEADLOCK FALSE
