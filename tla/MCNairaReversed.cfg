SPECIFICATION Spec
CONSTANTS
  t1 = t1
  w1 = w1
  h1 = h1
  NoTap = NoTap
  Tap = {t1}
  Worker = {w1}
  Hook = {h1}
  Amount <- OneEach
  Earned = 2
  MaxAttempts = 2
  MaxFaults = 0
PROPERTY ReversedNeverClaimed
CHECK_DEADLOCK FALSE
