SPECIFICATION FairSpec
CONSTANTS
  p1 = p1
  p2 = p2
  NoPledge = NoPledge
  Pledge = {p1, p2}
  Agent = {a1}
  Matcher = {m1, m2}
  Sweeper = {s1}
  Notes <- OwnNotes
  Photo <- SamePhoto
  Amount <- TwoAndOne
  Capital <- Two
  MaxHandovers = 2
  MaxFaults = 1
INVARIANTS
  EscrowIsLocked
  PaidByBothOnly
  MatchedIsLocked
PROPERTIES
  EveryMeetingEnds
  ExpiredFreesNotes
CHECK_DEADLOCK FALSE
