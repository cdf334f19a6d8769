SPECIFICATION Spec
CONSTANTS
  p1 = p1
  p2 = p2
  w1 = w1
  o1 = o1
  NoPayout = NoPayout
  Payout = {p1, p2}
  Worker = {w1}
  Operator = {o1}
  Kind <- Kinds
  Amount <- OneEach
  MaxAttempts = 2
  MaxClaims = 3
  MaxFaults = 2
INVARIANTS
  DischargedIsDelivered
  DeliveredOnce
  FinalStateIsBooked
PROPERTY ConfirmedIsFinal
CHECK_DEADLOCK FALSE
