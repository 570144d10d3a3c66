SPECIFICATION BillsSpec
SYMMETRY Symmetry
CONSTANTS
  GoalIds = {loan}
  Debts = {loan}
  Requests = {r1}
  NoGoal = none
  BillIds = {b1, b2, b3}
  PlanIds = {p1}
  Nobody = nobody
  BillAmount = 1
  Amounts = {2}
  Offers = {2}
  MaxContributions = 2
  MaxPayments = 2
  MaxCrashes = 1
  Overlap = FALSE
  SameGoalTwice = FALSE
INVARIANTS BillsTypeOK FollowerPerPayment SeriesGoesOn PlanAppliedOnce
CHECK_DEADLOCK FALSE
