SPECIFICATION Spec
CONSTANTS
  GoalIds = {car, loan}
  Debts = {loan}
  Requests = {r1}
  NoGoal = none
  Amounts = {1, 2}
  Offers = {2}
  MaxContributions = 3
  MaxCrashes = 1
  Overlap = FALSE
  SameGoalTwice = FALSE
INVARIANTS ProgressAddsUp AllocatedWithinOffer BannerTracksRest
