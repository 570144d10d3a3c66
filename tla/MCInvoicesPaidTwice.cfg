SPECIFICATION Spec
SYMMETRY Symmetry
CONSTANTS
  Ids = {i1, i2}
  Requests = {r1, r2}
  NoInvoice = none
  MaxVersions = 2
  MaxNumber = 3
  MaxIncome = 2
  MaxCrashes = 0
  LostAnswers = FALSE
INVARIANT IncomeOnce
CHECK_DEADLOCK FALSE
