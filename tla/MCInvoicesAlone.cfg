SPECIFICATION Spec
SYMMETRY Symmetry
CONSTANTS
  Ids = {i1, i2, i3}
  Requests = {r1}
  NoInvoice = none
  MaxVersions = 2
  MaxNumber = 3
  MaxIncome = 2
  MaxCrashes = 1
  LostAnswers = FALSE
INVARIANTS TypeOK IncomeOnce IncomeOfPaid ClientSawRecord
CHECK_DEADLOCK FALSE
