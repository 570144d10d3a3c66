SPECIFICATION Spec
CONSTANTS
  MaxDay = 5
  Sources = {s1}
  Salary = salary
  Requests = {r1, r2}
  NoSource = none
  Frequencies = {1}
  Amounts = {1}
  EntryDates = {2}
  RowAmounts <- SmallRows
  BackDays = 0
  MaxOccurrences = 26
  MaxRows = 0
  MaxEdits = 0
  PayFrequencies = {2}
  Incomes = {1}
  PayDates = {1}
  Rollovers = {}
  MaxTransitions = 12
  BannerDays = 1
  MaxCrashes = 0
INVARIANT SalaryOnce
