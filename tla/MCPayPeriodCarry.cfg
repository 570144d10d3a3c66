SPECIFICATION Spec
SYMMETRY RequestSymmetry
CONSTANTS
  MaxDay = 4
  Sources = {}
  Salary = salary
  Requests = {r1, r2}
  NoSource = none
  Frequencies = {1}
  Amounts = {1}
  EntryDates = {2}
  RowAmounts <- SmallRows
  BackDays = 0
  MaxOccurrences = 2
  MaxRows = 1
  MaxEdits = 0
  PayFrequencies = {1}
  Incomes = {1}
  PayDates = {1}
  Rollovers = {}
  MaxTransitions = 2
  BannerDays = 1
  MaxCrashes = 1
INVARIANTS RolloverIsCarried NoPeriodSkipped BannerTruthful
