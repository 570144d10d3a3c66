SPECIFICATION FairSpec
CONSTANTS
  MaxDay = 2
  Sources = {s1}
  Salary = salary
  Requests = {r1, r2}
  NoSource = none
  Frequencies = {1}
  Amounts = {1}
  EntryDates = {0}
  RowAmounts <- SmallRows
  BackDays = 0
  MaxOccurrences = 2
  MaxRows = 0
  MaxEdits = 1
  PayFrequencies = {1}
  Incomes = {1}
  PayDates = {1}
  Rollovers = {0}
  MaxTransitions = 1
  BannerDays = 1
  MaxCrashes = 1
INVARIANTS OccurrenceOnce NothingBookedAhead
PROPERTIES KeepsPromise CatchesUp
