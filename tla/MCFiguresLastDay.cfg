SPECIFICATION Spec
CONSTANTS
  Months = 28
  NoDate = NoDate
  None = None
  s1 = s1
  s2 = s2
  food = food
  MaxEntries = 2
  MaxGames = 4
  Tournaments = {t1, t2}
  Events = {e1, e2}
  Entries = {d1, d2}
  Null = Null
  Costs <- SharedCostsEntered
  Plays <- Results
  Amounts = {3, 4}
  Days = 10
INVARIANT NothingCountedTwice
CHECK_DEADLOCK FALSE
