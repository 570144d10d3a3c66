SPECIFICATION Spec
SYMMETRY Symmetry
CONSTANTS
  Tokens = {t1, t2, t3}
  ResetTokens = {x1}
  Passwords = {p1, p2, p3}
  Requests = {r1, r2}
  NoToken = NoToken
  NoPassword = NoPassword
  MaxAttempts = 2
  HistoryCount = 2
  MaxArrivals = 4
  MaxCrashes = 1
INVARIANTS TypeOK SurvivorsWereUnderWay OneSessionPerLogin ResetUsedOnce
PROPERTY NoRecentPassword
CHECK_DEADLOCK FALSE
