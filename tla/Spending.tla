-------------------------------- MODULE Spending --------------------------------
(****************************************************************************)
(* What the analytics of TransactionsService compute from the rows of table *)
(* transactions.  An instant is a number of hours since the start of day 0, *)
(* a Sunday; the server runs in UTC, a user's clock is `offset' hours ahead. *)
(* The rows are a set of records: [id, type, amount, date, due, status,     *)
(* recurring, category, source, primary, text].  The profile of the user is *)
(* [income, fixedExpenses, frequency, nextPayDate, offset, createdAt].      *)
(****************************************************************************)
EXTENDS PayCalendar, FiniteSetsExt

CONSTANTS NoDate, None      \* null dates; null categories, sources, filters

ASSUME SpendingAssumption == NoDate \notin Int /\ None \notin Int \union {"INCOME", "EXPENSE"}

Day(instant) == instant \div 24
Hour(instant) == instant % 24
startOfDay(instant) == 24 * Day(instant)
endOfDay(instant) == 24 * Day(instant) + 23
userLocalDay(instant, offset) == Day(instant + offset)
Weekday(day) == day % 7
startOfWeek(day) == day - Weekday(day)

Total(rows) == SumFunction([row \in rows |-> row.amount])
Incomes(rows) == {row \in rows : row.type = "INCOME"}
Expenses(rows) == {row \in rows : row.type = "EXPENSE"}
Discretionary(rows) == {row \in Expenses(rows) : ~row.recurring}
Between(rows, from, to) == {row \in rows : from <= row.date /\ row.date <= to}

\* The key with the greatest value, the first of several.
Greatest(f) == CHOOSE k \in DOMAIN f :
    /\ \A other \in DOMAIN f : f[other] <= f[k]
    /\ \A other \in DOMAIN f : f[other] = f[k] => k <= other

-------------------------------------------------------------------------------
(* The queries of the repository.  A filter has the fields start, end (NoDate *)
(* when open), type, category, text (None when open) and primary.            *)

AnyFilter == [start |-> NoDate, end |-> NoDate, type |-> None, category |-> None,
              text |-> None, primary |-> FALSE]
Dates(start, end) == [AnyFilter EXCEPT !.start = start, !.end = end]
IncomeRange(start, end) == [Dates(start, end) EXCEPT !.type = "INCOME", !.primary = TRUE]

\* Whole days of the user's calendar.
resolvePeriodBoundaries(filter, offset) ==
    [from |-> IF filter.start = NoDate THEN NoDate ELSE startOfDay(filter.start) - offset,
     to   |-> IF filter.end = NoDate THEN NoDate ELSE endOfDay(filter.end) - offset]

InPeriod(instant, period) ==
    /\ period.from # NoDate => instant >= period.from
    /\ period.to # NoDate => instant <= period.to

\* A bill that is still to pay counts when it is due, all else when it was booked.
DateThatCounts(row) ==
    IF row.status \in {"UPCOMING", "OVERDUE"} /\ row.due # NoDate THEN row.due ELSE row.date

Matches(row, filter) ==
    /\ filter.category # None => row.category = filter.category
    /\ filter.type # None => row.type = filter.type
    /\ row.primary => filter.primary

findMany(rows, filter, offset) ==
    {row \in rows :
        /\ filter.start # NoDate \/ filter.end # NoDate =>
              InPeriod(DateThatCounts(row), resolvePeriodBoundaries(filter, offset))
        /\ Matches(row, filter)
        /\ filter.text # None => row.text = filter.text}

\* Slip: the count goes by the booking date.
CountByDate(rows, filter, offset) ==
    Cardinality({row \in rows :
        InPeriod(row.date, resolvePeriodBoundaries(filter, offset)) /\ Matches(row, filter)})

\* Its own copy of the conditions; the text that is searched is not one of them.
count(rows, filter, offset) ==
    LET period == resolvePeriodBoundaries(filter, offset)
    IN  Cardinality({row \in rows :
            /\ \/ row.status \in {"NONE", "PAID"} /\ InPeriod(row.date, period)
               \/ /\ row.status \in {"UPCOMING", "OVERDUE"}
                  /\ \/ row.due # NoDate /\ InPeriod(row.due, period)
                     \/ row.due = NoDate /\ InPeriod(row.date, period)
            /\ Matches(row, filter)})

\* What a row is shown as, whatever status is stored.
calculateTransactionStatus(row, now) ==
    CASE row.status = "PAID" -> "PAID"
      [] row.status # "PAID" /\ row.due # NoDate /\ row.due < now -> "OVERDUE"
      [] row.status \in {"UPCOMING", "OVERDUE"} /\ ~(row.due # NoDate /\ row.due < now) -> row.status
      [] OTHER -> IF row.due # NoDate \/ row.recurring THEN "UPCOMING" ELSE "NONE"

-------------------------------------------------------------------------------
(* calculateDailyBurnRate, calculateSpendingVelocity.  Amounts per day are   *)
(* kept as multiples: of a seventh for what was spent in a week, of 1/4500   *)
(* for what the income allows (8/10 of a twelfth, over 30 days).             *)

\* Twelve times the monthly income, less the fixed expenses.
YearlyCapacity(user) ==
    (CASE user.frequency = "WEEKLY" -> 52 * user.income
       [] user.frequency = "FORTNIGHTLY" -> 26 * user.income
       [] OTHER -> 12 * user.income) - 12 * user.fixedExpenses

weeklySpending(rows, now) == Total(Between(Discretionary(rows), now - 7 * 24, now))

\* Spent in a week is more than n tenths of what the income allows for it:
\* w / 7 > n / 10 * (capacity / 12) * 0.8 / 30.
Exceeds(n, rows, user, now) == 4500 * weeklySpending(rows, now) > 7 * n * YearlyCapacity(user)

burnRateStatus(rows, user, now) ==
    IF YearlyCapacity(user) <= 0 \/ user.income = 0
    THEN IF weeklySpending(rows, now) > 350 THEN "HIGH" ELSE "NORMAL"
    ELSE CASE ~Exceeds(7, rows, user, now) -> "LOW"
           [] Exceeds(7, rows, user, now) /\ ~Exceeds(10, rows, user, now) -> "NORMAL"
           [] Exceeds(10, rows, user, now) /\ ~Exceeds(15, rows, user, now) -> "HIGH"
           [] OTHER -> "CRITICAL"

\* The days until what is spent beyond that has used up the month's income;
\* None when nothing is.
daysUntilBudgetExceeded(rows, user, now) ==
    IF YearlyCapacity(user) > 0 /\ Exceeds(10, rows, user, now)
    THEN (YearlyCapacity(user) * 375 * 7) \div (4500 * weeklySpending(rows, now) - 70 * YearlyCapacity(user))
    ELSE None

\* Spent this month, and in the month before up to the start of its last day.
SpentThisMonth(rows, now) == Total(Between(Expenses(rows), 24 * FirstDay[MonthOf[Day(now)]], now))
SpentLastMonth(rows, now) ==
    LET month == MonthOf[Day(now)] - 1
    IN  Total(Between(Expenses(rows), 24 * FirstDay[month], 24 * (FirstDay[month] + DaysIn(month) - 1)))

\* The projection of this month (spent * days / elapsed) is more than n tenths
\* of the month before.
Outruns(n, rows, now) ==
    LET month == MonthOf[Day(now)]
    IN  10 * SpentThisMonth(rows, now) * DaysIn(month) > n * SpentLastMonth(rows, now) * DayOfMonth(Day(now))

velocityStatus(rows, now) ==
    IF SpentLastMonth(rows, now) = 0 THEN "ON_TRACK"
    ELSE CASE ~Outruns(11, rows, now) -> "ON_TRACK"
           [] Outruns(11, rows, now) /\ ~Outruns(13, rows, now) -> "SLIGHTLY_HIGH"
           [] Outruns(13, rows, now) /\ ~Outruns(16, rows, now) -> "HIGH"
           [] OTHER -> "VERY_HIGH"

-------------------------------------------------------------------------------
(* getAnalytics: totals, trends, comparison with the previous period.        *)

DaysBetween(start, end) == (end - start + 23) \div 24

TrendPeriod(start, end) ==
    CASE DaysBetween(start, end) <= 31 -> "daily"
      [] DaysBetween(start, end) \in 32 .. 84 -> "weekly"
      [] OTHER -> "monthly"

periodKeyFromDayKey(day, periodType) ==
    CASE periodType = "monthly" -> MonthOf[day]
      [] periodType = "weekly" -> startOfWeek(day)
      [] OTHER -> day

enumeratePeriodKeys(start, end, periodType, offset) ==
    {periodKeyFromDayKey(day, periodType) : day \in userLocalDay(start, offset) .. userLocalDay(end, offset)}

\* The rows of one point of the trend.
Bucket(rows, key, periodType, offset) ==
    {row \in rows : periodKeyFromDayKey(userLocalDay(row.date, offset), periodType) = key}

calculateTrends(rows, start, end, offset) ==
    LET type == TrendPeriod(start, end)
    IN  [key \in enumeratePeriodKeys(start, end, type, offset) |->
            [income |-> Total(Incomes(Bucket(rows, key, type, offset))),
             expenses |-> Total(Expenses(Bucket(rows, key, type, offset))),
             transactionCount |-> Cardinality(Bucket(rows, key, type, offset))]]

\* Slip: other thresholds than those of the trend it is merged into.
DiscretionaryByWeek(rows, start, end, offset) ==
    LET type == IF DaysBetween(start, end) <= 7 THEN "daily" ELSE "weekly"
    IN  [key \in enumeratePeriodKeys(start, end, type, offset) |->
            Total(Discretionary(Bucket(rows, key, type, offset)))]

calculateDiscretionaryTrends(rows, start, end, offset) ==
    LET type == TrendPeriod(start, end)
    IN  [key \in enumeratePeriodKeys(start, end, type, offset) |->
            Total(Discretionary(Bucket(rows, key, type, offset)))]

\* Points of the discretionary trend that the trend has no key for are lost.
MergedTrends(rows, start, end, offset) ==
    LET trends == calculateTrends(rows, start, end, offset)
        extra == calculateDiscretionaryTrends(rows, start, end, offset)
    IN  [key \in DOMAIN trends |->
            [expenses |-> trends[key].expenses, income |-> trends[key].income,
             discretionaryExpenses |-> IF key \in DOMAIN extra THEN extra[key] ELSE 0]]

\* As long as this one, to the moment before it starts.
PreviousRange(filter) ==
    [start |-> filter.start - 1 - (filter.end - filter.start), end |-> filter.start - 1]

\* The previous rows are not filtered by anything but the dates.
PreviousRows(all, filter) ==
    IF filter.start = NoDate \/ filter.end = NoDate THEN {}
    ELSE findMany(all, Dates(PreviousRange(filter).start, PreviousRange(filter).end), 0)

calculateAnalytics(rows, previous, filter, user, now) ==
    [totalIncome |-> Total(Incomes(rows)),
     totalExpenses |-> Total(Expenses(rows)),
     categoryBreakdown |->
        [c \in {row.category : row \in rows} \ {None} |-> Total({row \in rows : row.category = c})],
     monthlyTrends |-> IF filter.start = NoDate \/ filter.end = NoDate THEN << >>
                       ELSE MergedTrends(rows, filter.start, filter.end, user.offset),
     spendingVelocity |-> velocityStatus(rows, now),
     burnRateStatus |-> burnRateStatus(rows, user, now),
     previousPeriodExpenses |-> Total(Expenses(previous)),
     previousPeriodDiscretionary |-> Total(Discretionary(previous))]

getAnalytics(all, filter, user, now) ==
    calculateAnalytics(findMany(all, filter, 0), PreviousRows(all, filter), filter, user, now)

-------------------------------------------------------------------------------
(* getBillsAnalytics                                                          *)

Year == 365 * 24
Rejected == [error |-> "BadRequest"]

\* The explicit dates, else the pay period, else the calendar month.
BillRange(filter, user, now) ==
    IF filter.start # NoDate /\ filter.end # NoDate
    THEN IF filter.start > filter.end \/ filter.end - filter.start > Year THEN Rejected
         ELSE [start |-> filter.start, end |-> filter.end]
    ELSE IF user.nextPayDate # NoDate
    THEN LET period == calculatePayPeriodBoundaries(user.nextPayDate, user.frequency)
         IN  [start |-> 24 * period.start - user.offset, end |-> 24 * period.end + 23 - user.offset]
    ELSE LET month == MonthOf[Day(now)]
         IN  [start |-> 24 * FirstDay[month], end |-> 24 * (FirstDay[month] + DaysIn(month) - 1)]

\* Slip: overdue is what is stored so.
OverdueStored(bills, now) == {row \in bills : row.status = "OVERDUE"}

Overdue(bills, now) ==
    {row \in bills : row.status # "PAID" /\ row.due # NoDate /\ row.due < now}

getBillsAnalytics(all, filter, user, now) ==
    LET range == BillRange(filter, user, now) IN
    IF range = Rejected THEN Rejected ELSE
    LET bills == {row \in findMany(all, Dates(range.start, range.end), 0) :
                     row.due # NoDate \/ row.recurring}
        paid == {row \in bills : row.status = "PAID"}
        unpaid == {row \in bills : row.status = "UPCOMING"}
    IN  [bills |-> bills, paidBillsList |-> paid, unpaidBillsList |-> unpaid,
         overdueBillsList |-> Overdue(bills, now),
         upcomingBills |-> {row \in unpaid : row.due # NoDate /\ row.due \in now .. now + 7 * 24},
         totalAmount |-> Total(bills), paidAmount |-> Total(paid),
         unpaidAmount |-> Total(unpaid), overdueAmount |-> Total(Overdue(bills, now)),
         progress |-> IF Total(bills) > 0
                      THEN (200 * Total(paid) + Total(bills)) \div (2 * Total(bills)) ELSE 0]

-------------------------------------------------------------------------------
(* getDiscretionaryBreakdown: one day, week or month of unplanned spending.   *)

determinePeriodType(start, end) ==
    CASE DaysBetween(start, end) <= 1 -> "daily"
      [] DaysBetween(start, end) \in 2 .. 7 -> "weekly"
      [] OTHER -> "monthly"

\* The week and the month are those of the server: tagging an instant with the
\* user's time zone does not move it.
getWeekBoundariesInUserTimezone(date) ==
    [start |-> 24 * startOfWeek(Day(date)), end |-> 24 * startOfWeek(Day(date)) + 7 * 24 - 1]

getMonthBoundariesInUserTimezone(date) ==
    LET month == MonthOf[Day(date)]
    IN  [start |-> 24 * FirstDay[month], end |-> 24 * (FirstDay[month] + DaysIn(month)) - 1]

filterTransactionsForPeriod(rows, date, type, offset) ==
    LET period == IF type = "weekly" THEN getWeekBoundariesInUserTimezone(date)
                                     ELSE getMonthBoundariesInUserTimezone(date)
    IN  IF type = "daily"
        THEN {row \in rows : userLocalDay(row.date, offset) = userLocalDay(date, offset)}
        ELSE Between(rows, period.start, period.end)

\* setMonth runs over into the month it came from when the one before is shorter.
PreviousDate(date, type) ==
    CASE type = "daily" -> date - 24
      [] type = "weekly" -> date - 7 * 24
      [] OTHER -> 24 * SetMonth(Day(date), -1) + Hour(date)

calculatePreviousPeriodComparison(rows, date, type, offset) ==
    filterTransactionsForPeriod(rows, startOfDay(PreviousDate(date, type)), type, offset)

\* Rows without a category are in no line of the breakdown.
calculateCategoryBreakdown(rows) ==
    [c \in {row.category : row \in rows} \ {None} |-> Total({row \in rows : row.category = c})]

\* The spending of the parts of the day of calculateDiscretionarySummary.
spendingDistribution(rows) ==
    [morning |-> Total({row \in rows : Hour(row.date) \in 6 .. 11}),
     afternoon |-> Total({row \in rows : Hour(row.date) \in 12 .. 17}),
     evening |-> Total({row \in rows : Hour(row.date) \in 18 .. 23}),
     night |-> Total({row \in rows : Hour(row.date) \in 0 .. 5})]

calculateDiscretionarySummary(rows, breakdown) ==
    [transactionCount |-> Cardinality(rows),
     largestTransaction |-> IF rows = {} THEN 0 ELSE Max({row.amount : row \in rows}),
     topSpendingCategory |-> IF DOMAIN breakdown = {} THEN 0 ELSE Max({breakdown[c] : c \in DOMAIN breakdown}),
     spendingDistribution |-> spendingDistribution(rows)]

\* Which insights are shown: a category of more than 40 hundredths, a change of
\* more than a fifth since the previous period, many purchases, many small ones.
\* Rows without a category are no purchases.
generateDiscretionaryInsights(rows, breakdown, previous, type) ==
    LET purchases == Cardinality({row \in rows : row.category # None})
        change == Total(rows) - Total(previous)
    IN  [concentration |-> \E c \in DOMAIN breakdown : 100 * breakdown[c] > 40 * Total(rows),
         increase |-> Total(previous) > 0 /\ 5 * change > Total(previous),
         decrease |-> Total(previous) > 0 /\ -5 * change > Total(previous),
         frequent |-> type = "daily" /\ purchases > 5,
         small |-> purchases > 3 /\ Total(rows) < 10 * purchases]

getDiscretionaryBreakdown(all, start, end, offset) ==
    LET type == determinePeriodType(start, end)
        rows == Discretionary(findMany(all, Dates(start, end), 0))
        target == filterTransactionsForPeriod(rows, end, type, offset)
        breakdown == calculateCategoryBreakdown(target)
        previous == calculatePreviousPeriodComparison(rows, end, type, offset)
    IN  [selectedPeriod |-> type,
         totalDiscretionaryAmount |-> Total(target),
         transactions |-> target,
         categoryBreakdown |-> breakdown,
         previousPeriod |-> previous,
         insights |-> generateDiscretionaryInsights(target, breakdown, previous, type),
         summary |-> calculateDiscretionarySummary(target, breakdown)]

-------------------------------------------------------------------------------
(* getDayTimePatterns: when the unplanned spending happens.                   *)

isWeekend(weekday) == weekday \in {0, 6}

\* Slip: the hours as TIME_PERIODS lists them, where night ends before it starts.
PeriodOfTable(hour) ==
    CASE hour \in 6 .. 11 -> "MORNING" [] hour \in 12 .. 17 -> "AFTERNOON"
      [] hour \in 18 .. 21 -> "EVENING" [] OTHER -> IF hour >= 22 THEN "NIGHT" ELSE "NONE"

getTimePeriod(hour) ==
    CASE hour \in 6 .. 11 -> "MORNING" [] hour \in 12 .. 17 -> "AFTERNOON"
      [] hour \in 18 .. 21 -> "EVENING" [] OTHER -> "NIGHT"

\* Amounts per part P of Parts.
Breakdown(rows, Parts, PartOf(_)) ==
    [part \in Parts |-> Total({row \in rows : PartOf(row) = part})]

calculateWeekdayVsWeekendBreakdown(rows) ==
    Breakdown(rows, BOOLEAN, LAMBDA row : isWeekend(Weekday(Day(row.date))))

calculateDayOfWeekBreakdown(rows) ==
    Breakdown(rows, 0 .. 6, LAMBDA row : Weekday(Day(row.date)))

calculateTimeOfDayBreakdown(rows) ==
    Breakdown(rows, {"MORNING", "AFTERNOON", "EVENING", "NIGHT"}, LAMBDA row : getTimePeriod(Hour(row.date)))

calculateHourlyBreakdown(rows) == Breakdown(rows, 0 .. 23, LAMBDA row : Hour(row.date))

\* The part is more than, or at least, n hundredths of the whole.
MoreThan(n, part, whole) == 100 * part > n * whole
AtLeast(n, part, whole) == whole > 0 /\ 100 * part >= n * whole

calculateDayTimePatternSummary(rows) ==
    LET weekdays == calculateWeekdayVsWeekendBreakdown(rows)[FALSE]
        weekends == calculateWeekdayVsWeekendBreakdown(rows)[TRUE]
        evening == calculateTimeOfDayBreakdown(rows)["EVENING"]
    IN  [totalAmount |-> Total(rows),
         mostActiveDay |-> Greatest(calculateDayOfWeekBreakdown(rows)),
         peakSpendingHour |-> Greatest(calculateHourlyBreakdown(rows)),
         preference |-> CASE AtLeast(10, weekdays - weekends, Total(rows)) -> "weekdays"
                          [] AtLeast(10, weekends - weekdays, Total(rows)) -> "weekends"
                          [] OTHER -> "balanced",
         isHighImpulse |-> MoreThan(30, evening, Total(rows)) \/ MoreThan(40, weekends, Total(rows))]

\* Which insights are shown.
generateDayTimePatternInsights(rows) ==
    LET summary == calculateDayTimePatternSummary(rows)
        days == calculateDayOfWeekBreakdown(rows)
    IN  [weekend |-> MoreThan(40, calculateWeekdayVsWeekendBreakdown(rows)[TRUE], Total(rows)),
         evening |-> MoreThan(35, calculateTimeOfDayBreakdown(rows)["EVENING"], Total(rows)),
         peak |-> MoreThan(25, days[summary.mostActiveDay], Total(rows)),
         impulse |-> summary.isHighImpulse,
         balanced |-> summary.preference = "balanced"]

\* The previous period is this one moved by its length in days; unlike this
\* one it counts the bills, too.
calculateDayTimePreviousPeriod(all, start, end) ==
    LET days == 24 * DaysBetween(start, end)
    IN  Expenses(findMany(all, Dates(start - days, end - days), 0))

getDayTimePatterns(all, start, end) ==
    LET rows == Discretionary(findMany(all, Dates(start, end), 0))
    IN  [summary |-> calculateDayTimePatternSummary(rows),
         insights |-> generateDayTimePatternInsights(rows),
         weekdayVsWeekend |-> calculateWeekdayVsWeekendBreakdown(rows),
         dayOfWeekBreakdown |-> calculateDayOfWeekBreakdown(rows),
         timeOfDayBreakdown |-> calculateTimeOfDayBreakdown(rows),
         hourlyBreakdown |-> calculateHourlyBreakdown(rows),
         previousPeriod |-> Total(calculateDayTimePreviousPeriod(all, start, end))]
================================================================================
