-------------------------------- MODULE Earnings --------------------------------
(****************************************************************************)
(* The income analytics of TransactionsService: totals, sources and the pay *)
(* periods of about a year, computed from the rows of Spending.             *)
(****************************************************************************)
EXTENDS Spending

-------------------------------------------------------------------------------
(* getIncomeAnalytics                                                         *)

IncomeOf(all, from, to) == findMany(all, IncomeRange(from, to), 0)

Instants(period, offset) == [start |-> 24 * period.start - offset, end |-> 24 * period.end + 23 - offset]

\* The income of a period, out of rows fetched for more than that.
InThePeriod(rows, period, offset) ==
    Between(rows, Instants(period, offset).start, Instants(period, offset).end)

CurrentPeriod(user) == calculatePayPeriodBoundaries(user.nextPayDate, user.frequency)
PreviousPeriod(user) == calculatePreviousPayPeriodBoundaries(user.nextPayDate, user.frequency)

RelevantIncome(all, user) ==
    IncomeOf(all, Instants(PreviousPeriod(user), user.offset).start, Instants(CurrentPeriod(user), user.offset).end)

totalIncomeThisPayPeriod(all, user) ==
    Total(InThePeriod(RelevantIncome(all, user), CurrentPeriod(user), user.offset))
totalIncomePreviousPayPeriod(all, user) ==
    Total(InThePeriod(RelevantIncome(all, user), PreviousPeriod(user), user.offset))

\* The last anniversary of the account and the day a year before it.
Anniversary(user, now) ==
    LET this == MonthOf[Day(now)] - (MonthOf[Day(now)] % 12) + (MonthOf[Day(user.createdAt)] % 12)
        date(month) == 24 * (FirstDay[month] + DayOfMonth(Day(user.createdAt)) - 1)
    IN  IF date(this) > now THEN date(this - 12) ELSE date(this)

totalIncomeYTD(all, user, now) == Total(IncomeOf(all, Anniversary(user, now), now))
lifetimeTotalIncome(all, user, now) == Total(IncomeOf(all, user.createdAt, now))

\* Slip: the salary is a source of its own and ad-hoc income as well.
SourceOrAdhoc(row, sources) ==
    IF row.source \in sources THEN row.source ELSE "adhoc"

\* The line of a row: the salary, a source that still exists, or ad-hoc.
LineOf(row, sources) ==
    CASE row.primary -> "profile_income"
      [] ~row.primary /\ row.source \in sources -> row.source
      [] OTHER -> "adhoc"

incomeBySource(rows, sources) ==
    [line \in {LineOf(row, sources) : row \in rows} |-> Total({row \in rows : LineOf(row, sources) = line})]

incomeBreakdown(rows) ==
    [recurring |-> Total({row \in rows : row.source # None \/ row.primary}),
     adhoc |-> Total({row \in rows : row.source = None /\ ~row.primary})]

getIncomeAnalytics(all, user, sources, month, now) ==
    LET current == IncomeOf(all, month.start, month.end)
        rows == IF user.nextPayDate = NoDate THEN current
                ELSE InThePeriod(RelevantIncome(all, user), CurrentPeriod(user), user.offset)
    IN  [totalIncomeThisMonth |-> Total(current),
         totalIncomeThisPayPeriod |->
            IF user.nextPayDate = NoDate THEN 0 ELSE totalIncomeThisPayPeriod(all, user),
         totalIncomeThisWeek |-> Total({row \in current : row.date >= now - 7 * 24}),
         totalIncomeYTD |-> totalIncomeYTD(all, user, now),
         lifetimeTotalIncome |-> lifetimeTotalIncome(all, user, now),
         incomeBySource |-> incomeBySource(rows, sources),
         incomeBreakdown |-> incomeBreakdown(rows)]

-------------------------------------------------------------------------------
(* calculateHighestEarningPeriod: the pay periods of about a year.           *)

maxPeriods(frequency) == CASE frequency = "WEEKLY" -> 52 [] frequency = "MONTHLY" -> 12 [] OTHER -> 26

\* cursor[i]: the pay date that ends period i, going back.
PayDatesBack(user) ==
    LET cursor[i \in 1 .. maxPeriods(user.frequency) + 1] ==
            IF i = 1 THEN user.nextPayDate ELSE calculatePreviousPayDate(cursor[i - 1], user.frequency)
    IN  cursor

\* No period from before the account is among them.
PayPeriodsBack(user) ==
    LET cursor == PayDatesBack(user)
        late == {i \in 1 .. maxPeriods(user.frequency) :
                    Instants(calculatePayPeriodBoundaries(cursor[i], user.frequency), user.offset).end >= user.createdAt}
    IN  [i \in late |-> calculatePayPeriodBoundaries(cursor[i], user.frequency)]

\* The income of each period.
periodTotals(all, user) ==
    LET periods == PayPeriodsBack(user)
        rows == IncomeOf(all, Instants(periods[Cardinality(DOMAIN periods)], user.offset).start,
                              Instants(periods[1], user.offset).end)
    IN  [i \in DOMAIN periods |-> Total(InThePeriod(rows, periods[i], user.offset))]

calculateHighestEarningPeriod(all, user) ==
    LET totals == periodTotals(all, user)
        sum == SumFunction(totals)
    IN  [period |-> Greatest(totals), totalAmount |-> totals[Greatest(totals)],
         totalIncomeAcrossPeriods |-> sum, periodsConsidered |-> Cardinality(DOMAIN totals)]
================================================================================
