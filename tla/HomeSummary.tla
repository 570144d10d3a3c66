------------------------------- MODULE HomeSummary -------------------------------
(****************************************************************************)
(* What HomeService.getSummary shows once the pay periods are up to date:   *)
(* the totals of the current period and the ledger of the income sources.   *)
(* The rows are those of Spending; a contribution is a record [id, goal,    *)
(* amount, date, type, source], a goal [id, active, completed, debt,        *)
(* minimumPayment, monthlyTarget], a source [id, active, rollover].  The    *)
(* user has, besides the fields of Spending, income and rollover.           *)
(****************************************************************************)
EXTENDS Earnings

Has(row, source) == row.source = source

-------------------------------------------------------------------------------
(* The parts of a period, each restricted to one pool: the rows of a source,  *)
(* or those that name none.                                                   *)

AdditionalIncome(rows, source, period) ==
    {row \in Between(Incomes(rows), period.start, period.end) : Has(row, source) /\ ~row.primary}

\* Paid bills by the day they were paid, the others by the day they are due.
Committed(rows, source, period) ==
    {row \in Expenses(rows) :
        /\ Has(row, source)
        /\ row.recurring \/ row.due # NoDate
        /\ IF row.status = "PAID" THEN row.date \in period.start .. period.end
                                  ELSE row.due # NoDate /\ row.due \in period.start .. period.end}

Unplanned(rows, source, period) ==
    {row \in Between(Discretionary(rows), period.start, period.end) :
        Has(row, source) /\ row.due = NoDate /\ row.status \in {"NONE", "PAID"}}

CashTypes == {"MANUAL", "AUTOMATIC", "TRANSACTION"}
CashContributions(contributions, source, period) ==
    {c \in Between(contributions, period.start, period.end) : Has(c, source) /\ c.type \in CashTypes}

-------------------------------------------------------------------------------
(* The card of the period.                                                    *)

\* The sources that no longer exist are in no breakdown line of their own.
calculateIncome(rows, user, period) ==
    [baseIncome |-> user.income,
     additionalIncome |-> Total(AdditionalIncome(rows, None, period)),
     totalInflow |-> user.income + Total(AdditionalIncome(rows, None, period)) + user.rollover,
     sources |-> {s \in {row.source : row \in Between(Incomes(rows), period.start, period.end)} : s # None}]

calculateCommitted(rows, period) ==
    LET rowsOfPeriod == Committed(rows, None, period)
    IN  [plannedTotal |-> Total(rowsOfPeriod),
         paidSoFar |-> Total({row \in rowsOfPeriod : row.status = "PAID"}),
         remaining |-> Total({row \in rowsOfPeriod : row.status # "PAID"}),
         items |-> rowsOfPeriod]

calculateDiscretionary(rows, period) == Total(Unplanned(rows, None, period))

\* The month's amount for one period, in 26ths.
prorateMonthlyAmount(amount, frequency) ==
    CASE frequency = "WEEKLY" -> 6 * amount [] frequency = "MONTHLY" -> 26 * amount [] OTHER -> 12 * amount

\* A goal that is completed plans nothing; a debt plans its minimum payment.
Planned(goal, frequency) ==
    CASE goal.completed -> 0
      [] ~goal.completed /\ goal.debt /\ goal.minimumPayment > 0 ->
             prorateMonthlyAmount(goal.minimumPayment, frequency)
      [] OTHER -> prorateMonthlyAmount(goal.monthlyTarget, frequency)

\* What was put into active goals: open ones, or completed in this period.
calculateGoals(goals, contributions, period, frequency) ==
    LET cash == CashContributions(contributions, None, period)
        shown == {goal \in goals : goal.active /\ (~goal.completed \/ \E c \in cash : c.goal = goal.id)}
        Paid(some) == Total({c \in cash : \E goal \in some : goal.id = c.goal})
        Plan(some) == SumFunction([goal \in some |-> Planned(goal, frequency)])
    IN  [paidSoFar |-> Paid(shown), plannedTotal |-> Plan(shown),
         debt |-> Paid({goal \in shown : goal.debt}), savings |-> Paid({goal \in shown : ~goal.debt})]

\* Left to spend: what came in, less the bills, the spending and the goals.
calculateTotals(income, committed, discretionary, goals) ==
    LET allocated == committed.plannedTotal + discretionary + goals.paidSoFar
    IN  [totalExpensesAllocated |-> allocated, leftToSpendSafe |-> income.totalInflow - allocated]

-------------------------------------------------------------------------------
(* The ledger: an entry for the salary and one for each source, unless it is  *)
(* paused and nothing moved.                                                  *)

\* Goals are not asked for here: a contribution counts whatever became of its goal.
breakdownFor(rows, contributions, source, period) ==
    LET committed == Total(Committed(rows, source, period))
        discretionary == Total(Unplanned(rows, source, period))
        goals == Total(CashContributions(contributions, source, period))
    IN  [committed |-> committed, discretionary |-> discretionary, goals |-> goals,
         spent |-> committed + discretionary + goals]

Entry(rows, contributions, source, carried, period) ==
    LET received == carried + Total(AdditionalIncome(rows, source, period))
        breakdown == breakdownFor(rows, contributions, source, period)
    IN  [id |-> source, received |-> received, spent |-> breakdown.spent,
         left |-> received - breakdown.spent]

SalaryEntry(rows, contributions, user, period) ==
    Entry(rows, contributions, None, user.income + user.rollover, period)

\* Slip: paused sources are left out even when they hold money.
ActiveOnly(rows, contributions, sources, period) ==
    {Entry(rows, contributions, source.id, source.rollover, period) : source \in {s \in sources : s.active}}

SourceEntries(rows, contributions, sources, period) ==
    {Entry(rows, contributions, source.id, source.rollover, period) :
        source \in {s \in sources :
            \/ s.active
            \/ Entry(rows, contributions, s.id, s.rollover, period).received # 0
            \/ Entry(rows, contributions, s.id, s.rollover, period).spent # 0}}

calculateIncomeLedger(rows, contributions, user, sources, period) ==
    IF sources = {} THEN {}
    ELSE {SalaryEntry(rows, contributions, user, period)} \union SourceEntries(rows, contributions, sources, period)

\* A user without a pay date or a frequency is shown zeros.
getEmptySummary == [leftToSpendSafe |-> 0, incomeLedger |-> {}]

getSummary(rows, contributions, goals, user, sources) ==
    IF user.nextPayDate = NoDate THEN getEmptySummary ELSE
    LET period == Instants(CurrentPeriod(user), user.offset)
        totals == calculateTotals(calculateIncome(rows, user, period), calculateCommitted(rows, period),
                      calculateDiscretionary(rows, period),
                      calculateGoals(goals, contributions, period, user.frequency))
    IN  [leftToSpendSafe |-> totals.leftToSpendSafe,
         incomeLedger |-> calculateIncomeLedger(rows, contributions, user, sources, period)]

-------------------------------------------------------------------------------
(* What a period leaves to carry over, of the salary or of one source.        *)

calculateAdditionalIncome(rows, source, period) == Total(AdditionalIncome(rows, source, period))

\* Slip: bills count whether they were paid or not.
ExpensesPlanned(rows, contributions, source, period) ==
    breakdownFor(rows, contributions, source, period).spent

\* Only what was paid.
calculatePreviousPeriodExpenses(rows, contributions, source, period) ==
    Total({row \in Committed(rows, source, period) : row.status = "PAID"})
        + Total(Unplanned(rows, source, period))
        + Total(CashContributions(contributions, source, period))

===============================================================================
