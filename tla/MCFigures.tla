-------------------------------- MODULE MCFigures --------------------------------
(****************************************************************************)
(* The tables of a user, filled entry by entry, and what the figures shown  *)
(* from them must agree on: home summary, rollover, forecast, analytics.    *)
(****************************************************************************)
EXTENDS Forecast, GoalFigures, Poker, TLC

CONSTANTS s1, s2,               \* the income sources
          food,                 \* a category
          MaxEntries, MaxGames, \* bounds: entries in the tables, in those of poker
          Days                  \* bound: days of the forecast

\* The null value is no identifier; two sources are two, and neither has the name of
\* another line of the income; the calendar has the days that the tables are about.
ASSUME FiguresAssumption ==
    /\ None \notin Entries \union {s1, s2} /\ s1 # s2
    /\ {"adhoc", "profile_income"} \intersect {s1, s2} = {}
    /\ Months > 17 /\ Days \in Nat

(* It is Sunday 26 May.  The next pay date is 31 May, also for a user paid by *)
(* the month, whose period starts on 30 April.                               *)
At(day) == 24 * day
Now == At(511) + 8
NextPay == 516
Users ==
    {[income |-> 5, rollover |-> 2, fixedExpenses |-> 1, frequency |-> f, nextPayDate |-> NextPay,
      offset |-> o, createdAt |-> At(470)] : f \in Frequencies, o \in {0, 10}}

Sources ==
    {[id |-> s1, active |-> TRUE, rollover |-> 1, amount |-> 3, frequency |-> "WEEKLY", nextPaymentDate |-> 513],
     [id |-> s2, active |-> FALSE, rollover |-> 1, amount |-> 3, frequency |-> "WEEKLY", nextPaymentDate |-> 513]}
Goals ==
    {[id |-> "open", active |-> TRUE, completed |-> FALSE, debt |-> TRUE, minimumPayment |-> 1, monthlyTarget |-> 0],
     [id |-> "done", active |-> TRUE, completed |-> TRUE, debt |-> FALSE, minimumPayment |-> 0, monthlyTarget |-> 2],
     [id |-> "off", active |-> FALSE, completed |-> FALSE, debt |-> FALSE, minimumPayment |-> 0, monthlyTarget |-> 2]}

(* The ranges of the analytics show days, weeks and months; one starts at the *)
(* user's midnight instead of the server's.                                  *)
Ranges ==
    {Dates(At(505), At(511) + 23), Dates(At(456), At(511) + 23), Dates(At(400), At(511) + 23),
     Dates(At(486) - 10, At(511) + 13)}
Filters ==
    Ranges \union {AnyFilter, Dates(NoDate, At(511)), Dates(At(508), NoDate),
                   [Dates(At(470), At(510)) EXCEPT !.type = "EXPENSE"],
                   [Dates(At(470), At(510)) EXCEPT !.category = food], IncomeRange(At(486), At(511))}

Row(type, amount, date, due, status, recurrence, category, source, primary) ==
    [id |-> <<type, amount, date, due, status, recurrence, category, source, primary>>, type |-> type,
     amount |-> amount, date |-> date, due |-> due, status |-> status, recurring |-> recurrence # None,
     recurrence |-> recurrence, category |-> category, source |-> source, primary |-> primary, text |-> None]

UnpaidBill(due, recurrence) ==
    Row("EXPENSE", 2, At(486), due, "UPCOMING", recurrence, food, None, FALSE)
BillOfSource == Row("EXPENSE", 2, At(486), At(512), "UPCOMING", "monthly", None, s1, FALSE)
PaidBill(date, source) == Row("EXPENSE", 2, date, At(515), "PAID", "monthly", food, source, FALSE)
StoredBill(due, status) == Row("EXPENSE", 2, At(506), due, status, "monthly", None, None, FALSE)
Purchase(date) == Row("EXPENSE", 9, date, NoDate, "NONE", None, food, None, FALSE)
SmallPurchase(status, source) == Row("EXPENSE", 1, At(510), NoDate, status, None, None, source, FALSE)
Payment(date, source) == Row("INCOME", 4, date, NoDate, "NONE", None, None, source, FALSE)
SalaryPayment == Row("INCOME", 5, At(510), NoDate, "NONE", None, None, None, TRUE)

\* Unpaid bills: overdue, in the period, on its last day at two hours, after it.
UnpaidBills ==
    {UnpaidBill(due, recurrence) :
        due \in {At(487), At(512), At(515), At(515) + 9, At(516)}, recurrence \in {"weekly", "monthly"}}
OtherBills ==
    {BillOfSource} \union {PaidBill(date, source) : date \in {At(484), At(510)}, source \in {None, s2}}
    \union {StoredBill(due, status) : due \in {At(503), At(514), NoDate}, status \in {"OVERDUE", "NONE"}}
Spent ==
    {Purchase(date) : date \in {At(400), At(456) + 5, At(486) - 3, At(504) + 23, At(508) + 21, At(511) + 5}}
    \union {SmallPurchase(status, source) : status \in {"NONE", "UPCOMING"}, source \in {None, s1}}
Earned ==
    {Payment(date, source) : date \in {At(472), At(498), At(509) - 5, At(510)}, source \in {None, s1, s2}}
    \union {SalaryPayment}

Contributions ==
    {[id |-> <<goal, type, source>>, goal |-> goal, amount |-> 1, date |-> At(510), type |-> type, source |-> source] :
        goal \in {"open", "done", "off"}, type \in {"MANUAL", "ROLLOVER"}, source \in {None, s1}}
    \union {[id |-> <<"open", date>>, goal |-> "open", amount |-> 2, date |-> date, type |-> "MANUAL", source |-> None] :
                date \in {At(455), At(485)}}

\* A savings goal at every amount, its flag as addContribution leaves it; the date
\* was last month, is within a month, is the same day of the next month some hours
\* too early or late enough, is two months away, or there is none.
GoalDates == {At(470), At(530), At(542), At(542) + 9, At(574)}
SavingsGoal(current, date) ==
    [id |-> "open", active |-> TRUE, completed |-> current >= 4, debt |-> FALSE, current |-> current, target |-> 4,
     targetDate |-> date, monthlyTarget |-> 1]
SavingsGoals == {SavingsGoal(current, date) : current \in 0 .. 5, date \in {NoDate} \union GoalDates}

\* Moves of a bill to days before, in and after the horizon; a purchase.
Plans ==
    {[id |-> <<bill.id, date>>, type |-> "BILL_CHANGE", linked |-> bill.id, amount |-> -2, date |-> date,
      previous |-> NoDate] : bill \in UnpaidBills, date \in {At(510), At(514), At(519)}}
    \union {[id |-> <<None, At(517)>>, type |-> "PURCHASE", linked |-> None, amount |-> -3, date |-> At(517),
             previous |-> At(513)]}

\* Tournaments with and without shared costs, events that win and lose, with an
\* add-on that was offered only, a re-buy that was not entered.
SharedCostsEntered == {0, 3}
Results ==
    {[buyIn |-> 2, reBuyAmount |-> reBuy, addOnAmount |-> 1, addOnPurchased |-> purchased, winnings |-> winnings] :
        reBuy \in {1, Null}, purchased \in BOOLEAN, winnings \in {0, 9}}
    \union {[buyIn |-> 2, reBuyAmount |-> Null, addOnAmount |-> Null, addOnPurchased |-> TRUE, winnings |-> 2]}

VARIABLES user, now, rows, contributions, plans
tables == <<user, now, rows, contributions, plans>>
vars == <<tables, pokerVars>>

Init ==
    /\ user \in Users
    /\ now = Now
    /\ rows = {} /\ contributions = {} /\ plans = {}
    /\ PokerInit

NotFull ==
    /\ Cardinality(rows) + Cardinality(contributions) + Cardinality(plans) < MaxEntries
    /\ tournaments \union events \union bankroll = {} /\ UNCHANGED pokerVars

AddRow(row) ==
    /\ NotFull /\ rows' = rows \union {row}
    /\ UNCHANGED <<user, now, contributions, plans>>

AddContribution(c) ==
    /\ NotFull /\ contributions' = contributions \union {c}
    /\ UNCHANGED <<user, now, rows, plans>>

AddPlan(plan) ==
    /\ NotFull /\ plans' = plans \union {plan}
    /\ UNCHANGED <<user, now, rows, contributions>>

\* The tables of poker are kept apart from those of the budget, which stay empty
\* meanwhile, for one of the users.
Play ==
    /\ PokerNext
    /\ rows \union contributions \union plans = {} /\ user = CHOOSE u \in Users : TRUE
    /\ Cardinality(tournaments') + Cardinality(events') + Cardinality(bankroll') <= MaxGames
    /\ UNCHANGED tables

Next ==
    \/ \E row \in UnpaidBills \union OtherBills \union Spent \union Earned : AddRow(row)
    \/ \E c \in Contributions : AddContribution(c)
    \/ \E plan \in Plans : AddPlan(plan)
    \/ Play

Spec == Init /\ [][Next]_vars

-------------------------------------------------------------------------------
(* What the figures must agree on.  \A x \in {e} gives the value of e a name,  *)
(* where a LET would compute it again at each use.                            *)
(*                                                                            *)
(* The summary, the rollover and the forecast.                                *)

Period == Instants(CurrentPeriod(user), user.offset)
Summary == getSummary(rows, contributions, Goals, user, Sources)
Bills == findRecurringUpcoming(rows)
Horizon == HorizonEnd(user, now, Days)
TheForecast == getForecast(rows, Summary, Sources, plans, user, now, Days, 0)

OfInactiveGoals == {c \in CashContributions(contributions, None, Period) :
    \E goal \in Goals : goal.id = c.goal /\ ~goal.active}

\* The ledger loses no money and shows none twice: its entries together are
\* everything that was carried or came in less everything that goes out, also
\* what belongs to a source that is paused (calculateIncomeLedger).
LedgerLosesNothing ==
    SumFunction([entry \in Summary.incomeLedger |-> entry.left]) =
        user.income + user.rollover + SumFunction([source \in Sources |-> source.rollover])
        + Total({row \in Incomes(rows) : row.date \in Period.start .. Period.end /\ ~row.primary})
        - Total(UNION {Committed(rows, source, Period) \union Unplanned(rows, source, Period) :
                          source \in {row.source : row \in rows}})
        - Total({c \in contributions : c.date \in Period.start .. Period.end /\ c.type \in CashTypes})

\* calculateIncomeLedger: "ledger entries always sum to the single spendable
\* total", the one that the card shows as left to spend.  It is not so: the total
\* leaves out what the sources hold (Findings, in the README).
LedgerIsTheTotal == SumFunction([entry \in Summary.incomeLedger |-> entry.left]) = Summary.leftToSpendSafe

\* What the period would carry over if it ended now is what is shown as left to
\* spend, once the unpaid bills of the period are given back and the money of
\* inactive goals is taken out: two separate queries over the same rows agree.
RolloverIsWhatWasLeft ==
    user.income + user.rollover + calculateAdditionalIncome(rows, None, Period)
            - calculatePreviousPeriodExpenses(rows, contributions, None, Period)
        = Summary.leftToSpendSafe - Total(OfInactiveGoals)
            + Total({row \in Committed(rows, None, Period) : row.status # "PAID"})

\* The times an occurrence of a bill is counted: as committed, and as an event.
Counted(bill, occurrence) ==
    (IF occurrence = bill.due /\ bill \in Committed(rows, bill.source, Period) THEN 1 ELSE 0)
        + Cardinality({e \in TheForecast.events : e.kind = "RECURRING_BILL" /\ e.id = bill.id /\ e.of = occurrence})

Moves(bill) == {plan \in BillChanges(plans) : plan.linked = bill.id}
Within(plan) == plan.date \in 24 * Today(user, now) - user.offset .. Horizon

\* An instant of the period before its first midnight or after its last, of the
\* server's clock, which are what getSummary tells the forecast of the period.
AtItsEdge(instant) ==
    /\ instant \in Period.start .. Period.end
    /\ instant \notin 24 * CurrentPeriod(user).start .. 24 * CurrentPeriod(user).end

\* An occurrence of a bill within the horizon is counted once, by the summary or
\* by the forecast, at any hour and on any clock, unless it is at the edge of the
\* period, a later one in it, or the one that a plan moves.
OccurrencesCounted ==
    \A bill \in Bills : \A o \in Occurrences(bill, Horizon) :
        /\ ~AtItsEdge(o)
        /\ IF o = bill.due THEN Moves(bill) = {} ELSE o \notin Period.start .. Period.end
        => Counted(bill, o) = 1

\* buildRecurringBillEvents: skip "occurrences already reflected in today's
\* starting balance", which the committed bills of the whole last day are.
NothingCountedTwice ==
    \A bill \in Bills : plans = {} => \A o \in Occurrences(bill, Horizon) : Counted(bill, o) <= 1

\* Skip "occurrences already reflected in today's starting balance", for which
\* "the common case (unattributed bills) is exact": every other occurrence has its
\* event.  The bills are due at midnight, the user is on the server's clock.
\* It is not so for a bill that comes twice in the period (Findings, in the README).
NothingMissed ==
    \A bill \in Bills : bill.source = None /\ Hour(bill.due) = 0 /\ user.offset = 0 /\ plans = {} =>
        \A o \in Occurrences(bill, Horizon) : Counted(bill, o) >= 1

\* Plans that move bills within the horizon, one for each bill and of its amount,
\* change what the forecast ends with by nothing; the other plans change it by
\* their amounts.  The bills are due at midnight, the user is on the server's clock.
MovesNoMoney ==
    ( /\ user.offset = 0
      /\ \A bill \in Bills : Cardinality(Moves(bill)) <= 1 /\ Hour(bill.due) = 0
      /\ \A plan \in BillChanges(plans) :
            Within(plan) /\ \E bill \in Bills :
                bill.id = plan.linked /\ plan.amount = -bill.amount /\ bill.due <= Horizon )
    => TheForecast.dailyBalances[Days] - TheForecast.baselineDailyBalances[Days]
           = SumFunction([plan \in {p \in plans \ BillChanges(plans) : Within(p)} |-> plan.amount])

\* The period found for a day contains it, and two days are in different periods
\* when a pay date lies between them.
PeriodsFound ==
    \A day \in Today(user, now) - Days .. Today(user, now) + Days :
        LET found == findPayPeriodContaining(day, user.nextPayDate, user.frequency)
            after == findPayPeriodContaining(day + 1, user.nextPayDate, user.frequency)
        IN  /\ found.start <= day /\ day <= found.end
            /\ day >= user.nextPayDate - 1 =>
                  (found # after <=> day + 1 \in expandPayDates(user.nextPayDate, user.frequency, day + 1))

\* A bill of every month comes at most once in a month, and no more than one
\* month is ever left out.
BillEveryMonth ==
    \A bill \in {row \in Bills : row.recurrence = "monthly"} :
        LET days == expandBillRecurrence(Day(bill.due), "monthly", LastDay - 62)
            months == {MonthOf[day] : day \in days}
        IN  /\ Cardinality(days) = Cardinality(months)
            /\ Cardinality(MonthOf[Day(bill.due)] .. MonthOf[LastDay - 62]) - Cardinality(months) <= 1

\* Dates by the month, at the end of a month: the walk to a period and the
\* recurrence of a bill come out right although each step may be cut short or
\* run over into the month after.
CalendarHolds == PeriodsFound /\ BillEveryMonth

-------------------------------------------------------------------------------
(* The analytics.                                                             *)

SumOver(f, Value(_)) == SumFunction([key \in DOMAIN f |-> Value(f[key])])

\* Rows that getAnalytics and its trends place on the same day of one calendar.
Aligned(listed) == user.offset = 0 /\ \A row \in listed : DateThatCounts(row) = row.date

\* The points of the trend add up to the totals of the range, and what was
\* spent without a plan, merged in from a trend of its own, to all of it; at no
\* point is it more than everything that was spent.
TrendsAddUp ==
    \A range \in Ranges :
        \A listed \in {findMany(rows, range, 0)}, analytics \in {getAnalytics(rows, range, user, now)} :
        LET trends == analytics.monthlyTrends
        IN  /\ \A key \in DOMAIN trends : trends[key].discretionaryExpenses <= trends[key].expenses
            /\ Aligned(listed) /\ range.start % 24 = 0 =>
                  /\ SumOver(trends, LAMBDA point : point.expenses) = analytics.totalExpenses
                  /\ SumOver(trends, LAMBDA point : point.income) = analytics.totalIncome
                  /\ SumOver(trends, LAMBDA point : point.discretionaryExpenses) = Total(Discretionary(listed))

\* Every way a period's unplanned spending is split adds up to all of it.
SplitsAddUp ==
    \A range \in Ranges :
        \A patterns \in {getDayTimePatterns(rows, range.start, range.end)},
           breakdown \in {getDiscretionaryBreakdown(rows, range.start, range.end, user.offset)} :
        LET parts == breakdown.summary.spendingDistribution
        IN  /\ \A split \in {patterns.timeOfDayBreakdown, patterns.dayOfWeekBreakdown, patterns.hourlyBreakdown,
                             patterns.weekdayVsWeekend} :
                  SumFunction(split) = patterns.summary.totalAmount
            /\ parts.morning + parts.afternoon + parts.evening + parts.night = breakdown.totalDiscretionaryAmount
            /\ SumFunction(breakdown.categoryBreakdown)
                   = Total({row \in breakdown.transactions : row.category # None})

\* The number of pages agrees with the rows that are listed, for every filter
\* but a search for text: count and findMany repeat the same conditions.
CountsWhatItLists ==
    \A filter \in Filters : count(rows, filter, user.offset) = Cardinality(findMany(rows, filter, user.offset))

\* A bill is listed as overdue when it is shown as such, unless it is stored so
\* and not due yet: two places decide it.
OverdueAgrees ==
    LET bills == getBillsAnalytics(rows, AnyFilter, user, now)
    IN  \A row \in bills.bills :
            row \in bills.overdueBillsList <=>
                /\ calculateTransactionStatus(row, now) = "OVERDUE"
                /\ row.status = "OVERDUE" => row.due # NoDate /\ row.due < now

\* A row is in the period or in the one it is compared with, never in both, and
\* the two leave no day out between them, for ranges of whole days.
PreviousAbuts ==
    \A range \in {r \in Ranges : r.start % 24 = 0} :
        LET period == findMany(rows, range, 0)
            previous == PreviousRows(rows, range)
        IN  /\ period \intersect previous = {}
            /\ {row \in rows : /\ DateThatCounts(row) \in range.start - 24 .. range.end
                               /\ ~row.primary} \subseteq period \union previous

\* What is decided in two places is decided alike: which rows a filter matches,
\* which bills are overdue, and where a period ends and the one before begins.
ListsAgree == CountsWhatItLists /\ OverdueAgrees /\ PreviousAbuts

\* The income of the period is the same by source, by kind and as a total; a
\* source that is deleted after the rows were read is ad-hoc to the one and still
\* recurring to the other.  The pay periods of the year share no income and lose
\* none.
IncomeAddsUp ==
    /\ \A found \in {{s1, s2}, {s1}} :
          \A analytics \in {getIncomeAnalytics(rows, user, found, Dates(At(486), now), now)} :
          LET listed == InThePeriod(RelevantIncome(rows, user), CurrentPeriod(user), user.offset)
              bySource == analytics.incomeBySource
              kinds == analytics.incomeBreakdown
          IN  /\ SumFunction(bySource) = analytics.totalIncomeThisPayPeriod
              /\ kinds.recurring + kinds.adhoc = analytics.totalIncomeThisPayPeriod
              /\ (IF "adhoc" \in DOMAIN bySource THEN bySource["adhoc"] ELSE 0)
                     = kinds.adhoc + Total({row \in listed : row.source # None /\ row.source \notin found})
    /\ \A year \in {calculateHighestEarningPeriod(rows, user)} :
       LET first == Instants(PayPeriodsBack(user)[year.periodsConsidered], user.offset)
       IN  year.totalIncomeAcrossPeriods = Total(Between(Incomes(rows), first.start, Period.end))

\* The rates belong to the user, not to the range that is looked at: a range
\* that holds the last week has the burn rate of all rows, one that holds the
\* month before the velocity of all rows, while one that starts this month has
\* nothing to compare with and is on track.  The burn rate is called too high
\* exactly when there is a day on which the money runs out.
RatesAgree ==
    /\ (burnRateStatus(rows, user, now) \in {"HIGH", "CRITICAL"} /\ YearlyCapacity(user) > 0)
           <=> daysUntilBudgetExceeded(rows, user, now) # None
    /\ \A range \in {r \in Ranges : r.end >= now /\ Aligned(Expenses(rows))} :
          \A analytics \in {getAnalytics(rows, range, user, now)} :
              /\ range.start <= now - 7 * 24 => analytics.burnRateStatus = burnRateStatus(rows, user, now)
              /\ range.start <= 24 * FirstDay[MonthOf[Day(now)] - 1] =>
                    analytics.spendingVelocity = velocityStatus(rows, now)
              /\ range.start >= 24 * FirstDay[MonthOf[Day(now)]] => analytics.spendingVelocity = "ON_TRACK"

\* However the spending of a range is shown, it is all of it, once, and its rates
\* are those of the user.
SpendingAgrees == TrendsAddUp /\ SplitsAddUp /\ RatesAgree

-------------------------------------------------------------------------------
(* Goals and poker.                                                           *)

\* A goal is on track exactly when it is projected to be reached by its date, or in
\* a month if the date is nearer or past: the one is decided by an amount a month,
\* the other by rounding months up.  The list and the analytics ask for the same
\* amount a month; of a goal due in less than a month the list asks for none.  What
\* was contributed is the same by month and by kind.  A milestone that one
\* contribution has reached is not projected, too.
GoalAgrees(goal) ==
    \A analytics \in {getGoalAnalytics(goal, contributions, now)},
       listed \in {transformGoalToResponse(goal, contributions, now)} :
    LET made == Of(goal, contributions)
        progress == analytics.monthlyProgress
        months == differenceInMonths(goal.targetDate, now)
    IN  /\ SumFunction(analytics.contributionSources) = Total(made)
        /\ made # {} => progress[Max(DOMAIN progress)].cumulativeAmount = Total(made)
        /\ goal.targetDate # NoDate =>
              /\ listed.requiredMonthlyContribution =
                     IF months >= 1 THEN analytics.requiredMonthlyContribution ELSE NoFraction
              /\ made # {} => (analytics.isOnTrack <=> analytics.projectedCompletion <= Max({1, months}))
        /\ goal.current = Total(made) =>
              \A p \in DOMAIN analytics.milestones :
                  \/ analytics.milestones[p].achievedAt = NoDate
                  \/ analytics.milestones[p].projectedDate = None

\* The two summaries of all goals, one by the flags and one by the amounts, are
\* the same for savings goals that are active.
SummariesAgree ==
    \A goals \in SUBSET {goal \in SavingsGoals : goal.targetDate = NoDate} :
        getGoalsSummary(goals) = getOverallAnalytics(goals)

\* What is told of a goal, in the list, in its analytics and in the two summaries,
\* is computed in four places and agrees.
GoalsAgree == SummariesAgree /\ \A goal \in SavingsGoals : GoalAgrees(goal)

\* The results of all tournaments, for which the shared costs of a tournament count
\* once however many events it has ("counting trip costs" once), are those of the
\* tournaments one by one, from the service and from SQL.
ResultsAgree ==
    \A stats \in {getUserPokerStats} :
        /\ \A t \in tournaments :
              \A dto \in {transformTournamentToDto(t)}, row \in {getTournamentStats(t)} :
                  \A field \in DOMAIN dto : dto[field] = row[field]
        /\ stats.netProfit = Added(tournaments, LAMBDA t : transformTournamentToDto(t).netProfit)
        /\ stats.totalEventsWon = Added(tournaments, LAMBDA t : transformTournamentToDto(t).eventsWon)

\* Whoever takes out what is suggested is not told to take out more, and has left
\* what the code means to leave: the profit ("pull any remaining at-risk capital,
\* let profit ride") or the capital ("keep your capital riding").
SuggestedOnce ==
    \A before \in {getBankroll(bankroll)} :
        LET withdrawal == [id |-> None, type |-> "WITHDRAWAL", amount |-> before.suggestedWithdrawal]
        IN  before.suggestedWithdrawal > 0 => \A after \in {getBankroll(bankroll \union {withdrawal})} :
            /\ after.suggestedWithdrawal = 0
            /\ before.status = "FREEROLL" =>
                  after.capitalAtRisk = 0 /\ after.currentBankroll = getUserPokerStats.netProfit
            /\ before.status = "IN_PROFIT" => after.currentBankroll = OfType(bankroll, "DEPOSIT")

\* Poker's three ways to a result agree, and so does the bankroll built on one.
BankrollAgrees == ResultsAgree /\ SuggestedOnce
================================================================================
