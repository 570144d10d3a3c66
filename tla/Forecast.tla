-------------------------------- MODULE Forecast --------------------------------
(****************************************************************************)
(* CashFlowEngineService.getForecast: the balance of the next days, from    *)
(* what the home summary shows today, the income still to come, the bills   *)
(* and the plans.  The rows have one more field, recurrence.  A source has  *)
(* amount, frequency and nextPaymentDate; a plan is a record [id, type,     *)
(* linked, amount, date, previous], its amount negative for an outflow.     *)
(* Pay dates are days, stored as midnight of the server's (UTC) clock.      *)
(****************************************************************************)
EXTENDS HomeSummary

Today(user, now) == userLocalDay(now, user.offset)
HorizonEnd(user, now, days) == 24 * (Today(user, now) + days) + 23 - user.offset

\* An event has the day it is shown on and the occurrence it stands for.
Event(kind, id, of, day, amount) == [kind |-> kind, id |-> id, of |-> of, day |-> day, amount |-> amount]

-------------------------------------------------------------------------------
(* Income: every pay date up to the horizon.                                  *)

PayDays(kind, id, amount, nextDate, frequency, horizon) ==
    {Event(kind, id, 24 * day, day, amount) : day \in expandPayDates(nextDate, frequency, Day(horizon))}

buildPrimaryIncomeEvents(user, horizon) ==
    IF user.income = 0 \/ user.nextPayDate = NoDate THEN {}
    ELSE PayDays("PRIMARY_INCOME", None, user.income, user.nextPayDate, user.frequency, horizon)

buildIncomeSourceEvents(sources, horizon) ==
    UNION {PayDays("INCOME_SOURCE", s.id, s.amount, s.nextPaymentDate, s.frequency, horizon) :
              s \in {source \in sources : source.active}}

-------------------------------------------------------------------------------
(* Bills.                                                                     *)

findRecurringUpcoming(rows) ==
    {row \in rows : row.status = "UPCOMING" /\ row.due # NoDate /\ row.recurring}

\* Every occurrence keeps the hour of the first.
Occurrences(bill, horizon) ==
    {o \in {24 * day + Hour(bill.due) : day \in expandBillRecurrence(Day(bill.due), bill.recurrence, Day(horizon))} :
        o <= horizon}

\* Slip: whatever is due before the period ends is taken as committed.
BeforePeriodEnd(instant, user, now) == instant <= 24 * CurrentPeriod(user).end

\* Due in the current period, which here ends as its last day starts: the
\* summary gives the two days without a time.  Without a pay date it is today.
InCurrentPeriod(instant, user, now) ==
    IF user.nextPayDate = NoDate THEN instant = startOfDay(now)
    ELSE instant \in 24 * CurrentPeriod(user).start .. 24 * CurrentPeriod(user).end

\* The plans that move one occurrence of a bill.
BillChanges(plans) == {plan \in plans : plan.type = "BILL_CHANGE" /\ plan.linked # None}

\* The occurrence a plan moves is the bill's own due date.
MovedAway(bill, occurrence, changes) ==
    /\ \E plan \in changes : plan.linked = bill.id
    /\ Day(occurrence) = Day(bill.due)

\* Slip: a moved bill stays where it was, too.
NeverMoved(bill, user, now, horizon, changes) ==
    {Event("RECURRING_BILL", bill.id, o, IF o < 24 * Today(user, now) - user.offset THEN Today(user, now) ELSE Day(o),
           -bill.amount) :
        o \in {d \in Occurrences(bill, horizon) : ~InCurrentPeriod(d, user, now)}}

\* What is overdue is shown today.
BillEvents(bill, user, now, horizon, changes) ==
    {Event("RECURRING_BILL", bill.id, o, IF o < 24 * Today(user, now) - user.offset THEN Today(user, now) ELSE Day(o),
           -bill.amount) :
        o \in {d \in Occurrences(bill, horizon) : ~InCurrentPeriod(d, user, now) /\ ~MovedAway(bill, d, changes)}}

buildRecurringBillEvents(bills, user, now, horizon, changes) ==
    UNION {BillEvents(bill, user, now, horizon, changes) : bill \in bills}

\* What the plans take out of the current period's bills is added back.
billChangeAdjustment(bills, plans, user, now) ==
    SumFunction([plan \in BillChanges(plans) |->
        Total({bill \in bills : bill.id = plan.linked /\ InCurrentPeriod(bill.due, user, now)})])

\* A plan of the past, or beyond the horizon, is not shown.
buildPlanEvents(plans, user, now, horizon) ==
    {Event("PLAN", plan.id, plan.date, Day(plan.date), plan.amount) :
        plan \in {p \in plans : p.date \in 24 * Today(user, now) - user.offset .. horizon}}

-------------------------------------------------------------------------------
(* The projection.                                                            *)

Sum(events) == SumFunction([event \in events |-> event.amount])

\* balances[i]: at the end of the i-th day from today.
buildDailyBalances(events, start, today, days) ==
    LET balances[i \in 0 .. days] ==
            (IF i = 0 THEN start ELSE balances[i - 1]) + Sum({e \in events : e.day = today + i})
    IN  balances

\* What is left to spend and what is left of the sources.
baseTodaysBalance(summary) ==
    summary.leftToSpendSafe
        + SumFunction([entry \in {e \in summary.incomeLedger : e.id # None} |-> entry.left])

breaches(balances, buffer) ==
    IF buffer = None THEN {} ELSE {i \in DOMAIN balances : balances[i] < buffer}

\* For each plan: the commitments within three days of it, and whether it is
\* now in another pay period than before.
buildInsights(plans, bills, events, balances, baseline, user, now) ==
    LET original(plan) ==
            LET linked == {bill \in bills : plan.type = "BILL_CHANGE" /\ bill.id = plan.linked}
                real == IF linked # {} THEN (CHOOSE bill \in linked : TRUE).due ELSE plan.previous
            IN  IF real = NoDate \/ Day(real) >= Today(user, now) THEN real ELSE 24 * Today(user, now) - user.offset
        period(instant) == findPayPeriodContaining(userLocalDay(instant, user.offset), user.nextPayDate, user.frequency)
    IN  [clustering |-> [plan \in plans |-> Cardinality({e \in events :
                            /\ e.amount < 0
                            /\ e.kind # "PLAN"
                            /\ e.day \in Day(plan.date) - 3 .. Day(plan.date) + 3})],
         shifts |-> {plan \in plans : /\ original(plan) # NoDate
                                      /\ user.nextPayDate # NoDate
                                      /\ period(original(plan)).start # period(plan.date).start},
         risk |-> CASE plans = {} -> None
                    [] plans # {} /\ (\A i \in DOMAIN balances : balances[i] >= 0) -> "positive"
                    [] OTHER -> IF \A i \in DOMAIN baseline : baseline[i] >= 0 THEN "warning" ELSE None]

getForecast(rows, summary, sources, plans, user, now, days, buffer) ==
    LET horizon == HorizonEnd(user, now, days)
        bills == findRecurringUpcoming(rows)
        income == buildPrimaryIncomeEvents(user, horizon) \union buildIncomeSourceEvents(sources, horizon)
        baselineEvents == income \union buildRecurringBillEvents(bills, user, now, horizon, {})
        events == income \union buildRecurringBillEvents(bills, user, now, horizon, BillChanges(plans))
                         \union buildPlanEvents(plans, user, now, horizon)
        start == baseTodaysBalance(summary)
        daily == buildDailyBalances(events, start + billChangeAdjustment(bills, plans, user, now), Today(user, now), days)
        baseline == buildDailyBalances(baselineEvents, start, Today(user, now), days)
    IN  [events |-> events, dailyBalances |-> daily, baselineDailyBalances |-> baseline,
         breaches |-> breaches(daily, buffer), baselineBreaches |-> breaches(baseline, buffer),
         insights |-> buildInsights(plans, bills, events, daily, baseline, user, now)]
===============================================================================
