------------------------------ MODULE PayCalendar ------------------------------
(****************************************************************************)
(* The calendar arithmetic of DateService and of the bill recurrences.  A   *)
(* date is the number of its day; day 0 is the first of January of a year   *)
(* before a leap year.  Pay dates are moved by date-fns, which keeps to the *)
(* end of a shorter month; bills by JavaScript's setMonth, which runs over  *)
(* into the month after.                                                    *)
(****************************************************************************)
EXTENDS Integers, Sequences

CONSTANT Months     \* bound: the calendar has months 0 .. Months

ASSUME PayCalendarAssumption == Months \in Nat

Frequencies == {"WEEKLY", "FORTNIGHTLY", "MONTHLY"}
Recurrences == {"weekly", "fortnightly", "monthly", "quarterly", "sixmonths", "yearly"}

\* Lengths of the months of a common year.
Lengths == <<31, 28, 31, 30, 31, 30, 31, 31, 30, 31, 30, 31>>
DaysIn(month) == IF month % 48 = 13 THEN 29 ELSE Lengths[(month % 12) + 1]

\* FirstDay[m]: the first day of month m.
FirstDay[m \in 0 .. Months] == IF m = 0 THEN 0 ELSE FirstDay[m - 1] + DaysIn(m - 1)
LastDay == FirstDay[Months] + DaysIn(Months) - 1

MonthOf == [day \in 0 .. LastDay |->
    CHOOSE m \in 0 .. Months : FirstDay[m] <= day /\ day < FirstDay[m] + DaysIn(m)]
DayOfMonth(day) == day - FirstDay[MonthOf[day]] + 1

\* addMonths, subMonths of date-fns.
AddMonths(day, n) ==
    LET month == MonthOf[day] + n
    IN  FirstDay[month] + (IF DayOfMonth(day) > DaysIn(month) THEN DaysIn(month) ELSE DayOfMonth(day)) - 1

\* setMonth: the first of that month and the days gone in the month of the date.
SetMonth(day, n) == FirstDay[MonthOf[day] + n] + DayOfMonth(day) - 1

-------------------------------------------------------------------------------
(* Pay dates and periods.                                                    *)

calculatePreviousPayDate(day, frequency) ==
    CASE frequency = "WEEKLY" -> day - 7
      [] frequency = "FORTNIGHTLY" -> day - 14
      [] OTHER -> AddMonths(day, -1)

calculateNextPayDateFromCurrent(day, frequency) ==
    CASE frequency = "WEEKLY" -> day + 7
      [] frequency = "FORTNIGHTLY" -> day + 14
      [] OTHER -> AddMonths(day, 1)

\* The dates from seed on that Advance leads to, up to the horizon; at most 60.
Expand(seed, Advance(_), horizon) ==
    LET within == 0 .. horizon
        from[n \in 1 .. 60] == [day \in within |->
            {day} \union (IF n > 1 /\ Advance(day) \in within THEN from[n - 1][Advance(day)] ELSE {})]
    IN  IF seed \in within THEN from[60][seed] ELSE {}

expandPayDates(seed, frequency, horizon) ==
    Expand(seed, LAMBDA day : calculateNextPayDateFromCurrent(day, frequency), horizon)

\* From the previous pay date to the day before the next one.
calculatePayPeriodBoundaries(next, frequency) ==
    [start |-> calculatePreviousPayDate(next, frequency), end |-> next - 1]

\* The period before it.
calculatePreviousPayPeriodBoundaries(next, frequency) ==
    LET start == calculatePreviousPayDate(next, frequency)
    IN  [start |-> calculatePreviousPayDate(start, frequency), end |-> start - 1]

shouldTransitionPayPeriod(next, today) == today >= next

\* Where a walk of at most MaxWalk steps of Advance from a day on meets the goal.
MaxWalk == 500
Walk(start, Advance(_), Goal(_)) ==
    LET from[day \in Int, n \in 0 .. MaxWalk] ==
            IF n = 0 \/ Goal(day) THEN day ELSE from[Advance(day), n - 1]
    IN  from[start, MaxWalk]

\* Slip: the walk goes forward only.
FindForward(target, next, frequency) ==
    calculatePayPeriodBoundaries(
        Walk(next, LAMBDA day : calculateNextPayDateFromCurrent(day, frequency),
                   LAMBDA day : target <= calculatePayPeriodBoundaries(day, frequency).end),
        frequency)

\* Forward to the first period that ends late enough, then back to the first
\* that starts early enough.
findPayPeriodContaining(target, next, frequency) ==
    LET ahead == Walk(next, LAMBDA day : calculateNextPayDateFromCurrent(day, frequency),
                      LAMBDA day : target <= calculatePayPeriodBoundaries(day, frequency).end)
        anchor == Walk(ahead, LAMBDA day : calculatePreviousPayDate(day, frequency),
                       LAMBDA day : target >= calculatePayPeriodBoundaries(day, frequency).start)
    IN  calculatePayPeriodBoundaries(anchor, frequency)

-------------------------------------------------------------------------------
(* Bills.                                                                     *)

\* Slip: every recurrence by months counts thirty days a month.
AdvanceByThirty(day, recurrence) ==
    CASE recurrence = "weekly" -> day + 7
      [] recurrence = "fortnightly" -> day + 14
      [] OTHER -> day + 30

advanceByBillRecurrence(day, recurrence) ==
    CASE recurrence = "weekly" -> day + 7
      [] recurrence = "fortnightly" -> day + 14
      [] recurrence = "quarterly" -> SetMonth(day, 3)
      [] recurrence = "sixmonths" -> SetMonth(day, 6)
      [] recurrence = "yearly" -> SetMonth(day, 12)
      [] OTHER -> SetMonth(day, 1)

expandBillRecurrence(seed, recurrence, horizon) ==
    Expand(seed, LAMBDA day : advanceByBillRecurrence(day, recurrence), horizon)
================================================================================
