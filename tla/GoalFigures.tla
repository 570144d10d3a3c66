------------------------------- MODULE GoalFigures -------------------------------
(****************************************************************************)
(* What GoalsService tells of a goal and of all goals: progress, what is    *)
(* needed a month, projections, milestones.  A goal is a record [id, active, *)
(* completed, debt, current, target, targetDate, monthlyTarget], its        *)
(* contributions are records [id, goal, amount, date, type, source].  An    *)
(* amount a month is a fraction <<amount, months>>.                         *)
(****************************************************************************)
EXTENDS HomeSummary

NoFraction == <<0, 0>>          \* undefined
FractionAtLeast(a, b) == a[1] * b[2] >= b[1] * a[2]

\* Whole months between two instants, negative for a date that is past.  The later
\* one is moved by the months between the two, late February as its thirtieth, which
\* runs over into March; the last month is whole if it does not pass the other, or
\* if it is the only one and ends a month.
differenceInMonths(later, earlier) ==
    LET month == MonthOf[Day(later)]
        sign == IF later >= earlier THEN 1 ELSE -1
        apart == sign * (month - MonthOf[Day(earlier)])
        day == IF month % 12 = 1 /\ DayOfMonth(Day(later)) > 27 THEN FirstDay[month] + 29 ELSE Day(later)
        moved == 24 * SetMonth(day, -(sign * apart)) + Hour(later)
        endsMonth == later > earlier /\ apart = 1 /\ DayOfMonth(Day(later)) = DaysIn(month)
    IN  sign * (IF apart >= 1 /\ sign * moved < sign * earlier /\ ~endsMonth THEN apart - 1 ELSE apart)

Of(goal, contributions) == {c \in contributions : c.goal = goal.id}

-------------------------------------------------------------------------------
(* getGoalAnalytics                                                           *)

\* What was contributed in each month, and the sum up to it.  The amount of a
\* withdrawal is positive, too.
calculateMonthlyProgress(made) ==
    LET contributed(month) == Total({c \in made : MonthOf[Day(c.date)] = month})
    IN  [month \in {MonthOf[Day(c.date)] : c \in made} |->
            [contributed |-> contributed(month),
             cumulativeAmount |-> Total({c \in made : MonthOf[Day(c.date)] <= month})]]

calculateAverageMonthlyContribution(made) ==
    IF made = {} THEN <<0, 1>>
    ELSE LET dates == {c.date : c \in made}
         IN  <<Total(made), Max({1, differenceInMonths(Max(dates), Min(dates)) + 1})>>

\* Slip: the last month, which is not a whole one, is left out.
RoundedDown(current, target, average) ==
    IF average[1] <= 0 THEN None ELSE ((target - current) * average[2]) \div average[1]

\* The months to go from now, None if there is no end.
calculateProjectedCompletion(current, target, average) ==
    IF average[1] <= 0 THEN None ELSE -((-(target - current) * average[2]) \div average[1])

calculateContributionSources(made) ==
    [type \in {c.type : c \in made} |-> Total({c \in made : c.type = type})]

\* Reached by one contribution, not by all of them.
calculateMilestones(goal, made) ==
    [percentage \in {25, 50, 75, 90, 100} |->
        LET large == {c.date : c \in {c \in made : 100 * c.amount >= percentage * goal.target}}
        IN  [achievedAt |-> IF large = {} THEN NoDate ELSE Min(large),
             projectedDate |->
                IF 100 * goal.current < percentage * goal.target
                THEN calculateProjectedCompletion(100 * goal.current, percentage * goal.target,
                        <<100 * Total(made), calculateAverageMonthlyContribution(made)[2]>>)
                ELSE None]]

getGoalAnalytics(goal, contributions, now) ==
    LET made == Of(goal, contributions)
        average == calculateAverageMonthlyContribution(made)
        required == IF goal.targetDate = NoDate THEN NoFraction
                    ELSE <<Max({0, goal.target - goal.current}),
                           Max({1, differenceInMonths(goal.targetDate, now)})>>
    IN  [monthlyProgress |-> calculateMonthlyProgress(made),
         averageMonthlyContribution |-> average,
         requiredMonthlyContribution |-> required,
         projectedCompletion |-> calculateProjectedCompletion(goal.current, goal.target, average),
         isOnTrack |-> required[1] = 0 \/ FractionAtLeast(average, required),
         contributionSources |-> calculateContributionSources(made),
         milestones |-> calculateMilestones(goal, made)]

-------------------------------------------------------------------------------
(* The list of goals and its two summaries.                                   *)

\* Here a goal is on track when its amount, shared among its contributions, is
\* the monthly target at least.
transformGoalToResponse(goal, contributions, now) ==
    LET contributionCount == Cardinality(Of(goal, contributions))
        remaining == Max({0, goal.target - goal.current})
        months == IF goal.targetDate = NoDate THEN 0 ELSE differenceInMonths(goal.targetDate, now)
        average == IF contributionCount > 0 THEN <<goal.current, contributionCount>> ELSE <<0, 1>>
    IN  [remainingAmount |-> remaining,
         requiredMonthlyContribution |-> IF months > 0 THEN <<remaining, months>> ELSE NoFraction,
         averageMonthlyContribution |-> average,
         isOnTrack |-> goal.monthlyTarget = 0 \/ FractionAtLeast(average, <<goal.monthlyTarget, 1>>)]

\* Tally by a condition.
Tally(goals, Completed(_)) ==
    [totalGoals |-> Cardinality(goals),
     activeGoals |-> Cardinality({goal \in goals : ~Completed(goal)}),
     completedGoals |-> Cardinality({goal \in goals : Completed(goal)}),
     totalTargetAmount |-> SumFunction([goal \in goals |-> goal.target]),
     totalCurrentAmount |-> SumFunction([goal \in goals |-> goal.current])]

\* By the flag, of the active goals.
getGoalsSummary(goals) == Tally({goal \in goals : goal.active}, LAMBDA goal : goal.completed)

\* By the amounts, of all goals: a debt begins as completed.
getOverallAnalytics(goals) == Tally(goals, LAMBDA goal : goal.current >= goal.target)
================================================================================
