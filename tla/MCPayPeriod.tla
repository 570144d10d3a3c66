------------------------------ MODULE MCPayPeriod ------------------------------
(* Bounded instances of PayPeriod, and the properties that need a reference  *)
(* calculation to be stated.                                                 *)
EXTENDS PayPeriod, TLC

\* Requests are alike.
RequestSymmetry == Permutations(Requests)

\* Amounts of the rows the user enters: overspending, and extra income.
SmallRows == {-3, 2}

\* In an instance where the user enters no pay date after the first.
FirstPayDate == CHOOSE d \in PayDates : TRUE

\* The rollover a pool with these running totals should carry when the next
\* pay date is d: each period from the second on adds its salary and its rows
\* to what the one before it left, and starts again from nothing when that is
\* overspent.
CarriedBy(salary, frequency, total) ==
    LET carried[d \in Nat] ==
          IF d <= FirstPayDate + frequency
          THEN 0
          ELSE AtLeastZero(salary + carried[d - frequency]
                           + Between(total, d - 2 * frequency, d - frequency - 1))
    IN  carried

Carried(p) == CarriedBy(IF p = Salary THEN user.income ELSE 0, user.frequency, net[p])

(* Whichever requests close the periods, in whatever order their reads and    *)
(* writes fall, and wherever one of them dies, the rollover of the user row   *)
(* and of every source is the one that belongs to the next pay date in the    *)
(* user row: what all the periods before it, each counted once, have left.    *)
RolloverIsCarried == \A p \in Pools : rollover[p] = Carried(p)[user.nextPayDate]

(* No pay date is passed without its Primary Income row and, when something   *)
(* was left over, its RolloverEntry: getSummary's loop closes every period    *)
(* that was missed, one by one.                                               *)
NoPeriodSkipped ==
    \A d \in Day :
        /\ d >= FirstPayDate
        /\ (d - FirstPayDate) % user.frequency = 0
        /\ d < user.nextPayDate
        => /\ user.income > 0 => salaryRows[d] > 0
           /\ (d > FirstPayDate /\ Carried(Salary)[d + user.frequency] > 0) => history[d] > 0

(* A banner on show tells what its own period left over, also when an older  *)
(* request republishes that period, or dismisses it late.                    *)
BannerTruthful ==
    \A p \in Pools :
        banner[p].shown =>
            banner[p].amount = Carried(p)[banner[p].period + user.frequency]

(* However long the user was away, opening the app brings the schedules of   *)
(* the salary and of every active source past the current day, in spite of    *)
(* the cap on the periods and payments that one request handles, of requests  *)
(* that die, and of requests that put the pay date back to where they saw it. *)
CatchesUp ==
    today = MaxDay ~> /\ user.nextPayDate > MaxDay
                      /\ \A s \in LiveSources :
                            source[s].isActive => source[s].nextPaymentDate > MaxDay

(* A pay date has one Primary Income row.                                     *)
SalaryOnce == \A d \in Day : salaryRows[d] <= 1

(* When a request closes a period, the source payments dated in it exist, as  *)
(* long as neither cap is reached: materializeDueTransactions runs before the *)
(* transition for this.                                                       *)
PaymentsBeforeRollover ==
    \A r \in Requests : pc[r] \in {"sources", "sums", "commit"} =>
        \A s \in LiveSources :
            source[s].nextPaymentDate >= mine[r].row.nextPayDate
================================================================================
