-------------------------------- MODULE Ledger --------------------------------
(****************************************************************************)
(* The money rows of one user (transactions and goal contributions), seen   *)
(* only through the aggregates that HomeService runs over them: "the sum of *)
(* the amounts of one pool dated from day lo to day hi".  A pool is an      *)
(* income source, or the salary pool of rows that name no source.           *)
(*                                                                          *)
(* A pool's rows are kept as their running total by date: total[d] is the   *)
(* sum of everything dated on day d or before, income counted positively    *)
(* and paid expenses negatively.  The aggregate over lo..hi is then the     *)
(* difference of two running totals.                                        *)
(****************************************************************************)
EXTENDS Integers

CONSTANT MaxDay        \* the last day of the model's calendar

ASSUME MaxDayIsNat == MaxDay \in Nat

Day == 0 .. MaxDay

EmptyTotal == [d \in Day |-> 0]

\* A row of the given amount, dated day, joins the pool.
Insert(total, day, amount) ==
    [d \in Day |-> IF d >= day THEN total[d] + amount ELSE total[d]]

\* All rows of one pool join another (a foreign key set to NULL).
Merge(total, other) == [d \in Day |-> total[d] + other[d]]

UpTo(total, d) == IF d < 0 THEN 0 ELSE total[d]

\* The aggregate WHERE date >= lo AND date <= hi.
Between(total, lo, hi) == UpTo(total, hi) - UpTo(total, lo - 1)

\* Slip: overspending is carried forward as a debt.
WithDebt(x) == x

\* Math.max(0, x)
AtLeastZero(x) == IF x > 0 THEN x ELSE 0
===============================================================================
