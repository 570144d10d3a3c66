--------------------------- MODULE MCPayPeriod_proofs ---------------------------
(****************************************************************************)
(* Proofs of the properties that compare the pay periods with a reference   *)
(* calculation, for any calendar, pay cycle, income and rows of the user.   *)
(****************************************************************************)
EXTENDS MCPayPeriod, PayPeriod_proofs, FiniteSetTheorems

\* The user edits nothing but the ledger, and dates no row back; everybody
\* starts from one pay date.
Undisturbed ==
    /\ MaxEdits = 0 /\ BackDays = 0
    /\ \A d \in PayDates : d = FirstPayDate

OneRequest == \A q, r \in Requests : q = r

\* The pools whose rollover is exact: the salary pool under any concurrency,
\* the sources when one request at a time books and closes.
Uncapped == OneRequest /\ MaxOccurrences > MaxDay
Tracked == IF Uncapped THEN Pools ELSE {Salary}

-------------------------------------------------------------------------------
(* The reference calculation.                                                 *)

\* Induction: a non-empty set of numbers has a least one, because the subsets
\* of a finite set are well-founded under inclusion.
LEMMA LeastNumber ==
  ASSUME NEW T \in SUBSET Nat, T # {}
  PROVE  \E n \in T : \A m \in T : n <= m
<1>1. PICK top \in T : TRUE
  OBVIOUS
<1> DEFINE Below == FiniteSubsetsOf(0 .. top)
           starts == {0 .. m : m \in {k \in T : k <= top}}
<1>2. IsWellFoundedOn(StrictSubsetOrdering(0 .. top), Below)
  BY FS_StrictSubsetOrderingWellFounded
<1>3. starts \subseteq Below
  <2>1. ASSUME NEW m \in T, m <= top PROVE 0 .. m \in Below
    <3>1. IsFiniteSet(0 .. m)
      BY FS_Interval
    <3> QED
      BY <2>1, <3>1 DEF FiniteSubsetsOf
  <2> QED
    BY <2>1
<1>4. starts # {}
  BY <1>1
<1>5. PICK I \in starts : \A J \in starts : <<J, I>> \notin StrictSubsetOrdering(0 .. top)
  <2> HIDE DEF Below, starts
  <2> QED
    BY <1>2, <1>3, <1>4, WFMin
<1>6. PICK n \in T : n <= top /\ I = 0 .. n
  BY <1>5
<1>7. ASSUME NEW m \in T, m < n PROVE FALSE
  <2>1. 0 .. m \in starts
    BY <1>6, <1>7
  <2>2. /\ 0 .. m \subseteq 0 .. n /\ 0 .. m # 0 .. n
        /\ 0 .. m \subseteq 0 .. top /\ 0 .. n \subseteq 0 .. top
    BY <1>6, <1>7
  <2> QED
    BY <1>5, <1>6, <2>1, <2>2 DEF StrictSubsetOrdering
<1> QED
  BY <1>7

\* What a table of carried rollovers says of pay date d.
CarriedStep(table, salary, frequency, total, d) ==
    IF d <= FirstPayDate + frequency
    THEN 0
    ELSE AtLeastZero(salary + table[d - frequency]
                     + Between(total, d - 2 * frequency, d - frequency - 1))

\* c is such a table up to pay date n.
IsTable(c, n, salary, frequency, total) ==
    \A d \in 0 .. n : c[d] = CarriedStep(c, salary, frequency, total, d)

\* Totals of the same rows before a day.
AgreeBefore(total, other, day) == \A x \in Nat : x < day => total[x] = other[x]

\* Two calculations over totals that agree before a day agree on every pay date
\* whose last closed period ended by then.
LEMMA TablesAgree ==
  ASSUME NEW frequency \in Nat \ {0}, FirstPayDate \in Nat, NEW salary,
         NEW total, NEW other, NEW day \in Int,
         AgreeBefore(total, other, day),
         NEW n \in Nat, NEW c, NEW e,
         IsTable(c, n, salary, frequency, total), IsTable(e, n, salary, frequency, other)
  PROVE  \A d \in 0 .. n : d - frequency <= day => c[d] = e[d]
<1> DEFINE apart == {d \in 0 .. n : d - frequency <= day /\ c[d] # e[d]}
<1> SUFFICES ASSUME apart # {} PROVE FALSE
  OBVIOUS
<1>1. PICK m \in apart : \A k \in apart : m <= k
  <2>1. apart \in SUBSET Nat
    OBVIOUS
  <2> HIDE DEF apart
  <2> QED
    BY <2>1, LeastNumber
<1>2. c[m] = CarriedStep(c, salary, frequency, total, m)
      /\ e[m] = CarriedStep(e, salary, frequency, other, m)
  BY <1>1 DEF IsTable
<1>3. m > FirstPayDate + frequency
  BY <1>1, <1>2 DEF CarriedStep
<1>4. m - frequency \in 0 .. n /\ m - frequency < m /\ m - frequency - frequency <= day
  BY <1>1, <1>3
<1>5. c[m - frequency] = e[m - frequency]
  BY <1>1, <1>4
<1>6. \A x \in Int : x < day => UpTo(total, x) = UpTo(other, x)
  BY DEF UpTo, AgreeBefore
<1>7. Between(total, m - 2 * frequency, m - frequency - 1)
      = Between(other, m - 2 * frequency, m - frequency - 1)
  BY <1>1, <1>4, <1>6 DEF Between
<1> QED
  BY <1>1, <1>2, <1>3, <1>5, <1>7 DEF CarriedStep

\* Each prefix of the table exists.
LEMMA TableExists ==
  ASSUME NEW frequency \in Nat \ {0}, FirstPayDate \in Nat, NEW salary, NEW total,
         NEW n \in Nat
  PROVE  \E c : IsTable(c, n, salary, frequency, total)
<1> DEFINE Built(m) == \E c : IsTable(c, m, salary, frequency, total)
           unbuilt == {m \in Nat : ~Built(m)}
<1> SUFFICES ASSUME unbuilt # {} PROVE FALSE
  OBVIOUS
<1>1. PICK m \in unbuilt : \A k \in unbuilt : m <= k
  <2> HIDE DEF Built
  <2> QED
    BY LeastNumber
<1>2. CASE m = 0
  <2> DEFINE c == [d \in Nat |-> 0]
  <2>1. IsTable(c, 0, salary, frequency, total)
    BY DEF IsTable, CarriedStep
  <2> QED
    BY <1>1, <1>2, <2>1
<1>3. CASE m > 0
  <2>1. PICK c : IsTable(c, m - 1, salary, frequency, total)
    BY <1>1, <1>3
  <2> DEFINE longer == [d \in Nat |-> IF d = m THEN CarriedStep(c, salary, frequency, total, m)
                                      ELSE c[d]]
  <2>2. ASSUME NEW d \in 0 .. m
        PROVE  longer[d] = CarriedStep(longer, salary, frequency, total, d)
    <3>1. d > FirstPayDate + frequency => longer[d - frequency] = c[d - frequency]
      OBVIOUS
    <3>2. CarriedStep(longer, salary, frequency, total, d) = CarriedStep(c, salary, frequency, total, d)
      BY <3>1 DEF CarriedStep
    <3> HIDE DEF longer
    <3>3. longer[d] = CarriedStep(c, salary, frequency, total, d)
      BY <2>1 DEF longer, IsTable
    <3> QED
      BY <3>2, <3>3
  <2>3. Built(m)
    <3> HIDE DEF longer
    <3> QED
      BY <2>2 DEF IsTable
  <2> QED
    BY <1>1, <2>3
<1> QED
  BY <1>1, <1>2, <1>3

\* The recursive definition has the meaning it seems to have.
LEMMA CarriedUnfolds ==
  ASSUME NEW frequency \in Nat \ {0}, FirstPayDate \in Nat, NEW salary, NEW total
  PROVE  \A d \in Nat : CarriedBy(salary, frequency, total)[d]
                        = CarriedStep(CarriedBy(salary, frequency, total), salary, frequency, total, d)
<1> DEFINE Good(c, n) == IsTable(c, n, salary, frequency, total)
           prefix(n) == CHOOSE c : Good(c, n)
           table == [d \in Nat |-> prefix(d)[d]]
<1>1. \A n \in Nat : Good(prefix(n), n)
  <2>1. \A n \in Nat : \E c : Good(c, n)
    BY TableExists
  <2> HIDE DEF Good
  <2> QED
    BY <2>1
<1>2. ASSUME NEW n \in Nat, NEW d \in 0 .. n PROVE prefix(n)[d] = prefix(d)[d]
  <2> DEFINE one == prefix(n) two == prefix(d)
  <2>1. IsTable(one, n, salary, frequency, total) /\ IsTable(two, d, salary, frequency, total)
    BY <1>1
  <2> HIDE DEF prefix, one, two
  <2>2. /\ d \in Nat /\ d \in Int /\ d \in 0 .. d /\ d - frequency <= d
        /\ AgreeBefore(total, total, d)
    BY DEF AgreeBefore
  <2>3. IsTable(one, d, salary, frequency, total)
    BY <2>1 DEF IsTable
  <2>4. \A k \in 0 .. d : k - frequency <= d => one[k] = two[k]
    BY <2>1, <2>2, <2>3, TablesAgree
  <2> QED
    BY <2>2, <2>4 DEF one, two
<1>3. ASSUME NEW d \in Nat
      PROVE  table[d] = CarriedStep(table, salary, frequency, total, d)
  <2> DEFINE one == prefix(d)
  <2>1. one[d] = CarriedStep(one, salary, frequency, total, d)
    BY <1>1 DEF IsTable
  <2>2. d > FirstPayDate + frequency => one[d - frequency] = table[d - frequency]
    <3> SUFFICES ASSUME d > FirstPayDate + frequency
                 PROVE  one[d - frequency] = table[d - frequency]
      OBVIOUS
    <3>1. d - frequency \in 0 .. d /\ d - frequency \in Nat
      OBVIOUS
    <3> HIDE DEF prefix
    <3> QED
      BY <1>2, <3>1
  <2> HIDE DEF one, prefix
  <2>3. table[d] = one[d]
    BY DEF one
  <2> HIDE DEF table
  <2> QED
    BY <2>1, <2>2, <2>3 DEF CarriedStep
<1>4. table = [d \in Nat |-> CarriedStep(table, salary, frequency, total, d)]
  <2>1. table = [d \in Nat |-> table[d]]
    OBVIOUS
  <2> HIDE DEF table
  <2> QED
    BY <1>3, <2>1
<1> DEFINE carried == CarriedBy(salary, frequency, total)
<1>5. carried = [d \in Nat |-> CarriedStep(carried, salary, frequency, total, d)]
  <2> HIDE DEF table
  <2> QED
    BY <1>4 DEF CarriedBy, CarriedStep
<1> HIDE DEF carried
<1> QED
  BY <1>5 DEF carried

LEMMA CarriedFirst ==
  ASSUME NEW frequency \in Nat \ {0}, FirstPayDate \in Nat, NEW salary, NEW total,
         NEW d \in Nat, d <= FirstPayDate + frequency
  PROVE  CarriedBy(salary, frequency, total)[d] = 0
  BY CarriedUnfolds DEF CarriedStep

\* One period further: what was carried, the salary and the rows of the period.
LEMMA CarriedNext ==
  ASSUME NEW frequency \in Nat \ {0}, FirstPayDate \in Nat, NEW salary, NEW total,
         NEW d \in Nat, d > FirstPayDate
  PROVE  CarriedBy(salary, frequency, total)[d + frequency]
         = AtLeastZero(salary + CarriedBy(salary, frequency, total)[d]
                       + Between(total, d - frequency, d - 1))
<1> DEFINE table == CarriedBy(salary, frequency, total)
<1>1. d + frequency \in Nat
  OBVIOUS
<1>2. table[d + frequency] = CarriedStep(table, salary, frequency, total, d + frequency)
  BY <1>1, CarriedUnfolds
<1> HIDE DEF table
<1>3. /\ ~(d + frequency <= FirstPayDate + frequency)
      /\ d + frequency - frequency = d
      /\ d + frequency - 2 * frequency = d - frequency
  OBVIOUS
<1>4. table[d + frequency] = AtLeastZero(salary + table[d] + Between(total, d - frequency, d - 1))
  BY <1>2, <1>3 DEF CarriedStep
<1> QED
  BY <1>4 DEF table

\* Rows dated from a day on do not change what was carried before.
LEMMA CarriedStable ==
  ASSUME NEW frequency \in Nat \ {0}, FirstPayDate \in Nat, NEW salary,
         NEW total, NEW other, NEW day \in Int, AgreeBefore(total, other, day),
         NEW d \in Nat, d - frequency <= day
  PROVE  CarriedBy(salary, frequency, total)[d] = CarriedBy(salary, frequency, other)[d]
<1> DEFINE one == CarriedBy(salary, frequency, total)
           two == CarriedBy(salary, frequency, other)
<1>1. \A k \in Nat : one[k] = CarriedStep(one, salary, frequency, total, k)
  BY CarriedUnfolds
<1>2. \A k \in Nat : two[k] = CarriedStep(two, salary, frequency, other, k)
  BY CarriedUnfolds
<1> HIDE DEF one, two
<1>3. IsTable(one, d, salary, frequency, total) /\ IsTable(two, d, salary, frequency, other)
  BY <1>1, <1>2 DEF IsTable
<1>4. \A k \in 0 .. d : k - frequency <= day => one[k] = two[k]
  BY <1>3, TablesAgree
<1> QED
  BY <1>4 DEF one, two

LEMMA InsertAgrees ==
  ASSUME NEW total \in [Day -> Int], NEW day \in Day, NEW amount
  PROVE  AgreeBefore(total, Insert(total, day, amount), day)
  BY MaxDayIsNat DEF AgreeBefore, Insert, Day

-------------------------------------------------------------------------------
(* The inductive invariant: what the tables say, and what a request holds.    *)

Closing(r) == pc[r] \in {"sources", "sums", "commit"}

\* The user row, and a copy of it however old: a period is closed only after
\* it has ended.
Row(row) ==
    /\ row.frequency = user.frequency /\ row.income = user.income
    /\ row.nextPayDate >= FirstPayDate
    /\ row.settled <=> row.nextPayDate > FirstPayDate
    /\ row.settled => row.nextPayDate - row.frequency <= today

\* The pay dates before n have their rows.
OnPayCycle(d) == d >= FirstPayDate /\ (d - FirstPayDate) % user.frequency = 0

Recorded(n) ==
    /\ OnPayCycle(n)
    /\ \A d \in Day : OnPayCycle(d) /\ d < n =>
          /\ d <= today
          /\ user.income > 0 => salaryRows[d] > 0
          /\ (d > FirstPayDate /\ Carried(Salary)[d + user.frequency] > 0) => history[d] > 0

UserRow ==
    /\ FirstPayDate \in PayDates
    /\ Row(user)
    /\ Recorded(user.nextPayDate)
    /\ \A p \in Tracked : rollover[p] = Carried(p)[user.nextPayDate]

\* A banner on show is about a period that is over.
Banners ==
    \A p \in Tracked : banner[p].shown =>
        /\ banner[p].period <= today
        /\ banner[p].amount = Carried(p)[banner[p].period + user.frequency]
        /\ Uncapped => user.settled /\ banner[p].period + user.frequency <= user.nextPayDate

\* With one request at a time a pay date that is to come has no row yet.
SalaryRows ==
    OneRequest => \A d \in Day : salaryRows[d] <= IF d < user.nextPayDate THEN 1 ELSE 0

\* No source payment that is still to be booked falls in a closed period.
SourceRows ==
    Uncapped =>
        /\ \A s \in LiveSources :
              /\ source[s].isActive
              /\ user.settled => source[s].nextPaymentDate >= user.nextPayDate - user.frequency
        /\ \A s \in Sources \ LiveSources : rollover[s] = 0 /\ net[s] = EmptyTotal

\* A request's copy of the user row, and the rollover beside it.
Held(r) ==
    pc[r] # "idle" =>
        /\ Row(mine[r].row)
        /\ Recorded(mine[r].row.nextPayDate)
        /\ mine[r].rollover = Carried(Salary)[mine[r].row.nextPayDate]
        /\ OneRequest => mine[r].row = user

\* What it is about to write.
Result(r) ==
    Closing(r) =>
        /\ mine[r].row.settled
        /\ totals[r][Salary] = Carried(Salary)[mine[r].row.nextPayDate + user.frequency]
        /\ pc[r] # "sources" => pools[r] \subseteq Sources

SourceResults(r) ==
    /\ pc[r] = "sums" =>
          /\ pools[r] = LiveSources
          /\ \A s \in LiveSources : totals[r][s] = Carried(s)[user.nextPayDate]
    /\ pc[r] = "commit" =>
          /\ pools[r] = LiveSources
          /\ \A s \in LiveSources : totals[r][s] = Carried(s)[user.nextPayDate + user.frequency]

\* What it has booked, and has yet to book.
PaidUp(s, r) == source[s].nextPaymentDate > mine[r].day

Booking(r) ==
    /\ run[r].todo \subseteq LiveSources
    /\ \A s \in run[r].todo : run[r].seen[s] = source[s]
    /\ run[r].cursor # NoSource =>
          /\ run[r].cursor \in LiveSources \ run[r].todo
          /\ run[r].due = source[run[r].cursor].nextPaymentDate
          /\ run[r].iterations <= run[r].due
    /\ \A s \in LiveSources : s \notin run[r].todo /\ s # run[r].cursor => PaidUp(s, r)

Solo(r) ==
    Uncapped =>
        /\ pc[r] # "idle" => mine[r].day <= today /\ today <= mine[r].day + 1
        /\ pc[r] = "book" => Booking(r)
        /\ pc[r] = "check" \/ Closing(r) => \A s \in LiveSources : PaidUp(s, r)
        /\ SourceResults(r)

Tables == UserRow /\ Banners /\ SalaryRows /\ SourceRows
Request(r) == Held(r) /\ Result(r) /\ Solo(r)

Exact == Tables /\ \A r \in Requests : Request(r)

-------------------------------------------------------------------------------
(* Pay dates.                                                                 *)

LEMMA PayCycleNext ==
  ASSUME NEW f \in Nat \ {0}, NEW a \in Nat, a % f = 0
  PROVE  (a + f) % f = 0
<1> DEFINE i == a \div f
           j == (a + f) \div f
           m == (a + f) % f
<1>1. /\ i \in Int /\ j \in Int /\ m \in Int
      /\ a = f * i /\ a + f = f * j + m /\ 0 <= m /\ m < f
  BY SMT
<1> HIDE DEF i, j, m
<1>2. f * (i + 1 - j) = m
  BY <1>1, SMT
<1>3. i + 1 - j < 1
  BY <1>1, <1>2, SMT
<1>4. i + 1 - j > -1
  BY <1>1, <1>2, SMT
<1>5. i + 1 - j = 0
  BY <1>1, <1>3, <1>4
<1>6. m = 0
  BY <1>2, <1>5
<1> QED
  BY <1>6 DEF m

LEMMA PayCycleApart ==
  ASSUME NEW f \in Nat \ {0}, NEW a \in Nat, NEW b \in Nat, a % f = 0, b % f = 0, a < b
  PROVE  a + f <= b
<1>1. a = f * (a \div f) /\ b = f * (b \div f)
  BY SMT
<1> DEFINE i == a \div f j == b \div f
<1>2. i \in Int /\ j \in Int
  BY SMT
<1> HIDE DEF i, j
<1>3. a = f * i /\ b = f * j
  BY <1>1 DEF i, j
<1>4. i < j
  BY <1>2, <1>3, SMT
<1>5. f * (i + 1) <= f * j
  BY <1>2, <1>4, SMT
<1> QED
  BY <1>2, <1>3, <1>5, SMT

-------------------------------------------------------------------------------
(* What does not change.                                                      *)

LEMMA Cycle ==
  ASSUME SummaryInv, UserRow
  PROVE  /\ user.frequency \in Nat \ {0} /\ user.income \in Nat /\ user.nextPayDate \in Nat
         /\ FirstPayDate \in Nat /\ today \in Nat /\ today <= MaxDay
  BY PayPeriodAssumption, MaxDayIsNat
     DEF SummaryInv, TypeOK, User, UserRow, SourcesTypeOK, Day

LEMMA CarriedKept ==
  ASSUME SummaryInv, UserRow,
         user'.frequency = user.frequency, user'.income = user.income,
         NEW p \in Pools, NEW day \in Int, AgreeBefore(net[p], net'[p], day),
         NEW d \in Nat, d - user.frequency <= day
  PROVE  Carried(p)'[d] = Carried(p)[d]
<1>1. ASSUME NEW salary
      PROVE  CarriedBy(salary, user.frequency, net[p])[d]
             = CarriedBy(salary, user.frequency, net'[p])[d]
  BY Cycle, CarriedStable
<1> QED
  BY <1>1 DEF Carried

\* A pool without rows, and without a salary, carries nothing.
LEMMA CarriedNothing ==
  ASSUME NEW frequency \in Nat \ {0}, FirstPayDate \in Nat,
         NEW d \in Nat, d - frequency <= MaxDay
  PROVE  CarriedBy(0, frequency, EmptyTotal)[d] = 0
<1> DEFINE table == CarriedBy(0, frequency, EmptyTotal)
           some == {k \in Nat : k - frequency <= MaxDay /\ table[k] # 0}
<1>1. \A k \in Nat : table[k] = CarriedStep(table, 0, frequency, EmptyTotal, k)
  BY CarriedUnfolds
<1> SUFFICES ASSUME some # {} PROVE FALSE
  OBVIOUS
<1>2. PICK m \in some : \A k \in some : m <= k
  <2>1. some \in SUBSET Nat
    OBVIOUS
  <2> HIDE DEF some
  <2> QED
    BY <2>1, LeastNumber
<1> HIDE DEF table
<1>3. table[m] = CarriedStep(table, 0, frequency, EmptyTotal, m) /\ table[m] # 0
  BY <1>1, <1>2
<1>4. m > FirstPayDate + frequency
  BY <1>3 DEF CarriedStep
<1>5. m - frequency \in Nat /\ m - frequency < m /\ m - frequency - frequency <= MaxDay
  BY <1>2, <1>4, MaxDayIsNat
<1>6. table[m - frequency] = 0
  BY <1>2, <1>5
<1>7. /\ UpTo(EmptyTotal, m - frequency - 1) = 0
      /\ UpTo(EmptyTotal, m - 2 * frequency - 1) = 0
  BY <1>2, <1>4, MaxDayIsNat DEF UpTo, EmptyTotal, Day
<1> QED
  BY <1>3, <1>4, <1>6, <1>7 DEF CarriedStep, AtLeastZero, Between

\* The pay dates that have their rows keep them.
LEMMA RecordedKept ==
  ASSUME SummaryInv, UserRow, NEW n \in Nat, Recorded(n),
         user'.frequency = user.frequency, user'.income = user.income, today' \in Nat, today <= today',
         AgreeBefore(net[Salary], net'[Salary], today),
         \A d \in Day : salaryRows'[d] \in Nat /\ salaryRows'[d] >= salaryRows[d],
         \A d \in Day : history'[d] \in Nat /\ history'[d] >= history[d]
  PROVE  Recorded(n)'
<1>1. OnPayCycle(n)'
  BY DEF Recorded, OnPayCycle
<1> SUFFICES ASSUME NEW d \in Day, OnPayCycle(d)', d < n
             PROVE  /\ d <= today'
                    /\ user'.income > 0 => salaryRows'[d] > 0
                    /\ (d > FirstPayDate /\ Carried(Salary)'[d + user'.frequency] > 0) => history'[d] > 0
  BY <1>1 DEF Recorded
<1>2. OnPayCycle(d)
  BY DEF OnPayCycle
<1>3. /\ d <= today
      /\ user.income > 0 => salaryRows[d] > 0
      /\ (d > FirstPayDate /\ Carried(Salary)[d + user.frequency] > 0) => history[d] > 0
  BY <1>2 DEF Recorded
<1>4. d \in Nat /\ today \in Nat /\ user.frequency \in Nat \ {0}
  BY Cycle, MaxDayIsNat DEF Day
<1>5. d + user.frequency \in Nat /\ d + user.frequency - user.frequency <= today
  BY <1>3, <1>4
<1>6. Carried(Salary)'[d + user.frequency] = Carried(Salary)[d + user.frequency]
  BY <1>4, <1>5, CarriedKept DEF Pools
<1>7. salaryRows[d] \in Nat /\ history[d] \in Nat
  BY DEF SummaryInv, TypeOK
<1> QED
  BY <1>3, <1>4, <1>6, <1>7

\* New rows, and midnight, leave alone what was carried up to today: a row of a
\* source may only be older than today when it falls in the period under way.
RowsFrom(day) ==
    /\ today' \in Nat /\ today <= today'
    /\ AgreeBefore(net[Salary], net'[Salary], today)
    /\ \A s \in Sources : AgreeBefore(net[s], net'[s], day)
    /\ Uncapped /\ user.settled => user.nextPayDate - user.frequency <= day
    /\ day <= today

LEMMA RowsKeep ==
  ASSUME SummaryInv, UserRow, user' = user, NEW day \in Int, RowsFrom(day),
         NEW p \in Tracked, NEW d \in Nat,
         d - user.frequency <= IF p = Salary THEN today ELSE day
  PROVE  Carried(p)'[d] = Carried(p)[d]
<1>1. today \in Int /\ p \in Pools /\ (p # Salary => p \in Sources)
  BY Cycle DEF Tracked, Pools
<1>2. CASE p = Salary
  BY <1>1, <1>2, CarriedKept DEF RowsFrom
<1>3. CASE p # Salary
  BY <1>1, <1>3, CarriedKept DEF RowsFrom
<1> QED
  BY <1>2, <1>3

\* The rollover of the next pay date is final when its period has begun.
LEMMA NextRolloverKept ==
  ASSUME SummaryInv, UserRow, user' = user, NEW day \in Int, RowsFrom(day), NEW p \in Tracked
  PROVE  Carried(p)'[user.nextPayDate] = Carried(p)[user.nextPayDate]
<1>1. CASE ~user.settled
  <2>1. user.nextPayDate = FirstPayDate
    BY <1>1, Cycle DEF UserRow, Row
  <2> QED
    BY <2>1, Cycle, CarriedFirst DEF Carried
<1>2. CASE user.settled
  <2>1. user.nextPayDate - user.frequency <= today
    BY <1>2 DEF UserRow, Row
  <2>2. p # Salary => user.nextPayDate - user.frequency <= day
    BY <1>2 DEF RowsFrom, Tracked
  <2> QED
    BY <2>1, <2>2, Cycle, RowsKeep
<1> QED
  BY <1>1, <1>2

LEMMA ClockAndRows ==
  ASSUME SummaryInv, Exact, UNCHANGED <<homeVars, requestVars>>, NEW day \in Int, RowsFrom(day)
  PROVE  UserRow' /\ Banners' /\ SalaryRows' /\ \A r \in Requests : Held(r)' /\ Result(r)'
<1>1. UserRow /\ Banners /\ SalaryRows
  BY DEF Exact, Tables
<1>2. user' = user /\ rollover' = rollover /\ banner' = banner /\ salaryRows' = salaryRows
      /\ history' = history /\ pc' = pc /\ mine' = mine /\ totals' = totals /\ pools' = pools
  BY DEF homeVars, requestVars
<1>3. today' \in Nat /\ today \in Nat /\ today <= today'
  BY <1>1, Cycle DEF RowsFrom
<1>4. ASSUME NEW n \in Nat, Recorded(n) PROVE Recorded(n)'
  <2>1. /\ \A d \in Day : salaryRows'[d] \in Nat /\ salaryRows'[d] >= salaryRows[d]
        /\ \A d \in Day : history'[d] \in Nat /\ history'[d] >= history[d]
    BY <1>2 DEF SummaryInv, TypeOK
  <2> QED
    BY <1>1, <1>2, <1>3, <1>4, <2>1, RecordedKept DEF RowsFrom
<1>5. UserRow'
  <2>1. Row(user)'
    BY <1>1, <1>2, <1>3, Cycle DEF UserRow, Row
  <2>2. Recorded(user.nextPayDate)'
    <3>1. PICK n \in Nat : n = user.nextPayDate
      BY <1>1, Cycle
    <3>2. Recorded(n)'
      BY <1>1, <1>4, <3>1 DEF UserRow
    <3> QED
      BY <1>2, <3>1, <3>2 DEF Recorded
  <2>3. \A p \in Tracked : rollover'[p] = Carried(p)'[user'.nextPayDate]
    BY <1>1, <1>2, NextRolloverKept DEF UserRow
  <2> QED
    BY <1>1, <2>1, <2>2, <2>3 DEF UserRow
<1>6. Banners'
  <2> SUFFICES ASSUME NEW p \in Tracked, banner'[p].shown
               PROVE  /\ banner'[p].period <= today'
                      /\ banner'[p].amount = Carried(p)'[banner'[p].period + user'.frequency]
                      /\ Uncapped => user'.settled
                                     /\ banner'[p].period + user'.frequency <= user'.nextPayDate
    BY DEF Banners
  <2> DEFINE d == banner[p].period + user.frequency
  <2>1. /\ banner[p].period <= today
        /\ banner[p].amount = Carried(p)[d]
        /\ Uncapped => user.settled /\ d <= user.nextPayDate
    BY <1>1, <1>2 DEF Banners
  <2>2. banner[p].period \in Nat /\ d \in Nat /\ d - user.frequency = banner[p].period
    <3>1. p \in Pools /\ user.frequency \in Nat
      BY <1>1, Cycle DEF Tracked, Pools
    <3>2. banner[p].period \in Nat
      BY <3>1 DEF SummaryInv, TypeOK, Banner
    <3> QED
      BY <3>1, <3>2
  <2>3. p # Salary => banner[p].period <= day
    BY <1>1, <2>1, <2>2, Cycle DEF RowsFrom, Tracked
  <2> HIDE DEF d
  <2>4. Carried(p)'[d] = Carried(p)[d]
    BY <1>1, <1>2, <2>1, <2>2, <2>3, RowsKeep
  <2> QED
    BY <1>2, <1>3, <2>1, <2>2, <2>4 DEF d
<1>7. SalaryRows'
  BY <1>1, <1>2 DEF SalaryRows
<1>8. ASSUME NEW r \in Requests PROVE Held(r)' /\ Result(r)'
  <2> DEFINE n == mine[r].row.nextPayDate
  <2>1. Held(r) /\ Result(r)
    BY DEF Exact, Request
  <2>2. n \in Nat /\ Salary \in Tracked
    BY DEF SummaryInv, TypeOK, User, Tracked, Pools
  <2>3. Held(r)'
    <3> SUFFICES ASSUME pc'[r] # "idle"
                 PROVE  /\ Row(mine[r].row)' /\ Recorded(mine[r].row.nextPayDate)'
                        /\ mine'[r].rollover = Carried(Salary)'[n]
                        /\ OneRequest => mine'[r].row = user'
      BY <1>2 DEF Held
    <3>1. /\ Row(mine[r].row) /\ Recorded(n) /\ mine[r].rollover = Carried(Salary)[n]
          /\ OneRequest => mine[r].row = user
      BY <1>2, <2>1 DEF Held
    <3>2. Row(mine[r].row)'
      BY <1>2, <1>3, <2>2, <3>1, <1>1, Cycle DEF Row, SummaryInv, TypeOK, User
    <3>3. Recorded(mine[r].row.nextPayDate)'
      <4>1. PICK k \in Nat : k = n
        BY <2>2
      <4>2. Recorded(k)'
        BY <1>4, <3>1, <4>1
      <4> QED
        BY <1>2, <4>1, <4>2 DEF Recorded
    <3>4. Carried(Salary)'[n] = Carried(Salary)[n]
      <4>1. CASE mine[r].row.settled
        <5>1. n - user.frequency <= today
          BY <3>1, <4>1 DEF Row
        <5> QED
          BY <1>1, <1>2, <2>2, <5>1, RowsKeep
      <4>2. CASE ~mine[r].row.settled
        <5>1. n = FirstPayDate
          BY <2>2, <3>1, <4>2, <1>1, Cycle DEF Row
        <5> QED
          BY <1>1, <1>2, <5>1, Cycle, CarriedFirst DEF Carried
      <4> QED
        BY <4>1, <4>2
    <3> QED
      BY <1>2, <3>1, <3>2, <3>3, <3>4
  <2>4. Result(r)'
    <3> SUFFICES ASSUME Closing(r)'
                 PROVE  /\ mine'[r].row.settled
                        /\ totals'[r][Salary]
                           = Carried(Salary)'[mine'[r].row.nextPayDate + user'.frequency]
                        /\ pc'[r] # "sources" => pools'[r] \subseteq Sources
      BY DEF Result
    <3>1. /\ Closing(r) /\ mine[r].row.settled
          /\ totals[r][Salary] = Carried(Salary)[n + user.frequency]
          /\ pc[r] # "sources" => pools[r] \subseteq Sources
      BY <1>2, <2>1 DEF Result, Closing
    <3>2. n <= today
      BY <3>1 DEF SummaryInv, ClosingIsDue, HasCome, Closing
    <3> DEFINE d == n + user.frequency
    <3>3. d \in Nat /\ d - user.frequency <= today
      BY <1>1, <2>2, <3>2, Cycle
    <3> HIDE DEF d
    <3>4. Carried(Salary)'[d] = Carried(Salary)[d]
      BY <1>1, <1>2, <2>2, <3>3, RowsKeep
    <3> QED
      BY <1>2, <3>1, <3>4 DEF d
  <2> QED
    BY <2>3, <2>4
<1> QED
  BY <1>5, <1>6, <1>7, <1>8

\* What a request has computed for the sources, when rows are dated today.
LEMMA SourceResultsKept ==
  ASSUME SummaryInv, Exact, UNCHANGED <<homeVars, requestVars, source>>, RowsFrom(today),
         Uncapped, NEW r \in Requests
  PROVE  SourceResults(r)'
<1>1. UserRow /\ Held(r) /\ SourceResults(r)
  BY DEF Exact, Tables, Request, Solo
<1>2. user' = user /\ pc' = pc /\ totals' = totals /\ pools' = pools /\ LiveSources' = LiveSources
  BY DEF homeVars, requestVars, LiveSources
<1>3. today \in Int /\ LiveSources \subseteq Tracked
  BY <1>1, Cycle DEF Tracked, Pools, LiveSources
<1>4. CASE pc[r] = "sums"
  <2>1. /\ pools[r] = LiveSources
        /\ \A s \in LiveSources : totals[r][s] = Carried(s)[user.nextPayDate]
    BY <1>1, <1>4 DEF SourceResults
  <2>2. \A s \in LiveSources : Carried(s)'[user.nextPayDate] = Carried(s)[user.nextPayDate]
    BY <1>1, <1>2, <1>3, NextRolloverKept
  <2> QED
    BY <1>2, <1>4, <2>1, <2>2 DEF SourceResults
<1>5. CASE pc[r] = "commit"
  <2> DEFINE d == user.nextPayDate + user.frequency
  <2>1. /\ pools[r] = LiveSources
        /\ \A s \in LiveSources : totals[r][s] = Carried(s)[d]
    BY <1>1, <1>5 DEF SourceResults
  <2>2. user.nextPayDate <= today
    BY <1>1, <1>5 DEF Held, Uncapped, SummaryInv, ClosingIsDue, HasCome
  <2>3. d \in Nat /\ d - user.frequency <= today
    BY <1>1, <2>2, Cycle
  <2> HIDE DEF d
  <2>4. ASSUME NEW s \in LiveSources PROVE Carried(s)'[d] = Carried(s)[d]
    <3>1. d - user.frequency <= IF s = Salary THEN today ELSE today
      BY <2>3
    <3> QED
      BY <1>1, <1>2, <1>3, <2>3, <3>1, RowsKeep
  <2> QED
    BY <1>2, <1>5, <2>1, <2>4 DEF SourceResults, d
<1> QED
  BY <1>2, <1>4, <1>5 DEF SourceResults

LEMMA ClockKeepsExact ==
  ASSUME Undisturbed, SummaryInv, SummaryInv', Exact, ClockOrRow
  PROVE  Exact'
<1>1. UserRow /\ SourceRows
  BY DEF Exact, Tables
<1>2. UNCHANGED <<homeVars, requestVars, source, run>> /\ today \in Nat /\ today' \in Nat
  BY <1>1, MaxDayIsNat DEF ClockOrRow, Midnight, Tick, EnterRow, SummaryInv, TypeOK, SourcesTypeOK, Day
<1>3. user' = user /\ rollover' = rollover /\ pc' = pc /\ mine' = mine /\ LiveSources' = LiveSources
  BY <1>2 DEF homeVars, requestVars, LiveSources
<1>4. today <= today' /\ \A p \in Pools : AgreeBefore(net[p], net'[p], today)
  <2>1. CASE Midnight
    BY <1>2, <2>1 DEF Midnight, Tick, AgreeBefore
  <2>2. ASSUME NEW p \in Pools, NEW a \in RowAmounts, NEW d \in Day, EnterRow(p, a, d)
        PROVE  <1>4!:
    <3>1. d = today /\ today' = today
      BY <1>2, <2>2, MaxDayIsNat DEF EnterRow, Undisturbed, Day
    <3>2. net \in [Pools -> [Day -> Int]]
      BY DEF SummaryInv, TypeOK, SourcesTypeOK
    <3>3. ASSUME NEW q \in Pools PROVE AgreeBefore(net[q], net'[q], today)
      <4>1. CASE q = p
        <5>1. net'[q] = Insert(net[q], d, a)
          BY <2>2, <3>2, <4>1 DEF EnterRow
        <5> QED
          BY <3>1, <3>2, <5>1, InsertAgrees
      <4>2. CASE q # p
        <5>1. net'[q] = net[q]
          BY <2>2, <3>2, <4>2 DEF EnterRow
        <5> QED
          BY <5>1 DEF AgreeBefore
      <4> QED
        BY <4>1, <4>2
    <3> QED
      BY <1>2, <3>1, <3>3
  <2> QED
    BY <2>1, <2>2 DEF ClockOrRow
<1>5. RowsFrom(today)
  BY <1>1, <1>2, <1>4 DEF RowsFrom, Pools, UserRow, Row
<1>6. UserRow' /\ Banners' /\ SalaryRows' /\ \A r \in Requests : Held(r)' /\ Result(r)'
  <2>1. today \in Int
    BY <1>2
  <2> QED
    BY <1>2, <1>5, <2>1, ClockAndRows
<1>7. SourceRows'
  <2>1. ASSUME Uncapped, NEW s \in Sources \ LiveSources PROVE net'[s] = net[s]
    <3>1. s \notin LiveSources \cup {Salary} /\ s \in Pools
      BY SourceAssumption DEF Pools
    <3>2. net \in [Pools -> [Day -> Int]]
      BY DEF SummaryInv, TypeOK, SourcesTypeOK
    <3> QED
      BY <3>1, <3>2 DEF ClockOrRow, Midnight, Tick, EnterRow
  <2> QED
    BY <1>1, <1>2, <1>3, <2>1 DEF SourceRows
<1>8. ASSUME NEW r \in Requests, Uncapped PROVE Solo(r)'
  <2>1. Solo(r)
    BY DEF Exact, Request
  <2>2. pc[r] # "idle" => mine[r].day <= today' /\ today' <= mine[r].day + 1
    BY <1>2, <1>8, <2>1 DEF Solo, ClockOrRow, Midnight, Tick, EnterRow, SummaryInv, TypeOK, Day
  <2>3. SourceResults(r)'
    BY <1>2, <1>5, <1>8, SourceResultsKept
  <2> QED
    BY <1>2, <1>3, <1>8, <2>1, <2>2, <2>3 DEF Solo, Booking, PaidUp, Closing
<1>9. \A r \in Requests : Solo(r)'
  BY <1>8 DEF Solo
<1> QED
  BY <1>6, <1>7, <1>9 DEF Exact, Tables, Request

-------------------------------------------------------------------------------
(* Booking.                                                                   *)

\* The loop over a source ends when no date of it is due: the cap is not met.
LEMMA CursorPaidUp ==
  ASSUME SummaryInv, Uncapped, NEW r \in Requests, Booking(r), ~DateIsDue(r),
         mine[r].day <= today, run[r].cursor # NoSource
  PROVE  PaidUp(run[r].cursor, r)
<1>1. /\ run[r].due \in Nat /\ run[r].iterations \in Nat /\ today \in Day /\ mine[r].day \in Nat
      /\ MaxOccurrences \in Nat
  BY SourceAssumption, MaxDayIsNat DEF SummaryInv, TypeOK, SourcesTypeOK, Run, Day
<1>2. run[r].due = source[run[r].cursor].nextPaymentDate /\ run[r].iterations <= run[r].due
  BY DEF Booking
<1>3. run[r].due > today
  BY <1>1, <1>2, MaxDayIsNat DEF DateIsDue, HasCome, Uncapped, Day
<1> QED
  BY <1>1, <1>2, <1>3, MaxDayIsNat DEF PaidUp, Day

\* Steps that book nothing keep all but what request r is doing.
LEMMA QuietStep ==
  ASSUME SummaryInv, Exact, UNCHANGED <<homeVars, requestVars, today, net>>
  PROVE  UserRow' /\ Banners' /\ SalaryRows' /\ \A r \in Requests : Held(r)' /\ Result(r)'
<1>1. today \in Int /\ today \in Nat /\ RowsFrom(today)
  BY Cycle DEF RowsFrom, AgreeBefore, Exact, Tables, UserRow, Row
<1> QED
  BY <1>1, ClockAndRows

LEMMA TakeSourceKeepsExact ==
  ASSUME SummaryInv, Exact, NEW r \in Requests, pc[r] = "book", TakeSource(r),
         UNCHANGED <<homeVars, requestVars>>
  PROVE  Exact'
<1>1. UserRow' /\ Banners' /\ SalaryRows' /\ \A q \in Requests : Held(q)' /\ Result(q)'
  BY QuietStep DEF TakeSource
<1>2. UNCHANGED <<today, source, net>> /\ LiveSources' = LiveSources
  BY DEF TakeSource, LiveSources
<1>3. user' = user /\ rollover' = rollover /\ pc' = pc /\ mine' = mine
  BY DEF homeVars, requestVars
<1>4. SourceRows'
  BY <1>2, <1>3 DEF SourceRows, Exact, Tables
<1>5. ASSUME Uncapped, NEW q \in Requests PROVE Solo(q)'
  <2>1. q = r /\ Solo(r)
    BY <1>5 DEF Uncapped, OneRequest, Exact, Request
  <2>2. Booking(r) /\ mine[r].day <= today /\ today <= mine[r].day + 1
    BY <1>5, <2>1 DEF Solo
  <2>3. PICK s \in run[r].todo :
           run' = [run EXCEPT ![r].todo = run[r].todo \ {s}, ![r].cursor = s,
                              ![r].due = run[r].seen[s].nextPaymentDate,
                              ![r].iterations = 0]
    BY DEF TakeSource
  <2>4. run \in [Requests -> Run]
    BY DEF SummaryInv, TypeOK, SourcesTypeOK
  <2>5. /\ run'[r].todo = run[r].todo \ {s} /\ run'[r].cursor = s
        /\ run'[r].due = run[r].seen[s].nextPaymentDate /\ run'[r].iterations = 0
        /\ run'[r].seen = run[r].seen
    BY <2>3, <2>4 DEF Run
  <2>6. s \in LiveSources /\ run[r].seen[s] = source[s] /\ source[s].nextPaymentDate \in Nat
    BY <2>2 DEF Booking, LiveSources, SummaryInv, TypeOK, SourcesTypeOK, Source
  <2>7. run[r].cursor # NoSource => PaidUp(run[r].cursor, r)
    BY <1>5, <2>2, CursorPaidUp DEF TakeSource
  <2>8. ASSUME NEW t \in LiveSources, t \notin run'[r].todo, t # run'[r].cursor
        PROVE  PaidUp(t, r)
    <3>1. t # NoSource
      BY SourceAssumption DEF LiveSources
    <3> QED
      BY <2>2, <2>5, <2>7, <2>8, <3>1 DEF Booking
  <2>9. Booking(r)'
    BY <1>2, <1>3, <2>2, <2>5, <2>6, <2>8 DEF Booking, PaidUp
  <2> QED
    BY <1>2, <1>3, <2>1, <2>2, <2>9 DEF Solo, Closing, SourceResults
<1> QED
  BY <1>1, <1>4, <1>5 DEF Exact, Tables, Request, Solo

\* A claim of source s: the row it books lies in the period under way.
LEMMA ClaimRows ==
  ASSUME SummaryInv, Exact, NEW r \in Requests, pc[r] = "book", Claim(r)
  PROVE  \E day \in Int : RowsFrom(day)
<1> DEFINE s == run[r].cursor
           due == run[r].due
<1>1. DateIsDue(r) /\ s \in Sources /\ due \in Day
  BY ClaimedDate DEF Claim, SummaryInv, TypeOK
<1>2. due \in Int /\ today \in Nat /\ today' = today /\ due <= today
  BY <1>1, MaxDayIsNat DEF DateIsDue, HasCome, Claim, SummaryInv, TypeOK, SourcesTypeOK, Day
<1>3. net \in [Pools -> [Day -> Int]]
  BY DEF SummaryInv, TypeOK, SourcesTypeOK
<1>4. s # Salary
  BY <1>1, SourceAssumption
<1>5. net' = net \/ net' = [net EXCEPT ![s] = Insert(net[s], due, run[r].seen[s].amount)]
  BY DEF Claim
<1> HIDE DEF s, due
<1>6. AgreeBefore(net[Salary], net'[Salary], today)
  <2>1. net'[Salary] = net[Salary]
    BY <1>3, <1>4, <1>5 DEF Pools
  <2> QED
    BY <2>1 DEF AgreeBefore
<1>7. ASSUME NEW t \in Sources PROVE AgreeBefore(net[t], net'[t], due)
  <2>1. CASE net'[t] = net[t]
    BY <2>1 DEF AgreeBefore
  <2>2. CASE net'[t] # net[t]
    <3>1. net'[t] = Insert(net[t], due, run[r].seen[s].amount)
      BY <1>3, <1>5, <2>2 DEF Pools
    <3>2. net[t] \in [Day -> Int]
      BY <1>3 DEF Pools
    <3> QED
      BY <1>1, <3>1, <3>2, InsertAgrees
  <2> QED
    BY <2>1, <2>2
<1>8. Uncapped /\ user.settled => user.nextPayDate - user.frequency <= due
  <2> SUFFICES ASSUME Uncapped, user.settled
               PROVE  user.nextPayDate - user.frequency <= due
    OBVIOUS
  <2>1. Booking(r)
    BY DEF Exact, Request, Solo
  <2>2. s \in LiveSources /\ due = source[s].nextPaymentDate
    BY <1>1, <2>1, SourceAssumption DEF Booking, s, due
  <2> QED
    BY <2>2 DEF Exact, Tables, SourceRows
<1>9. RowsFrom(due)
  BY <1>2, <1>6, <1>7, <1>8 DEF RowsFrom
<1> QED
  BY <1>2, <1>9

\* With one request a claim is never lost.
LEMMA ClaimSucceeds ==
  ASSUME SummaryInv, NEW r \in Requests, Booking(r), Claim(r)
  PROVE  /\ run[r].cursor \in LiveSources
         /\ \E next \in Nat :
               /\ next > run[r].due
               /\ source' = [source EXCEPT ![run[r].cursor].nextPaymentDate = next]
               /\ run' = [run EXCEPT ![r].due = next,
                                     ![r].iterations = run[r].iterations + 1]
         /\ \E amount : net' = [net EXCEPT ![run[r].cursor] =
                                  Insert(net[run[r].cursor], run[r].due, amount)]
         /\ UNCHANGED <<today, rowCount, edits>>
<1> DEFINE s == run[r].cursor
           due == run[r].due
           next == due + run[r].seen[s].frequency
<1>1. DateIsDue(r) /\ s \in Sources /\ due \in Day /\ run[r].seen[s] \in Source
  BY ClaimedDate DEF Claim, SummaryInv, TypeOK
<1>2. s \in LiveSources /\ due = source[s].nextPaymentDate
  BY <1>1, SourceAssumption DEF Booking
<1>3. StillUnclaimed(s, due)
  BY <1>2 DEF StillUnclaimed, LiveSources
<1>4. next \in Nat /\ next > due
  BY <1>1, MaxDayIsNat DEF Source, Day
<1> QED
  BY <1>2, <1>3, <1>4 DEF Claim

LEMMA ClaimKeepsExact ==
  ASSUME SummaryInv, Exact, NEW r \in Requests, pc[r] = "book", Claim(r),
         UNCHANGED <<homeVars, requestVars>>
  PROVE  Exact'
<1>1. UserRow' /\ Banners' /\ SalaryRows' /\ \A q \in Requests : Held(q)' /\ Result(q)'
  BY ClaimRows, ClockAndRows
<1>2. user' = user /\ rollover' = rollover /\ pc' = pc /\ mine' = mine
  BY DEF homeVars, requestVars
<1> SUFFICES ASSUME Uncapped PROVE SourceRows' /\ \A q \in Requests : Solo(q)'
  BY <1>1 DEF Exact, Tables, Request, Solo, SourceRows
<1> DEFINE s == run[r].cursor
<1>3. Solo(r) /\ Booking(r) /\ SourceRows
  BY DEF Exact, Tables, Request, Solo
<1>4. s \in LiveSources /\ s \in Sources
  BY <1>3, ClaimSucceeds DEF LiveSources
<1>5. PICK next \in Nat :
           /\ next > run[r].due
           /\ source' = [source EXCEPT ![s].nextPaymentDate = next]
           /\ run' = [run EXCEPT ![r].due = next, ![r].iterations = run[r].iterations + 1]
  BY <1>3, ClaimSucceeds
<1>6. today' = today /\ \A p \in Pools : p # s => net'[p] = net[p]
  BY <1>3, ClaimSucceeds DEF SummaryInv, TypeOK, SourcesTypeOK
<1>7. source \in [Sources -> Source] /\ run \in [Requests -> Run] /\ user \in User
  BY DEF SummaryInv, TypeOK, SourcesTypeOK
<1>8. run[r].due = source[s].nextPaymentDate /\ run[r].iterations <= run[r].due /\ s \notin run[r].todo
  BY <1>3, <1>4, SourceAssumption DEF Booking
<1> HIDE DEF s
<1>9. /\ source'[s] = [source[s] EXCEPT !.nextPaymentDate = next]
      /\ source'[s].nextPaymentDate = next /\ source'[s].status = source[s].status
      /\ source'[s].isActive = source[s].isActive
      /\ next > source[s].nextPaymentDate /\ source[s].nextPaymentDate \in Nat
      /\ \A t \in Sources : t # s => source'[t] = source[t]
  BY <1>4, <1>5, <1>7, <1>8 DEF Source
<1>10. LiveSources' = LiveSources
  BY <1>4, <1>9 DEF LiveSources
<1>11. SourceRows'
  <2>1. ASSUME NEW t \in LiveSources
        PROVE  /\ source'[t].isActive
               /\ user.settled => source'[t].nextPaymentDate >= user.nextPayDate - user.frequency
    <3>1. /\ source[t].isActive /\ t \in Sources
          /\ user.settled => source[t].nextPaymentDate >= user.nextPayDate - user.frequency
      BY <1>3 DEF SourceRows, LiveSources
    <3>2. user.nextPayDate - user.frequency \in Int
      BY <1>7 DEF User
    <3>3. CASE t = s
      BY <1>5, <1>9, <3>1, <3>2, <3>3
    <3>4. CASE t # s
      BY <1>9, <3>1, <3>4
    <3> QED
      BY <3>3, <3>4
  <2>2. \A t \in Sources \ LiveSources : net'[t] = net[t]
    BY <1>4, <1>6 DEF Pools
  <2> QED
    BY <1>2, <1>3, <1>10, <2>1, <2>2 DEF SourceRows
<1>12. ASSUME NEW q \in Requests PROVE Solo(q)'
  <2>1. q = r
    BY DEF Uncapped, OneRequest
  <2>2. /\ run'[r].todo = run[r].todo /\ run'[r].seen = run[r].seen
        /\ run'[r].cursor = s /\ run'[r].due = next
        /\ run'[r].iterations = run[r].iterations + 1 /\ run[r].iterations \in Nat
        /\ run[r].due \in Nat
    BY <1>5, <1>7 DEF Run, s
  <2>3. run'[r].iterations <= run'[r].due
    BY <1>5, <1>8, <2>2
  <2>4. /\ run[r].todo \subseteq LiveSources
        /\ \A t \in run[r].todo : run[r].seen[t] = source[t]
        /\ \A t \in LiveSources : t \notin run[r].todo /\ t # s => PaidUp(t, r)
    BY <1>3 DEF Booking, s
  <2>5. Booking(r)'
    <3>1. ASSUME NEW t \in LiveSources, t \notin run'[r].todo, t # run'[r].cursor
          PROVE  PaidUp(t, r)'
      BY <1>2, <1>9, <2>2, <2>4, <3>1 DEF PaidUp, LiveSources
    <3>2. \A t \in run'[r].todo : run'[r].seen[t] = source'[t]
      BY <1>8, <1>9, <2>2, <2>4 DEF LiveSources
    <3> QED
      BY <1>4, <1>8, <1>9, <1>10, <2>2, <2>3, <2>4, <3>1, <3>2 DEF Booking
  <2> QED
    BY <1>2, <1>3, <1>6, <2>1, <2>5 DEF Solo, Closing, SourceResults
<1> QED
  BY <1>11, <1>12

-------------------------------------------------------------------------------
(* Steps that change nothing but what request r is doing.                     *)

Alone(r) ==
    /\ UNCHANGED <<today, source, net, homeVars>>
    /\ \A q \in Requests \ {r} :
          /\ pc'[q] = pc[q] /\ mine'[q] = mine[q] /\ totals'[q] = totals[q]
          /\ pools'[q] = pools[q] /\ run'[q] = run[q]

LEMMA AloneTables ==
  ASSUME Exact, NEW r \in Requests, Alone(r)
  PROVE  Tables'
<1>1. UNCHANGED <<today, source, net, user, rollover, banner, salaryRows, history>> /\ Tables
  BY DEF Alone, Exact, homeVars
<1>2. \A d \in Day : OnPayCycle(d)' <=> OnPayCycle(d)
  BY <1>1 DEF OnPayCycle
<1>3. \A p \in Pools : Carried(p)' = Carried(p)
  BY <1>1 DEF Carried
<1>4. UserRow'
  BY <1>1 DEF Tables, UserRow, Row, Recorded, OnPayCycle, Carried
<1>5. Banners'
  BY <1>1 DEF Tables, Banners, Carried
<1>6. SalaryRows' /\ SourceRows'
  BY <1>1 DEF Tables, SalaryRows, SourceRows, LiveSources
<1> QED
  BY <1>4, <1>5, <1>6 DEF Tables

LEMMA AloneHeld ==
  ASSUME Exact, NEW r \in Requests, NEW q \in Requests, Alone(r),
         mine'[q] = mine[q], pc[q] # "idle" \/ pc'[q] = "idle"
  PROVE  Held(q)'
<1>1. UNCHANGED <<today, source, net, user, salaryRows, history>> /\ Held(q)
  BY DEF Alone, Exact, Request, homeVars
<1> QED
  BY <1>1 DEF Held, Row, Recorded, OnPayCycle, Carried

LEMMA AloneOthers ==
  ASSUME Exact, NEW r \in Requests, Alone(r), NEW q \in Requests \ {r}
  PROVE  Request(q)'
<1>1. UNCHANGED <<today, source, net, user, salaryRows, history>> /\ Request(q)
  BY DEF Alone, Exact, homeVars
<1>2. /\ pc'[q] = pc[q] /\ mine'[q] = mine[q] /\ totals'[q] = totals[q]
      /\ pools'[q] = pools[q] /\ run'[q] = run[q]
  BY DEF Alone
<1>3. Held(q)'
  BY <1>1, <1>2, AloneHeld
<1>4. Result(q)'
  BY <1>1, <1>2 DEF Request, Result, Closing, Carried
<1>5. Solo(q)'
  BY DEF Solo, Uncapped, OneRequest
<1> QED
  BY <1>3, <1>4, <1>5 DEF Request

LEMMA AloneExact ==
  ASSUME Exact, NEW r \in Requests, Alone(r), Request(r)'
  PROVE  Exact'
  BY AloneTables, AloneOthers DEF Exact

\* A request that ends.
LEMMA EndKeepsExact ==
  ASSUME SummaryInv, Exact, NEW r \in Requests, Respond(r) \/ CommitFails(r) \/ Crash(r)
  PROVE  Exact'
<1>1. TypeOK
  BY DEF SummaryInv
<1>2. Finish(r) /\ UNCHANGED <<today, source, net, homeVars>> /\ (run' = run \/ Leave(r))
  BY DEF Respond, CommitFails, Crash, sourceVars, Leave
<1>3. Alone(r)
  BY <1>1, <1>2 DEF Alone, Finish, Goto, Leave, TypeOK, SourcesTypeOK
<1>4. pc'[r] = "idle"
  BY <1>1, <1>2 DEF Finish, Goto, TypeOK
<1>5. Request(r)'
  BY <1>4 DEF Request, Held, Result, Closing, Solo, SourceResults
<1> QED
  BY <1>3, <1>5, AloneExact

LEMMA OpenKeepsExact ==
  ASSUME SummaryInv, Exact, NEW r \in Requests, Open(r)
  PROVE  Exact'
<1>1. TypeOK
  BY DEF SummaryInv
<1>2. Alone(r)
  BY <1>1 DEF Open, Goto, Alone, TypeOK, sourceVars
<1>3. /\ pc'[r] = "list" /\ mine'[r].row = user /\ mine'[r].rollover = rollover[Salary]
      /\ mine'[r].day = today /\ today' = today
  BY <1>1 DEF Open, Goto, TypeOK, sourceVars
<1>4. UserRow' /\ user' = user /\ rollover' = rollover
  BY <1>2, AloneTables DEF Tables, Alone, homeVars
<1>5. Held(r)'
  <2>1. Row(user)' /\ Recorded(user.nextPayDate)' /\ rollover'[Salary] = Carried(Salary)'[user'.nextPayDate]
    BY <1>4 DEF UserRow, Tracked, Pools
  <2>2. mine'[r].row = user'
    BY <1>3, <1>4
  <2> QED
    BY <1>3, <1>4, <2>1, <2>2 DEF Held, Row, Recorded
<1>6. Result(r)'
  BY <1>3 DEF Result, Closing
<1>7. Solo(r)'
  <2>1. today \in Nat
    BY <1>1, MaxDayIsNat DEF TypeOK, SourcesTypeOK, Day
  <2> QED
    BY <1>3, <2>1 DEF Solo, Closing, SourceResults
<1> QED
  BY <1>2, <1>5, <1>6, <1>7, AloneExact DEF Request

LEMMA ListSourcesKeepsExact ==
  ASSUME SummaryInv, Exact, NEW r \in Requests, ListSources(r)
  PROVE  Exact'
<1>1. TypeOK
  BY DEF SummaryInv
<1> DEFINE fresh == [NoRun EXCEPT !.seen = source,
                                  !.todo = {s \in LiveSources : source[s].isActive}]
<1>2. Alone(r)
  BY <1>1 DEF ListSources, ReadSources, Goto, Alone, TypeOK, SourcesTypeOK
<1>3. pc[r] = "list" /\ pc'[r] = "book" /\ mine' = mine /\ UNCHANGED <<today, source>>
  BY <1>1 DEF ListSources, ReadSources, Goto, TypeOK
<1>4. run'[r] = fresh
  BY <1>1 DEF ListSources, ReadSources, TypeOK, SourcesTypeOK
<1>5. /\ run'[r].seen = source /\ run'[r].todo = {s \in LiveSources : source[s].isActive}
      /\ run'[r].cursor = NoSource
  BY <1>4 DEF NoRun
<1>6. Held(r)'
  BY <1>2, <1>3, AloneHeld
<1>7. Result(r)'
  BY <1>3 DEF Result, Closing
<1>8. Solo(r)'
  <2> SUFFICES ASSUME Uncapped PROVE Solo(r)'
    BY DEF Solo
  <2>1. SourceRows /\ Solo(r)
    BY DEF Exact, Tables, Request
  <2>2. run'[r].todo = LiveSources
    BY <1>5, <2>1 DEF SourceRows
  <2>3. Booking(r)'
    BY <1>3, <1>5, <2>2 DEF Booking, LiveSources
  <2> QED
    BY <1>3, <2>1, <2>3 DEF Solo, Closing, SourceResults
<1> QED
  BY <1>2, <1>6, <1>7, <1>8, AloneExact DEF Request

LEMMA EndBookingKeepsExact ==
  ASSUME SummaryInv, Exact, NEW r \in Requests, EndBooking(r)
  PROVE  Exact'
<1>1. TypeOK
  BY DEF SummaryInv
<1>2. Alone(r)
  BY <1>1 DEF EndBooking, Leave, Goto, Alone, TypeOK, SourcesTypeOK
<1>3. pc[r] = "book" /\ pc'[r] = "check" /\ mine' = mine /\ UNCHANGED <<today, source>>
  BY <1>1 DEF EndBooking, Leave, Goto, TypeOK
<1>4. Held(r)'
  BY <1>2, <1>3, AloneHeld
<1>5. Result(r)'
  BY <1>3 DEF Result, Closing
<1>6. Solo(r)'
  <2> SUFFICES ASSUME Uncapped PROVE Solo(r)'
    BY DEF Solo
  <2>1. Solo(r) /\ Booking(r) /\ mine[r].day <= today
    BY <1>3 DEF Exact, Request, Solo
  <2>2. run[r].todo = {} /\ ~DateIsDue(r)
    BY DEF EndBooking, Materialized
  <2>3. run[r].cursor # NoSource => PaidUp(run[r].cursor, r)
    BY <2>1, <2>2, CursorPaidUp
  <2>4. \A s \in LiveSources : PaidUp(s, r)
    BY <2>1, <2>2, <2>3, SourceAssumption DEF Booking, LiveSources
  <2> QED
    BY <1>3, <2>1, <2>4 DEF Solo, PaidUp, LiveSources, SourceResults
<1> QED
  BY <1>2, <1>4, <1>5, <1>6, AloneExact DEF Request

LEMMA ReadBannersKeepsExact ==
  ASSUME SummaryInv, Exact, NEW r \in Requests, ReadBanners(r)
  PROVE  Exact'
<1>1. TypeOK
  BY DEF SummaryInv
<1>2. Alone(r)
  BY <1>1 DEF ReadBanners, Goto, Alone, TypeOK, sourceVars
<1>3. pc[r] = "check" /\ pc'[r] = "expire" /\ mine' = mine /\ today' = today
  BY <1>1 DEF ReadBanners, Goto, TypeOK, sourceVars
<1>4. Held(r)'
  BY <1>2, <1>3, AloneHeld
<1>5. Result(r)' /\ Solo(r)'
  BY <1>3 DEF Result, Closing, Solo, SourceResults, Exact, Request
<1> QED
  BY <1>2, <1>4, <1>5, AloneExact DEF Request

\* The aggregates of one period give what is carried to the next.
LEMMA PeriodCloses ==
  ASSUME SummaryInv, UserRow, NEW r \in Requests, Row(mine[r].row), mine[r].row.settled,
         NEW p \in Pools, NEW before, NEW salary,
         salary = (IF p = Salary THEN user.income ELSE 0),
         before = Carried(p)[mine[r].row.nextPayDate]
  PROVE  AtLeastZero(salary + before + PeriodTotal(p, mine[r].row))
         = Carried(p)[mine[r].row.nextPayDate + user.frequency]
<1> DEFINE n == mine[r].row.nextPayDate
<1>1. n \in Nat /\ n > FirstPayDate /\ mine[r].row.frequency = user.frequency
  BY Cycle DEF Row, SummaryInv, TypeOK, User
<1>2. PeriodTotal(p, mine[r].row) = Between(net[p], n - user.frequency, n - 1)
  BY <1>1 DEF PeriodTotal
<1> HIDE DEF n
<1>3. CarriedBy(salary, user.frequency, net[p])[n + user.frequency]
      = AtLeastZero(salary + CarriedBy(salary, user.frequency, net[p])[n]
                    + Between(net[p], n - user.frequency, n - 1))
  BY <1>1, Cycle, CarriedNext
<1> QED
  BY <1>2, <1>3 DEF Carried, n

LEMMA ReadSalaryPoolKeepsExact ==
  ASSUME SummaryInv, Exact, NEW r \in Requests, ReadSalaryPool(r)
  PROVE  Exact'
<1>1. TypeOK
  BY DEF SummaryInv
<1> DEFINE row == mine[r].row
           total == AtLeastZero(row.income + mine[r].rollover + PeriodTotal(Salary, row))
<1>2. Alone(r)
  BY <1>1 DEF ReadSalaryPool, Goto, Alone, TypeOK, sourceVars
<1>3. /\ pc[r] = "check" /\ row.settled /\ mine' = mine /\ pools' = pools
      /\ UNCHANGED <<today, source, net, user>>
  BY DEF ReadSalaryPool, sourceVars, homeVars
<1>4. pc'[r] = "sources"
  BY <1>1 DEF ReadSalaryPool, Goto, TypeOK
<1>5. totals'[r][Salary] = total
  <2> HIDE DEF total
  <2>1. totals' = [totals EXCEPT ![r][Salary] = total]
    BY DEF ReadSalaryPool, total
  <2> QED
    BY <1>1, <2>1 DEF TypeOK, Pools
<1>6. Held(r)'
  BY <1>2, <1>3, AloneHeld
<1>7. Result(r)'
  <2>1. UserRow /\ Row(row) /\ mine[r].rollover = Carried(Salary)[row.nextPayDate]
    BY <1>3 DEF Exact, Tables, Request, Held
  <2>2. total = Carried(Salary)[row.nextPayDate + user.frequency]
    BY <1>3, <2>1, PeriodCloses DEF Pools, Row
  <2> QED
    BY <1>3, <1>4, <1>5, <2>2 DEF Result, Closing, Carried
<1>8. Solo(r)'
  BY <1>3, <1>4 DEF Solo, PaidUp, Closing, SourceResults, LiveSources, Exact, Request
<1> QED
  BY <1>2, <1>6, <1>7, <1>8, AloneExact DEF Request

LEMMA ReadTransitionSourcesKeepsExact ==
  ASSUME SummaryInv, Exact, NEW r \in Requests, ReadTransitionSources(r)
  PROVE  Exact'
<1>1. TypeOK
  BY DEF SummaryInv
<1>2. Alone(r)
  BY <1>1 DEF ReadTransitionSources, Goto, Alone, TypeOK, sourceVars
<1>3. pc[r] = "sources" /\ mine' = mine /\ UNCHANGED <<today, source, net, user>>
  BY DEF ReadTransitionSources, sourceVars, homeVars
<1>4. /\ pc'[r] = "sums" /\ pools'[r] = LiveSources
      /\ \A p \in Pools : totals'[r][p] = IF p \in LiveSources THEN rollover[p] ELSE totals[r][p]
  BY <1>1 DEF ReadTransitionSources, Goto, TypeOK
<1>5. Held(r)'
  BY <1>2, <1>3, AloneHeld
<1>6. Result(r)'
  <2>1. Result(r) /\ Closing(r)
    BY <1>3 DEF Exact, Request, Closing
  <2>2. totals'[r][Salary] = totals[r][Salary]
    BY <1>4, SourceAssumption DEF Pools, LiveSources
  <2> QED
    BY <1>3, <1>4, <2>1, <2>2 DEF Result, Carried, LiveSources
<1>7. Solo(r)'
  <2> SUFFICES ASSUME Uncapped PROVE Solo(r)'
    BY DEF Solo
  <2>1. Solo(r) /\ UserRow
    BY DEF Exact, Tables, Request
  <2>2. \A s \in LiveSources : totals'[r][s] = Carried(s)[user.nextPayDate]
    BY <1>4, <2>1 DEF UserRow, Tracked, Pools, LiveSources
  <2>3. SourceResults(r)'
    BY <1>3, <1>4, <2>2 DEF SourceResults, Carried, LiveSources
  <2> QED
    BY <1>3, <1>4, <2>1, <2>3 DEF Solo, PaidUp, Closing, LiveSources
<1> QED
  BY <1>2, <1>5, <1>6, <1>7, AloneExact DEF Request

LEMMA ReadSourcePoolsKeepsExact ==
  ASSUME SummaryInv, Exact, NEW r \in Requests, ReadSourcePools(r)
  PROVE  Exact'
<1>1. TypeOK
  BY DEF SummaryInv
<1> DEFINE sum(p) == AtLeastZero(totals[r][p] + PeriodTotal(p, mine[r].row))
<1>2. Alone(r)
  BY <1>1 DEF ReadSourcePools, Goto, Alone, TypeOK, sourceVars
<1>3. /\ pc[r] = "sums" /\ mine' = mine /\ pools' = pools
      /\ UNCHANGED <<today, source, net, user>>
  BY DEF ReadSourcePools, sourceVars, homeVars
<1>4. pc'[r] = "commit"
  BY <1>1 DEF ReadSourcePools, Goto, TypeOK
<1>5. \A p \in Pools : totals'[r][p] = IF p \in pools[r] THEN sum(p) ELSE totals[r][p]
  <2> HIDE DEF sum
  <2>1. totals' = [totals EXCEPT ![r] = [p \in Pools |-> IF p \in pools[r] THEN sum(p)
                                                         ELSE totals[r][p]]]
    BY DEF ReadSourcePools, sum
  <2> QED
    BY <1>1, <2>1 DEF TypeOK
<1>6. Held(r)'
  BY <1>2, <1>3, AloneHeld
<1>7. Result(r) /\ Closing(r) /\ pools[r] \subseteq Sources
  BY <1>3 DEF Exact, Request, Closing, Result
<1>8. Result(r)'
  <2>1. totals'[r][Salary] = totals[r][Salary]
    BY <1>5, <1>7, SourceAssumption DEF Pools
  <2> QED
    BY <1>3, <1>4, <1>7, <2>1 DEF Result, Carried
<1>9. Solo(r)'
  <2> SUFFICES ASSUME Uncapped PROVE Solo(r)'
    BY DEF Solo
  <2>1. Solo(r) /\ UserRow /\ mine[r].row = user /\ Row(user)
    BY <1>3 DEF Exact, Tables, Request, Held, UserRow, Uncapped
  <2>2. /\ pools[r] = LiveSources
        /\ \A s \in LiveSources : totals[r][s] = Carried(s)[user.nextPayDate]
    BY <1>3, <2>1 DEF Solo, SourceResults
  <2>3. ASSUME NEW s \in LiveSources
        PROVE  totals'[r][s] = Carried(s)[user.nextPayDate + user.frequency]
    <3>1. s \in Pools /\ s # Salary /\ user.settled
      BY <1>7, <2>1, SourceAssumption DEF Pools, LiveSources, Result
    <3> DEFINE before == Carried(s)[user.nextPayDate]
    <3>2. 0 = (IF s = Salary THEN user.income ELSE 0)
      BY <3>1
    <3>3. AtLeastZero(0 + before + PeriodTotal(s, mine[r].row))
          = Carried(s)[user.nextPayDate + user.frequency]
      BY <2>1, <3>1, <3>2, PeriodCloses
    <3>4. totals[r][s] \in Nat /\ before = totals[r][s]
      BY <1>1, <2>2, <3>1 DEF TypeOK
    <3>5. totals'[r][s] = AtLeastZero(before + PeriodTotal(s, mine[r].row))
      BY <1>5, <2>2, <3>1, <3>4
    <3> HIDE DEF before
    <3> QED
      BY <3>3, <3>4, <3>5
  <2>4. SourceResults(r)'
    BY <1>3, <1>4, <2>2, <2>3 DEF SourceResults, Carried, LiveSources
  <2> QED
    BY <1>3, <1>4, <2>1, <2>4 DEF Solo, PaidUp, Closing, LiveSources
<1> QED
  BY <1>2, <1>6, <1>8, <1>9, AloneExact DEF Request

-------------------------------------------------------------------------------
(* Steps that write the tables.                                               *)

\* Rows of salary and history are only added, and only request r moves.
Wrote(r) ==
    /\ UNCHANGED sourceVars
    /\ user'.frequency = user.frequency /\ user'.income = user.income
    /\ \A d \in Day : salaryRows'[d] \in Nat /\ salaryRows'[d] >= salaryRows[d]
    /\ \A d \in Day : history'[d] \in Nat /\ history'[d] >= history[d]
    /\ \A q \in Requests \ {r} :
          /\ pc'[q] = pc[q] /\ mine'[q] = mine[q] /\ totals'[q] = totals[q]
          /\ pools'[q] = pools[q]

LEMMA WroteRecorded ==
  ASSUME SummaryInv, UserRow, NEW r \in Requests, Wrote(r), NEW n \in Nat, Recorded(n)
  PROVE  Recorded(n)'
<1>1. /\ today' = today /\ today \in Nat /\ today' \in Nat /\ today <= today'
      /\ AgreeBefore(net[Salary], net'[Salary], today)
  BY Cycle DEF Wrote, sourceVars, AgreeBefore
<1> QED
  BY <1>1, RecordedKept DEF Wrote

LEMMA WroteOthers ==
  ASSUME SummaryInv, Exact, NEW r \in Requests, Wrote(r), NEW q \in Requests \ {r}
  PROVE  Request(q)'
<1>1. UserRow /\ Held(q) /\ Result(q)
  BY DEF Exact, Tables, Request
<1>2. /\ pc'[q] = pc[q] /\ mine'[q] = mine[q] /\ totals'[q] = totals[q]
      /\ pools'[q] = pools[q] /\ today' = today /\ net' = net
      /\ user'.frequency = user.frequency /\ user'.income = user.income
  BY DEF Wrote, sourceVars
<1>3. ~OneRequest
  BY DEF OneRequest
<1>4. Held(q)'
  <2> SUFFICES ASSUME pc[q] # "idle" PROVE Held(q)'
    BY <1>2 DEF Held
  <2>1. Row(mine[q].row)'
    BY <1>1, <1>2 DEF Held, Row
  <2>2. Recorded(mine[q].row.nextPayDate)'
    <3>1. PICK n \in Nat : n = mine[q].row.nextPayDate
      BY DEF SummaryInv, TypeOK, User
    <3>2. Recorded(n)'
      BY <1>1, <3>1, WroteRecorded DEF Held
    <3> QED
      BY <1>2, <3>1, <3>2 DEF Recorded
  <2> QED
    BY <1>1, <1>2, <1>3, <2>1, <2>2 DEF Held, Carried, OneRequest
<1>5. Result(q)'
  BY <1>1, <1>2 DEF Result, Closing, Carried
<1>6. Solo(q)'
  BY <1>3 DEF Solo, Uncapped, OneRequest
<1> QED
  BY <1>4, <1>5, <1>6 DEF Request

\* The pay date that a closing request leaves in the user row, and its rows.
LEMMA PayDateMoves ==
  ASSUME SummaryInv, Exact, NEW r \in Requests, Wrote(r), pc[r] # "idle",
         HasCome(mine[r].row.nextPayDate),
         user' = [user EXCEPT !.nextPayDate = FollowingPayDate(mine[r].row), !.settled = TRUE],
         PaySalary(mine[r].row),
         /\ mine[r].row.settled
         /\ Carried(Salary)[mine[r].row.nextPayDate + user.frequency] > 0
         => history'[mine[r].row.nextPayDate] > 0
  PROVE  /\ user'.nextPayDate = mine[r].row.nextPayDate + user.frequency /\ user'.settled
         /\ Row(user)' /\ Recorded(user.nextPayDate)' /\ SalaryRows'
<1>0. /\ mine[r].row.nextPayDate \in Nat /\ user.frequency \in Nat
      /\ \A d \in Day : salaryRows[d] \in Nat
  BY DEF SummaryInv, TypeOK, User
<1>n. PICK n \in Nat : n = mine[r].row.nextPayDate
  BY <1>0
<1>f. PICK f \in Nat : f = user.frequency
  BY <1>0
<1>1. /\ UserRow /\ Row(mine[r].row) /\ Recorded(n) /\ SalaryRows
      /\ OneRequest => mine[r].row = user
  BY <1>n DEF Exact, Tables, Request, Held, Recorded
<1>2. /\ n \in Nat /\ n \in Day /\ n <= today /\ n >= FirstPayDate
      /\ f \in Nat \ {0} /\ FirstPayDate \in Nat /\ today' = today /\ today \in Nat
      /\ mine[r].row.income = user.income
  <2>1. f \in Nat \ {0} /\ FirstPayDate \in Nat /\ today \in Nat /\ today <= MaxDay
    BY <1>1, <1>f, Cycle
  <2>2. n >= FirstPayDate /\ mine[r].row.income = user.income
    BY <1>1, <1>n DEF Row
  <2>3. n <= today /\ today' = today
    BY <1>n DEF HasCome, Wrote, sourceVars
  <2> QED
    BY <2>1, <2>2, <2>3, MaxDayIsNat DEF Day
<1>3. user'.nextPayDate = n + f /\ user'.settled
      /\ user'.frequency = f /\ user'.income = user.income
  BY <1>1, <1>n, <1>f DEF FollowingPayDate, Row, SummaryInv, TypeOK, User
<1>4. /\ salaryRows \in [Day -> Nat]
      /\ user.income > 0 => salaryRows'[n] = salaryRows[n] + 1
      /\ \A d \in Day : d # n => salaryRows'[d] = salaryRows[d]
      /\ salaryRows'[n] <= salaryRows[n] + 1
  <2>1. salaryRows \in [Day -> Nat]
    BY DEF SummaryInv, TypeOK
  <2> QED
    BY <1>2, <1>n, <2>1 DEF PaySalary
<1>5. mine[r].row.settled <=> n > FirstPayDate
  BY <1>1, <1>n DEF Row
<1>6. n > FirstPayDate /\ Carried(Salary)[n + f] > 0 => history'[n] > 0
  BY <1>5, <1>n, <1>f
<1>7. Row(user)'
  BY <1>2, <1>3 DEF Row
<1>m. PICK m \in Nat : m = n + f
  BY <1>2
<1>8. Recorded(m)'
  <2>1. OnPayCycle(m)'
    <3>1. n - FirstPayDate \in Nat /\ (n - FirstPayDate) % f = 0
      BY <1>1, <1>2, <1>f DEF Recorded, OnPayCycle
    <3>2. (n - FirstPayDate + f) % f = 0
      BY <1>2, <3>1, PayCycleNext
    <3>3. m - FirstPayDate = n - FirstPayDate + f /\ m >= FirstPayDate
      BY <1>2, <1>m
    <3> QED
      BY <1>3, <3>2, <3>3 DEF OnPayCycle
  <2> SUFFICES ASSUME NEW d \in Day, OnPayCycle(d)', d < m
               PROVE  /\ d <= today'
                      /\ user'.income > 0 => salaryRows'[d] > 0
                      /\ (d > FirstPayDate /\ Carried(Salary)'[d + user'.frequency] > 0)
                         => history'[d] > 0
    BY <2>1 DEF Recorded
  <2>2. CASE d < n
    <3>1. Recorded(n)'
      BY <1>1, <1>2, WroteRecorded
    <3> QED
      BY <2>2, <3>1 DEF Recorded
  <2>3. CASE d = n
    <3>1. Carried(Salary)' = Carried(Salary)
      BY DEF Carried, Wrote, sourceVars
    <3>2. salaryRows[n] \in Nat
      BY <1>0, <1>2
    <3>3. user'.income > 0 => salaryRows'[n] > 0
      BY <1>3, <1>4, <3>2
    <3>4. (n > FirstPayDate /\ Carried(Salary)'[n + user'.frequency] > 0) => history'[n] > 0
      BY <1>3, <1>6, <3>1
    <3> QED
      BY <1>2, <2>3, <3>3, <3>4
  <2>4. ~(d > n)
    <3> SUFFICES ASSUME d > n PROVE FALSE
      OBVIOUS
    <3> DEFINE a == n - FirstPayDate
               b == d - FirstPayDate
    <3>1. a \in Nat /\ a % f = 0
      BY <1>1, <1>2, <1>f DEF Recorded, OnPayCycle
    <3>2. b \in Nat /\ b % f = 0
      BY <1>2, <1>3, MaxDayIsNat DEF OnPayCycle, Day
    <3>3. a < b /\ ~(a + f <= b)
      BY <1>2, <1>m, MaxDayIsNat DEF Day
    <3> HIDE DEF a, b
    <3> QED
      BY <1>2, <3>1, <3>2, <3>3, PayCycleApart
  <2> QED
    BY <1>2, <1>m, <2>2, <2>3, <2>4, MaxDayIsNat DEF Day
<1>9. Recorded(user.nextPayDate)'
  BY <1>3, <1>m, <1>8 DEF Recorded, OnPayCycle
<1>10. SalaryRows'
  <2> SUFFICES ASSUME OneRequest, NEW d \in Day
               PROVE  salaryRows'[d] <= IF d < n + f THEN 1 ELSE 0
    BY <1>3 DEF SalaryRows
  <2>1. salaryRows[d] <= (IF d < n THEN 1 ELSE 0) /\ salaryRows[n] <= 0
    BY <1>1, <1>2, <1>n DEF SalaryRows
  <2>2. d \in Nat /\ salaryRows[d] \in Nat /\ salaryRows[n] \in Nat /\ salaryRows'[d] \in Nat
    BY <1>0, <1>2, MaxDayIsNat DEF Day, Wrote
  <2>3. CASE d = n
    <3>1. d < n + f
      BY <1>2, <2>3
    <3> QED
      BY <1>4, <2>1, <2>2, <2>3, <3>1
  <2>4. CASE d # n
    <3>1. salaryRows'[d] = salaryRows[d] /\ (d < n => d < n + f)
      BY <1>2, <1>4, <2>2, <2>4
    <3> QED
      BY <2>1, <2>2, <3>1
  <2> QED
    BY <2>3, <2>4
<1> QED
  BY <1>3, <1>7, <1>9, <1>10, <1>n, <1>f

\* The sources stay ahead of the period that a closing request begins.
LEMMA SourcesStayAhead ==
  ASSUME SummaryInv, Exact, NEW r \in Requests, UNCHANGED sourceVars,
         pc[r] = "check" \/ Closing(r), HasCome(mine[r].row.nextPayDate),
         user'.nextPayDate = mine[r].row.nextPayDate + user.frequency,
         user'.frequency = user.frequency, Uncapped, NEW s \in LiveSources
  PROVE  /\ source'[s].isActive
         /\ source'[s].nextPaymentDate >= user'.nextPayDate - user'.frequency
<1>1. PaidUp(s, r) /\ mine[r].day <= today /\ today <= mine[r].day + 1 /\ source[s].isActive
  BY DEF Exact, Tables, SourceRows, Request, Solo, Closing
<1>2. /\ source[s].nextPaymentDate \in Nat /\ mine[r].day \in Nat /\ today \in Nat
      /\ mine[r].row.nextPayDate \in Nat
  <2>1. source \in [Sources -> Source] /\ today \in Day /\ s \in Sources
    BY DEF SummaryInv, TypeOK, SourcesTypeOK, LiveSources
  <2>2. mine \in [Requests -> [row : User, rollover : Nat, day : Day]]
    BY DEF SummaryInv, TypeOK
  <2>3. source[s].nextPaymentDate \in Nat
    BY <2>1 DEF Source
  <2>4. mine[r].day \in Day /\ mine[r].row \in User
    BY <2>2
  <2>5. mine[r].row.nextPayDate \in Nat
    BY <2>4 DEF User
  <2> QED
    BY <2>1, <2>3, <2>4, <2>5, MaxDayIsNat DEF Day
<1>3. mine[r].row.nextPayDate <= today
  BY DEF HasCome
<1>4. source[s].nextPaymentDate > mine[r].day
  BY <1>1 DEF PaidUp
<1>5. source[s].nextPaymentDate >= mine[r].row.nextPayDate
  BY <1>1, <1>2, <1>3, <1>4
<1>6. user.frequency \in Nat
  BY DEF SummaryInv, TypeOK, User
<1>7. user'.nextPayDate - user'.frequency = mine[r].row.nextPayDate
  BY <1>2, <1>6
<1>8. source'[s] = source[s]
  BY DEF sourceVars
<1> QED
  BY <1>1, <1>5, <1>7, <1>8

LEMMA FirstTransitionKeepsExact ==
  ASSUME SummaryInv, SummaryInv', Exact, NEW r \in Requests, FirstTransition(r)
  PROVE  Exact'
<1> DEFINE row == mine[r].row
<1>1. TypeOK /\ TypeOK' /\ UserRow /\ Banners /\ SourceRows /\ Held(r) /\ Solo(r)
  BY DEF SummaryInv, Exact, Tables, Request
<1>2. /\ pc[r] = "check" /\ ~row.settled /\ HasCome(row.nextPayDate)
      /\ user' = [user EXCEPT !.nextPayDate = FollowingPayDate(row), !.settled = TRUE]
      /\ UNCHANGED <<sourceVars, banner, history, pc, totals, pools>> /\ PaySalary(row)
  BY DEF FirstTransition, PeriodHasEnded
<1>3. /\ mine'[r].row = user' /\ mine'[r].rollover = 0 /\ mine'[r].day = mine[r].day
      /\ rollover' = [rollover EXCEPT ![Salary] = 0]
      /\ \A q \in Requests \ {r} : mine'[q] = mine[q]
  BY <1>1 DEF FirstTransition, TypeOK
<1>4. Wrote(r)
  <2>1. user'.frequency = user.frequency /\ user'.income = user.income
    BY <1>1, <1>2 DEF TypeOK, User
  <2>2. \A d \in Day : salaryRows'[d] \in Nat /\ salaryRows'[d] >= salaryRows[d]
    <3>1. /\ \A d \in Day : salaryRows'[d] \in Nat
          /\ \A d \in Day : salaryRows[d] \in Nat
          /\ salaryRows \in [Day -> Nat]
      BY <1>1 DEF TypeOK
    <3>2. row.nextPayDate \in Day
      <4>1. row.nextPayDate \in Nat /\ today \in Nat /\ today <= MaxDay
        BY <1>1, Cycle DEF TypeOK, User
      <4> HIDE DEF row
      <4> QED
        BY <1>2, <4>1, MaxDayIsNat DEF HasCome, Day
    <3> QED
      BY <1>2, <3>1, <3>2 DEF PaySalary
  <2>3. \A d \in Day : history'[d] \in Nat /\ history'[d] >= history[d]
    BY <1>1, <1>2 DEF TypeOK
  <2> QED
    BY <1>2, <1>3, <2>1, <2>2, <2>3 DEF Wrote
<1>5. PICK n \in Nat : n = row.nextPayDate
  BY <1>1 DEF TypeOK, User
<1>6. n = FirstPayDate /\ (OneRequest => row = user)
  BY <1>1, <1>2, <1>5, Cycle DEF Held, Row
<1>7. /\ user'.nextPayDate = n + user.frequency /\ user'.settled
      /\ Row(user)' /\ Recorded(user.nextPayDate)' /\ SalaryRows'
  BY <1>2, <1>4, <1>5, PayDateMoves
<1>8. ASSUME NEW p \in Pools
      PROVE  Carried(p)'[user'.nextPayDate] = 0 /\ Carried(p)[n] = 0
  <2>1. user.frequency \in Nat \ {0} /\ n + user.frequency \in Nat
    BY <1>1, Cycle
  <2>2. \A salary : /\ CarriedBy(salary, user.frequency, net[p])[n + user.frequency] = 0
                    /\ CarriedBy(salary, user.frequency, net[p])[n] = 0
    BY <1>6, <2>1, CarriedFirst
  <2> QED
    BY <1>4, <1>7, <2>2 DEF Carried, Wrote, sourceVars
<1>9. UserRow'
  <2>1. ASSUME NEW p \in Tracked PROVE rollover'[p] = 0
    <3>1. CASE p = Salary
      BY <1>1, <1>3, <3>1 DEF TypeOK, Pools
    <3>2. CASE p # Salary
      <4>1. Uncapped /\ p \in Pools
        BY <3>2 DEF Tracked
      <4>2. user.nextPayDate = n
        BY <1>5, <1>6, <4>1 DEF Uncapped
      <4>3. rollover[p] = 0
        BY <1>1, <1>8, <4>1, <4>2 DEF UserRow
      <4> QED
        BY <1>1, <1>3, <3>2, <4>1, <4>3 DEF TypeOK
    <3> QED
      BY <3>1, <3>2
  <2>2. Tracked \subseteq Pools
    BY DEF Tracked, Pools
  <2> QED
    BY <1>1, <1>7, <1>8, <2>1, <2>2 DEF UserRow
<1>10. Banners'
  <2>1. ASSUME NEW p \in Tracked, banner[p].shown PROVE ~Uncapped
    BY <1>1, <1>2, <1>6, <2>1 DEF Banners, Uncapped
  <2> QED
    BY <1>1, <1>2, <1>4, <2>1 DEF Banners, Wrote, Carried, sourceVars
<1>11. SourceRows'
  <2> SUFFICES ASSUME Uncapped PROVE SourceRows'
    BY DEF SourceRows
  <2>1. LiveSources' = LiveSources /\ net' = net
    BY <1>2 DEF LiveSources, sourceVars
  <2>2. \A s \in LiveSources : /\ source'[s].isActive
                               /\ source'[s].nextPaymentDate >= user'.nextPayDate - user'.frequency
    BY <1>2, <1>4, <1>5, <1>7, SourcesStayAhead DEF Wrote
  <2>3. \A s \in Sources \ LiveSources : rollover'[s] = 0
    BY <1>1, <1>3, SourceAssumption DEF SourceRows, TypeOK, Pools
  <2> QED
    BY <1>1, <2>1, <2>2, <2>3 DEF SourceRows
<1>12. Request(r)'
  <2>1. Held(r)'
    BY <1>2, <1>3, <1>7, <1>8 DEF Held, Row, Recorded, Pools
  <2>2. Result(r)'
    BY <1>2 DEF Result, Closing
  <2>3. Solo(r)'
    BY <1>1, <1>2, <1>3 DEF Solo, PaidUp, LiveSources, Closing, SourceResults, sourceVars
  <2> QED
    BY <2>1, <2>2, <2>3 DEF Request
<1> QED
  BY <1>4, <1>7, <1>9, <1>10, <1>11, <1>12, WroteOthers DEF Exact, Tables

LEMMA CommitKeepsExact ==
  ASSUME SummaryInv, SummaryInv', Exact, NEW r \in Requests, Commit(r)
  PROVE  Exact'
<1> DEFINE row  == mine[r].row
           ours == pools[r] \cup {Salary}
<1>1. /\ TypeOK /\ TypeOK' /\ UserRow /\ Banners /\ SourceRows
      /\ Held(r) /\ Result(r) /\ Solo(r) /\ Closing(r) /\ pc[r] = "commit"
  BY DEF SummaryInv, Exact, Tables, Request, Closing, Commit
<1>2. HasCome(row.nextPayDate) /\ row.settled
  BY <1>1 DEF SummaryInv, ClosingIsDue, Closing, Result
<1>3. /\ user' = [user EXCEPT !.nextPayDate = FollowingPayDate(row), !.settled = TRUE]
      /\ UNCHANGED sourceVars /\ PaySalary(row)
      /\ rollover' = [p \in Pools |-> IF p \in ours THEN totals[r][p] ELSE rollover[p]]
      /\ banner' = [p \in Pools |-> IF p \in ours THEN Publish(p, totals[r][p], row.nextPayDate)
                                                  ELSE banner[p]]
      /\ history' = IF totals[r][Salary] > 0
                    THEN [history EXCEPT ![row.nextPayDate] = history[row.nextPayDate] + 1]
                    ELSE history
  BY DEF Commit
<1>4. /\ mine'[r].row = user' /\ mine'[r].rollover = totals[r][Salary]
      /\ mine'[r].day = mine[r].day /\ pc'[r] = "check"
      /\ \A q \in Requests \ {r} :
            /\ pc'[q] = pc[q] /\ mine'[q] = mine[q] /\ totals'[q] = totals[q]
            /\ pools'[q] = pools[q]
  BY <1>1 DEF Commit, Goto, TypeOK
<1>5. PICK n \in Nat : n = row.nextPayDate
  BY <1>1 DEF TypeOK, User
<1>6. n \in Day /\ n <= today /\ (OneRequest => row = user)
  <2>1. today \in Nat /\ today <= MaxDay
    BY <1>1, Cycle
  <2>2. n <= today
    BY <1>2, <1>5 DEF HasCome
  <2> QED
    BY <1>1, <1>5, <2>1, <2>2, MaxDayIsNat DEF Held, Closing, Day
<1>7. totals[r][Salary] = Carried(Salary)[n + user.frequency]
  BY <1>1, <1>5 DEF Result
<1>8. Wrote(r)
  <2>1. user'.frequency = user.frequency /\ user'.income = user.income
    BY <1>1, <1>3 DEF TypeOK, User
  <2>2. \A d \in Day : salaryRows'[d] \in Nat /\ salaryRows'[d] >= salaryRows[d]
    <3>1. salaryRows \in [Day -> Nat]
      BY <1>1 DEF TypeOK
    <3>2. row.nextPayDate \in Day
      BY <1>5, <1>6
    <3> QED
      BY <1>3, <3>1, <3>2 DEF PaySalary
  <2>3. \A d \in Day : history'[d] \in Nat /\ history'[d] >= history[d]
    <3>1. history \in [Day -> Nat]
      BY <1>1 DEF TypeOK
    <3> QED
      BY <1>3, <1>5, <1>6, <3>1
  <2> QED
    BY <1>3, <1>4, <2>1, <2>2, <2>3 DEF Wrote
<1>9. /\ user'.nextPayDate = n + user.frequency /\ user'.settled
      /\ Row(user)' /\ Recorded(user.nextPayDate)' /\ SalaryRows'
  <2>1. Carried(Salary)[n + user.frequency] > 0 => history'[n] > 0
    <3>1. history[n] \in Nat /\ history \in [Day -> Nat]
      BY <1>1, <1>6 DEF TypeOK
    <3> QED
      BY <1>3, <1>5, <1>6, <1>7, <3>1
  <2>2. pc[r] # "idle"
    BY <1>1
  <2> QED
    BY <1>2, <1>3, <1>5, <1>8, <2>1, <2>2, PayDateMoves
<1>10. \A p \in Pools : Carried(p)' = Carried(p)
  BY <1>8 DEF Carried, Wrote, sourceVars
<1>11. Uncapped => ours = LiveSources \cup {Salary} /\ row = user /\ user.nextPayDate = n
  BY <1>1, <1>5, <1>6 DEF Solo, SourceResults, Uncapped
<1>12. Tracked \subseteq Pools /\ \A p \in Tracked : p # Salary => Uncapped /\ p \in Sources
  BY DEF Tracked, Pools
<1>13. ASSUME NEW p \in Tracked, p \in ours
       PROVE  totals[r][p] = Carried(p)[n + user.frequency]
  <2>1. CASE p = Salary
    BY <1>7, <2>1
  <2>2. CASE p # Salary
    BY <1>1, <1>11, <1>12, <1>13, <2>2 DEF Solo, SourceResults
  <2> QED
    BY <2>1, <2>2
<1>14. ASSUME NEW p \in Tracked PROVE rollover'[p] = Carried(p)[n + user.frequency]
  <2>1. CASE p \in ours
    BY <1>3, <1>12, <1>13, <2>1
  <2>2. CASE p \notin ours
    <3>1. Uncapped /\ p \in Sources \ LiveSources /\ p # Salary
      BY <1>11, <1>12, <2>2
    <3>2. rollover[p] = 0 /\ net[p] = EmptyTotal /\ rollover'[p] = rollover[p]
      BY <1>1, <1>3, <1>12, <2>2, <3>1 DEF SourceRows
    <3>3. n + user.frequency \in Nat /\ n + user.frequency - user.frequency <= MaxDay
      BY <1>1, <1>6, Cycle, MaxDayIsNat DEF Day
    <3>4. CarriedBy(0, user.frequency, EmptyTotal)[n + user.frequency] = 0
      BY <1>1, <3>3, Cycle, CarriedNothing
    <3> QED
      BY <3>1, <3>2, <3>4 DEF Carried
  <2> QED
    BY <2>1, <2>2
<1>15. UserRow'
  <2>1. \A p \in Tracked : rollover'[p] = Carried(p)'[user'.nextPayDate]
    BY <1>9, <1>10, <1>12, <1>14
  <2> QED
    BY <1>1, <1>9, <2>1 DEF UserRow
<1>16. Banners'
  <2> SUFFICES ASSUME NEW p \in Tracked, banner'[p].shown
               PROVE  /\ banner'[p].period <= today'
                      /\ banner'[p].amount = Carried(p)'[banner'[p].period + user'.frequency]
                      /\ Uncapped => user'.settled
                                     /\ banner'[p].period + user'.frequency <= user'.nextPayDate
    BY DEF Banners
  <2>1. /\ today' = today /\ user'.frequency = user.frequency
        /\ n + user.frequency <= user'.nextPayDate
    BY <1>1, <1>8, <1>9, Cycle DEF Wrote, sourceVars
  <2>2. CASE p \in ours /\ totals[r][p] > 0
    <3>1. banner'[p].period = n /\ banner'[p].amount = totals[r][p]
      BY <1>3, <1>5, <1>12, <2>2 DEF Publish
    <3> QED
      BY <1>6, <1>9, <1>10, <1>12, <1>13, <2>1, <2>2, <3>1
  <2>3. CASE ~(p \in ours /\ totals[r][p] > 0)
    <3>1. banner'[p] = banner[p]
      BY <1>3, <1>12, <2>3 DEF Publish
    <3>2. /\ banner[p].period <= today
          /\ banner[p].amount = Carried(p)[banner[p].period + user.frequency]
          /\ Uncapped => user.settled /\ banner[p].period + user.frequency <= user.nextPayDate
      BY <1>1, <3>1 DEF Banners
    <3>3. Uncapped => banner[p].period + user.frequency <= n + user.frequency
      <4>1. banner[p].period \in Nat /\ user.frequency \in Nat
        BY <1>1, <1>12, Cycle DEF TypeOK, Banner
      <4> QED
        BY <1>11, <3>2, <4>1
    <3>4. Uncapped => banner[p].period + user.frequency <= user'.nextPayDate
      BY <1>9, <3>3
    <3> QED
      BY <1>9, <1>10, <1>12, <2>1, <3>1, <3>2, <3>4
  <2> QED
    BY <2>2, <2>3
<1>17. SourceRows'
  <2> SUFFICES ASSUME Uncapped PROVE SourceRows'
    BY DEF SourceRows
  <2>1. LiveSources' = LiveSources /\ net' = net
    BY <1>3 DEF LiveSources, sourceVars
  <2>2. \A s \in LiveSources : /\ source'[s].isActive
                               /\ source'[s].nextPaymentDate >= user'.nextPayDate - user'.frequency
    BY <1>1, <1>2, <1>3, <1>5, <1>8, <1>9, SourcesStayAhead DEF Wrote
  <2>3. ASSUME NEW s \in Sources \ LiveSources PROVE rollover'[s] = rollover[s]
    BY <1>3, <1>11, SourceAssumption DEF Pools
  <2> QED
    BY <1>1, <2>1, <2>2, <2>3 DEF SourceRows
<1>18. Request(r)'
  <2>1. Held(r)'
    BY <1>4, <1>7, <1>9, <1>10 DEF Held, Row, Recorded, Pools
  <2>2. Result(r)'
    BY <1>4 DEF Result, Closing
  <2>3. Solo(r)'
    BY <1>1, <1>3, <1>4 DEF Solo, PaidUp, LiveSources, Closing, SourceResults, sourceVars
  <2> QED
    BY <2>1, <2>2, <2>3 DEF Request
<1> QED
  BY <1>8, <1>9, <1>15, <1>16, <1>17, <1>18, WroteOthers DEF Exact, Tables

LEMMA ExpireBannerKeepsExact ==
  ASSUME SummaryInv, SummaryInv', Exact, NEW r \in Requests, NEW p \in Pools, ExpireBanner(r, p)
  PROVE  Exact'
<1>1. TypeOK /\ TypeOK' /\ Tables /\ Request(r) /\ pc[r] = "expire"
  BY DEF SummaryInv, Exact, ExpireBanner
<1>2. /\ UNCHANGED <<sourceVars, user, rollover, salaryRows, history, pc, mine, totals>>
      /\ \A q \in Requests \ {r} : pools'[q] = pools[q]
      /\ banner' = [banner EXCEPT ![p].shown = FALSE]
  BY <1>1 DEF ExpireBanner, TypeOK
<1>3. Wrote(r)
  BY <1>1, <1>2 DEF Wrote, TypeOK
<1>4. UserRow'
  BY <1>1, <1>2 DEF Tables, UserRow, Row, Recorded, OnPayCycle, Carried, sourceVars
<1>5. Banners'
  <2>1. ASSUME NEW k \in Pools
        PROVE  /\ banner'[k].shown => banner[k].shown
               /\ banner'[k].period = banner[k].period /\ banner'[k].amount = banner[k].amount
    <3>1. banner[k] \in Banner /\ banner \in [Pools -> Banner]
      BY <1>1 DEF TypeOK
    <3>2. CASE k = p
      BY <1>2, <3>1, <3>2 DEF Banner
    <3>3. CASE k # p
      BY <1>2, <3>1, <3>3
    <3> QED
      BY <3>2, <3>3
  <2>2. Tracked \subseteq Pools
    BY DEF Tracked, Pools
  <2> QED
    BY <1>1, <1>2, <2>1, <2>2 DEF Tables, Banners, Carried, sourceVars
<1>6. SalaryRows' /\ SourceRows'
  BY <1>1, <1>2 DEF Tables, SalaryRows, SourceRows, LiveSources, sourceVars
<1>7. Request(r)'
  <2>1. Held(r)'
    BY <1>1, <1>2 DEF Request, Held, Row, Recorded, OnPayCycle, Carried, sourceVars
  <2>2. Result(r)' /\ Solo(r)'
    BY <1>1, <1>2 DEF Result, Closing, Request, Solo, SourceResults, sourceVars
  <2> QED
    BY <2>1, <2>2 DEF Request
<1> QED
  BY <1>3, <1>4, <1>5, <1>6, <1>7, WroteOthers DEF Exact, Tables

-------------------------------------------------------------------------------
(* The invariant, and what it says.                                           *)

LEMMA ExactInit == Undisturbed /\ Init => Exact
<1> SUFFICES ASSUME Undisturbed, Init PROVE Exact
  OBVIOUS
<1>1. PICK f \in PayFrequencies, i \in Incomes, d \in PayDates :
         user = [nextPayDate |-> d, frequency |-> f, income |-> i, settled |-> FALSE]
  BY DEF Init
<1>2. FirstPayDate \in PayDates /\ d = FirstPayDate /\ d \in Nat /\ f \in Nat \ {0}
  BY <1>1, PayPeriodAssumption DEF FirstPayDate, Undisturbed
<1>3. /\ today = 0 /\ net = [p \in Pools |-> EmptyTotal] /\ rollover = Zero
      /\ banner = [p \in Pools |-> NoBanner] /\ salaryRows = EmptyTotal
      /\ pc = [r \in Requests |-> "idle"] /\ source \in [Sources -> InitialSource]
  BY DEF Init, SourcesInit
<1>4. Tracked \subseteq Pools
  BY DEF Tracked, Pools
<1>5. UserRow
  <2>1. Row(user)
    BY <1>1, <1>2 DEF Row
  <2>2. Recorded(user.nextPayDate)
    <3>1. OnPayCycle(d)
      <4>1. d - FirstPayDate = 0 /\ 0 % f = 0
        BY <1>2, SMT
      <4> QED
        BY <1>1, <1>2, <4>1 DEF OnPayCycle
    <3>2. \A k \in Day : OnPayCycle(k) => ~(k < d)
      BY <1>2, MaxDayIsNat DEF OnPayCycle, Day
    <3> QED
      BY <1>1, <3>1, <3>2 DEF Recorded
  <2>3. ASSUME NEW p \in Tracked PROVE rollover[p] = Carried(p)[user.nextPayDate]
    <3>1. \A salary : CarriedBy(salary, f, net[p])[d] = 0
      BY <1>2, CarriedFirst
    <3> QED
      BY <1>1, <1>3, <1>4, <3>1 DEF Carried, Zero
  <2> QED
    BY <1>2, <2>1, <2>2, <2>3 DEF UserRow
<1>6. Banners
  BY <1>3, <1>4 DEF Banners, NoBanner
<1>7. SalaryRows
  BY <1>3 DEF SalaryRows, EmptyTotal
<1>8. SourceRows
  <2>1. \A s \in LiveSources : source[s].isActive
    <3>1. \A s \in Sources : source[s] \in InitialSource
      BY <1>3
    <3>2. NewSource.status # "live"
      BY DEF NewSource
    <3> QED
      BY <3>1, <3>2 DEF LiveSources, InitialSource
  <2>2. \A s \in Sources : rollover[s] = 0 /\ net[s] = EmptyTotal
    BY <1>3 DEF Zero, Pools
  <2> QED
    BY <1>1, <2>1, <2>2 DEF SourceRows
<1>9. \A r \in Requests : Request(r)
  BY <1>3 DEF Request, Held, Result, Closing, Solo, SourceResults
<1> QED
  BY <1>5, <1>6, <1>7, <1>8, <1>9 DEF Exact, Tables

LEMMA NoEdits ==
  ASSUME Undisturbed, SummaryInv, UserStep
  PROVE  ClockOrRow
<1>1. ~(edits < MaxEdits)
  BY DEF Undisturbed, SummaryInv, TypeOK, SourcesTypeOK
<1> QED
  BY <1>1 DEF UserStep, EditSource, CreateSource, UpdateSource, DeleteSource, RemoveSource,
              EditProfile, EditRollover, Dismiss, OtherEdit

LEMMA ExactStep ==
  ASSUME Undisturbed, SummaryInv, SummaryInv', Exact, [Next]_vars
  PROVE  Exact'
<1>1. CASE UNCHANGED vars
  <2>1. UNCHANGED <<homeVars, requestVars, today, net, run, source>>
    BY <1>1 DEF vars, sourceVars
  <2>2. UserRow' /\ Banners' /\ SalaryRows' /\ \A r \in Requests : Held(r)' /\ Result(r)'
    BY <2>1, QuietStep
  <2>3. SourceRows' /\ \A r \in Requests : Solo(r)'
    BY <2>1 DEF homeVars, requestVars, Exact, Tables, Request, SourceRows, Solo, Booking, PaidUp,
                SourceResults, Closing, LiveSources, Carried
  <2> QED
    BY <2>2, <2>3 DEF Exact, Tables, Request
<1>2. CASE UserStep
  BY <1>2, NoEdits, ClockKeepsExact
<1>3. ASSUME NEW r \in Requests, Open(r) \/ Step(r) \/ Crash(r) PROVE Exact'
  <2>1. CASE BookPayments(r)
    BY <2>1, TakeSourceKeepsExact, ClaimKeepsExact DEF BookPayments
  <2>2. CASE Open(r) \/ ListSources(r) \/ EndBooking(r) \/ ReadBanners(r)
    BY <2>2, OpenKeepsExact, ListSourcesKeepsExact, EndBookingKeepsExact, ReadBannersKeepsExact
  <2>3. CASE ReadSalaryPool(r) \/ ReadTransitionSources(r) \/ ReadSourcePools(r)
    BY <2>3, ReadSalaryPoolKeepsExact, ReadTransitionSourcesKeepsExact, ReadSourcePoolsKeepsExact
  <2>4. CASE FirstTransition(r) \/ Commit(r) \/ \E p \in Pools : ExpireBanner(r, p)
    BY <2>4, FirstTransitionKeepsExact, CommitKeepsExact, ExpireBannerKeepsExact
  <2>5. CASE Respond(r) \/ CommitFails(r) \/ Crash(r)
    BY <2>5, EndKeepsExact
  <2> QED
    BY <1>3, <2>1, <2>2, <2>3, <2>4, <2>5 DEF Step
<1> QED
  BY <1>1, <1>2, <1>3 DEF Next

LEMMA ExactHolds ==
  ASSUME Undisturbed
  PROVE  Spec => [](SummaryInv /\ Exact)
<1>1. Init => SummaryInv /\ Exact
  BY SummaryInit, ExactInit
<1>2. SummaryInv /\ Exact /\ [Next]_vars => (SummaryInv /\ Exact)'
  BY SummaryStep, ExactStep
<1> QED
  BY <1>1, <1>2, PTL DEF Spec

(* However many summaries of the user run at once, and wherever one of them   *)
(* dies, the salary rollover in the user row is what all the periods before   *)
(* its next pay date, each counted once, have left: the transaction that      *)
(* closes a period writes both, from one copy of the user row.                *)
THEOREM SalaryRolloverCarried ==
  ASSUME Undisturbed
  PROVE  Spec => [](rollover[Salary] = Carried(Salary)[user.nextPayDate])
<1>1. Exact => rollover[Salary] = Carried(Salary)[user.nextPayDate]
  BY DEF Exact, Tables, UserRow, Tracked, Pools
<1> QED
  BY <1>1, ExactHolds, PTL

(* The same of every pool, when the user has no income source besides the     *)
(* salary, or requests come one at a time and the cap on payments is not met. *)
THEOREM RolloverExact ==
  ASSUME Undisturbed, Uncapped \/ Sources = {}
  PROVE  Spec => []RolloverIsCarried
<1>1. Exact => RolloverIsCarried
  BY DEF Exact, Tables, UserRow, Tracked, Pools, RolloverIsCarried
<1> QED
  BY <1>1, ExactHolds, PTL

(* However many summaries run at once, no pay date is passed without its      *)
(* Primary Income row and, when something was left over, its RolloverEntry.   *)
THEOREM EveryPeriodRecorded ==
  ASSUME Undisturbed
  PROVE  Spec => []NoPeriodSkipped
<1>1. Exact => NoPeriodSkipped
  BY DEF Exact, Tables, UserRow, Recorded, OnPayCycle, NoPeriodSkipped
<1> QED
  BY <1>1, ExactHolds, PTL

(* A salary banner on show tells what its own period left over, also when an  *)
(* older request republishes it, or dismisses it late.                        *)
THEOREM SalaryBannerTruthful ==
  ASSUME Undisturbed
  PROVE  Spec => [](banner[Salary].shown =>
                       banner[Salary].amount
                       = Carried(Salary)[banner[Salary].period + user.frequency])
<1>1. Exact => (banner[Salary].shown =>
                   banner[Salary].amount
                   = Carried(Salary)[banner[Salary].period + user.frequency])
  BY DEF Exact, Tables, Banners, Tracked, Pools
<1> QED
  BY <1>1, ExactHolds, PTL

(* The same of every pool's banner, under the conditions of RolloverExact.    *)
THEOREM BannersExact ==
  ASSUME Undisturbed, Uncapped \/ Sources = {}
  PROVE  Spec => []BannerTruthful
<1>1. Exact => BannerTruthful
  BY DEF Exact, Tables, Banners, Tracked, Pools, BannerTruthful
<1> QED
  BY <1>1, ExactHolds, PTL

(* When the summaries of a user come one at a time, a pay date gets one       *)
(* Primary Income row, in spite of crashes and of late summaries.             *)
THEOREM SalaryPaidOnce ==
  ASSUME Undisturbed, OneRequest
  PROVE  Spec => []SalaryOnce
<1>1. SummaryInv /\ Exact => SalaryOnce
  <2> SUFFICES ASSUME SummaryInv, Exact, NEW d \in Day PROVE salaryRows[d] <= 1
    BY DEF SalaryOnce
  <2>1. salaryRows[d] \in Nat /\ salaryRows[d] <= IF d < user.nextPayDate THEN 1 ELSE 0
    BY DEF Exact, Tables, SalaryRows, SummaryInv, TypeOK
  <2> QED
    BY <2>1
<1> QED
  BY <1>1, ExactHolds, PTL

(* When a request closes a period, the source payments dated in it exist,     *)
(* because it booked all that were due before it looked at the pay date.      *)
THEOREM PaymentsFirst ==
  ASSUME Undisturbed, Uncapped
  PROVE  Spec => []PaymentsBeforeRollover
<1>1. SummaryInv /\ Exact => PaymentsBeforeRollover
  <2> SUFFICES ASSUME SummaryInv, Exact, NEW r \in Requests, Closing(r), NEW s \in LiveSources
               PROVE  source[s].nextPaymentDate >= mine[r].row.nextPayDate
    BY DEF PaymentsBeforeRollover, Closing
  <2>1. PaidUp(s, r) /\ today <= mine[r].day + 1
    BY DEF Exact, Request, Solo, Closing
  <2>2. mine[r].row.nextPayDate <= today
    BY DEF SummaryInv, ClosingIsDue, HasCome, Closing
  <2>3. /\ source[s].nextPaymentDate \in Nat /\ mine[r].day \in Nat /\ today \in Nat
        /\ mine[r].row.nextPayDate \in Nat
    BY MaxDayIsNat DEF SummaryInv, TypeOK, SourcesTypeOK, Source, User, LiveSources, Day
  <2> QED
    BY <2>1, <2>2, <2>3 DEF PaidUp
<1> QED
  BY <1>1, ExactHolds, PTL
===============================================================================
