------------------------------- MODULE PayPeriod -------------------------------
(****************************************************************************)
(* Requests for the home summary of one user.  There is no scheduler: the   *)
(* first summary after a pay date books the due source payments, then       *)
(* closes the pay periods that have ended, one at a time, and only then     *)
(* reads what it shows.  The planner forecast does the same through         *)
(* getSummary, so two requests of one user run together in normal use.      *)
(*                                                                          *)
(* A request works on the user row it read first, or that its own last      *)
(* update returned.  Closing a period reads its rows, then writes every     *)
(* result in one database transaction, which does not check that the user   *)
(* row is still the one it started from.                                    *)
(****************************************************************************)
EXTENDS IncomeSources

CONSTANTS
    PayFrequencies,    \* lengths of the user's pay cycle, in days
    Incomes,           \* the user's salary
    PayDates,          \* pay dates the user may enter
    Rollovers,         \* rollover amounts the user may enter
    MaxTransitions,    \* maxTransitions of getSummary
    BannerDays,        \* THREE_DAYS_MS
    MaxCrashes         \* bound: requests that die half-way

ASSUME PayPeriodAssumption ==
    /\ PayFrequencies \subseteq Nat \ {0}
    /\ Incomes \subseteq Nat
    /\ PayDates \subseteq Nat
    /\ Rollovers \subseteq Nat
    /\ MaxTransitions \in Nat
    /\ BannerDays \in Nat
    /\ MaxCrashes \in Nat

VARIABLES
    user,        \* the pay columns of the user row
    rollover,    \* rollover[p]: rolloverAmount of the user row or of source p
    banner,      \* banner[p]: the rollover notification of pool p
    salaryRows,  \* salaryRows[d]: Primary Income rows dated d
    history,     \* history[d]: RolloverEntry rows of the period that ended at d
    pc,          \* where each request is
    mine,        \* mine[r]: the user row as request r last saw it, and
                 \* the day the request began
    closed,      \* closed[r]: periods request r has closed
    totals,      \* totals[r][p]: pool p's rollover as far as r computed it
    pools,       \* pools[r]: the sources r read for the transition; then the
                 \* banners r found too old
    crashes      \* counter of its bound

homeVars == <<user, rollover, banner, salaryRows, history>>
requestVars == <<pc, mine, closed, totals, pools, crashes>>
vars == <<sourceVars, homeVars, requestVars>>

User == [nextPayDate : Nat, frequency : Nat \ {0}, income : Nat, settled : BOOLEAN]

Banner == [shown : BOOLEAN, amount : Nat, period : Nat, createdAt : Nat]

Stage == {"idle", "list", "book", "check", "sources", "sums", "commit", "expire"}

NoBanner == [shown |-> FALSE, amount |-> 0, period |-> 0, createdAt |-> 0]

Zero == [p \in Pools |-> 0]

NoUser == [nextPayDate |-> 0, frequency |-> 1, income |-> 0, settled |-> FALSE]

NoCopy == [row |-> NoUser, rollover |-> 0, day |-> 0]

Init ==
    /\ SourcesInit
    /\ \E f \in PayFrequencies, i \in Incomes, d \in PayDates :
          user = [nextPayDate |-> d, frequency |-> f, income |-> i, settled |-> FALSE]
    /\ rollover = Zero
    /\ banner = [p \in Pools |-> NoBanner]
    /\ salaryRows = EmptyTotal
    /\ history = EmptyTotal
    /\ pc = [r \in Requests |-> "idle"]
    /\ mine = [r \in Requests |-> NoCopy]
    /\ closed = [r \in Requests |-> 0]
    /\ totals = [r \in Requests |-> Zero]
    /\ pools = [r \in Requests |-> {}]
    /\ crashes = 0

-------------------------------------------------------------------------------
(* What the user does beside opening the app.                                 *)

\* A request takes less than a day: it sees midnight pass at most once.
Midnight == Tick /\ \A r \in Requests : pc[r] # "idle" => mine[r].day = today

ClockOrRow ==
    /\ \/ Midnight
       \/ \E p \in Pools, a \in RowAmounts, d \in Day : EnterRow(p, a, d)
    /\ UNCHANGED <<homeVars, requestVars>>

EditSource ==
    /\ \/ \E s \in Sources, a \in Amounts, f \in Frequencies, d \in EntryDates, b \in BOOLEAN :
             CreateSource(s, a, f, d, b)
       \/ \E s \in Sources, b \in BOOLEAN :
             \E a \in Amounts \cup {source[s].amount},
                f \in Frequencies \cup {source[s].frequency},
                d \in EntryDates \cup {source[s].nextPaymentDate} :
                UpdateSource(s, a, f, d, b)
    /\ UNCHANGED <<homeVars, requestVars>>

\* The source's rollover and banner go with its row.
DeleteSource(s) ==
    /\ RemoveSource(s)
    /\ rollover' = [rollover EXCEPT ![s] = 0]
    /\ banner' = [banner EXCEPT ![s] = NoBanner]
    /\ UNCHANGED <<user, salaryRows, history, requestVars>>

\* PUT /users/profile
EditProfile(date, income, frequency) ==
    /\ OtherEdit
    /\ user' = [user EXCEPT !.nextPayDate = date, !.income = income,
                            !.frequency = frequency]
    /\ UNCHANGED <<rollover, banner, salaryRows, history, requestVars>>

\* PUT /users/rollover; lastRolloverDate may come with the amount
EditRollover(amount, dated) ==
    /\ OtherEdit
    /\ rollover' = [rollover EXCEPT ![Salary] = amount]
    /\ user' = [user EXCEPT !.settled = user.settled \/ dated]
    /\ UNCHANGED <<banner, salaryRows, history, requestVars>>

Dismiss(p) ==
    /\ OtherEdit
    /\ banner[p].shown
    /\ banner' = [banner EXCEPT ![p].shown = FALSE]
    /\ UNCHANGED <<user, rollover, salaryRows, history, requestVars>>

-------------------------------------------------------------------------------
(* getSummary, one database call at a time.                                   *)

Goto(r, stage) == pc' = [pc EXCEPT ![r] = stage]

\* The request is over and its locals are gone.
Finish(r) ==
    /\ Goto(r, "idle")
    /\ mine' = [mine EXCEPT ![r] = NoCopy]
    /\ closed' = [closed EXCEPT ![r] = 0]
    /\ totals' = [totals EXCEPT ![r] = Zero]
    /\ pools' = [pools EXCEPT ![r] = {}]

\* user.findUnique
Open(r) ==
    /\ pc[r] = "idle"
    /\ mine' = [mine EXCEPT ![r] = [row |-> user, rollover |-> rollover[Salary],
                                       day |-> today]]
    /\ Goto(r, "list")
    /\ UNCHANGED <<sourceVars, homeVars, closed, totals, pools, crashes>>

ListSources(r) ==
    /\ pc[r] = "list"
    /\ ReadSources(r)
    /\ Goto(r, "book")
    /\ UNCHANGED <<homeVars, mine, closed, totals, pools, crashes>>

BookPayments(r) ==
    /\ pc[r] = "book"
    /\ TakeSource(r) \/ Claim(r)
    /\ UNCHANGED <<homeVars, requestVars>>

\* materializeDueTransactions returns.
EndBooking(r) ==
    /\ pc[r] = "book"
    /\ Materialized(r)
    /\ Leave(r)
    /\ Goto(r, "check")
    /\ UNCHANGED <<homeVars, mine, closed, totals, pools, crashes>>

\* The condition of getSummary's loop.
PeriodHasEnded(r) ==
    /\ HasCome(mine[r].row.nextPayDate)
    /\ closed[r] < MaxTransitions

\* Slips: every missed period is closed as one, or the date is not moved far enough.
NextPayDateFromToday(row) ==
    row.nextPayDate + ((today - row.nextPayDate) \div row.frequency + 1) * row.frequency

LatestPayDate(row) ==
    row.nextPayDate + ((today - row.nextPayDate) \div row.frequency) * row.frequency

FollowingPayDate(row) == row.nextPayDate + row.frequency

\* Slip: the period runs to the pay date itself.
TotalWithPayDay(p, row) ==
    Between(net[p], row.nextPayDate - row.frequency, row.nextPayDate)

\* calculatePayPeriodBoundaries: from the pay date before to the day before.
PeriodTotal(p, row) ==
    Between(net[p], row.nextPayDate - row.frequency, row.nextPayDate - 1)

\* materializePrimaryIncomeTransaction
PaySalary(row) ==
    salaryRows' = IF row.income > 0
                  THEN [salaryRows EXCEPT ![row.nextPayDate] = salaryRows[row.nextPayDate] + 1]
                  ELSE salaryRows

\* A user without lastRolloverDate: nothing to roll over, one transaction.
FirstTransition(r) ==
    /\ pc[r] = "check"
    /\ PeriodHasEnded(r)
    /\ ~mine[r].row.settled
    /\ user' = [user EXCEPT !.nextPayDate = FollowingPayDate(mine[r].row),
                            !.settled = TRUE]
    /\ rollover' = [rollover EXCEPT ![Salary] = 0]
    /\ PaySalary(mine[r].row)
    /\ mine' = [mine EXCEPT ![r].row = user', ![r].rollover = 0]
    /\ closed' = [closed EXCEPT ![r] = closed[r] + 1]
    /\ UNCHANGED <<sourceVars, banner, history, pc, totals, pools, crashes>>

\* Slip: the old rollover is read from the database again.
ReadSalaryPoolAfresh(r) ==
    /\ pc[r] = "check"
    /\ PeriodHasEnded(r)
    /\ mine[r].row.settled
    /\ totals' = [totals EXCEPT ![r][Salary] =
                    AtLeastZero(mine[r].row.income + rollover[Salary]
                                + PeriodTotal(Salary, mine[r].row))]
    /\ Goto(r, "sources")
    /\ UNCHANGED <<sourceVars, homeVars, mine, closed, pools, crashes>>

\* The aggregates of the salary pool.  The old rollover and the salary are
\* those of the user row the request holds.
ReadSalaryPool(r) ==
    /\ pc[r] = "check"
    /\ PeriodHasEnded(r)
    /\ mine[r].row.settled
    /\ totals' = [totals EXCEPT ![r][Salary] =
                    AtLeastZero(mine[r].row.income + mine[r].rollover
                                + PeriodTotal(Salary, mine[r].row))]
    /\ Goto(r, "sources")
    /\ UNCHANGED <<sourceVars, homeVars, mine, closed, pools, crashes>>

\* incomeSource.findMany: every source, paused ones too, with its rollover
ReadTransitionSources(r) ==
    /\ pc[r] = "sources"
    /\ pools' = [pools EXCEPT ![r] = LiveSources]
    /\ totals' = [totals EXCEPT ![r] = [p \in Pools |-> IF p \in LiveSources
                                                        THEN rollover[p]
                                                        ELSE totals[r][p]]]
    /\ Goto(r, "sums")
    /\ UNCHANGED <<sourceVars, homeVars, mine, closed, crashes>>

\* The aggregates of each source's pool, run in parallel
ReadSourcePools(r) ==
    /\ pc[r] = "sums"
    /\ totals' = [totals EXCEPT ![r] =
                    [p \in Pools |-> IF p \in pools[r]
                                     THEN AtLeastZero(totals[r][p] + PeriodTotal(p, mine[r].row))
                                     ELSE totals[r][p]]]
    /\ Goto(r, "commit")
    /\ UNCHANGED <<sourceVars, homeVars, mine, closed, pools, crashes>>

\* Slip: a banner that exists is shown again as it was.
ShowAgain(p, amount, date) ==
    IF amount > 0
    THEN [shown |-> TRUE, period |-> date, createdAt |-> today,
          amount |-> IF banner[p] = NoBanner THEN amount ELSE banner[p].amount]
    ELSE banner[p]

\* upsert of a banner: a new surplus overwrites and shows it again.
Publish(p, amount, date) ==
    IF amount > 0
    THEN [shown |-> TRUE, amount |-> amount, period |-> date, createdAt |-> today]
    ELSE banner[p]

\* The database transaction that closes the period.  It fails as a whole when
\* one of the sources it would update has been deleted.
Commit(r) ==
    LET row    == mine[r].row
        date   == row.nextPayDate
        ours   == pools[r] \cup {Salary}
    IN  /\ pc[r] = "commit"
        /\ pools[r] \subseteq LiveSources
        /\ user' = [user EXCEPT !.nextPayDate = FollowingPayDate(row), !.settled = TRUE]
        /\ rollover' = [p \in Pools |-> IF p \in ours THEN totals[r][p] ELSE rollover[p]]
        /\ history' = IF totals[r][Salary] > 0
                      THEN [history EXCEPT ![date] = history[date] + 1]
                      ELSE history
        /\ banner' = [p \in Pools |-> IF p \in ours THEN Publish(p, totals[r][p], date)
                                                    ELSE banner[p]]
        /\ PaySalary(row)
        /\ mine' = [mine EXCEPT ![r].row = user', ![r].rollover = totals[r][Salary]]
        /\ closed' = [closed EXCEPT ![r] = closed[r] + 1]
        /\ totals' = [totals EXCEPT ![r] = Zero]
        /\ pools' = [pools EXCEPT ![r] = {}]
        /\ Goto(r, "check")
        /\ UNCHANGED <<sourceVars, crashes>>

CommitFails(r) ==
    /\ pc[r] = "commit"
    /\ ~(pools[r] \subseteq LiveSources)
    /\ Finish(r)
    /\ UNCHANGED <<sourceVars, homeVars, crashes>>

\* createdAt is a time of day: on its last day a banner is too old or not.
MayBeTooOld(p) == banner[p].shown /\ today >= banner[p].createdAt + BannerDays
TooOld(p)      == banner[p].shown /\ today >  banner[p].createdAt + BannerDays

\* No period left to close: read the banners among all the summary shows.
ReadBanners(r) ==
    /\ pc[r] = "check"
    /\ ~PeriodHasEnded(r)
    /\ \E old \in SUBSET {p \in LiveSources \cup {Salary} : MayBeTooOld(p)} :
          /\ \A p \in LiveSources \cup {Salary} : TooOld(p) => p \in old
          /\ pools' = [pools EXCEPT ![r] = old]
    /\ Goto(r, "expire")
    /\ UNCHANGED <<sourceVars, homeVars, mine, closed, totals, crashes>>

\* The banner row found too old is dismissed by its id, as it is now.
ExpireBanner(r, p) ==
    /\ pc[r] = "expire"
    /\ p \in pools[r]
    /\ banner' = [banner EXCEPT ![p].shown = FALSE]
    /\ pools' = [pools EXCEPT ![r] = pools[r] \ {p}]
    /\ UNCHANGED <<sourceVars, user, rollover, salaryRows, history>>
    /\ UNCHANGED <<pc, mine, closed, totals, crashes>>

Respond(r) ==
    /\ pc[r] = "expire"
    /\ pools[r] = {}
    /\ Finish(r)
    /\ UNCHANGED <<sourceVars, homeVars, crashes>>

\* The process stops or a query fails: the database keeps what was committed.
Crash(r) ==
    /\ crashes < MaxCrashes
    /\ pc[r] # "idle"
    /\ crashes' = crashes + 1
    /\ Leave(r)
    /\ Finish(r)
    /\ UNCHANGED homeVars

Step(r) ==
    \/ ListSources(r) \/ BookPayments(r) \/ EndBooking(r)
    \/ FirstTransition(r) \/ ReadSalaryPool(r) \/ ReadTransitionSources(r)
    \/ ReadSourcePools(r) \/ Commit(r) \/ CommitFails(r)
    \/ ReadBanners(r) \/ (\E p \in Pools : ExpireBanner(r, p)) \/ Respond(r)

-------------------------------------------------------------------------------
UserStep ==
    \/ ClockOrRow
    \/ EditSource
    \/ \E s \in Sources : DeleteSource(s)
    \/ \E d \in PayDates \cup {user.nextPayDate}, i \in Incomes, f \in PayFrequencies :
          EditProfile(d, i, f)
    \/ \E a \in Rollovers, dated \in BOOLEAN : EditRollover(a, dated)
    \/ \E p \in Pools : Dismiss(p)

Next == UserStep \/ \E r \in Requests : Open(r) \/ Step(r) \/ Crash(r)

Spec == Init /\ [][Next]_vars

\* The event loop and the database answer every request in progress, and the
\* user opens the app again and again.
FairSpec == Spec /\ \A r \in Requests : WF_vars(Open(r)) /\ WF_vars(Step(r))

-------------------------------------------------------------------------------
TypeOK ==
    /\ SourcesTypeOK
    /\ user \in User
    /\ rollover \in [Pools -> Nat]
    /\ banner \in [Pools -> Banner]
    /\ salaryRows \in [Day -> Nat]
    /\ history \in [Day -> Nat]
    /\ pc \in [Requests -> Stage]
    /\ mine \in [Requests -> [row : User, rollover : Nat, day : Day]]
    /\ closed \in [Requests -> Nat]
    /\ totals \in [Requests -> [Pools -> Nat]]
    /\ pools \in [Requests -> SUBSET Pools]
    /\ crashes \in Nat
===============================================================================
