# TLA+ specifications of the Trend backend

The backend (`src/src`, NestJS over Prisma and PostgreSQL) serves a personal-finance app.
It has no scheduler, no queue and no lock. Everything happens inside HTTP requests, on one
Node.js process per instance: a request runs until its next `await`, then any other
request may run. The grain of every module here is therefore **one database call** (or one
interactive transaction, `prisma.$transaction(async (tx) => ...)`, which commits as a
whole). What a request holds between two calls is a copy of rows that others may have
changed, and nearly every hazard listed in `PROJECT.json` comes from that.

Two further facts shape the system:

* Time-driven work is done **lazily**. Paying income sources and closing pay periods happens
  inside `GET /home/summary` (and the planner forecast, which calls it), on the first
  request after the date has come. Two phones, or a screen that asks twice, run it twice.
* Most writes are `update ... where id = ...` after a check of a row read earlier. Only the
  booking of income sources uses a compare-and-set (`updateMany` with the expected date).

## The components

| Component | State | Operations | Interacts with | What makes it correct |
|---|---|---|---|---|
| Pay period, home summary (`home/home.service.ts`) | user: `nextPayDate`, `incomeFrequency`, `income`, `rolloverAmount`, `lastRolloverDate`; `rollover_entries`; `rollover_notifications` (one per user, one per source) | `getSummary` → `processPayPeriodTransition` (up to 12 periods), banner expiry | calls income sources; sums transactions and contributions | every ended period closed once and in order; rollover = what the periods left; banners true; catches up with the calendar |
| Income sources (`income-sources/`) | `income_sources`: amount, frequency, `nextPaymentDate`, `isActive`, `rolloverAmount` | create, update, remove, `materializeDueTransactions` (up to 26 dates of a source) | writes INCOME transactions; called by the summary | each payment date booked once, before its period is closed |
| Pay dates (`common/services/date.service.ts`) | none | next and previous pay date, period boundaries, "has the date come" | used by the two above and the planner | periods tile the calendar |
| Users (`users/`) | user row, banner | profile, rollover, banner create/dismiss, deactivate, delete | writes the row the transition reads | only they change a schedule otherwise than by a payment |
| Invoices (`invoices/`) | `invoices`, `clients`, mailbox of the client | create, edit, delete, send, void, mark paid | income transaction, income category, e-mail | one income per paid invoice; the client holds what is on record; numbers go on |
| Transactions, bills (`transactions/`, `common/utils/recurrence.util.ts`) | `transactions` with `status`, `dueDate`, `recurrence`, `linkedGoalId` | create, update (paying a bill makes the next one and contributes to a goal), delete | goals, summary, planner, invoices | one next bill per paid bill |
| Goals (`goals/`) | `goals.currentAmount`, `isCompleted`; `goal_contributions` | contribute, withdraw, allocate the rollover banner | banner, bills, plans | amount = sum of contributions; no more allocated than the banner offers |
| Authentication (`auth/`, `users/repositories`) | password hash and history, failed-login counter, lock, refresh tokens, reset token | register, login, refresh, logout, revoke, change/forgot/reset password, deactivate, delete | users, e-mail, audit | one session per login; a change of the password ends older sessions; no recent password comes back; a reset token serves once |
| Planner (`planner/`) | `plans` | create, edit, status, complete; forecast (pure) | bills, goals, transactions, summary | a plan is applied once; no occurrence of a bill is counted twice or left out by summary and forecast together (the findings show where it is) |
| Webhooks (`webhooks/`) | user: `isPro`, `proExpiresAt` | RevenueCat events, status | outside service | access only while paid; the row says what the store says |
| Spending and income analytics (`transactions/`) | none | totals, trends, burn rate, velocity, patterns, pay periods of a year (pure) | read the transactions | figures computed twice agree; splits add up |
| Poker (`poker/`) | tournaments, events, bankroll rows | CRUD; results and bankroll | none | the three computations of a result agree |
| Categories, budgets | categories with a parent; budgets | CRUD, archive/restore | transactions | archive covers what restore restores; no cycles |
| Audit, e-mail, breach lookup, secrets, currency, PDF, health, assistant | none that others depend on | I/O | | not subjects of a specification |

Which behaviours are hard: interleavings of requests of one user (all of the above that
write), death of a request between two calls (nothing compensates or retries), caps on the
lazy loops, dates on a boundary, and cascades (`SET NULL`, `CASCADE`) that change what an
aggregate sees.

## Modules

| Module | What it is | Code |
|---|---|---|
| `Ledger` | A user's money rows, seen through the aggregates the code runs over them: a running total by day for each pool (a source, or the salary pool of rows with no source). | `calculateAdditionalIncome`, `calculatePreviousPeriodExpenses` |
| `IncomeSources` | Sources, the user's edits of them, the calendar, and `materializeDueTransactions` by any number of requests. | `income-sources.service.ts` |
| `PaymentSchedule` | The promise of `IncomeSources` with requests hidden: a pointer to the next payment, the rows booked, and a count of what the user changed. The service moves the pointer only by booking the payment it shows; any other move is the user's. | abstract |
| `PayPeriod` | Extends `IncomeSources` with the whole `getSummary`: booking, then transitions, then banners; profile edits; crashes. | `home.service.ts`, `users.service.ts` |
| `Invoices` | The life of invoices and of the income row of a paid one. | `invoices.service.ts` |
| `Goals` | Goals with their contributions, and the rollover banner as far as it is allocated to goals. | `goals.service.ts`, `users.repository.ts` |
| `Bills` | Extends `Goals` with bills and plans, the other two callers of `addContribution`. | `transactions.service.ts`, `plans.service.ts` |
| `Sessions` | The account of a user: password and history, counter and lock, refresh tokens as sessions, the reset token; every request step by step. | `auth.service.ts`, `users.repository.ts` |
| `Subscription` | The RevenueCat store (external), its events on their way, and the row they change. | `webhooks/` |
| `PayCalendar` | Pay dates and bill recurrences over a calendar with months of 28 to 31 days. | `date.service.ts`, `recurrence.util.ts` |
| `Spending`, `Earnings` | Lists, counts, and the analytics of expenses and of income, as operators on the rows. | `transactions.service.ts`, `transactions.repository.ts` |
| `HomeSummary` | What the summary answers with, and what a period would carry over. | `home.service.ts` |
| `Forecast` | The cash-flow forecast, from the summary, the sources, the bills and the plans. | `cash-flow-engine.service.ts` |
| `GoalFigures` | Progress, projection, milestones and summaries of goals. | `goals.service.ts`, `goals.repository.ts` |
| `Poker` | Tournaments, events, ledger; the three computations of their results. | `poker/` |
| `MCPayPeriod`, `MCInvoices`, `MCGoals`, `MCBills`, `MCSessions`, `MCSubscription` | Instances for TLC; `MCPayPeriod` also holds the properties that compare with a reference sum. | |
| `MCFigures` | One instance for all pure modules: fills the tables of a user entry by entry and states what the figures must agree on. | |
| `PayPeriod_proofs` (with those of `IncomeSources`), `MCPayPeriod_proofs`, `Invoices_proofs`, `Goals_proofs`, `Bills_proofs`, `Sessions_proofs`, `Subscription_proofs`, `MCFigures_proofs` | The theorems. | |

`PayCalendar` ← `Spending` ← `Earnings` ← `HomeSummary` ← `Forecast`, `GoalFigures` is one chain of
`EXTENDS`, as the services call one another; `Ledger` ← `IncomeSources` ← `PayPeriod` and `Goals` ←
`Bills` are two more.

### State and actions against the code

*Calendar.* `Day` is `0 .. MaxDay` in the user's timezone; `today` only advances (`Tick`). A
pay cycle is a number of days, so weekly and fortnightly cycles are exact and months are
not modelled here. A request sees midnight pass at most once (`Midnight`).

*Rows.* `net[p][d]` is the signed total of pool `p` up to day `d`. Entering a row (`EnterRow`)
stands for a transaction, a paid expense or a contribution dated at most `BackDays` ago.
Primary Income rows are kept apart in `salaryRows`, because every aggregate excludes them.
Deleting a source moves its rows to the salary pool (`incomeSourceId` becomes NULL).

*Income sources.* `source[s]` is the row. `run[r]` holds the locals of one
`materializeDueTransactions`: the rows `findMany` returned (`seen`), those still to take
(`todo`), the one in work (`cursor`), its due date and the number of dates claimed. `Claim`
is the interactive transaction: `updateMany` with the date expected, then the insert, or
the loss of the claim, which breaks out of the source. It uses the frequency and the amount
that were *read*, as the code does. `booked[s][d]` is a history variable that counts the
rows of `s` dated `d`; it is reset from the new date on when the user moves a payment date,
because the user then asks for those dates again.

*Summary.* `pc[r]` is the stage of request `r`; `mine[r]` the user row it holds, which a
transition replaces by the row its own transaction returned; `closed[r]` the number of
periods it closed; `totals[r]` and `pools[r]` the figures between the reads and the
transaction. `ReadSalaryPool`, `ReadTransitionSources` and `ReadSourcePools` are three
steps since they are three groups of calls; the parallel aggregates of the last
(`Promise.all`) are one. `Commit` is the transaction with all it writes (user, history,
both kinds of banner, salary row, source rollovers) and `CommitFails` the case in which a
source has been deleted under it. `FirstTransition` is the branch for a user without
`lastRolloverDate`. After the loop, banners older than `BannerDays` are dismissed by id;
since ages are measured to the millisecond and the model's clock in days, a banner on its
last day may or may not be found too old. `Crash(r)` drops a request at any stage.

*Invoices.* A request reads the invoice and checks its status in one step (`Begin...`; a
rejected request changes nothing), and writes by id in a later one. `seen[r]` is the row it
read, from which `EmailInvoice` makes the PDF. `held[i]` is the client's mailbox: the
contents it was sent. `content` counts edits. `FindCategory`, `AddCategory` and `BookIncome`
are the calls of `markInvoicePaid`; deleting the income row sets the link to NULL
(`DeleteIncome`).

*Goals.* A contribution is three steps: read the goal (`ReadGoal`), insert the contribution, write
an amount computed from the row read in the first (`Progress`). `saved[g]` is a history variable:
the amount the user last entered, to which every inserted contribution is added as it is
inserted. An allocation reads the banner (`BeginAllocation`), then one goal after another
(`CheckGoal`), and writes everything in one transaction (`Allocate`). `offered` and `allocated`
are histories of the banner on show. An edit computes what it writes from the row it read
(`UpdateData`), for savings goals and for debts, which count down. `caller[r]` says who called
`addContribution` and so what comes after it. `Overlap` FALSE lets one request run at a time.

*Bills and plans.* `bill[b]` is a row with a due date; `was[r]` is the row the PATCH read, from which
`CreateNext` copies the next bill and on which the conditions of `update` depend, while the goal to
contribute to is that of the row as written (`linked`). `ContributePayment` enters the steps of
`Goals` on behalf of a bill, `ApplyToGoal` on behalf of a plan; `GoalStep` is a step of `Goals` that
also ends the caller's work when it ends the request. An error in the contribution of a bill is
caught (`EndPayment`), that of a plan leaves the plan as it was (`CannotApply`). `follows`,
`payments` and `applied` are histories. Edits of goals and the banner touch neither bills nor
plans and are left to `Goals`.

*Sessions.* `session[t]` is the row of refresh token `t`; "gone" once the account is deleted. A
request begins with the reads and checks that decide it (`Begin...`), and each later call is a
step: `ResetFailedAttempts`, `Rotate`, `OpenSession` for a login or refresh; `CheckHistory`,
`UpdatePassword`, `Remember`, `CleanUp`, `ClearReset`, `RevokeAll` for a new password. A token is
found once and revoked by id later, whatever has become of it. `opened[t]` is a history variable: by which
login and with which password the session came about, and how many revocations of all sessions
there had been. `orderly` says that no two settings of the password have overlapped. Tokens are
identifiers (a collision of hashes is not modelled); lock, session and reset token expire by actions
of their own, since nothing compares their times with one another.

*Subscription.* The store is external: what it sells, and that it reports every step in order of
time. `inbox` is what it has sent; `Deliver(i)` handles any event and may leave it to come again;
`Fail(i)` is an event whose handling throws and which is answered as received. `ReadStatus` and
`TakeAway` are the two calls of `getSubscriptionStatus`. `disturbed` and `newest` are histories:
whether the row is still what the newest handled event that tells who has Pro made it.

*Figures.* The pure modules have no variables. An instant is an hour; the server runs in UTC and a user
is a fixed number of hours ahead of it. Rows, contributions, goals, plans are records of a set. A
function of the service is one operator with its name; the rows it queries are its first argument.
Amounts are integers; an average or an amount per month is kept as a fraction and compared by
multiplying out, so that no rounding is guessed.

## Runs

Every run finishes within two minutes and a half on two workers.

| Run | Question | Bounds and why they are enough |
|---|---|---|
| `carry` | With two summaries at once, one of which may die, do rollover, history and salary banner come out as if each period had been closed once, in order? | No sources, a cycle of 1 day, 5 days: three periods that carry something. `MaxTransitions` 2, so that the cap bites. One row of the user, overspending or income. |
| `edits` | With two summaries, one of which may die, and one edit of any kind at any moment, is each payment booked once, does the service keep the schedule's promise, and does everything catch up? | One source, since sources are independent in the booking. Three payment dates against a cap of 2, so that a request can book one after the other claims and an edit can come before, between and after them; two pay dates against a cap of 1. No single request can finish. The edit may delete the source between the reads and the transaction, which then fails. |
| `alone` | One summary at a time, which may die anywhere: is each pay date paid once, are source payments there before their period closes, are all rollovers exact? | A source paid daily under a cycle of 2 days, so that a period has several payments; the code's caps of 26 and 12, which it does not reach; three periods. |
| `salary_twice` | Is each pay date paid once by two requests? | The instance of `alone` with a second request and no crash: no. |
| `invoices_alone` | One invoice request at a time, which may die: income and status agree, mailbox and record agree. | Three invoices (the smallest number for which "created last" and "highest number" could part), two contents, two income rows. |
| `paid_twice` | Is there one income row with two requests? | Two invoices, two requests: no. |
| `goals_alone` | One request at a time, which may die: do goals agree with their contributions and the banner with what was allocated? | A savings goal and a debt, amounts 1 and 2 cents, so that a contribution can be partial, exact or too much and the cent of tolerance matters; three contributions; two allocations of one banner. |
| `bills_alone` | One request at a time, which may die: one next bill per payment, no series that ends, a plan applied once? | Three bills, so that a bill can be paid, put back and paid again; each paid at most twice; one plan; one debt of 2 cents that bills and plans pay by 1 and the user by 2. |
| `sessions` | Two requests of any kind at once, one of which may die: which sessions, passwords and reset tokens survive what? | Three tokens (a login, its refresh and the refresh of another request), three passwords against a history of 2, four arrivals (register, a login or refresh, and two that overlap), a counter of 2. |
| `subscription` | Events late, twice, out of order, failing: does access outlast what was paid, and does the row come to agree with the store? | Five events: a purchase, two renewals and two of what comes between; periods of 2 days over 6 days, so that a late event can shorten and an old one can end what was renewed; two readers. |
| `figures` | Do figures computed by different code from the same tables agree? | Every pair of entries (`MaxEntries` 2) in the tables of a user paid weekly, fortnightly or monthly, at UTC or ten hours ahead, on a Sunday late in May after a leap day and before a pay date on the last day of the month; entries on both sides of every boundary of day, week, period and month. A disagreement of two filters shows with one row, a double count with a bill and a plan, or a row and its source. Four entries in the tables of poker. |
| `last_day_bill` | Is a bill due after midnight on the last day of the period counted once? | The instance of `figures`: no. |

*Deadlock.* It is checked in all runs of `PayPeriod` (a summary can always be opened). It is
checked in `goals_alone` too. It is not checked in the other runs, where the bounds end the behaviour: all
rows may be voided or deleted with no identifier left, all tokens issued, all events sent, or
the tables full.

*Properties.* `RolloverIsCarried` compares every pool with `Carried`, a reference that walks
the periods up to the pay date in the user row. It holds for the salary pool whatever two
requests do, for a reason worth knowing: `mine[r]` pairs a pay date with the rollover of
that same pay date, so a late commit puts the user row back to a consistent earlier state,
from which the next request recomputes. It does not hold for sources under concurrency, where
the date is old and the rollover fresh (see Observations).
`BannerTruthful` is the same for what a banner says of its period. `CatchesUp` is the
liveness of lazy booking: on the last day of the calendar, all schedules end up beyond it.
`KeepsPromise` is about who moves a schedule. `PaymentSchedule` counts the changes of the user, and a step
that is not the user's may move a pointer only by a cycle and only with the row of the payment it
passes; a claim that moved the date and lost its row would be refused (it is the mutant of the property).

`OneSessionPerLogin`, `SurvivorsWereUnderWay`, `NoRecentPassword` and `ResetUsedOnce` say
what `Sessions` keeps under any interleaving *but* the one race each that the code loses: a token
rotated twice, a session whose request was under way, two settings of a password that overlap. They
show that these races are the only ones. `AgreesWithStore` does the same for late events and
status requests. The invariants of `MCFigures` compare two computations; where they are known to
differ for a reason (goals no longer active, a goal due in less than a month) the difference is stated
in the equation. `OccurrencesCounted` excludes three kinds of occurrences by name: those at the edge of the
period and the later ones within it, for which it is false (see Findings), and the one that a plan
moves, which `MovesNoMoney` is about; that one is for bills due at midnight, one plan for each, and users on
the server's clock. `LedgerLosesNothing` says that the ledger is complete, not that it is the total of
the card, which it is not (see Findings).

*Fairness.* `FairSpec` has weak fairness of `Step(r)` for each request, because the event loop
and the database answer every call, and of `Open(r)`, because the promise is about a user
who keeps opening the app. There is no fairness of the clock, of the user's edits or of crashes.
`CatchesUp` is the only liveness property: nothing else in the system is promised without a
further act of the user or the store (a failed contribution, a lost event, a bill without a successor
are never retried).

*Mutants.* Operators commented "Slip" are plausible mistakes in the definition after them
(a dropped condition, an off-by-one, a fresh read for a held one). No action uses them.
Each property has one under which it fails, listed in `PROJECT.json`.

## Findings

Each contradicts a comment of the repository and has a run that shows it.

1. **Primary Income twice** (`SalaryOnce`). The transaction that closes a period has no
   condition on the pay date. Two summaries that read the same user row both run it and both
   insert the salary row. Rollover and banner survive this (they are overwritten with the same
   figures); the income totals and the history do not.
2. **One invoice, two incomes** (`IncomeOnce`). The idempotency guard of `markInvoicePaid` is
   read outside the transaction it should guard.
3. **A bill of the last day counted twice** (`NothingCountedTwice`). The forecast takes the end of the
   period from a date-only string, so it is the start of the last day; a bill due later on that day
   is in the starting balance and is projected again.
Two more sentences of the comments are false of the code. `MCFigures` states them beside the findings; either,
made the `INVARIANT` of `MCFiguresLastDay.cfg`, is refuted at once.

* *The ledger is not the total* (`LedgerIsTheTotal`, refuted; against `home.service.ts:236` and
  `home-summary.dto.ts:109`). Its entries are said to "always sum to the single spendable total". They did
  before sources had cards of their own: now what a source carries and receives is in its entry and not
  in what is left to spend, so the sum is more as soon as a source holds money. A contribution to a goal
  that is no longer active is also taken out of the ledger and not out of the card. What does hold,
  `LedgerLosesNothing`, is about the money itself and not the total shown.
* *Later occurrences are counted by neither* (`NothingMissed`, refuted; against
  `cash-flow-engine.service.ts:394` and `:402`). The forecast skips the occurrences of a bill in the current
  period as "already reflected in today's starting balance", in which only the bill's own due date is.
  A weekly bill of a user paid by the month is counted once for the whole period, although the comment
  calls unattributed bills "exact".

## Observations

Behaviours of the code that the models show and that are not among the findings: no comment speaks of
them, or (the caps, the split of income) one does in passing. The properties are stated so as to leave
them out, by name, and say so in their comments.

* The loser of a claim leaves a source alone and goes on to close the period, while the winner
  has further due dates to book; their payments are then in no rollover.
* The caps differ: one summary books 26 payments of a source and then closes 12 periods. A weekly
  source reaches half a year, twelve months of a monthly salary a year. After an absence in between,
  the summary closes periods whose source payments it has not booked, although the comment at
  `home.service.ts:53-55` has the payments included in their period's rollover. `alone` stays below both
  caps; with `MaxOccurrences` changed to 2 in its configuration, TLC finds `PaymentsBeforeRollover`
  and `RolloverIsCarried` violated.
* The second of two transitions of one period reads a source's rollover after the first has
  written it, and adds the surplus again.
* Two contributions to one goal are computed from one amount; two allocations spend one banner.
* Putting a paid recurring bill back leaves its next bill in place: the series then has two seeds.
* A banner may be found expired and be dismissed after a newer one took its row; an older request
  may publish a banner again that was replaced or dismissed (with the amount of its own period); two first paid
  invoices may create the income category twice.
* A refresh token may be rotated by two refreshes; a login under way when the password changes keeps
  its session; a login under way lifts a lock that was set meanwhile.
* A status request that read an expired subscription takes a renewal away that came in between.
* A source that is deleted while the income analytics are computed has its rows in the ad-hoc line and
  in the recurring part, although the comment at `transactions.service.ts:2930` calls it the same split.
* A goal due in less than a month, or overdue: the list asks for nothing a month, the analytics for all that
  is left, and call it on track when a month of the average covers that, though the month ends
  after the date. The months are counted to the hour: of a goal due at midnight on the same day of the
  next month less than one is left from the morning on.
* Analytics: weeks and months begin at the server's midnight although rows are placed by the
  user's; `count` ignores the search text that `findMany` applies; the amount of a withdrawal counts as
  positive in averages; a milestone counts as reached only by a single contribution; the overall
  summary of goals tells completion by the amount, under which a debt that has only just begun
  counts as complete; poker's "biggest loss" is the least of buy-in less winnings.

## What is proved

`tlapm` checks these for **every** value of the constants that satisfies the named
assumptions (`MaxDayIsNat`, `SourceAssumption`, `PayPeriodAssumption`, `InvoiceAssumption`,
`GoalsAssumption`, `BillsAssumption`, `SessionsAssumption`, `SubscriptionAssumption`,
`PayCalendarAssumption`, `SpendingAssumption`, `PokerAssumption`, `FiguresAssumption`): any number
of sources, invoices, goals, bills, plans, requests, tokens, events, any calendar, caps, amounts
and edits. What is assumed besides:

* The theorems about sessions and subscriptions, `InvoicesTyped`, `BillsTyped` and those about the
  booking of sources: nothing. Requests overlap as they like and die anywhere.
* The other theorems about invoices, goals and bills: a request begins when the one before is over
  (`OneAtATime`, `~Overlap`), which the code does not enforce; the runs and the findings show what
  happens without it. A request may still die between any two of its calls. `GoalsAddUp` also has
  no allocation name a goal twice (`~SameGoalTwice`): the code would write the amount of the last
  part only.
* Those that compare with a reference calculation (`MCPayPeriod_proofs`): `Undisturbed`, the user edits
  nothing but rows of the ledger, dates none of them back, and starts from one pay date. An edit of
  the income or the pay date changes what the past periods should have left, so there is no one
  figure to compare with. For sources, `Uncapped` besides: one request at a time and no more
  payments due than `MaxOccurrences`; the Observations say what is lost without each.
* The theorems about the figures: what `FiguresAssumption` says, that the null value is no identifier
  and no number, that the two sources are two, and that the calendar reaches beyond the day
  of the model. The day, the kinds of rows, the two sources and the goals are those of `MCFigures`; the
  tables may hold any of its rows, contributions and plans at once, not just two, the horizon may be any, and
  poker's tournaments, events, entries and amounts are arbitrary.

The theorems, and the invariants they rest on:

* `InsertCountsInRange`, `MergeAddsUp`: the running totals mean what the aggregates mean. A row
  counts in a range exactly when it is dated in it.
* `BookedOnce`, `NeverBookedAhead`, `SourcesTyped`: from the inductive invariant
  `BookingInv == SourcesTypeOK /\ OccurrenceOnce /\ NothingBookedAhead`. `OccurrenceOnce` alone is not
  inductive: a claim of date `d` is harmless only because nothing has been booked on or after
  the date the source shows, which is `NothingBookedAhead`; that one is kept because a claim
  moves the date forward by a positive frequency. What a request read earlier appears
  nowhere in the argument but for that: the compare-and-set makes it irrelevant.
* `ImplementsSchedule`: `IncomeSources` refines `PaymentSchedule` under the mapping in
  `IncomeSources` (the pointer is `nextPaymentDate`, the rows are `booked`, the changes are `edits`). One
  lemma per kind of action shows a payment, a change by the user or a stutter. That a claim moves the
  date by a cycle of the user's needs a further invariant, `Chosen`: the frequency a request holds was
  a source's when it was read.
* `SummaryImplementsSources`: every step of `PayPeriod` is a step or a stutter of `IncomeSources`.
  With it the three results above carry over to the whole service: `SummaryBooksOnce`,
  `SummaryNeverBooksAhead`, `SummaryImplementsSchedule`.
* `SummaryTyped`, `OnlyEndedPeriodsClose`: from `SummaryInv == TypeOK /\ ClosingIsDue`. The type
  invariant says more than it seems: rollovers and totals are in `Nat`, so the clamp
  (`Math.max(0, ...)`) is applied wherever it has to be. `ClosingIsDue` says that a request
  between the reads and the transaction closes a period whose pay date has come; it makes
  the pay date a day of the calendar, which `TypeOK` needs for the rows the commit writes.
* `SalaryRolloverCarried`, `RolloverExact`, `EveryPeriodRecorded`, `SalaryBannerTruthful`, `BannersExact`:
  from `SummaryInv /\ Exact`, where `Exact` says of the tables that the rollover of a pool, every
  banner on show and the history are those of `Carried` at the user row's pay date (`Tables`), and of
  a request that what it holds is the same at the pay date *it* holds (`Request`). That pairing
  survives any interleaving, because a late commit puts pay date and rollover back together.
  `Carried` is a recursive function, so its table must first be shown to exist and to be unaffected
  by rows of days that it does not sum: both by induction on the pay date, which is done with
  `LeastNumber` (a least counterexample, from the well-foundedness of set inclusion).
* `SalaryPaidOnce`, `PaymentsFirst`: the same invariant with one request. It holds the user row as
  it is, so the period it closes has no salary row yet, and it has booked all sources first.

* `SessionsTyped`: from `Inv == Locals /\ Rows /\ Fit`. Types alone are not inductive: a request
  writes what it holds, so `Fit` says that what it holds belongs to its stage (a refresh holds a
  token, whoever sets a password has chosen one).
* `OneSession`: from `Origins /\ OneHolder`. A login's session is at any moment *held* by one token
  (live, or live until it expired) or by one refresh between `Rotate` and `OpenSession`; a
  rotation passes it on. Two holders can only come of a second rotation of a token, which `raced`
  records. `Origins` is needed for a new token: nothing can go back to a login not yet opened.
* `ResetOnce`, `PasswordNotReused`: from `Orderly`. While no two settings of the password have overlapped,
  the one request that changes it (`OneChange`) knows the whole history up to the password it
  replaces (`Remembered`), and a reset token is spent by the request that read it, or by one that
  died before it cleared the token (`TokensSpent`).
* `SurvivorsKnown`: from `Starts /\ Unopened /\ Survivors`. A session carries the number of
  revocations at which its request began (`began`) and ended (`at`); a session of an earlier
  password is revoked with all others, so one that lives was opened after a revocation that its
  login had begun before. `Openings` follows this back through refreshes to the login.
* `SubscriptionTyped`, `SubscriptionNeverBeyondPaid`: from the invariant that the row's expiry was
  bought and that every event in the inbox reports an expiry that was bought (`Sold`).
* `SubscriptionAgrees`: needs `Agreement`, that the newest event of the store which tells who has Pro
  says what the store says, and that the row is what that event made it unless it is still to be
  handled or has been disturbed.

* `InvoicesTyped`, `BillsTyped`: types of rows and of what requests hold, each request with the
  fields its stage needs. Sequences are appended to and shortened at their ends, so their element
  types follow from the lemmas of the library.
* `InvoiceIncomeOnce`, `InvoiceIncomeOfPaid`, `InvoiceClientSawRecord`: from
  `Inv == Tables /\ Locals /\ Booked /\ StillHolds /\ Mailed`. `Booked` ties the row to the invoice: an
  income row exists exactly when the invoice is linked to it, and then it is paid. That is kept because
  of `StillHolds`: what a request found when it began (the status that let it in) is still so
  when it writes. The third also assumes a mail service that answers (`~LostAnswers`).
* `BannerNotOverdrawn`, `BannerShowsRest`: from `Banner /\ Locals /\ Allocates`. A request that
  allocates has read the banner as it is, so what it asks for is at most a cent over the rest, and
  a banner that was overdrawn is no longer shown. The total of an allocation is a fold, which the
  prover cannot induct over; an allocation has one part or two, for which `TotalOfOne` and
  `TotalOfTwo` unfold the definition.
* `GoalsAddUp`: from `Inv /\ Even`. `Sums` says that an amount differs from the sum of its
  contributions by the one contribution that is recorded and not yet written to the goal; it is kept because
  the goal is still as the request read it (`Reads`), for an allocation all its goals
  (`AllocationAddsUp`, with the two folds unfolded in `AddedOne` to `RecordedTwo`).
* `BillsApplyPlanOnce`: from `Counted`. A plan that is not completed was applied by requests that
  died, and by the one about to complete it; nothing else changes the data for it.
* `BillsFollowPayments`, `BillsSeriesGoOn`: from `Series`. A bill has fewer followers than payments
  while one is `Due`; inserting the next bill adds one follower and ends that. The second needs
  `BillRows`: the goal a bill is linked to exists, or the insert would fail.

The theorems about the figures (`MCFigures_proofs`) rest on one invariant, `FiguresInv == Tables /\ PokerInv`:
rows and plans are told apart by their ids, every row has the fields the queries look at, poker's events
belong to tournaments that exist. The rest is about the operators:

* A sum of the library is a fold that takes the elements in an order of its own. `SumsExist` and
  `SumsUnique` show that there is exactly one such sum of a finite set, by a smallest set without one
  (`SmallestSet`, from the well-foundedness of inclusion); `SumOfAny`, `SumOfUnion`, `SumOfAdded` and
  `SumOfParts` that it depends on no order and that parts add up. All figures below are sums.
* `BankrollTold`: the shared costs of a tournament count once in each of the three computations,
  however many events it has (`SumByTournament`), and the suggested withdrawal is the last (`SuggestedIsLast`).
* `LedgerTold` (the ledger is complete), `RolloverTold`: a row of the period names one pool and is a bill or a purchase,
  never both (`PeriodBySource`, `GoneOutBySource`); a contribution is of an active goal or not (`CashByGoals`).
* `SpendingTold`, `IncomeTold`: each trend, split, source or category is a way to give every row one key,
  and the totals by key sum to the total (`PartsAddUp`, `BucketsAddUp`). `RatesAgree` needs the calendar:
  `FirstDay` is a recursive function, shown to have a solution by the sums of the months' lengths
  (`FirstDayUnfolds`). The pay periods of a year abut (`PeriodsBackAre`), their dates being the one
  solution of the recursion back (`PayDatesBackAre`).
* `ListsTold`: the conditions that two functions decide by are equivalent.
* `OccurrencesTold`: away from the edge, the summary's period and the forecast's have the same instants
  (`SamePeriod`), and an occurrence of the day of the bill is the bill's own (`OwnOccurrence`), so only
  that one can be moved by a plan. For any hour, either clock and any plans.
* `MovesTold`: a bill moved within the horizon is either committed already, and given back by
  `billChangeAdjustment`, or its event is the only one that disappears (`MovedAwayAre`); no two plans
  share it (`MovedOnce`). The last balance is the first and all events between (`BalancesAre`), and the dates of a
  recurrence are finitely many, the due date one of them (`DaysOfBill`), since the recursion of `Expand`
  has a solution on the days up to the horizon (`ReachedExist`).
* `GoalsTold`: for goals due two months and one month ahead, within the month, and last month (`MonthsToGo`), rounding months up is the same as comparing the amount (`RoundedUp`, `OnTrack`); the sum by month
  and by kind is the sum of all (`ContributedAgrees`).

Only model-checked: liveness (`CatchesUp`), which needs fairness and `ENABLED`; and `CalendarHolds`. That one
is true only within the caps of the code, a walk of 500 steps and 60 occurrences of a bill, and within a
calendar that covers them: on a longer calendar a monthly bill ends before it, and the run is
the statement, on the calendar of the model.

The prover led to some changes of form, none of which changes a behaviour: `RemoveInvoice` removes
the first occurrence of a number (`RemoveFirst`), since numbers are unique; an edit of a goal
writes its columns with `Written`, since the prover does not expand `@@`; sums are `SumFunction` of a
function, which has no operator as parameter; `PayDatesBack` and `Expand` recurse on a number, the
latter over the days up to the horizon only; and the rows of `MCFigures` are named constructors. One was a
correction: the CASE arms of `burnRateStatus` and `velocityStatus` overlapped, which leaves the choice
open where the code takes the first that applies; they are IF and ELSE now, in the order of the code.

## What is not modelled

`PROJECT.json` has the reason for each part. The assistant (disabled), audit, e-mail and PDF
text, secrets, currency detection, health and bootstrap compute nothing another part relies
on. In the modelled parts these are abstracted: clients and amounts of invoices; edits of other
fields of a bill or a plan; reminders and suggestions of goals; merchant names guessed from
descriptions, and the sentences of the insights; the check of the range of the income analytics and the zeros
they answer with when something throws; the figures of a discretionary breakdown by the day (periods of
a week and longer are checked); the answer to an edit of a tournament, which is computed from a row fetched
without its events and shows no results; summer time; a mail service that delivers and reports
failure (the constant `LostAnswers` admits it, the run keeps it FALSE). Categories (archive and
restore with their children), budgets and clients are rows that are written one request at a
time by their own screens and that no modelled computation reads back, but for the names it
groups by.
