----------------------------- MODULE IncomeSources -----------------------------
(****************************************************************************)
(* The income sources of one user and the booking of their due payments.    *)
(*                                                                          *)
(* Every call of GET /home/summary (directly, or from the planner forecast) *)
(* runs materializeDueTransactions: it reads the active sources once, then  *)
(* takes them one at a time, and for each date that has come claims the     *)
(* date and inserts the INCOME row in one database transaction.  Between    *)
(* two database calls of one request any other request may run.             *)
(****************************************************************************)
EXTENDS Ledger

CONSTANTS
    Sources,          \* income sources the user has or may create
    Salary,           \* the pool of rows that name no source
    Requests,         \* summary requests that may be in progress together
    NoSource,         \* no source is being worked on
    Frequencies,      \* lengths of a pay cycle, in days
    Amounts,          \* what a source may pay
    EntryDates,       \* payment dates the user may enter
    RowAmounts,       \* amounts of the user's other rows (expenses negative)
    BackDays,         \* how far back such a row may be dated
    MaxOccurrences,   \* MAX_OCCURRENCES_PER_RUN
    MaxRows,          \* bound: rows the user enters
    MaxEdits          \* bound: changes the user makes to sources and profile

ASSUME SourceAssumption ==
    /\ Salary \notin Sources
    /\ NoSource \notin Sources
    /\ Frequencies \subseteq Nat \ {0}
    /\ Amounts \subseteq Nat
    /\ EntryDates \subseteq Nat
    /\ RowAmounts \subseteq Int
    /\ BackDays \in Nat
    /\ MaxOccurrences \in Nat
    /\ MaxRows \in Nat
    /\ MaxEdits \in Nat

VARIABLES
    today,            \* the day it is, in the user's timezone
    source,           \* source[s]: the row of table income_sources
    net,              \* net[p]: running total of pool p, without salary rows
    booked,           \* history: booked[s][d] rows of s dated d since the user
                      \* last put s's payment date back to d or before
    run,              \* run[r]: locals of materializeDueTransactions
    rowCount, edits   \* counters of the two bounds

sourceVars == <<today, source, net, booked, run, rowCount, edits>>

Pools == Sources \cup {Salary}

Source == [status : {"new", "live", "gone"}, isActive : BOOLEAN,
           amount : Nat, frequency : Nat \ {0}, nextPaymentDate : Nat]

\* locals: the rows findMany returned, those not yet taken, the one being
\* worked on, its due date and the number of its dates claimed so far
Run == [seen : [Sources -> Source], todo : SUBSET Sources,
        cursor : Sources \cup {NoSource}, due : Nat, iterations : Nat]

LiveSources == {s \in Sources : source[s].status = "live"}

NewSource == [status |-> "new", isActive |-> FALSE, amount |-> 0,
              frequency |-> 1, nextPaymentDate |-> 0]

\* The user's sources when the behaviour starts: some exist, some do not yet.
InitialSource ==
    {NewSource} \cup [status : {"live"}, isActive : {TRUE}, amount : Amounts,
                      frequency : Frequencies, nextPaymentDate : EntryDates]

NoRun == [seen |-> [s \in Sources |-> NewSource], todo |-> {}, cursor |-> NoSource,
          due |-> 0, iterations |-> 0]

SourcesInit ==
    /\ today = 0
    /\ source \in [Sources -> InitialSource]
    /\ net = [p \in Pools |-> EmptyTotal]
    /\ booked = [s \in Sources |-> EmptyTotal]
    /\ run = [r \in Requests |-> NoRun]
    /\ rowCount = 0
    /\ edits = 0

-------------------------------------------------------------------------------
(* The calendar, and rows the user enters: income, paid expenses and goal     *)
(* contributions, dated at most BackDays ago and not in the future.           *)

Tick ==
    /\ today < MaxDay
    /\ today' = today + 1
    /\ UNCHANGED <<source, net, booked, run, rowCount, edits>>

EnterRow(pool, amount, day) ==
    /\ rowCount < MaxRows
    /\ pool \in LiveSources \cup {Salary}
    /\ day <= today /\ day >= today - BackDays
    /\ net' = [net EXCEPT ![pool] = Insert(net[pool], day, amount)]
    /\ rowCount' = rowCount + 1
    /\ UNCHANGED <<today, source, booked, run, edits>>

-------------------------------------------------------------------------------
(* The user's operations on a source.                                         *)

\* The rows from the new date on may be booked once more.
Unbook(s, date) ==
    [booked EXCEPT ![s] = [d \in Day |-> IF d < date THEN booked[s][d] ELSE 0]]

CreateSource(s, amount, frequency, date, isActive) ==
    /\ edits < MaxEdits
    /\ source[s].status = "new"
    /\ source' = [source EXCEPT ![s] =
                    [status |-> "live", isActive |-> isActive, amount |-> amount,
                     frequency |-> frequency, nextPaymentDate |-> date]]
    /\ booked' = Unbook(s, date)
    /\ edits' = edits + 1
    /\ UNCHANGED <<today, net, run, rowCount>>

\* A field the request leaves out keeps its value.
UpdateSource(s, amount, frequency, date, isActive) ==
    /\ edits < MaxEdits
    /\ s \in LiveSources
    /\ source' = [source EXCEPT ![s].amount = amount, ![s].frequency = frequency,
                                ![s].nextPaymentDate = date, ![s].isActive = isActive]
    /\ booked' = Unbook(s, date)
    /\ edits' = edits + 1
    /\ UNCHANGED <<today, net, run, rowCount>>

\* The rows of a deleted source stay, with incomeSourceId set to NULL.
RemoveSource(s) ==
    /\ edits < MaxEdits
    /\ s \in LiveSources
    /\ source' = [source EXCEPT ![s].status = "gone"]
    /\ net' = [net EXCEPT ![Salary] = Merge(net[Salary], net[s]), ![s] = EmptyTotal]
    /\ edits' = edits + 1
    /\ UNCHANGED <<today, booked, run, rowCount>>

\* The user changes something that no source depends on.
OtherEdit ==
    /\ edits < MaxEdits
    /\ edits' = edits + 1
    /\ UNCHANGED <<today, source, net, booked, run, rowCount>>

-------------------------------------------------------------------------------
(* materializeDueTransactions, one database call at a time.                   *)

\* Slip: a date comes only when its day is over.
IsPast(date) == today > date

\* shouldTransitionPayPeriod: the user's today is the date or later.
HasCome(date) == today >= date

\* incomeSource.findMany
ReadSources(r) ==
    /\ run' = [run EXCEPT ![r] =
                  [NoRun EXCEPT !.seen = source,
                                !.todo = {s \in LiveSources : source[s].isActive}]]
    /\ UNCHANGED <<today, source, net, booked, rowCount, edits>>

DateIsDue(r) ==
    /\ run[r].cursor # NoSource
    /\ HasCome(run[r].due)
    /\ run[r].iterations < MaxOccurrences

\* The loop over one source has ended, or has not begun: take the next one.
TakeSource(r) ==
    /\ ~DateIsDue(r)
    /\ \E s \in run[r].todo :
          run' = [run EXCEPT ![r].todo = run[r].todo \ {s}, ![r].cursor = s,
                             ![r].due = run[r].seen[s].nextPaymentDate,
                             ![r].iterations = 0]
    /\ UNCHANGED <<today, source, net, booked, rowCount, edits>>

\* Slips: the claim does not ask for the date, or only that it is not earlier.
StillThere(s, due) == source[s].status = "live"

NotYetPassed(s, due) == source[s].status = "live" /\ source[s].nextPaymentDate >= due

\* The row that updateMany's WHERE clause asks for is still there.
StillUnclaimed(s, due) ==
    /\ source[s].status = "live"
    /\ source[s].nextPaymentDate = due

\* Slip: the row is not inserted in the transaction that claims its date.
ClaimWithoutRow(r) ==
    /\ DateIsDue(r)
    /\ StillUnclaimed(run[r].cursor, run[r].due)
    /\ LET s    == run[r].cursor
           next == run[r].due + run[r].seen[s].frequency
       IN  /\ source' = [source EXCEPT ![s].nextPaymentDate = next]
           /\ run' = [run EXCEPT ![r].due = next, ![r].iterations = run[r].iterations + 1]
    /\ UNCHANGED <<today, net, booked, rowCount, edits>>

\* The database transaction: claim the date and insert its row, with the
\* frequency and the amount the request read; or lose the claim and stop.
Claim(r) ==
    LET s    == run[r].cursor
        due  == run[r].due
        next == due + run[r].seen[s].frequency
    IN  /\ DateIsDue(r)
        /\ IF StillUnclaimed(s, due)
           THEN /\ source' = [source EXCEPT ![s].nextPaymentDate = next]
                /\ net' = [net EXCEPT ![s] =
                             Insert(net[s], due, run[r].seen[s].amount)]
                /\ booked' = [booked EXCEPT ![s][due] = booked[s][due] + 1]
                /\ run' = [run EXCEPT ![r].due = next,
                                      ![r].iterations = run[r].iterations + 1]
           ELSE /\ run' = [run EXCEPT ![r].cursor = NoSource]
                /\ UNCHANGED <<source, net, booked>>
        /\ UNCHANGED <<today, rowCount, edits>>

\* Slip: the last source's loop is not awaited.
AllTaken(r) == run[r].todo = {}

\* Every source has been worked on.
Materialized(r) == ~DateIsDue(r) /\ run[r].todo = {}

\* The call returns, or its request dies: its locals are gone.
Leave(r) ==
    /\ run' = [run EXCEPT ![r] = NoRun]
    /\ UNCHANGED <<today, source, net, booked, rowCount, edits>>

-------------------------------------------------------------------------------
SourcesNext ==
    \/ Tick
    \/ \E p \in Pools, a \in RowAmounts, d \in Day : EnterRow(p, a, d)
    \/ \E s \in Sources, a \in Amounts, f \in Frequencies, d \in EntryDates, b \in BOOLEAN :
          CreateSource(s, a, f, d, b)
    \/ \E s \in Sources, b \in BOOLEAN :
          \E a \in Amounts \cup {source[s].amount},
             f \in Frequencies \cup {source[s].frequency},
             d \in EntryDates \cup {source[s].nextPaymentDate} :
             UpdateSource(s, a, f, d, b)
    \/ \E s \in Sources : RemoveSource(s)
    \/ OtherEdit
    \/ \E r \in Requests : ReadSources(r) \/ TakeSource(r) \/ Claim(r) \/ Leave(r)

SourcesSpec == SourcesInit /\ [][SourcesNext]_sourceVars

-------------------------------------------------------------------------------
SourcesTypeOK ==
    /\ today \in Day
    /\ source \in [Sources -> Source]
    /\ net \in [Pools -> [Day -> Int]]
    /\ booked \in [Sources -> [Day -> Nat]]
    /\ run \in [Requests -> Run]
    /\ rowCount \in Nat
    /\ edits \in Nat

(* However many summary requests run at once, and whatever they read before  *)
(* the others wrote, a payment date of a source is booked at most once,      *)
(* unless the user puts the source's payment date back.  (The conditional    *)
(* updateMany and the insert of materializeDueTransactions.)                 *)
OccurrenceOnce == \A s \in Sources : \A d \in Day : booked[s][d] <= 1

(* The date a source shows as its next payment, and every later one, has no  *)
(* booked row: the claim never leaves a row ahead of the schedule.           *)
NothingBookedAhead ==
    \A s \in Sources : \A d \in Day :
        booked[s][d] > 0 => d < source[s].nextPaymentDate

\* The promise of PaymentSchedule, seen in this module's variables.
Promise == INSTANCE PaymentSchedule WITH
               pointer <- [s \in Sources |-> source[s].nextPaymentDate],
               rows <- booked,
               changes <- edits

(* Every step of the service, whatever it read before, books one payment for *)
(* the date shown and moves the date on by one cycle, or leaves the schedule *)
(* as it is: no payment is lost.  Only a step of the user changes a schedule *)
(* otherwise.  (materializeDueTransactions claims the date and inserts the   *)
(* row in one transaction.)                                                  *)
KeepsPromise == Promise!ScheduleSpec
================================================================================
