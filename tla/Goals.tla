--------------------------------- MODULE Goals ---------------------------------
(****************************************************************************)
(* The goals of one user, the contributions to them, and the rollover       *)
(* banner, whose amount the user may allocate to goals.  A goal's           *)
(* currentAmount is kept beside its contributions: each request reads the   *)
(* goal first and writes an amount computed from what it read later.        *)
(*                                                                          *)
(* addContribution is also called when a bill linked to a goal is paid and  *)
(* when a plan is completed; module Bills adds these callers.               *)
(****************************************************************************)
EXTENDS Integers, Sequences, SequencesExt, TLC

CONSTANTS
    GoalIds, Debts,       \* goals, and those among them of type DEBT_PAYOFF
    Requests,             \* requests that may be in progress together
    NoGoal,
    Amounts,              \* amounts of contributions and goals, in cents
    Offers,               \* amounts of a rollover banner, in cents
    MaxContributions,     \* bound: none is begun after so many
    MaxCrashes,           \* bound: requests that die half-way
    Overlap,              \* FALSE: one request at a time
    SameGoalTwice         \* an allocation may name a goal twice

ASSUME GoalsAssumption ==
    /\ Debts \subseteq GoalIds
    /\ NoGoal \notin GoalIds
    /\ Amounts \subseteq Nat \ {0}
    /\ Offers \subseteq Nat \ {0}
    /\ MaxContributions \in Nat /\ MaxCrashes \in Nat
    /\ Overlap \in BOOLEAN /\ SameGoalTwice \in BOOLEAN

VARIABLES
    goal,             \* goal[g]: the row of table goals
    saved,            \* history: what g's contributions make of the amount
                      \* the user last entered
    banner,           \* the row of table rollover_notifications
    offered,          \* history: its amount when it was published,
    allocated,        \*          and what has been allocated since
    contributions,    \* number of rows of table goal_contributions
    pc, caller,       \* requests: stage, and who called addContribution
    seen,             \* seen[r]: the goal rows the request read
    task,             \* what it contributes: a sequence of parts
    checked,          \* how many parts of an allocation were validated
    offer,            \* the banner's amount the request read
    change,           \* data of its goal.update
    crashes           \* counter of its bound

goalVars == <<goal, saved, contributions>>
bannerVars == <<banner, offered, allocated>>
localVars == <<pc, caller, seen, task, checked, offer, change>>
vars == <<goalVars, bannerVars, localVars, crashes>>

Goal == [status : {"new", "live", "gone"}, current : Nat, target : Nat, isCompleted : BOOLEAN]

NewGoal == [status |-> "new", current |-> 0, target |-> 0, isCompleted |-> FALSE]

Part == [goal : GoalIds, amount : Amounts, withdraw : BOOLEAN]

Nothing == << >>

Init ==
    /\ goal = [g \in GoalIds |-> NewGoal]
    /\ saved = [g \in GoalIds |-> 0]
    /\ contributions = 0
    /\ banner = [exists |-> FALSE, shown |-> FALSE, amount |-> 0]
    /\ offered = 0
    /\ allocated = 0
    /\ pc = [r \in Requests |-> "idle"]
    /\ caller = [r \in Requests |-> "user"]
    /\ seen = [r \in Requests |-> [g \in GoalIds |-> NewGoal]]
    /\ task = [r \in Requests |-> Nothing]
    /\ checked = [r \in Requests |-> 0]
    /\ offer = [r \in Requests |-> 0]
    /\ change = [r \in Requests |-> Nothing]
    /\ crashes = 0

Live(g) == g \in GoalIds /\ goal[g].status = "live"
Open(g) == Live(g) /\ ~goal[g].isCompleted

\* Another request may start.
Free == Overlap \/ \A r \in Requests : pc[r] = "idle"

Goto(r, stage) == pc' = [pc EXCEPT ![r] = stage]

\* The request, or its call of addContribution, is over; its locals are gone.
ReturnTo(r, stage) ==
    /\ Goto(r, stage)
    /\ caller' = [caller EXCEPT ![r] = "user"]
    /\ seen' = [seen EXCEPT ![r] = [g \in GoalIds |-> NewGoal]]
    /\ task' = [task EXCEPT ![r] = Nothing]
    /\ checked' = [checked EXCEPT ![r] = 0]
    /\ offer' = [offer EXCEPT ![r] = 0]
    /\ change' = [change EXCEPT ![r] = Nothing]

Finish(r) == ReturnTo(r, "idle")

-------------------------------------------------------------------------------
(* Creating, editing and deleting a goal.                                     *)

\* A debt whose amount is not given starts as owed in full.
CreateGoal(g, target, current) ==
    /\ Free
    /\ goal[g].status = "new"
    /\ LET first == IF g \in Debts /\ current = Nothing THEN target
                    ELSE IF current = Nothing THEN 0 ELSE current[1]
       IN  /\ goal' = [goal EXCEPT ![g] = [status |-> "live", current |-> first,
                                           target |-> target, isCompleted |-> FALSE]]
           /\ saved' = [saved EXCEPT ![g] = first]
    /\ UNCHANGED <<contributions, bannerVars, localVars, crashes>>

\* The fields of a PATCH request: a record of those that are sent.
Edits == {[isCompleted |-> b] : b \in BOOLEAN}
         \cup {[target |-> a] : a \in Amounts}
         \cup {[current |-> a] : a \in Amounts \cup {0}}
         \cup {[current |-> a, isCompleted |-> TRUE] : a \in Amounts}

Sent(dto, field) == field \in DOMAIN dto

\* The amount at which a goal counts as reached.
Reached(g, amount, target) == IF g \in Debts THEN amount <= 0 ELSE amount >= target

CompletedAmount(g, row) == IF g \in Debts THEN 0 ELSE row.target

\* updateData: what the request writes, given the row it read
UpdateData(g, row, dto) ==
    IF Sent(dto, "isCompleted") /\ dto.isCompleted /\ ~row.isCompleted
    THEN [current |-> CompletedAmount(g, row)] @@ dto
    ELSE IF /\ Sent(dto, "current")
            /\ Reached(g, dto.current, row.target)
            /\ ~row.isCompleted
    THEN [isCompleted |-> TRUE] @@ dto
    ELSE dto

\* goal.update writes the columns it is given, on the row as it is by then.
Written(row, data) == [column \in DOMAIN row |-> IF Sent(data, column) THEN data[column] ELSE row[column]]

BeginEdit(r, g, dto) ==
    /\ pc[r] = "idle"
    /\ Live(g)
    /\ task' = [task EXCEPT ![r] = <<[goal |-> g]>>]
    /\ change' = [change EXCEPT ![r] = UpdateData(g, goal[g], dto)]
    /\ Goto(r, "edit")
    /\ UNCHANGED <<goalVars, bannerVars, caller, seen, checked, offer, crashes>>

WriteEdit(r) ==
    LET g == task[r][1].goal
    IN  /\ pc[r] = "edit"
        /\ IF Live(g)
           THEN /\ goal' = [goal EXCEPT ![g] = Written(goal[g], change[r])]
                /\ saved' = IF Sent(change[r], "current")
                            THEN [saved EXCEPT ![g] = change[r].current] ELSE saved
           ELSE UNCHANGED <<goal, saved>>
        /\ Finish(r)
        /\ UNCHANGED <<contributions, bannerVars, crashes>>

\* Its contributions go with it.
DeleteGoal(g) ==
    /\ Free
    /\ Live(g)
    /\ goal' = [goal EXCEPT ![g].status = "gone"]
    /\ UNCHANGED <<saved, contributions, bannerVars, localVars, crashes>>

-------------------------------------------------------------------------------
(* addContribution                                                            *)

\* Slip: without the clamp.
AnyAmount(x) == x

AtLeastZero(x) == IF x > 0 THEN x ELSE 0

Takes(part) == part.goal \in Debts \/ part.withdraw

\* Slip: a payment of a debt adds to it.
ProgressUpwards(row, part) ==
    LET amount == row.current + part.amount
    IN  [current |-> AtLeastZero(amount), isCompleted |-> amount >= row.target]

\* The row after a part is contributed, computed from the row that was read.
\* A withdrawal never completes a goal.
Progress(row, part) ==
    LET amount == IF Takes(part) THEN row.current - part.amount
                                 ELSE row.current + part.amount
    IN  [current     |-> AtLeastZero(amount),
         isCompleted |-> /\ part.goal \in Debts \/ ~part.withdraw
                         /\ Reached(part.goal, amount, row.target)]

\* Writing the two fields leaves the rest of the row as it is by then.
Updated(row, data) == [row EXCEPT !.current = data.current, !.isCompleted = data.isCompleted]

\* What the recorded contribution makes of the saved amount.
Recorded(total, part) == AtLeastZero(IF Takes(part) THEN total - part.amount
                                                    ELSE total + part.amount)

\* goal.findFirst: a completed goal takes no contribution.
ReadGoal(r, part) ==
    /\ Open(part.goal)
    /\ seen' = [seen EXCEPT ![r][part.goal] = goal[part.goal]]
    /\ task' = [task EXCEPT ![r] = <<part>>]
    /\ Goto(r, "insert")
    /\ UNCHANGED <<goalVars, bannerVars, checked, offer, change, crashes>>

BeginContribution(r, part) ==
    /\ pc[r] = "idle"
    /\ contributions < MaxContributions
    /\ ReadGoal(r, part)
    /\ UNCHANGED caller

\* goalContribution.create: fails when the goal has been deleted.
InsertContribution(r) ==
    LET part == task[r][1]
    IN  /\ pc[r] = "insert"
        /\ IF Live(part.goal)
           THEN /\ contributions' = contributions + 1
                /\ saved' = [saved EXCEPT ![part.goal] = Recorded(saved[part.goal], part)]
                /\ Goto(r, "progress")
                /\ UNCHANGED <<goal, caller, seen, task, checked, offer, change>>
           ELSE /\ Finish(r)
                /\ UNCHANGED goalVars
        /\ UNCHANGED <<bannerVars, crashes>>

\* goal.update, in a call of its own; a plan is then marked completed.
WriteProgress(r) ==
    LET part == task[r][1]
        g    == part.goal
    IN  /\ pc[r] = "progress"
        /\ IF Live(g)
           THEN /\ goal' = [goal EXCEPT ![g] = Updated(goal[g], Progress(seen[r][g], part))]
                /\ ReturnTo(r, IF caller[r] = "plan" THEN "complete" ELSE "idle")
           ELSE /\ Finish(r)
                /\ UNCHANGED goal
        /\ UNCHANGED <<saved, contributions, bannerVars, crashes>>
-------------------------------------------------------------------------------
(* addRolloverContribution: the banner, then each goal, then one transaction. *)

Total(parts) == FoldLeft(LAMBDA sum, part : sum + part.amount, 0, parts)

\* The request may name a goal twice; nothing in it forbids that.
Allocations ==
    LET Single == [goal : GoalIds, amount : Amounts, withdraw : {FALSE}]
    IN  {<<a>> : a \in Single}
        \cup {parts \in Single \X Single : SameGoalTwice \/ parts[1].goal # parts[2].goal}

\* Slip: the banner may be dismissed.
BeginAllocationOfAny(r, parts) ==
    /\ pc[r] = "idle"
    /\ banner.exists
    /\ contributions < MaxContributions
    /\ Total(parts) <= banner.amount + 1
    /\ offer' = [offer EXCEPT ![r] = banner.amount]
    /\ task' = [task EXCEPT ![r] = parts]
    /\ Goto(r, "goals")
    /\ UNCHANGED <<goalVars, bannerVars, caller, seen, checked, change, crashes>>

\* rolloverNotification.findFirst; a cent more than is available passes.
BeginAllocation(r, parts) ==
    /\ pc[r] = "idle"
    /\ banner.shown
    /\ contributions < MaxContributions
    /\ Total(parts) <= banner.amount + 1
    /\ offer' = [offer EXCEPT ![r] = banner.amount]
    /\ task' = [task EXCEPT ![r] = parts]
    /\ Goto(r, "goals")
    /\ UNCHANGED <<goalVars, bannerVars, caller, seen, checked, change, crashes>>

\* Every goal must exist and be open; the row read last is kept.
CheckGoal(r) ==
    LET n == checked[r] + 1
        g == task[r][n].goal
    IN  /\ pc[r] = "goals"
        /\ IF Open(g)
           THEN /\ seen' = [seen EXCEPT ![r][g] = goal[g]]
                /\ checked' = [checked EXCEPT ![r] = n]
                /\ Goto(r, IF n = Len(task[r]) THEN "allocate" ELSE "goals")
                /\ UNCHANGED <<caller, task, offer, change>>
           ELSE Finish(r)
        /\ UNCHANGED <<goalVars, bannerVars, crashes>>

\* Slip: the contributions are recorded, the banner stays as it is.
BannerAfterUnchanged(r) == banner

\* Less than a cent left dismisses the banner, the rest stays on offer.
BannerAfter(r) ==
    LET left == AtLeastZero(offer[r] - Total(task[r]))
    IN  IF left < 1 THEN [banner EXCEPT !.shown = FALSE] ELSE [banner EXCEPT !.amount = left]

\* The parts of an allocation in the table of goals, given the rows that were
\* read, and among the contributions.
AddTo(table, rows, part) ==
    [table EXCEPT ![part.goal] = Updated(table[part.goal], Progress(rows[part.goal], part))]
AddAll(table, rows, parts) == FoldLeft(LAMBDA t, part : AddTo(t, rows, part), table, parts)

Record(table, part) == [table EXCEPT ![part.goal] = Recorded(table[part.goal], part)]
RecordAll(table, parts) == FoldLeft(Record, table, parts)

\* It fails as a whole when one of the goals has been deleted.
Allocate(r) ==
    /\ pc[r] = "allocate"
    /\ IF \A i \in DOMAIN task[r] : Live(task[r][i].goal)
       THEN /\ goal' = AddAll(goal, seen[r], task[r])
            /\ saved' = RecordAll(saved, task[r])
            /\ contributions' = contributions + Len(task[r])
            /\ banner' = BannerAfter(r)
            /\ allocated' = allocated + Total(task[r])
       ELSE UNCHANGED <<goalVars, banner, allocated>>
    /\ Finish(r)
    /\ UNCHANGED <<offered, crashes>>

-------------------------------------------------------------------------------
(* What else happens to the banner: a period is closed with a surplus, it is  *)
(* dismissed or expires, or a client announces one itself.                    *)

Offer(amount) ==
    /\ banner' = [exists |-> TRUE, shown |-> TRUE, amount |-> amount]
    /\ offered' = amount
    /\ allocated' = 0

PublishBanner(amount) ==
    /\ Free
    /\ Offer(amount)
    /\ UNCHANGED <<goalVars, localVars, crashes>>

DismissBanner ==
    /\ Free
    /\ banner.shown
    /\ banner' = [banner EXCEPT !.shown = FALSE]
    /\ UNCHANGED <<goalVars, offered, allocated, localVars, crashes>>

\* createRolloverNotification dismisses the old banner ...
BeginAnnounce(r, amount) ==
    /\ pc[r] = "idle"
    /\ banner' = [banner EXCEPT !.shown = FALSE]
    /\ offer' = [offer EXCEPT ![r] = amount]
    /\ Goto(r, "announce")
    /\ UNCHANGED <<goalVars, offered, allocated, caller, seen, task, checked, change, crashes>>

\* ... and then creates one, which fails when the user's row exists.
CreateBanner(r) ==
    /\ pc[r] = "announce"
    /\ IF banner.exists THEN UNCHANGED bannerVars ELSE Offer(offer[r])
    /\ Finish(r)
    /\ UNCHANGED <<goalVars, crashes>>

\* The process stops or a query fails between two database calls.
Crash(r) ==
    /\ crashes < MaxCrashes
    /\ pc[r] # "idle"
    /\ crashes' = crashes + 1
    /\ Finish(r)
    /\ UNCHANGED <<goalVars, bannerVars>>

-------------------------------------------------------------------------------
UserStep ==
    \/ \E g \in GoalIds, target \in Amounts, first \in {Nothing, <<0>>} :
          CreateGoal(g, target, first)
    \/ \E a \in Offers : PublishBanner(a)
    \/ DismissBanner

Start(r) ==
    /\ Free
    /\ \/ \E g \in GoalIds, dto \in Edits : BeginEdit(r, g, dto)
       \/ \E part \in Part : BeginContribution(r, part)
       \/ \E parts \in Allocations : BeginAllocation(r, parts)
       \/ \E a \in Offers : BeginAnnounce(r, a)

Step(r) ==
    \/ WriteEdit(r) \/ InsertContribution(r) \/ WriteProgress(r)
    \/ CheckGoal(r) \/ Allocate(r) \/ CreateBanner(r)

Next ==
    \/ UserStep
    \/ \E g \in GoalIds : DeleteGoal(g)
    \/ \E r \in Requests : Start(r) \/ Step(r) \/ Crash(r)

Spec == Init /\ [][Next]_vars

-------------------------------------------------------------------------------
TypeOK ==
    /\ goal \in [GoalIds -> Goal]
    /\ saved \in [GoalIds -> Nat]
    /\ banner \in [exists : BOOLEAN, shown : BOOLEAN, amount : Nat]
    /\ {offered, allocated, contributions, crashes} \subseteq Nat
    /\ caller \in [Requests -> {"user", "bill", "plan"}]
    /\ seen \in [Requests -> [GoalIds -> Goal]]
    /\ task \in [Requests -> Seq([goal : GoalIds, amount : Nat, withdraw : BOOLEAN]
                               \cup [goal : GoalIds])]
    /\ checked \in [Requests -> Nat]
    /\ offer \in [Requests -> Nat]

(* A goal's amount is what its recorded contributions make of the amount the  *)
(* user last entered, unless a request died between recording one and         *)
(* updating the goal.  (addContribution and addRolloverContribution keep two  *)
(* tables in step without a lock.)                                            *)
ProgressAddsUp ==
    crashes = 0 =>
        \A g \in GoalIds :
            /\ Live(g)
            /\ \A r \in Requests : pc[r] = "progress" => task[r][1].goal # g
            => goal[g].current = saved[g]

(* From a banner, no more is allocated to goals than it offered, but for the  *)
(* cent of tolerance ("Validate allocation amount doesn't exceed available    *)
(* rollover").                                                                *)
AllocatedWithinOffer == allocated <= offered + 1

(* While the banner is on show its amount is what is left of the offer        *)
(* ("notification.amount tracks remaining allocation available").             *)
BannerTracksRest == banner.shown => banner.amount + allocated = offered
================================================================================
