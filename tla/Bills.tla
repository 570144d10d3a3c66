--------------------------------- MODULE Bills ---------------------------------
(****************************************************************************)
(* Bills and plans, which contribute to goals through addContribution.      *)
(*                                                                          *)
(* Marking a bill as paid is one PATCH of a transaction: it reads the bill, *)
(* writes the status, inserts the next bill of a recurring one, and         *)
(* contributes to the goal it is linked to, each in a database call of its  *)
(* own.  Completing a plan applies it to a goal, a bill or the ledger and   *)
(* then marks it completed.  Dates and the other fields of a bill or a plan *)
(* are left out; UPCOMING stands for every status that is not PAID, PLANNED *)
(* also for DRAFT.                                                          *)
(****************************************************************************)
EXTENDS Goals, FiniteSets

CONSTANTS
    BillIds, PlanIds, Nobody,
    BillAmount,           \* what a bill or a plan is about, in cents
    MaxPayments           \* bound: how often one bill is paid

ASSUME BillsAssumption ==
    /\ Nobody \notin BillIds \cup PlanIds
    /\ NoGoal \notin BillIds
    /\ IsFiniteSet(BillIds)
    /\ BillAmount \in Nat \ {0}
    /\ MaxPayments \in Nat

VARIABLES
    bill,         \* bill[b]: a row of table transactions that has a due date
    payments,     \* history: how often b went from unpaid to paid
    plan,         \* plan[p]: a row of table plans
    applied,      \* history: how often p changed the real data
    on, was,      \* requests: the bill or plan they work on, the row they read
    want,         \*           the status they set
    linked        \*           the goal of the bill as it was written

tableVars == <<bill, payments, plan, applied>>
workVars == <<on, was, want, linked>>
allVars == <<vars, tableVars, workVars>>

GoalOrNone == GoalIds \cup {NoGoal}

\* follows is a history of which payment inserted the row.
Bill == [status : {"none", "UPCOMING", "PAID", "gone"}, recurring : BOOLEAN,
         goal : GoalOrNone, follows : BillIds \cup {Nobody}]

NoRow == [status |-> "none", recurring |-> FALSE, goal |-> NoGoal,
          follows |-> Nobody]

Plan == [status : {"none", "PLANNED", "COMPLETED", "CANCELLED", "gone"},
         type : {"entry", "bill", "goal"}, link : GoalOrNone \cup BillIds]

NoPlan == [status |-> "none", type |-> "entry", link |-> NoGoal]

BillsInit ==
    /\ Init
    /\ bill = [b \in BillIds |-> NoRow]
    /\ payments = [b \in BillIds |-> 0]
    /\ plan = [p \in PlanIds |-> NoPlan]
    /\ applied = [p \in PlanIds |-> 0]
    /\ on = [r \in Requests |-> Nobody]
    /\ was = [r \in Requests |-> NoRow]
    /\ want = [r \in Requests |-> "none"]
    /\ linked = [r \in Requests |-> NoGoal]

Known(b) == b \in BillIds /\ bill[b].status \in {"UPCOMING", "PAID"}
Planned(p) == plan[p].status \in {"PLANNED", "COMPLETED", "CANCELLED"}

\* The request is over.
EndWork(r) ==
    /\ on' = [on EXCEPT ![r] = Nobody]
    /\ was' = [was EXCEPT ![r] = NoRow]
    /\ want' = [want EXCEPT ![r] = "none"]
    /\ linked' = [linked EXCEPT ![r] = NoGoal]

End(r) == Finish(r) /\ EndWork(r)

\* The request begins to work on x, meaning to set the given status.
Take(r, x, status, stage) ==
    /\ Free
    /\ pc[r] = "idle"
    /\ on' = [on EXCEPT ![r] = x]
    /\ want' = [want EXCEPT ![r] = status]
    /\ Goto(r, stage)
    /\ UNCHANGED <<caller, seen, task, checked, offer, change>>
    /\ UNCHANGED <<goalVars, bannerVars, crashes>>

\* It goes on to another stage.
GoOn(r, stage) ==
    /\ Goto(r, stage)
    /\ UNCHANGED <<caller, seen, task, checked, offer, change>>

\* addContribution is called on behalf of a bill or a plan.
CallContribution(r, g, who) ==
    /\ ReadGoal(r, [goal |-> g, amount |-> BillAmount, withdraw |-> FALSE])
    /\ caller' = [caller EXCEPT ![r] = who]
    /\ UNCHANGED <<tableVars, workVars>>

-------------------------------------------------------------------------------
(* TransactionsService.create and remove, for bills                           *)

CreateBill(b, g, recurring, status) ==
    /\ Free
    /\ bill[b].status = "none"
    /\ g = NoGoal \/ Live(g)
    /\ bill' = [bill EXCEPT ![b] = [NoRow EXCEPT !.status = status, !.goal = g,
                                                 !.recurring = recurring]]
    /\ UNCHANGED <<vars, payments, plan, applied, workVars>>

DeleteBill(b) ==
    /\ Free
    /\ Known(b)
    /\ bill' = [bill EXCEPT ![b] = [bill[b] EXCEPT !.status = "gone", !.goal = NoGoal]]
    /\ UNCHANGED <<vars, payments, plan, applied, workVars>>

\* Deleting a goal sets the link of its bills to NULL.
UnlinkGoal(g) ==
    /\ DeleteGoal(g)
    /\ bill' = [b \in BillIds |-> IF bill[b].goal = g THEN [bill[b] EXCEPT !.goal = NoGoal]
                                                      ELSE bill[b]]
    /\ UNCHANGED <<payments, plan, applied, workVars>>

-------------------------------------------------------------------------------
(* TransactionsService.update with a status                                   *)

BeginStatus(r, b, status) ==
    /\ contributions < MaxContributions
    /\ Known(b)
    /\ payments[b] < MaxPayments
    /\ \E x \in BillIds : bill[x].status = "none"
    /\ Take(r, b, status, "status")
    /\ was' = [was EXCEPT ![r] = bill[b]]
    /\ UNCHANGED <<tableVars, linked>>

\* Slip: also one that it read as paid.
PaysAgain(r) == want[r] = "PAID"

\* The request marks a bill as paid that it read as unpaid.
Pays(r) == want[r] = "PAID" /\ was[r].status # "PAID"

\* Where the payment goes on after the next bill has been dealt with.
AfterNext(r) == IF was[r].goal # NoGoal THEN "contribute" ELSE "paid"

WriteStatus(r) ==
    LET b == on[r]
    IN  /\ pc[r] = "status"
        /\ IF Known(b)
           THEN /\ bill' = [bill EXCEPT ![b].status = want[r]]
                /\ payments' = IF want[r] = "PAID" /\ bill[b].status # "PAID"
                               THEN [payments EXCEPT ![b] = payments[b] + 1] ELSE payments
                /\ linked' = [linked EXCEPT ![r] = bill[b].goal]
                /\ GoOn(r, IF ~Pays(r) THEN "paid"
                           ELSE IF was[r].recurring THEN "next" ELSE AfterNext(r))
                /\ UNCHANGED <<on, was, want>>
           ELSE /\ End(r)
                /\ UNCHANGED <<bill, payments>>
        /\ UNCHANGED <<goalVars, bannerVars, crashes, plan, applied>>

\* Slip: a bill that is linked to a goal gets no next one.
CreateNextOfUnlinked(r) ==
    /\ pc[r] = "next"
    /\ IF was[r].goal = NoGoal
       THEN \E b \in BillIds :
               /\ bill[b].status = "none"
               /\ bill' = [bill EXCEPT ![b] = [was[r] EXCEPT !.status = "UPCOMING", !.follows = on[r]]]
       ELSE UNCHANGED bill
    /\ GoOn(r, AfterNext(r))
    /\ UNCHANGED <<goalVars, bannerVars, crashes, payments, plan, applied, workVars>>

\* createNextRecurringTransaction, from the row that was read: fails when the
\* goal it was linked to has been deleted.
CreateNext(r) ==
    /\ pc[r] = "next"
    /\ IF was[r].goal = NoGoal \/ Live(was[r].goal)
       THEN /\ \E b \in BillIds :
                  /\ bill[b].status = "none"
                  /\ bill' = [bill EXCEPT ![b] =
                                [was[r] EXCEPT !.status = "UPCOMING", !.follows = on[r]]]
            /\ GoOn(r, AfterNext(r))
            /\ UNCHANGED workVars
       ELSE /\ End(r)
            /\ UNCHANGED bill
    /\ UNCHANGED <<goalVars, bannerVars, crashes, payments, plan, applied>>

\* createGoalContributionFromPayment: an error is caught, and the bill is paid.
ContributePayment(r) ==
    /\ pc[r] = "contribute"
    /\ Open(linked[r])
    /\ CallContribution(r, linked[r], "bill")

EndPayment(r) ==
    /\ \/ pc[r] = "paid"
       \/ pc[r] = "contribute" /\ ~Open(linked[r])
    /\ End(r)
    /\ UNCHANGED <<goalVars, bannerVars, crashes, tableVars>>

-------------------------------------------------------------------------------
(* PlansService                                                               *)

CreatePlan(p, type, link) ==
    /\ Free
    /\ plan[p].status = "none"
    /\ type = "goal" <=> link \in GoalIds
    /\ type = "bill" <=> link \in BillIds
    /\ plan' = [plan EXCEPT ![p] = [status |-> "PLANNED", type |-> type, link |-> link]]
    /\ UNCHANGED <<vars, bill, payments, applied, workVars>>

DeletePlan(p) ==
    /\ Free
    /\ Planned(p)
    /\ plan' = [plan EXCEPT ![p].status = "gone"]
    /\ UNCHANGED <<vars, bill, payments, applied, workVars>>

\* cancel and promote: also a cancelled plan may be promoted again.
BeginSetStatus(r, p, status) ==
    /\ Planned(p)
    /\ plan[p].status # "COMPLETED"
    /\ Take(r, p, status, "setStatus")
    /\ UNCHANGED <<tableVars, was, linked>>

\* prisma.plan.update by id: fails when the plan is gone.
WritePlan(r, status) ==
    /\ plan' = IF Planned(on[r]) THEN [plan EXCEPT ![on[r]].status = status] ELSE plan
    /\ End(r)
    /\ UNCHANGED <<goalVars, bannerVars, crashes, bill, payments, applied>>

SetStatus(r) == pc[r] = "setStatus" /\ WritePlan(r, want[r])

\* Slip: a completed plan may be completed.
BeginCompleteOfAny(r, p) ==
    /\ contributions < MaxContributions
    /\ Planned(p)
    /\ Take(r, p, "COMPLETED", "apply")
    /\ UNCHANGED <<tableVars, was, linked>>

BeginComplete(r, p) ==
    /\ contributions < MaxContributions
    /\ plan[p].status = "PLANNED"
    /\ Take(r, p, "COMPLETED", "apply")
    /\ UNCHANGED <<tableVars, was, linked>>

Applied(p) == applied' = [applied EXCEPT ![p] = applied[p] + 1]

\* A plan of an expense or an income becomes a transaction, one of a bill
\* changes its due date, which fails when the bill is gone.  Neither row's
\* dates nor new expenses matter to anything here.
ApplyToData(r) ==
    LET link == plan[on[r]].link
    IN  /\ pc[r] = "apply"
        /\ plan[on[r]].type # "goal"
        /\ IF link \in BillIds /\ ~Known(link)
           THEN End(r) /\ UNCHANGED applied
           ELSE /\ Applied(on[r])
                /\ GoOn(r, "complete")
                /\ UNCHANGED workVars
        /\ UNCHANGED <<goalVars, bannerVars, crashes, bill, payments, plan>>

ApplyToGoal(r) ==
    /\ pc[r] = "apply"
    /\ plan[on[r]].type = "goal"
    /\ Open(plan[on[r]].link)
    /\ CallContribution(r, plan[on[r]].link, "plan")

\* addContribution throws: the plan stays as it is.
CannotApply(r) ==
    /\ pc[r] = "apply"
    /\ plan[on[r]].type = "goal"
    /\ ~Open(plan[on[r]].link)
    /\ End(r)
    /\ UNCHANGED <<goalVars, bannerVars, crashes, tableVars>>

Complete(r) == pc[r] = "complete" /\ WritePlan(r, "COMPLETED")

-------------------------------------------------------------------------------
\* A step of a contribution, an edit of a goal or an allocation; when it ends
\* the request, the work for a bill or a plan ends with it.
GoalStep(r) ==
    /\ Step(r)
    /\ applied' = IF /\ pc[r] = "insert" /\ pc'[r] = "progress"
                     /\ caller[r] = "plan"
                  THEN [applied EXCEPT ![on[r]] = applied[on[r]] + 1] ELSE applied
    /\ IF pc'[r] = "idle" THEN EndWork(r) ELSE UNCHANGED workVars
    /\ UNCHANGED <<bill, payments, plan>>

CrashOf(r) == Crash(r) /\ EndWork(r) /\ UNCHANGED tableVars

BillStep(r) ==
    \/ WriteStatus(r) \/ CreateNext(r) \/ ContributePayment(r) \/ EndPayment(r)

PlanStep(r) ==
    \/ SetStatus(r) \/ ApplyToData(r) \/ ApplyToGoal(r) \/ CannotApply(r) \/ Complete(r)

\* The user's requests of Goals that meet bills and plans; edits of goals and
\* the banner touch neither and stay with Goals.
GoalRequests ==
    /\ \/ \E g \in GoalIds, target \in Amounts : CreateGoal(g, target, Nothing)
       \/ /\ Free
          /\ \E r \in Requests, part \in Part : BeginContribution(r, part)
    /\ UNCHANGED <<tableVars, workVars>>

BillsNext ==
    \/ GoalRequests
    \/ \E g \in GoalIds : UnlinkGoal(g)
    \/ \E b \in BillIds, g \in GoalOrNone, recurring \in BOOLEAN,
          status \in {"UPCOMING", "PAID"} : CreateBill(b, g, recurring, status)
    \/ \E b \in BillIds : DeleteBill(b)
    \/ \E p \in PlanIds, type \in {"entry", "bill", "goal"},
          link \in GoalOrNone \cup BillIds : CreatePlan(p, type, link)
    \/ \E p \in PlanIds : DeletePlan(p)
    \/ \E r \in Requests :
          \/ \E b \in BillIds, status \in {"UPCOMING", "PAID"} : BeginStatus(r, b, status)
          \/ \E p \in PlanIds, status \in {"PLANNED", "CANCELLED"} : BeginSetStatus(r, p, status)
          \/ \E p \in PlanIds : BeginComplete(r, p)
          \/ GoalStep(r) \/ BillStep(r) \/ PlanStep(r) \/ CrashOf(r)

BillsSpec == BillsInit /\ [][BillsNext]_allVars

-------------------------------------------------------------------------------
BillsTypeOK ==
    /\ TypeOK
    /\ bill \in [BillIds -> Bill]
    /\ payments \in [BillIds -> Nat]
    /\ plan \in [PlanIds -> Plan]
    /\ applied \in [PlanIds -> Nat]
    /\ on \in [Requests -> BillIds \cup PlanIds \cup {Nobody}]
    /\ was \in [Requests -> Bill]
    /\ linked \in [Requests -> GoalOrNone]

Followers(b) == {x \in BillIds : bill[x].follows = b}

Resting == \A r \in Requests : pc[r] = "idle"

(* A bill is followed by no more new bills than it was paid times             *)
(* ("processPayment creates exactly one new UPCOMING row per paid recurring   *)
(* bill"), and a one-off bill by none.                                        *)
FollowerPerPayment ==
    \A b \in BillIds :
        Cardinality(Followers(b)) <= IF bill[b].recurring THEN payments[b] ELSE 0

(* When no request died half-way and none is at work, a recurring bill that   *)
(* was paid has had its next bill inserted: the series that a forecast        *)
(* expands goes on until the user deletes it (update,                         *)
(* createNextRecurringTransaction).                                           *)
SeriesGoesOn ==
    crashes = 0 /\ Resting =>
        \A b \in BillIds :
            bill[b].recurring /\ payments[b] > 0 => Followers(b) # {}

(* Each request that died half-way can make a plan be applied once more than  *)
(* it should, and nothing else can; a completed plan was applied (complete).  *)
PlanAppliedOnce ==
    \A p \in PlanIds :
        /\ applied[p] <= 1 + crashes
        /\ plan[p].status = "COMPLETED" => applied[p] > 0
================================================================================
