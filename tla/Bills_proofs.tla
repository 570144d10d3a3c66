------------------------------- MODULE Bills_proofs -------------------------------
(****************************************************************************)
(* Proofs about Bills, for any number of goals, bills, plans and payments,  *)
(* when one request is in progress at a time and may die anywhere: only a   *)
(* death lets a plan be applied twice, no payment makes two next bills, and *)
(* no series ends while nothing dies.                                       *)
(****************************************************************************)
EXTENDS Bills, FiniteSetTheorems, SequenceTheorems, TLAPS

\* Requests of Bills never edit a goal or allocate a banner.
Stages == {"idle", "insert", "progress", "status", "next", "contribute", "paid",
           "setStatus", "apply", "complete"}

Locals ==
    /\ pc \in [Requests -> Stages]
    /\ caller \in [Requests -> {"user", "bill", "plan"}]
    /\ DOMAIN task = Requests /\ DOMAIN on = Requests /\ DOMAIN want = Requests
    /\ \A q, r \in Requests : pc[q] # "idle" /\ pc[r] # "idle" => q = r

Tables ==
    /\ plan \in [PlanIds -> Plan]
    /\ applied \in [PlanIds -> Nat]
    /\ crashes \in Nat

\* What a request found when it began still holds when it writes: the goal it
\* contributes to is there, and the plan has not been completed.
StillHolds(r) ==
    /\ pc[r] = "idle" => caller[r] = "user"
    /\ pc[r] \in {"insert", "progress"} => Live(task[r][1].goal)
    /\ caller[r] = "plan" => pc[r] \in {"insert", "progress"}
    /\ pc[r] \in {"apply", "complete"} \/ caller[r] = "plan" =>
          on[r] \in PlanIds /\ plan[on[r]].status = "PLANNED"
    /\ pc[r] = "setStatus" =>
          /\ on[r] \in PlanIds /\ plan[on[r]].status \in {"PLANNED", "CANCELLED"}
          /\ want[r] \in {"PLANNED", "CANCELLED"}

\* The request has changed the real data and not yet marked the plan.
HasApplied(r, p) ==
    /\ on[r] = p
    /\ pc[r] = "complete" \/ (pc[r] = "progress" /\ caller[r] = "plan")

\* A plan that is not completed was applied by requests that died, and by the
\* one that is about to complete it.
Counted(p) ==
    /\ applied[p] <= 1 + crashes
    /\ plan[p].status = "COMPLETED" => applied[p] > 0
    /\ \A r \in Requests : HasApplied(r, p) => applied[p] > 0
    /\ plan[p].status \in {"none", "PLANNED", "CANCELLED"}
       /\ (\A r \in Requests : ~HasApplied(r, p)) => applied[p] <= crashes

Inv ==
    /\ Locals /\ Tables
    /\ \A r \in Requests : StillHolds(r)
    /\ \A p \in PlanIds : Counted(p)

\* At the start no request is at work and no plan exists.
LEMMA InitInv == ASSUME BillsInit PROVE Inv
<1>1. Tables
  BY DEF BillsInit, Init, NoPlan, Plan, Tables, GoalOrNone
<1> QED
  BY <1>1 DEF BillsInit, Init, NoPlan, Inv, Locals, Stages, StillHolds, Counted, HasApplied

-------------------------------------------------------------------------------
(* Steps that leave plans alone.                                              *)

\* Plans and what was applied stay, no request is about to complete one: it
\* is enough to look at the locals.
LEMMA PlansKept ==
  ASSUME Inv, UNCHANGED <<plan, applied, crashes>>,
         \A p \in PlanIds, q \in Requests : ~HasApplied(q, p),
         \A p \in PlanIds, q \in Requests : ~HasApplied(q, p)'
  PROVE  Tables' /\ \A p \in PlanIds : Counted(p)'
<1>1. Tables'
  BY DEF Inv, Tables
<1>2. ASSUME NEW p \in PlanIds
      PROVE  Counted(p)'
  <2>1. Counted(p)
    BY DEF Inv
  <2> QED
    BY <2>1 DEF Counted
<1> QED
  BY <1>1, <1>2

\* With one request at a time, whatever changes the tables alone finds all
\* requests idle.
LEMMA AllIdle ==
  ASSUME ~Overlap, Inv, Free
  PROVE  /\ \A r \in Requests : pc[r] = "idle"
         /\ \A p \in PlanIds, q \in Requests : ~HasApplied(q, p)
  BY DEF Free, HasApplied, Inv, StillHolds

\* The user's changes of goals and bills.
LEMMA TablesInv ==
  ASSUME ~Overlap, Inv, Free, UNCHANGED <<plan, applied, crashes, localVars, workVars>>
  PROVE  Inv'
<1>1. \A r \in Requests : pc[r] = "idle"
  BY AllIdle
<1>2. \A p \in PlanIds, q \in Requests : ~HasApplied(q, p) /\ ~HasApplied(q, p)'
  BY AllIdle, <1>1 DEF HasApplied, localVars, workVars
<1>3. Tables' /\ \A p \in PlanIds : Counted(p)'
  BY <1>2, PlansKept
<1>4. Locals'
  BY DEF Inv, Locals, localVars, workVars
<1>5. \A r \in Requests : StillHolds(r)'
  BY <1>1 DEF Inv, StillHolds, localVars, workVars
<1> QED
  BY <1>3, <1>4, <1>5 DEF Inv

-------------------------------------------------------------------------------
(* What a step of one request does to the locals.                             *)

\* While a request is at work, every other one is idle.
LEMMA Others ==
  ASSUME Inv, NEW r \in Requests, pc[r] # "idle"
  PROVE  /\ \A q \in Requests : q # r => pc[q] = "idle" /\ caller[q] = "user"
         /\ \A p \in PlanIds, q \in Requests : HasApplied(q, p) => q = r
<1>1. \A q \in Requests : q # r => pc[q] = "idle" /\ caller[q] = "user"
  BY DEF Inv, Locals, StillHolds
<1> QED
  BY <1>1 DEF HasApplied

\* When the request is over, nobody is at work.
LEMMA EndInv ==
  ASSUME Inv, NEW r \in Requests, pc[r] # "idle", Finish(r), EndWork(r) \/ UNCHANGED workVars
  PROVE  /\ Locals' /\ \A q \in Requests : StillHolds(q)'
         /\ \A p \in PlanIds, q \in Requests : ~HasApplied(q, p)'
<1>1. \A q \in Requests : pc'[q] = "idle" /\ caller'[q] = "user"
  BY Others DEF Finish, ReturnTo, Goto, Inv, Locals
<1>2. DOMAIN on' = Requests /\ DOMAIN want' = Requests
  BY DEF EndWork, workVars, Inv, Locals
<1>3. /\ pc' \in [Requests -> Stages] /\ caller' \in [Requests -> {"user", "bill", "plan"}]
      /\ DOMAIN task' = Requests
  BY DEF Finish, ReturnTo, Goto, Inv, Locals, Stages
<1>4. Locals'
  BY <1>1, <1>2, <1>3 DEF Locals
<1> QED
  BY <1>1, <1>4 DEF StillHolds, HasApplied

\* A request that ends without having changed a plan.
LEMMA GivesUp ==
  ASSUME Inv, NEW r \in Requests, pc[r] \notin {"idle", "progress", "complete"},
         Finish(r), EndWork(r) \/ UNCHANGED workVars, UNCHANGED <<plan, applied, crashes>>
  PROVE  Inv'
<1>1. \A p \in PlanIds, q \in Requests : ~HasApplied(q, p)
  BY Others DEF HasApplied
<1> QED
  BY <1>1, EndInv, PlansKept DEF Inv

\* A request that goes on with what it holds.
LEMMA GoOnInv ==
  ASSUME Inv, NEW r \in Requests, pc[r] # "idle", NEW stage \in Stages \ {"idle"},
         GoOn(r, stage), UNCHANGED <<on, want>>, StillHolds(r)'
  PROVE  /\ Locals' /\ pc'[r] = stage /\ \A q \in Requests : StillHolds(q)'
         /\ \A q \in Requests : q # r => pc'[q] = "idle"
         /\ \A p \in PlanIds, q \in Requests : HasApplied(q, p)' => q = r
<1>1. pc' = [pc EXCEPT ![r] = stage] /\ UNCHANGED <<caller, task, on, want>>
  BY DEF GoOn, Goto
<1>2. pc'[r] = stage /\ \A q \in Requests : q # r => pc'[q] = "idle" /\ caller'[q] = "user"
  BY <1>1, Others DEF Inv, Locals
<1>3. Locals'
  BY <1>1, <1>2 DEF Inv, Locals
<1> QED
  BY <1>2, <1>3 DEF StillHolds, HasApplied

-------------------------------------------------------------------------------
(* One lemma per kind of step.                                                *)

\* A bill, a plan or the user calls addContribution.
LEMMA CallInv ==
  ASSUME Inv, NEW r \in Requests, pc[r] \notin {"progress", "complete"},
         \A q \in Requests : q # r => pc[q] = "idle",
         NEW part, ReadGoal(r, part), NEW who \in {"user", "bill", "plan"},
         caller' = [caller EXCEPT ![r] = who],
         who = "plan" => on[r] \in PlanIds /\ plan[on[r]].status = "PLANNED",
         UNCHANGED <<tableVars, workVars>>
  PROVE  Inv'
<1>1. /\ Live(part.goal) /\ UNCHANGED <<goal, crashes>>
      /\ pc' = [pc EXCEPT ![r] = "insert"] /\ task' = [task EXCEPT ![r] = <<part>>]
  BY DEF ReadGoal, Open, Goto, goalVars
<1>2. UNCHANGED <<plan, applied, on, want>>
  BY DEF tableVars, workVars
<1>3. /\ pc'[r] = "insert" /\ task'[r][1] = part /\ caller'[r] = who
      /\ \A q \in Requests : q # r => pc'[q] = "idle" /\ caller'[q] = "user"
  BY <1>1 DEF Inv, Locals, StillHolds
<1>4. Locals'
  BY <1>1, <1>2, <1>3 DEF Inv, Locals, Stages
<1>5. \A q \in Requests : StillHolds(q)'
  <2>1. StillHolds(r)'
    BY <1>1, <1>2, <1>3 DEF StillHolds, Live
  <2> QED
    BY <1>3, <2>1 DEF StillHolds
<1>6. \A p \in PlanIds, q \in Requests : ~HasApplied(q, p) /\ ~HasApplied(q, p)'
  BY <1>3 DEF HasApplied
<1>7. Tables' /\ \A p \in PlanIds : Counted(p)'
  BY <1>1, <1>2, <1>6, PlansKept
<1> QED
  BY <1>4, <1>5, <1>7 DEF Inv

\* A payment writes the bill, inserts the next one, and ends or contributes.
LEMMA BillStepInv == ASSUME Inv, NEW r \in Requests, BillStep(r) PROVE Inv'
<1>1. pc[r] \in {"status", "next", "contribute", "paid"}
  BY DEF BillStep, WriteStatus, CreateNext, ContributePayment, EndPayment
<1>2. CASE ContributePayment(r)
  <2>1. ReadGoal(r, [goal |-> linked[r], amount |-> BillAmount, withdraw |-> FALSE])
    BY <1>2 DEF ContributePayment, CallContribution
  <2>2. caller' = [caller EXCEPT ![r] = "bill"] /\ UNCHANGED <<tableVars, workVars>>
    BY <1>2 DEF ContributePayment, CallContribution
  <2> QED
    BY <1>1, <2>1, <2>2, Others, CallInv
<1>3. CASE ~ContributePayment(r)
  <2>1. UNCHANGED <<plan, applied, crashes>>
    BY <1>3 DEF BillStep, WriteStatus, CreateNext, EndPayment, tableVars
  <2>2. CASE End(r)
    BY <1>1, <2>1, <2>2, GivesUp DEF End
  <2>3. CASE \E stage \in {"next", "contribute", "paid"} : GoOn(r, stage) /\ UNCHANGED <<on, want>>
    <3>1. PICK stage \in {"next", "contribute", "paid"} : GoOn(r, stage) /\ UNCHANGED <<on, want>>
      BY <2>3
    <3>2. pc'[r] = stage /\ caller'[r] = caller[r] /\ caller[r] # "plan"
      BY <1>1, <3>1 DEF GoOn, Goto, Inv, Locals, StillHolds
    <3>3. StillHolds(r)'
      BY <3>2 DEF StillHolds
    <3>4. stage \in Stages \ {"idle"}
      BY DEF Stages
    <3>5. /\ Locals' /\ \A q \in Requests : StillHolds(q)'
          /\ \A p \in PlanIds, q \in Requests : HasApplied(q, p)' => q = r
      BY <1>1, <3>1, <3>3, <3>4, GoOnInv
    <3>6. \A p \in PlanIds, q \in Requests : ~HasApplied(q, p) /\ ~HasApplied(q, p)'
      BY <1>1, <3>2, <3>5, Others DEF HasApplied
    <3> QED
      BY <2>1, <3>5, <3>6, PlansKept DEF Inv
  <2>4. End(r) \/ \E stage \in {"next", "contribute", "paid"} : GoOn(r, stage) /\ UNCHANGED <<on, want>>
    <3>1. CASE WriteStatus(r)
      BY <3>1 DEF WriteStatus, AfterNext
    <3>2. CASE CreateNext(r)
      BY <3>2 DEF CreateNext, AfterNext, workVars
    <3>3. CASE EndPayment(r)
      BY <3>3 DEF EndPayment
    <3> QED
      BY <1>3, <3>1, <3>2, <3>3 DEF BillStep
  <2> QED
    BY <2>2, <2>3, <2>4
<1> QED
  BY <1>2, <1>3

\* A plan is written by the request that works on it: cancelled, promoted,
\* or completed after it was applied.
LEMMA WritePlanInv ==
  ASSUME Inv, NEW r \in Requests, NEW status \in {"PLANNED", "CANCELLED", "COMPLETED"},
         pc[r] = IF status = "COMPLETED" THEN "complete" ELSE "setStatus", WritePlan(r, status)
  PROVE  Inv'
<1>0. PICK p \in PlanIds : p = on[r]
  BY DEF Inv, StillHolds
<1>1. /\ plan[p].status \in {"PLANNED", "CANCELLED"}
      /\ plan \in [PlanIds -> Plan] /\ Counted(p)
  BY <1>0 DEF Inv, StillHolds, Tables
<1>2. plan' = [plan EXCEPT ![p].status = status] /\ UNCHANGED <<applied, crashes>>
  BY <1>0, <1>1 DEF WritePlan, Planned
<1>3. /\ Locals' /\ \A q \in Requests : StillHolds(q)'
      /\ \A x \in PlanIds, q \in Requests : ~HasApplied(q, x)'
  BY EndInv DEF WritePlan, End
<1>4. Tables'
  BY <1>1, <1>2 DEF Inv, Tables, Plan
<1>5. Counted(p)'
  <2>1. plan'[p].status = status /\ applied'[p] = applied[p] /\ crashes' = crashes
    BY <1>1, <1>2
  <2>2. CASE status = "COMPLETED"
    <3>1. HasApplied(r, p)
      BY <1>0, <2>2 DEF HasApplied
    <3> QED
      BY <1>1, <1>3, <2>1, <2>2, <3>1 DEF Counted
  <2>3. CASE status # "COMPLETED"
    <3>1. \A q \in Requests : ~HasApplied(q, p)
      <4>1. caller[r] # "plan"
        BY <2>3 DEF Inv, StillHolds
      <4> QED
        BY <2>3, <4>1, Others DEF HasApplied
    <3> QED
      BY <1>1, <1>3, <2>1, <2>3, <3>1 DEF Counted
  <2> QED
    BY <2>2, <2>3
<1>6. ASSUME NEW x \in PlanIds, x # p
      PROVE  Counted(x)'
  <2>1. plan'[x] = plan[x] /\ UNCHANGED <<applied, crashes>>
    BY <1>1, <1>2, <1>6
  <2>2. Counted(x) /\ \A q \in Requests : ~HasApplied(q, x)
    BY <1>0, <1>6, Others DEF Inv, HasApplied
  <2> QED
    BY <1>3, <2>1, <2>2 DEF Counted
<1> QED
  BY <1>3, <1>4, <1>5, <1>6 DEF Inv

\* The request at work applies its plan, and goes on to complete it.
LEMMA AppliedInv ==
  ASSUME Inv, NEW r \in Requests, NEW p \in PlanIds, on[r] = p,
         plan[p].status = "PLANNED", ~HasApplied(r, p), pc[r] # "idle",
         Applied(p), UNCHANGED <<plan, crashes>>, HasApplied(r, p)',
         \A x \in PlanIds, q \in Requests : HasApplied(q, x)' => q = r
  PROVE  Tables' /\ \A x \in PlanIds : Counted(x)'
<1>1. applied' = [applied EXCEPT ![p] = applied[p] + 1] /\ applied \in [PlanIds -> Nat] /\ crashes \in Nat
  BY DEF Applied, Inv, Tables
<1>2. Tables'
  BY <1>1 DEF Inv, Tables
<1>3. Counted(p)'
  <2>1. \A q \in Requests : ~HasApplied(q, p)
    BY Others
  <2>2. applied[p] <= crashes
    BY <2>1 DEF Inv, Counted
  <2> QED
    BY <1>1, <2>2 DEF Counted
<1>4. ASSUME NEW x \in PlanIds, x # p
      PROVE  Counted(x)'
  <2>1. \A q \in Requests : ~HasApplied(q, x)
    BY <1>4, Others DEF HasApplied
  <2>2. \A q \in Requests : ~HasApplied(q, x)'
    BY <1>4 DEF HasApplied
  <2>3. Counted(x) /\ applied'[x] = applied[x]
    BY <1>1, <1>4 DEF Inv
  <2> QED
    BY <2>1, <2>2, <2>3 DEF Counted
<1> QED
  BY <1>2, <1>3, <1>4

\* A plan of an expense, an income or a bill is applied in one call.
LEMMA ApplyToDataInv == ASSUME Inv, NEW r \in Requests, ApplyToData(r) PROVE Inv'
<1>1. pc[r] = "apply" /\ UNCHANGED <<plan, crashes>>
  BY DEF ApplyToData
<1>2. /\ on[r] \in PlanIds /\ plan[on[r]].status = "PLANNED" /\ caller[r] # "plan"
      /\ ~HasApplied(r, on[r])
  BY <1>1 DEF Inv, StillHolds, HasApplied
<1>3. CASE End(r) /\ UNCHANGED applied
  BY <1>1, <1>3, GivesUp DEF End
<1>4. CASE Applied(on[r]) /\ GoOn(r, "complete") /\ UNCHANGED workVars
  <2>1. pc'[r] = "complete" /\ UNCHANGED <<on, want, caller, task>>
    BY <1>4 DEF GoOn, Goto, workVars, Inv, Locals
  <2>2. StillHolds(r)'
    BY <1>1, <1>2, <2>1 DEF StillHolds
  <2>3. "complete" \in Stages \ {"idle"}
    BY DEF Stages
  <2>4. /\ Locals' /\ \A q \in Requests : StillHolds(q)'
        /\ \A p \in PlanIds, q \in Requests : HasApplied(q, p)' => q = r
    BY <1>1, <1>4, <2>1, <2>2, <2>3, GoOnInv
  <2>5. HasApplied(r, on[r])'
    BY <2>1 DEF HasApplied
  <2>6. Tables' /\ \A p \in PlanIds : Counted(p)'
    <3>1. PICK p \in PlanIds : p = on[r]
      BY <1>2
    <3>2. HasApplied(r, p)'
      BY <2>1, <3>1 DEF HasApplied
    <3> QED
      BY <1>1, <1>2, <1>4, <2>4, <3>1, <3>2, AppliedInv
  <2> QED
    BY <2>4, <2>6 DEF Inv
<1> QED
  BY <1>3, <1>4 DEF ApplyToData

\* The steps of a request on a plan.
LEMMA PlanStepInv == ASSUME Inv, NEW r \in Requests, PlanStep(r) PROVE Inv'
<1>1. CASE SetStatus(r)
  <2>1. pc[r] = "setStatus" /\ want[r] \in {"PLANNED", "CANCELLED"} /\ WritePlan(r, want[r])
    BY <1>1 DEF SetStatus, Inv, StillHolds
  <2> QED
    BY <2>1, WritePlanInv
<1>2. CASE Complete(r)
  BY <1>2, WritePlanInv DEF Complete
<1>3. CASE ApplyToGoal(r)
  <2>1. /\ pc[r] = "apply" /\ caller' = [caller EXCEPT ![r] = "plan"] /\ UNCHANGED <<tableVars, workVars>>
        /\ ReadGoal(r, [goal |-> plan[on[r]].link, amount |-> BillAmount, withdraw |-> FALSE])
    BY <1>3 DEF ApplyToGoal, CallContribution
  <2>2. on[r] \in PlanIds /\ plan[on[r]].status = "PLANNED"
    BY <2>1 DEF Inv, StillHolds
  <2> QED
    BY <2>1, <2>2, Others, CallInv
<1>4. CASE CannotApply(r)
  BY <1>4, GivesUp DEF CannotApply, End, tableVars
<1> QED
  BY <1>1, <1>2, <1>3, <1>4, ApplyToDataInv DEF PlanStep

\* The contribution is inserted: for a plan, this applies it.
LEMMA InsertInv == ASSUME Inv, NEW r \in Requests, GoalStep(r), InsertContribution(r) PROVE Inv'
<1>1. pc[r] = "insert" /\ UNCHANGED <<plan, crashes>> /\ Live(task[r][1].goal)
  BY DEF GoalStep, InsertContribution, Inv, StillHolds
<1>2. Goto(r, "progress") /\ UNCHANGED <<goal, caller, seen, task, checked, offer, change>>
  BY <1>1 DEF InsertContribution
<1>3. pc'[r] = "progress" /\ UNCHANGED <<caller, task>>
  BY <1>2 DEF Goto, Inv, Locals
<1>4. UNCHANGED <<on, want>>
  BY <1>3 DEF GoalStep, workVars
<1>5. StillHolds(r)'
  BY <1>1, <1>2, <1>3, <1>4 DEF Inv, StillHolds, Live
<1>6. "progress" \in Stages \ {"idle"} /\ GoOn(r, "progress")
  BY <1>2 DEF GoOn, Stages
<1>7. /\ Locals' /\ \A q \in Requests : StillHolds(q)'
      /\ \A p \in PlanIds, q \in Requests : HasApplied(q, p)' => q = r
  BY <1>1, <1>4, <1>5, <1>6, GoOnInv
<1>8. Tables' /\ \A p \in PlanIds : Counted(p)'
  <2>1. CASE caller[r] = "plan"
    <3>1. on[r] \in PlanIds /\ plan[on[r]].status = "PLANNED"
      BY <2>1 DEF Inv, StillHolds
    <3>2. PICK p \in PlanIds : p = on[r]
      BY <3>1
    <3>3. HasApplied(r, p)' /\ ~HasApplied(r, p)
      BY <1>1, <1>3, <1>4, <2>1, <3>2 DEF HasApplied
    <3>4. Applied(p)
      BY <1>1, <1>3, <2>1, <3>2 DEF GoalStep, Applied
    <3> QED
      BY <1>1, <1>7, <3>1, <3>2, <3>3, <3>4, AppliedInv
  <2>2. CASE caller[r] # "plan"
    <3>1. applied' = applied
      BY <2>2 DEF GoalStep
    <3>2. \A p \in PlanIds, q \in Requests : ~HasApplied(q, p) /\ ~HasApplied(q, p)'
      BY <1>1, <1>3, <1>7, <2>2, Others DEF HasApplied
    <3> QED
      BY <1>1, <3>1, <3>2, PlansKept
  <2> QED
    BY <2>1, <2>2
<1> QED
  BY <1>7, <1>8 DEF Inv

\* The goal is updated: only then does a plan go on to be completed.
LEMMA ProgressInv == ASSUME Inv, NEW r \in Requests, GoalStep(r), WriteProgress(r) PROVE Inv'
<1>1. pc[r] = "progress" /\ UNCHANGED <<plan, applied, crashes>> /\ Live(task[r][1].goal)
  BY DEF GoalStep, WriteProgress, Inv, StillHolds
<1>2. CASE caller[r] = "plan"
  <2>1. ReturnTo(r, "complete")
    BY <1>1, <1>2 DEF WriteProgress
  <2>2. /\ pc' = [pc EXCEPT ![r] = "complete"] /\ caller' = [caller EXCEPT ![r] = "user"]
        /\ DOMAIN task' = Requests
    BY <2>1 DEF ReturnTo, Goto, Inv, Locals
  <2>3. /\ pc'[r] = "complete" /\ caller'[r] = "user"
        /\ \A q \in Requests : q # r => pc'[q] = "idle" /\ caller'[q] = "user"
    BY <1>1, <2>2, Others DEF Inv, Locals
  <2>4. UNCHANGED <<on, want>>
    BY <2>3 DEF GoalStep, workVars
  <2>5. Locals'
    BY <2>2, <2>3, <2>4 DEF Inv, Locals, Stages
  <2>6. \A q \in Requests : StillHolds(q)'
    BY <1>1, <1>2, <2>3, <2>4 DEF Inv, StillHolds
  <2>7. \A p \in PlanIds, q \in Requests : HasApplied(q, p)' <=> HasApplied(q, p)
    BY <1>1, <1>2, <2>3, <2>4, Others DEF HasApplied
  <2>8. Tables' /\ \A p \in PlanIds : Counted(p)'
    <3>1. Tables'
      BY <1>1 DEF Inv, Tables
    <3>2. ASSUME NEW p \in PlanIds
          PROVE  Counted(p)'
      <4>1. Counted(p)
        BY DEF Inv
      <4> QED
        BY <1>1, <2>7, <4>1 DEF Counted
    <3> QED
      BY <3>1, <3>2
  <2> QED
    BY <2>5, <2>6, <2>8 DEF Inv
<1>3. CASE caller[r] # "plan"
  <2>1. Finish(r)
    BY <1>1, <1>3 DEF WriteProgress, Finish
  <2>2. EndWork(r) \/ UNCHANGED workVars
    BY DEF GoalStep
  <2>3. \A p \in PlanIds, q \in Requests : ~HasApplied(q, p)
    BY <1>1, <1>3, Others DEF HasApplied
  <2> QED
    BY <1>1, <2>1, <2>2, <2>3, EndInv, PlansKept DEF Inv
<1> QED
  BY <1>2, <1>3

\* The other steps of Goals are of requests that Bills does not begin.
LEMMA GoalStepInv == ASSUME Inv, NEW r \in Requests, GoalStep(r) PROVE Inv'
<1>1. pc[r] \in Stages
  BY DEF Inv, Locals
<1>2. ~WriteEdit(r) /\ ~CheckGoal(r) /\ ~Allocate(r) /\ ~CreateBanner(r)
  BY <1>1 DEF WriteEdit, CheckGoal, Allocate, CreateBanner, Stages
<1> QED
  BY <1>2, InsertInv, ProgressInv DEF GoalStep, Step

\* A death counts, whether or not the plan was applied before it.
LEMMA CrashInv == ASSUME Inv, NEW r \in Requests, CrashOf(r) PROVE Inv'
<1>1. /\ pc[r] # "idle" /\ Finish(r) /\ EndWork(r)
      /\ crashes' = crashes + 1 /\ UNCHANGED <<plan, applied>>
  BY DEF CrashOf, Crash, tableVars
<1>2. /\ Locals' /\ \A q \in Requests : StillHolds(q)'
      /\ \A p \in PlanIds, q \in Requests : ~HasApplied(q, p)'
  BY <1>1, EndInv
<1>3. Tables'
  BY <1>1 DEF Inv, Tables
<1>4. ASSUME NEW p \in PlanIds
      PROVE  Counted(p)'
  <2>1. Counted(p) /\ applied[p] \in Nat /\ crashes \in Nat
    BY DEF Inv, Tables
  <2> QED
    BY <1>1, <1>2, <2>1 DEF Counted
<1> QED
  BY <1>2, <1>3, <1>4 DEF Inv

\* A request on a bill or a plan begins.
LEMMA TakeInv ==
  ASSUME ~Overlap, Inv, NEW r \in Requests, NEW x, NEW status,
         NEW stage \in {"status", "setStatus", "apply"}, Take(r, x, status, stage),
         UNCHANGED tableVars,
         stage = "apply" => x \in PlanIds /\ plan[x].status = "PLANNED",
         stage = "setStatus" => /\ x \in PlanIds /\ plan[x].status \in {"PLANNED", "CANCELLED"}
                                /\ status \in {"PLANNED", "CANCELLED"}
  PROVE  Inv'
<1>1. /\ Free /\ pc' = [pc EXCEPT ![r] = stage] /\ on' = [on EXCEPT ![r] = x]
      /\ want' = [want EXCEPT ![r] = status] /\ UNCHANGED <<caller, task, crashes>>
  BY DEF Take, Goto
<1>2. \A q \in Requests : pc[q] = "idle" /\ caller[q] = "user"
  BY <1>1, AllIdle DEF Inv, StillHolds
<1>3. /\ pc'[r] = stage /\ on'[r] = x /\ want'[r] = status /\ caller'[r] = "user"
      /\ \A q \in Requests : q # r => pc'[q] = "idle" /\ caller'[q] = "user"
  BY <1>1, <1>2 DEF Inv, Locals
<1>4. Locals'
  BY <1>1, <1>3 DEF Inv, Locals, Stages
<1>5. UNCHANGED <<plan, applied>>
  BY DEF tableVars
<1>6. \A q \in Requests : StillHolds(q)'
  BY <1>3, <1>5 DEF StillHolds
<1>7. \A p \in PlanIds, q \in Requests : ~HasApplied(q, p) /\ ~HasApplied(q, p)'
  BY <1>1, <1>3, AllIdle DEF HasApplied
<1> QED
  BY <1>1, <1>4, <1>5, <1>6, <1>7, PlansKept DEF Inv

\* A request on a bill or a plan reads what it needs.
LEMMA BeginInv ==
  ASSUME ~Overlap, Inv, NEW r \in Requests,
         \/ \E b \in BillIds, status \in {"UPCOMING", "PAID"} : BeginStatus(r, b, status)
         \/ \E p \in PlanIds, status \in {"PLANNED", "CANCELLED"} : BeginSetStatus(r, p, status)
         \/ \E p \in PlanIds : BeginComplete(r, p)
  PROVE  Inv'
<1>1. CASE \E b \in BillIds, status \in {"UPCOMING", "PAID"} : BeginStatus(r, b, status)
  BY <1>1, TakeInv DEF BeginStatus
<1>2. CASE \E p \in PlanIds, status \in {"PLANNED", "CANCELLED"} : BeginSetStatus(r, p, status)
  BY <1>2, TakeInv DEF BeginSetStatus, Planned
<1>3. CASE \E p \in PlanIds : BeginComplete(r, p)
  BY <1>3, TakeInv DEF BeginComplete
<1> QED
  BY <1>1, <1>2, <1>3

\* A plan is created or deleted.
LEMMA PlanTableInv ==
  ASSUME ~Overlap, Inv, NEW p \in PlanIds,
         \/ \E type \in {"entry", "bill", "goal"}, link \in GoalOrNone \cup BillIds :
               CreatePlan(p, type, link)
         \/ DeletePlan(p)
  PROVE  Inv'
<1>1. Free /\ UNCHANGED <<vars, applied, workVars>>
  BY DEF CreatePlan, DeletePlan
<1>2. /\ \A q \in Requests : pc[q] = "idle"
      /\ \A x \in PlanIds, q \in Requests : ~HasApplied(q, x)
  BY <1>1, AllIdle
<1>3. /\ Locals' /\ \A q \in Requests : StillHolds(q)'
      /\ \A x \in PlanIds, q \in Requests : ~HasApplied(q, x)'
  BY <1>1, <1>2 DEF vars, localVars, workVars, Inv, Locals, StillHolds, HasApplied
<1>4. UNCHANGED <<applied, crashes>> /\ plan \in [PlanIds -> Plan]
  BY <1>1 DEF vars, Inv, Tables
<1>5. /\ plan' \in [PlanIds -> Plan]
      /\ \A x \in PlanIds : x # p => plan'[x] = plan[x]
      /\ \/ plan[p].status = "none" /\ plan'[p].status = "PLANNED"
         \/ plan'[p].status = "gone"
  BY <1>4 DEF CreatePlan, DeletePlan, Plan
<1>6. Tables'
  BY <1>4, <1>5 DEF Inv, Tables
<1>7. ASSUME NEW x \in PlanIds
      PROVE  Counted(x)'
  <2>1. Counted(x)
    BY DEF Inv
  <2>2. CASE x = p
    BY <1>2, <1>3, <1>4, <1>5, <2>1, <2>2 DEF Counted
  <2>3. CASE x # p
    BY <1>2, <1>3, <1>4, <1>5, <2>1, <2>3 DEF Counted
  <2> QED
    BY <2>2, <2>3
<1> QED
  BY <1>3, <1>6, <1>7 DEF Inv

\* The user creates, deletes or contributes to a goal, creates or deletes a bill.
LEMMA UserInv ==
  ASSUME ~Overlap, Inv,
         \/ GoalRequests
         \/ \E g \in GoalIds : UnlinkGoal(g)
         \/ \E b \in BillIds, g \in GoalOrNone, recurring \in BOOLEAN,
               status \in {"UPCOMING", "PAID"} : CreateBill(b, g, recurring, status)
         \/ \E b \in BillIds : DeleteBill(b)
  PROVE  Inv'
<1>1. CASE Free /\ \E r \in Requests, part \in Part : BeginContribution(r, part) /\ UNCHANGED <<tableVars, workVars>>
  <2>1. PICK r \in Requests, part \in Part : BeginContribution(r, part) /\ UNCHANGED <<tableVars, workVars>>
    BY <1>1
  <2>2. ReadGoal(r, part) /\ caller' = caller
    BY <2>1 DEF BeginContribution
  <2>3. \A q \in Requests : pc[q] = "idle"
    BY <1>1, AllIdle
  <2>4. caller' = [caller EXCEPT ![r] = "user"]
    <3>1. caller[r] = "user" /\ caller \in [Requests -> {"user", "bill", "plan"}]
      BY <2>3 DEF Inv, Locals, StillHolds
    <3> QED
      BY <2>2, <3>1
  <2> QED
    BY <2>1, <2>2, <2>3, <2>4, CallInv
<1>2. CASE Free /\ UNCHANGED <<plan, applied, crashes, localVars, workVars>>
  BY <1>2, TablesInv
<1>3. \/ Free /\ \E r \in Requests, part \in Part : BeginContribution(r, part) /\ UNCHANGED <<tableVars, workVars>>
      \/ Free /\ UNCHANGED <<plan, applied, crashes, localVars, workVars>>
  BY DEF GoalRequests, CreateGoal, UnlinkGoal, DeleteGoal, CreateBill, DeleteBill, vars, tableVars
<1> QED
  BY <1>1, <1>2, <1>3

-------------------------------------------------------------------------------
\* Every step, and none at all, keeps the invariant.
LEMMA NextInv == ASSUME ~Overlap, Inv, [BillsNext]_allVars PROVE Inv'
<1>1. CASE UNCHANGED allVars
  BY <1>1 DEF allVars, vars, goalVars, localVars, tableVars, workVars, Inv, Locals, Tables,
              StillHolds, Counted, HasApplied, Live
<1>2. ASSUME NEW r \in Requests, GoalStep(r) \/ BillStep(r) \/ PlanStep(r) \/ CrashOf(r)
      PROVE  Inv'
  BY <1>2, GoalStepInv, BillStepInv, PlanStepInv, CrashInv
<1> QED
  BY <1>1, <1>2, BeginInv, PlanTableInv, UserInv DEF BillsNext

(* One request at a time, the invariant holds throughout.                     *)
THEOREM BillsInv == ASSUME ~Overlap PROVE BillsSpec => []Inv
<1>1. BillsInit => Inv
  BY InitInv
<1>2. Inv /\ [BillsNext]_allVars => Inv'
  BY NextInv
<1> QED
  BY <1>1, <1>2, PTL DEF BillsSpec

(* One request at a time, a plan is applied once, and once more for each      *)
(* request that died between changing the data and marking the plan; no plan  *)
(* is completed without having been applied.                                  *)
THEOREM BillsApplyPlanOnce == ASSUME ~Overlap PROVE BillsSpec => []PlanAppliedOnce
<1>1. Inv => PlanAppliedOnce
  BY DEF Inv, Counted, PlanAppliedOnce
<1> QED
  BY <1>1, BillsInv, PTL

-------------------------------------------------------------------------------
(* The series of a recurring bill.                                            *)

\* A payment of b has been written and its next bill is still to be inserted.
Due(b) == \E r \in Requests : pc[r] = "next" /\ on[r] = b

GoalRows ==
    /\ DOMAIN goal = GoalIds
    /\ \A g \in GoalIds : "status" \in DOMAIN goal[g]

\* A bill that does not exist yet is blank; a linked one is linked to a goal
\* that exists.
BillRows ==
    /\ bill \in [BillIds -> Bill]
    /\ payments \in [BillIds -> Nat]
    /\ DOMAIN was = Requests
    /\ \A b \in BillIds :
          /\ bill[b].status = "none" => bill[b] = NoRow /\ payments[b] = 0
          /\ bill[b].goal # NoGoal => Live(bill[b].goal)

\* A payment still finds the bill as it read it.
Held(r) ==
    /\ pc[r] \in {"status", "next"} => Known(on[r])
    /\ pc[r] = "status" => was[r] = bill[on[r]] /\ want[r] \in {"UPCOMING", "PAID"}
    /\ pc[r] = "next" =>
          /\ was[r] \in Bill /\ was[r].recurring /\ bill[on[r]].recurring
          /\ was[r].goal # NoGoal => Live(was[r].goal)

\* Next bills and payments in step, one payment being half-way at most.
Series(b) ==
    /\ Cardinality(Followers(b)) <= IF bill[b].recurring THEN payments[b] ELSE 0
    /\ Due(b) => Cardinality(Followers(b)) < payments[b]
    /\ crashes = 0 /\ bill[b].recurring /\ payments[b] > 0 => Followers(b) # {} \/ Due(b)

Rows ==
    /\ GoalRows /\ BillRows
    /\ \A r \in Requests : Held(r)
    /\ \A b \in BillIds : Series(b)

\* The bills that follow another are finitely many.
LEMMA FollowersFinite ==
  ASSUME NEW b \in BillIds
  PROVE  IsFiniteSet(Followers(b)) /\ Cardinality(Followers(b)) \in Nat
<1>1. Followers(b) \in SUBSET BillIds
  BY DEF Followers
<1> QED
  BY <1>1, BillsAssumption, FS_Subset, FS_CardinalityType

\* At the start there are no bills.
LEMMA InitRows == ASSUME BillsInit PROVE Rows
<1>1. GoalRows /\ BillRows
  BY DEF BillsInit, Init, NewGoal, NoRow, Bill, GoalOrNone, GoalRows, BillRows
<1>2. \A r \in Requests : Held(r)
  BY DEF BillsInit, Init, Held
<1>3. ASSUME NEW b \in BillIds
      PROVE  Series(b)
  <2>1. Followers(b) = {}
    BY BillsAssumption DEF BillsInit, NoRow, Followers
  <2>2. ~Due(b) /\ payments[b] = 0 /\ bill[b].recurring = FALSE
    BY DEF BillsInit, Init, NoRow, Due
  <2> QED
    BY <2>1, <2>2, FS_EmptySet DEF Series
<1> QED
  BY <1>1, <1>2, <1>3 DEF Rows

\* A step that leaves bills alone and no payment half-way, unless it was a death.
LEMMA RowsKept ==
  ASSUME Rows, UNCHANGED <<bill, payments>>, DOMAIN was' = Requests,
         GoalRows', \A g \in GoalIds : Live(g) => Live(g)',
         \A r \in Requests : pc'[r] \notin {"status", "next"},
         crashes' = 0 => crashes = 0 /\ \A b \in BillIds : ~Due(b)
  PROVE  Rows'
<1>1. BillRows'
  BY DEF Rows, BillRows, Live
<1>2. \A r \in Requests : Held(r)'
  BY DEF Held
<1>3. ASSUME NEW b \in BillIds
      PROVE  Series(b)'
  <2>1. Followers(b)' = Followers(b) /\ ~Due(b)'
    BY DEF Followers, Due
  <2> QED
    BY <2>1 DEF Rows, Series
<1> QED
  BY <1>1, <1>2, <1>3 DEF Rows

\* A step that leaves goals and bills alone, of a request that is not half-way
\* through a payment.
LEMMA QuietRows ==
  ASSUME Inv, Inv', Rows, NEW r \in Requests, pc[r] # "next", pc'[r] \notin {"idle", "status", "next"},
         \A q \in Requests : q # r => pc[q] = "idle",
         UNCHANGED <<goal, bill, payments, was, crashes>>
  PROVE  Rows'
<1>1. \A q \in Requests : q # r => pc'[q] = "idle"
  BY DEF Inv, Locals
<1>2. \A b \in BillIds : ~Due(b)
  BY DEF Due
<1>3. GoalRows' /\ DOMAIN was' = Requests /\ \A g \in GoalIds : Live(g) => Live(g)'
  BY DEF Rows, GoalRows, BillRows, Live
<1> QED
  BY <1>1, <1>2, <1>3, RowsKept

\* The same of a request that ends.
LEMMA EndRows ==
  ASSUME Inv, Rows, NEW r \in Requests, pc[r] # "idle", pc[r] # "next" \/ crashes' # 0,
         Finish(r), EndWork(r) \/ UNCHANGED workVars, crashes' = 0 => crashes = 0,
         UNCHANGED <<bill, payments>>, GoalRows', \A g \in GoalIds : Live(g) => Live(g)'
  PROVE  Rows'
<1>1. \A q \in Requests : pc'[q] = "idle"
  BY Others DEF Finish, ReturnTo, Goto, Inv, Locals
<1>2. pc[r] # "next" => \A b \in BillIds : ~Due(b)
  BY Others DEF Due
<1>3. DOMAIN was' = Requests
  BY DEF EndWork, workVars, Rows, BillRows
<1> QED
  BY <1>1, <1>2, <1>3, RowsKept

-------------------------------------------------------------------------------
(* One lemma per kind of step, again.                                         *)

\* A contribution leaves all goals where they are.
LEMMA GoalStepRows == ASSUME Inv, Inv', Rows, NEW r \in Requests, GoalStep(r) PROVE Rows'
<1>1. UNCHANGED <<bill, payments>> /\ (EndWork(r) \/ UNCHANGED workVars)
  BY DEF GoalStep
<1>2. pc[r] \in Stages
  BY DEF Inv, Locals
<1>3. CASE InsertContribution(r)
  <2>1. pc[r] = "insert" /\ Live(task[r][1].goal)
    BY <1>3 DEF InsertContribution, Inv, StillHolds
  <2>2. Goto(r, "progress") /\ UNCHANGED <<goal, crashes>>
    BY <1>3, <2>1 DEF InsertContribution
  <2>3. pc'[r] = "progress"
    BY <2>2 DEF Goto, Inv, Locals
  <2>4. UNCHANGED was
    BY <2>3 DEF GoalStep, workVars
  <2> QED
    BY <1>1, <2>1, <2>2, <2>3, <2>4, Others, QuietRows
<1>4. CASE WriteProgress(r)
  <2>1. pc[r] = "progress" /\ Live(task[r][1].goal) /\ crashes' = crashes
    BY <1>4 DEF WriteProgress, Inv, StillHolds
  <2>2. PICK g \in GoalIds : g = task[r][1].goal
    BY <2>1 DEF Live
  <2>3. PICK row : /\ goal' = [goal EXCEPT ![g] = row]
                   /\ row = Updated(goal[g], Progress(seen[r][g], task[r][1]))
    BY <1>4, <2>1, <2>2 DEF WriteProgress
  <2>4. row.status = goal[g].status /\ "status" \in DOMAIN row
    <3>1. "status" \in DOMAIN goal[g]
      BY DEF Rows, GoalRows
    <3> QED
      BY <2>3, <3>1 DEF Updated
  <2>5. GoalRows' /\ \A h \in GoalIds : Live(h) => Live(h)'
    <3>1. DOMAIN goal = GoalIds /\ goal'[g] = row /\ \A h \in GoalIds : h # g => goal'[h] = goal[h]
      BY <2>3 DEF Rows, GoalRows
    <3>2. DOMAIN goal' = GoalIds
      BY <2>3, <3>1
    <3> QED
      BY <2>4, <3>1, <3>2 DEF Rows, GoalRows, Live
  <2>6. CASE caller[r] = "plan"
    <3>1. pc'[r] = "complete"
      BY <1>4, <2>1, <2>6 DEF WriteProgress, ReturnTo, Goto, Inv, Locals
    <3>2. DOMAIN was' = Requests
      BY <1>1 DEF EndWork, workVars, Rows, BillRows
    <3>3. \A q \in Requests : q # r => pc'[q] = "idle"
      BY <3>1 DEF Inv, Locals
    <3>4. \A b \in BillIds : ~Due(b)
      BY <2>1, Others DEF Due
    <3> QED
      BY <1>1, <2>1, <2>5, <3>1, <3>2, <3>3, <3>4, RowsKept
  <2>7. CASE caller[r] # "plan"
    BY <1>1, <1>4, <2>1, <2>5, <2>7, EndRows DEF WriteProgress, Finish
  <2> QED
    BY <2>6, <2>7
<1> QED
  BY <1>2, <1>3, <1>4 DEF GoalStep, Step, WriteEdit, CheckGoal, Allocate, CreateBanner, Stages

\* A plan is applied or written, a payment contributes or ends.
LEMMA PlanStepRows ==
  ASSUME Inv, Inv', Rows, NEW r \in Requests,
         PlanStep(r) \/ EndPayment(r) \/ ContributePayment(r)
  PROVE  Rows'
<1>1. /\ pc[r] \in {"setStatus", "apply", "complete", "contribute", "paid"}
      /\ UNCHANGED <<goal, bill, payments, crashes>>
  BY DEF PlanStep, SetStatus, WritePlan, ApplyToData, ApplyToGoal, CannotApply, Complete,
         EndPayment, ContributePayment, CallContribution, ReadGoal, tableVars, goalVars
<1>2. GoalRows' /\ \A g \in GoalIds : Live(g) => Live(g)'
  BY <1>1 DEF Rows, GoalRows, Live
<1>3. CASE End(r)
  BY <1>1, <1>2, <1>3, EndRows DEF End
<1>4. CASE UNCHANGED workVars /\ \E stage \in {"complete", "insert"} : Goto(r, stage)
  <2>1. pc'[r] \in {"complete", "insert"} /\ UNCHANGED was
    BY <1>4 DEF Goto, workVars, Inv, Locals
  <2> QED
    BY <1>1, <2>1, Others, QuietRows
<1>5. End(r) \/ (UNCHANGED workVars /\ \E stage \in {"complete", "insert"} : Goto(r, stage))
  BY DEF PlanStep, SetStatus, WritePlan, ApplyToData, GoOn, ApplyToGoal, CannotApply, Complete,
         EndPayment, ContributePayment, CallContribution, ReadGoal
<1> QED
  BY <1>3, <1>4, <1>5

\* A death may leave a payment without its next bill, and is counted.
LEMMA CrashRows == ASSUME Inv, Inv', Rows, NEW r \in Requests, CrashOf(r) PROVE Rows'
<1>1. /\ pc[r] # "idle" /\ Finish(r) /\ EndWork(r) /\ crashes' = crashes + 1
      /\ UNCHANGED <<goal, bill, payments>>
  BY DEF CrashOf, Crash, tableVars, goalVars
<1>2. crashes' # 0
  BY <1>1 DEF Inv, Tables
<1>3. GoalRows' /\ \A g \in GoalIds : Live(g) => Live(g)'
  BY <1>1 DEF Rows, GoalRows, Live
<1> QED
  BY <1>1, <1>2, <1>3, EndRows

\* A request begins, on a plan, on a goal, or on a bill that it reads.
LEMMA StartRows ==
  ASSUME ~Overlap, Inv, Inv', Rows, NEW r \in Requests, Free,
         \/ \E b \in BillIds, status \in {"UPCOMING", "PAID"} : BeginStatus(r, b, status)
         \/ \E p \in PlanIds, status \in {"PLANNED", "CANCELLED"} : BeginSetStatus(r, p, status)
         \/ \E p \in PlanIds : BeginComplete(r, p)
         \/ (\E part \in Part : BeginContribution(r, part)) /\ UNCHANGED <<tableVars, workVars>>
  PROVE  Rows'
<1>1. \A q \in Requests : pc[q] = "idle"
  BY AllIdle
<1>2. UNCHANGED <<goal, bill, payments, crashes>>
  BY DEF BeginStatus, BeginSetStatus, BeginComplete, BeginContribution, ReadGoal, Take, goalVars, tableVars
<1>3. CASE \E b \in BillIds, status \in {"UPCOMING", "PAID"} : BeginStatus(r, b, status)
  <2>1. PICK b \in BillIds, status \in {"UPCOMING", "PAID"} : BeginStatus(r, b, status)
    BY <1>3
  <2>2. /\ Known(b) /\ pc' = [pc EXCEPT ![r] = "status"] /\ on' = [on EXCEPT ![r] = b]
        /\ was' = [was EXCEPT ![r] = bill[b]] /\ want' = [want EXCEPT ![r] = status]
    BY <2>1 DEF BeginStatus, Take, Goto
  <2>3. /\ pc'[r] = "status" /\ on'[r] = b /\ was'[r] = bill[b] /\ DOMAIN was' = Requests
        /\ want'[r] = status
        /\ \A q \in Requests : q # r => pc'[q] = "idle"
    BY <1>1, <2>2 DEF Inv, Locals, Rows, BillRows
  <2>4. GoalRows' /\ BillRows'
    BY <1>2, <2>3 DEF Rows, GoalRows, BillRows, Live
  <2>5. \A q \in Requests : Held(q)'
    BY <1>2, <2>2, <2>3 DEF Held, Known
  <2>6. ASSUME NEW x \in BillIds
        PROVE  Series(x)'
    <3>1. Followers(x)' = Followers(x) /\ ~Due(x) /\ ~Due(x)'
      BY <1>1, <1>2, <2>3 DEF Followers, Due
    <3> QED
      BY <1>2, <3>1 DEF Rows, Series
  <2> QED
    BY <2>4, <2>5, <2>6 DEF Rows
<1>4. CASE ~\E b \in BillIds, status \in {"UPCOMING", "PAID"} : BeginStatus(r, b, status)
  <2>1. UNCHANGED was /\ \E stage \in {"setStatus", "apply", "insert"} : Goto(r, stage)
    BY <1>4 DEF BeginSetStatus, BeginComplete, BeginContribution, ReadGoal, Take, workVars
  <2>2. pc'[r] \in {"setStatus", "apply", "insert"}
    BY <2>1 DEF Goto, Inv, Locals
  <2> QED
    BY <1>1, <1>2, <2>1, <2>2, QuietRows
<1> QED
  BY <1>3, <1>4

\* A payment writes the status of its bill; the next bill of a recurring one is
\* then due.
LEMMA WriteStatusRows == ASSUME Inv, Inv', Rows, NEW r \in Requests, WriteStatus(r) PROVE Rows'
<1>1. PICK b \in BillIds : b = on[r] /\ Known(b) /\ was[r] = bill[b] /\ pc[r] = "status"
  BY DEF WriteStatus, Rows, Held, Known
<1>2. /\ bill' = [bill EXCEPT ![b].status = want[r]]
      /\ payments' = IF want[r] = "PAID" /\ bill[b].status # "PAID"
                     THEN [payments EXCEPT ![b] = payments[b] + 1] ELSE payments
      /\ GoOn(r, IF ~Pays(r) THEN "paid" ELSE IF was[r].recurring THEN "next" ELSE AfterNext(r))
      /\ UNCHANGED <<on, was, want, goal, crashes>>
  BY <1>1 DEF WriteStatus, goalVars
<1>3. want[r] \in {"UPCOMING", "PAID"}
  BY <1>1 DEF Rows, Held
<1>4. /\ pc'[r] = IF ~Pays(r) THEN "paid" ELSE IF was[r].recurring THEN "next" ELSE AfterNext(r)
      /\ \A q \in Requests : q # r => pc'[q] = "idle"
  BY <1>1, <1>2, Others DEF GoOn, Goto, Inv, Locals
<1>5. /\ bill \in [BillIds -> Bill] /\ payments \in [BillIds -> Nat] /\ DOMAIN was = Requests
      /\ bill[b].status \in {"UPCOMING", "PAID"}
  BY <1>1 DEF Rows, BillRows, Known
<1>6. /\ bill'[b] = [bill[b] EXCEPT !.status = want[r]]
      /\ \A x \in BillIds : x # b => bill'[x] = bill[x] /\ payments'[x] = payments[x]
      /\ payments'[b] = IF Pays(r) THEN payments[b] + 1 ELSE payments[b]
  BY <1>1, <1>2, <1>5 DEF Pays
<1>7. bill'[b] \in Bill /\ bill'[b].recurring = bill[b].recurring
      /\ bill'[b].goal = bill[b].goal /\ bill'[b].follows = bill[b].follows /\ bill'[b].status = want[r]
  BY <1>3, <1>5, <1>6 DEF Bill
<1>8. GoalRows' /\ BillRows'
  <2>1. bill' \in [BillIds -> Bill] /\ payments' \in [BillIds -> Nat]
    BY <1>2, <1>5, <1>6, <1>7
  <2>2. ASSUME NEW x \in BillIds
        PROVE  /\ bill'[x].status = "none" => bill'[x] = NoRow /\ payments'[x] = 0
               /\ (bill[x].goal # NoGoal => Live(bill[x].goal))'
    <3>1. /\ bill[x].status = "none" => bill[x] = NoRow /\ payments[x] = 0
          /\ bill[x].goal # NoGoal => Live(bill[x].goal)
      BY DEF Rows, BillRows
    <3>2. bill'[x].goal = bill[x].goal /\ (Live(bill[x].goal) <=> Live(bill[x].goal)')
      BY <1>2, <1>6, <1>7 DEF Live
    <3>3. x = b => bill'[x].status # "none"
      BY <1>3, <1>7
    <3> QED
      BY <1>6, <3>1, <3>2, <3>3
  <2> QED
    BY <1>2, <1>5, <2>1, <2>2 DEF Rows, GoalRows, BillRows
<1>9. \A q \in Requests : Held(q)'
  <2>1. Held(r)'
    BY <1>1, <1>2, <1>3, <1>4, <1>5, <1>6, <1>7 DEF Held, Known, AfterNext, Rows, BillRows, Live, Pays
  <2> QED
    BY <1>4, <2>1 DEF Held
<1>10. \A x \in BillIds : Followers(x)' = Followers(x) /\ ~Due(x)
  <2>1. \A x \in BillIds : bill'[x].follows = bill[x].follows
    BY <1>6, <1>7
  <2>2. \A x \in BillIds : ~Due(x)
    BY <1>1, Others DEF Due
  <2> QED
    BY <2>1, <2>2 DEF Followers
<1>11. \A x \in BillIds : Due(x)' <=> x = b /\ Pays(r) /\ bill[b].recurring
  BY <1>1, <1>2, <1>4 DEF Due, AfterNext
<1>12. ASSUME NEW x \in BillIds
       PROVE  Series(x)'
  <2>1. /\ Series(x) /\ payments[x] \in Nat /\ bill[x].recurring \in BOOLEAN
        /\ Cardinality(Followers(x)) \in Nat
    BY <1>5, FollowersFinite DEF Rows, Bill
  <2>2. /\ bill'[x].recurring = bill[x].recurring
        /\ payments'[x] = IF x = b /\ Pays(r) THEN payments[x] + 1 ELSE payments[x]
    BY <1>6, <1>7
  <2> QED
    BY <1>2, <1>10, <1>11, <2>1, <2>2 DEF Series
<1> QED
  BY <1>8, <1>9, <1>12 DEF Rows

\* The next bill is inserted: its bill has one follower more.
LEMMA CreateNextRows == ASSUME Inv, Inv', Rows, NEW r \in Requests, CreateNext(r) PROVE Rows'
<1>1. PICK b \in BillIds : b = on[r] /\ pc[r] = "next" /\ bill[b].recurring
  BY DEF CreateNext, Rows, Held, Known
<1>2. /\ was[r] \in Bill /\ was[r].recurring /\ Known(b)
      /\ was[r].goal # NoGoal => Live(was[r].goal)
  BY <1>1 DEF Rows, Held
<1>3. PICK x \in BillIds :
         /\ bill[x].status = "none"
         /\ bill' = [bill EXCEPT ![x] = [was[r] EXCEPT !.status = "UPCOMING", !.follows = b]]
  BY <1>1, <1>2 DEF CreateNext
<1>4. GoOn(r, AfterNext(r)) /\ UNCHANGED <<payments, on, was, goal, crashes>>
  BY <1>1, <1>2 DEF CreateNext, workVars, goalVars
<1>5. /\ pc'[r] \in {"contribute", "paid"}
      /\ \A q \in Requests : q # r => pc'[q] = "idle"
  BY <1>1, <1>4, Others DEF GoOn, AfterNext, Goto, Inv, Locals
<1>6. /\ bill \in [BillIds -> Bill] /\ payments \in [BillIds -> Nat] /\ DOMAIN was = Requests
      /\ bill[x] = NoRow /\ payments[x] = 0 /\ x # b
  BY <1>2, <1>3 DEF Rows, BillRows, Known
<1>7. /\ bill'[x] = [was[r] EXCEPT !.status = "UPCOMING", !.follows = b]
      /\ \A y \in BillIds : y # x => bill'[y] = bill[y]
  BY <1>3, <1>6
<1>8. /\ bill'[x] \in Bill /\ bill'[x].status = "UPCOMING" /\ bill'[x].follows = b
      /\ bill'[x].goal = was[r].goal /\ bill'[x].recurring = was[r].recurring
  BY <1>2, <1>7 DEF Bill
<1>9. GoalRows' /\ BillRows'
  <2>1. bill' \in [BillIds -> Bill]
    BY <1>3, <1>6, <1>7, <1>8
  <2>2. ASSUME NEW y \in BillIds
        PROVE  /\ bill'[y].status = "none" => bill'[y] = NoRow /\ payments'[y] = 0
               /\ (bill[y].goal # NoGoal => Live(bill[y].goal))'
    <3>1. /\ bill[y].status = "none" => bill[y] = NoRow /\ payments[y] = 0
          /\ bill[y].goal # NoGoal => Live(bill[y].goal)
      BY DEF Rows, BillRows
    <3>2. \A g \in GoalIds : Live(g) <=> Live(g)'
      BY <1>4 DEF Live
    <3> QED
      BY <1>2, <1>4, <1>7, <1>8, <3>1, <3>2 DEF Live
  <2> QED
    BY <1>4, <1>6, <2>1, <2>2 DEF Rows, GoalRows, BillRows
<1>10. \A q \in Requests : Held(q)' /\ \A y \in BillIds : ~Due(y)'
  BY <1>5 DEF Held, Due
<1>11. /\ \A y \in BillIds : bill[x].follows # y
       /\ bill'[x].follows = b /\ \A y \in BillIds : y # x => bill'[y].follows = bill[y].follows
  BY <1>6, <1>7, <1>8, BillsAssumption DEF NoRow
<1>12. Followers(b)' = Followers(b) \cup {x} /\ x \notin Followers(b)
  BY <1>11 DEF Followers
<1>13. ASSUME NEW y \in BillIds, y # b
       PROVE  Followers(y)' = Followers(y) /\ ~Due(y)
  <2>1. \A z \in BillIds : bill'[z].follows = y <=> bill[z].follows = y
    BY <1>11, <1>13
  <2>2. ~Due(y)
    BY <1>1, <1>13, Others DEF Due
  <2> QED
    BY <2>1, <2>2 DEF Followers
<1>14. Series(b)'
  <2>1. Cardinality(Followers(b)') = Cardinality(Followers(b)) + 1
    BY <1>12, FollowersFinite, FS_AddElement
  <2>2. Cardinality(Followers(b)) < payments[b] /\ Cardinality(Followers(b)) \in Nat
    BY <1>1, FollowersFinite DEF Rows, Series, Due
  <2>3. bill'[b].recurring /\ payments'[b] = payments[b] /\ payments[b] \in Nat /\ ~Due(b)'
    BY <1>1, <1>4, <1>6, <1>7, <1>10
  <2> QED
    BY <1>12, <2>1, <2>2, <2>3 DEF Series
<1>15. ASSUME NEW y \in BillIds, y # b
       PROVE  Series(y)'
  <2>1. /\ Series(y) /\ payments[y] \in Nat /\ bill[y].recurring \in BOOLEAN
        /\ Cardinality(Followers(y)) \in Nat
    BY <1>6, FollowersFinite DEF Rows, Bill
  <2>2. CASE y = x
    <3>1. bill[y].recurring = FALSE /\ payments'[y] = 0
      BY <1>4, <1>6, <2>2 DEF NoRow
    <3> QED
      BY <1>4, <1>6, <1>10, <1>13, <1>15, <2>1, <3>1 DEF Series
  <2>3. CASE y # x
    <3>1. bill'[y] = bill[y] /\ payments'[y] = payments[y]
      BY <1>4, <1>7, <2>3
    <3> QED
      BY <1>4, <1>10, <1>13, <1>15, <2>1, <3>1 DEF Series
  <2> QED
    BY <2>2, <2>3
<1> QED
  BY <1>9, <1>10, <1>14, <1>15 DEF Rows

\* The user creates or deletes a bill, or deletes the goal of some.
LEMMA BillTableRows ==
  ASSUME ~Overlap, Inv, Inv', Rows,
         \/ \E b \in BillIds, g \in GoalOrNone, recurring \in BOOLEAN,
               status \in {"UPCOMING", "PAID"} : CreateBill(b, g, recurring, status)
         \/ \E b \in BillIds : DeleteBill(b)
         \/ \E g \in GoalIds : UnlinkGoal(g)
  PROVE  Rows'
<1>1. Free /\ UNCHANGED <<payments, crashes, localVars, workVars>>
  BY DEF CreateBill, DeleteBill, UnlinkGoal, DeleteGoal, vars
<1>2. /\ bill \in [BillIds -> Bill] /\ payments \in [BillIds -> Nat] /\ DOMAIN was = Requests
      /\ DOMAIN goal = GoalIds
      /\ \A x \in BillIds : /\ bill[x].status = "none" => bill[x] = NoRow /\ payments[x] = 0
                            /\ bill[x].goal # NoGoal => Live(bill[x].goal)
  BY DEF Rows, GoalRows, BillRows
<1>3. \A q \in Requests : pc[q] = "idle" /\ pc'[q] = "idle"
  BY <1>1, AllIdle DEF localVars
<1>4. /\ \A q \in Requests : Held(q)'
      /\ \A x \in BillIds : ~Due(x) /\ ~Due(x)'
  BY <1>3 DEF Held, Due
<1>5. /\ GoalRows' /\ BillRows'
      /\ \A x \in BillIds : /\ bill'[x].follows = bill[x].follows
                            /\ bill'[x].recurring = bill[x].recurring \/ (~bill[x].recurring /\ payments[x] = 0)
  <2>1. CASE \E b \in BillIds, g \in GoalOrNone, recurring \in BOOLEAN,
                status \in {"UPCOMING", "PAID"} : CreateBill(b, g, recurring, status)
    <3>1. PICK b \in BillIds, g \in GoalOrNone, recurring \in BOOLEAN,
               status \in {"UPCOMING", "PAID"} : CreateBill(b, g, recurring, status)
      BY <2>1
    <3>2. /\ bill[b] = NoRow /\ payments[b] = 0 /\ (g = NoGoal \/ Live(g))
          /\ bill' = [bill EXCEPT ![b] = [NoRow EXCEPT !.status = status, !.goal = g, !.recurring = recurring]]
          /\ goal' = goal
      BY <1>2, <3>1 DEF CreateBill, vars, goalVars
    <3>3. /\ bill'[b] = [status |-> status, recurring |-> recurring, goal |-> g, follows |-> Nobody]
          /\ \A x \in BillIds : x # b => bill'[x] = bill[x]
      BY <1>2, <3>2 DEF NoRow
    <3>4. bill' \in [BillIds -> Bill]
      <4>1. bill'[b] \in Bill
        BY <3>3 DEF Bill
      <4> QED
        BY <1>2, <3>2, <3>3, <4>1
    <3>5. GoalRows' /\ \A h \in GoalIds : Live(h) <=> Live(h)'
      BY <3>2 DEF Rows, GoalRows, Live
    <3>6. ASSUME NEW x \in BillIds
          PROVE  /\ bill'[x].status = "none" => bill'[x] = NoRow /\ payments'[x] = 0
                 /\ (bill[x].goal # NoGoal => Live(bill[x].goal))'
      <4>1. CASE x = b
        BY <3>2, <3>3, <3>5, <4>1 DEF Live
      <4>2. CASE x # b
        BY <1>1, <1>2, <3>3, <3>5, <4>2 DEF Live
      <4> QED
        BY <4>1, <4>2
    <3>7. BillRows'
      BY <1>1, <1>2, <3>4, <3>6 DEF BillRows, workVars
    <3>8. bill'[b].follows = bill[b].follows /\ ~bill[b].recurring
      BY <3>2, <3>3 DEF NoRow
    <3> QED
      BY <3>2, <3>3, <3>5, <3>7, <3>8
  <2>2. CASE \E b \in BillIds : DeleteBill(b)
    <3>1. PICK b \in BillIds : DeleteBill(b)
      BY <2>2
    <3>2. /\ bill' = [bill EXCEPT ![b] = [bill[b] EXCEPT !.status = "gone", !.goal = NoGoal]]
          /\ goal' = goal
      BY <3>1 DEF DeleteBill, vars, goalVars
    <3>3. /\ bill'[b] = [bill[b] EXCEPT !.status = "gone", !.goal = NoGoal]
          /\ \A x \in BillIds : x # b => bill'[x] = bill[x]
      BY <1>2, <3>2
    <3>4. /\ bill'[b].status = "gone" /\ bill'[b].goal = NoGoal
          /\ bill'[b].follows = bill[b].follows /\ bill'[b].recurring = bill[b].recurring
          /\ bill'[b] \in Bill
      BY <1>2, <3>3 DEF Bill, GoalOrNone
    <3>5. bill' \in [BillIds -> Bill]
      BY <1>2, <3>2, <3>3, <3>4
    <3>6. GoalRows' /\ \A h \in GoalIds : Live(h) <=> Live(h)'
      BY <3>2 DEF Rows, GoalRows, Live
    <3>7. ASSUME NEW x \in BillIds
          PROVE  /\ bill'[x].status = "none" => bill'[x] = NoRow /\ payments'[x] = 0
                 /\ (bill[x].goal # NoGoal => Live(bill[x].goal))'
      <4>1. CASE x = b
        BY <3>4, <4>1
      <4>2. CASE x # b
        BY <1>1, <1>2, <3>3, <3>6, <4>2 DEF Live
      <4> QED
        BY <4>1, <4>2
    <3>8. BillRows'
      BY <1>1, <1>2, <3>5, <3>7 DEF BillRows, workVars
    <3> QED
      BY <3>3, <3>4, <3>6, <3>8
  <2>3. CASE \E g \in GoalIds : UnlinkGoal(g)
    <3>1. PICK g \in GoalIds : UnlinkGoal(g)
      BY <2>3
    <3>2. /\ goal' = [goal EXCEPT ![g].status = "gone"]
          /\ bill' = [x \in BillIds |-> IF bill[x].goal = g THEN [bill[x] EXCEPT !.goal = NoGoal]
                                                           ELSE bill[x]]
      BY <3>1 DEF UnlinkGoal, DeleteGoal
    <3>3. ASSUME NEW x \in BillIds
          PROVE  /\ bill'[x] \in Bill /\ bill'[x].status = bill[x].status
                 /\ bill'[x].follows = bill[x].follows /\ bill'[x].recurring = bill[x].recurring
                 /\ bill'[x].goal = IF bill[x].goal = g THEN NoGoal ELSE bill[x].goal
                 /\ bill[x].goal # g => bill'[x] = bill[x]
      BY <1>2, <3>2 DEF Bill, GoalOrNone
    <3>4. /\ GoalRows'
          /\ \A h \in GoalIds : h # g => goal'[h] = goal[h]
      <4>1. "status" \in DOMAIN goal[g]
        BY DEF Rows, GoalRows
      <4>2. DOMAIN goal' = GoalIds /\ goal'[g] = [goal[g] EXCEPT !.status = "gone"]
            /\ \A h \in GoalIds : h # g => goal'[h] = goal[h]
        BY <1>2, <3>2
      <4>3. "status" \in DOMAIN goal'[g]
        BY <4>1, <4>2
      <4> QED
        BY <4>2, <4>3 DEF Rows, GoalRows
    <3>5. ASSUME NEW x \in BillIds
          PROVE  /\ bill'[x].status = "none" => bill'[x] = NoRow /\ payments'[x] = 0
                 /\ (bill[x].goal # NoGoal => Live(bill[x].goal))'
      <4>1. bill'[x].status = "none" => bill'[x] = NoRow /\ payments'[x] = 0
        <5>1. NoRow.goal = NoGoal /\ g # NoGoal
          BY GoalsAssumption DEF NoRow
        <5> QED
          BY <1>1, <1>2, <3>3, <5>1
      <4>2. (bill[x].goal # NoGoal => Live(bill[x].goal))'
        BY <1>2, <3>3, <3>4 DEF Live
      <4> QED
        BY <4>1, <4>2
    <3>6. bill' \in [BillIds -> Bill]
      <4>1. bill' = [x \in BillIds |-> bill'[x]]
        BY <3>2
      <4> QED
        BY <3>3, <4>1
    <3>7. BillRows'
      BY <1>1, <1>2, <3>5, <3>6 DEF BillRows, workVars
    <3> QED
      BY <3>3, <3>4, <3>7
  <2> QED
    BY <2>1, <2>2, <2>3
<1>6. ASSUME NEW x \in BillIds
      PROVE  Series(x)'
  <2>1. Followers(x)' = Followers(x)
    BY <1>5 DEF Followers
  <2>2. Series(x) /\ payments[x] \in Nat /\ Cardinality(Followers(x)) \in Nat
    BY <1>2, FollowersFinite DEF Rows
  <2> QED
    BY <1>1, <1>4, <1>5, <2>1, <2>2 DEF Series
<1> QED
  BY <1>4, <1>5, <1>6 DEF Rows

\* The user creates a goal; plans change nothing here.
LEMMA OtherTableRows ==
  ASSUME ~Overlap, Inv, Inv', Rows,
         \/ \E g \in GoalIds, target \in Amounts :
               CreateGoal(g, target, Nothing) /\ UNCHANGED <<tableVars, workVars>>
         \/ \E p \in PlanIds, type \in {"entry", "bill", "goal"},
               link \in GoalOrNone \cup BillIds : CreatePlan(p, type, link)
         \/ \E p \in PlanIds : DeletePlan(p)
  PROVE  Rows'
<1>1. Free /\ UNCHANGED <<bill, payments, crashes, localVars, workVars>>
  BY DEF CreateGoal, CreatePlan, DeletePlan, vars, tableVars
<1>2. (\A q \in Requests : pc[q] = "idle" /\ pc'[q] = "idle") /\ \A b \in BillIds : ~Due(b)
  BY <1>1, AllIdle DEF localVars, Due
<1>3. GoalRows' /\ \A g \in GoalIds : Live(g) => Live(g)'
  <2>1. CASE goal' = goal
    BY <2>1 DEF Rows, GoalRows, Live
  <2>2. CASE \E g \in GoalIds, target \in Amounts : CreateGoal(g, target, Nothing)
    <3>0. PICK g \in GoalIds, target \in Amounts : CreateGoal(g, target, Nothing)
      BY <2>2
    <3>1. PICK first : goal' = [goal EXCEPT ![g] = [status |-> "live", current |-> first,
                                                    target |-> target, isCompleted |-> FALSE]]
      BY <3>0 DEF CreateGoal
    <3>2. DOMAIN goal' = GoalIds /\ goal'[g].status = "live" /\ "status" \in DOMAIN goal'[g]
          /\ \A h \in GoalIds : h # g => goal'[h] = goal[h]
      BY <3>1 DEF Rows, GoalRows
    <3> QED
      BY <3>2 DEF Rows, GoalRows, Live
  <2> QED
    BY <2>1, <2>2 DEF CreatePlan, DeletePlan, vars, goalVars
<1>4. DOMAIN was' = Requests
  BY <1>1 DEF workVars, Rows, BillRows
<1> QED
  BY <1>1, <1>2, <1>3, <1>4, RowsKept

-------------------------------------------------------------------------------
\* Every step, and none at all, keeps bills and payments in step.
LEMMA NextRows == ASSUME ~Overlap, Inv, Rows, [BillsNext]_allVars PROVE Rows'
<1>0. Inv'
  BY NextInv
<1>1. CASE UNCHANGED allVars
  <2>1. /\ UNCHANGED <<goal, bill, payments, was, pc, on, want, crashes>>
        /\ \A b \in BillIds : Followers(b)' = Followers(b) /\ (Due(b)' <=> Due(b))
    BY <1>1 DEF allVars, vars, goalVars, localVars, tableVars, workVars, Followers, Due
  <2> QED
    BY <2>1 DEF Rows, GoalRows, BillRows, Held, Known, Live, Series
<1>2. ASSUME NEW r \in Requests, GoalStep(r) \/ BillStep(r) \/ PlanStep(r) \/ CrashOf(r)
      PROVE  Rows'
  BY <1>0, <1>2, GoalStepRows, PlanStepRows, WriteStatusRows, CreateNextRows, CrashRows DEF BillStep
<1>3. ASSUME NEW r \in Requests,
             \/ \E b \in BillIds, status \in {"UPCOMING", "PAID"} : BeginStatus(r, b, status)
             \/ \E p \in PlanIds, status \in {"PLANNED", "CANCELLED"} : BeginSetStatus(r, p, status)
             \/ \E p \in PlanIds : BeginComplete(r, p)
      PROVE  Rows'
  BY <1>0, <1>3, StartRows DEF BeginStatus, BeginSetStatus, BeginComplete, Take
<1>4. CASE GoalRequests
  BY <1>0, <1>4, StartRows, OtherTableRows DEF GoalRequests
<1> QED
  BY <1>0, <1>1, <1>2, <1>3, <1>4, BillTableRows, OtherTableRows DEF BillsNext

(* One request at a time, bills and payments are in step throughout.          *)
THEOREM BillsRows == ASSUME ~Overlap PROVE BillsSpec => [](Inv /\ Rows)
<1>1. BillsInit => Inv /\ Rows
  BY InitInv, InitRows
<1>2. Inv /\ Rows /\ [BillsNext]_allVars => (Inv /\ Rows)'
  BY NextInv, NextRows
<1> QED
  BY <1>1, <1>2, PTL DEF BillsSpec

(* One request at a time, a recurring bill is followed by no more new bills   *)
(* than it was paid times, whatever died, and a one-off bill by none.         *)
THEOREM BillsFollowPayments == ASSUME ~Overlap PROVE BillsSpec => []FollowerPerPayment
<1>1. Rows => FollowerPerPayment
  BY DEF Rows, Series, FollowerPerPayment
<1> QED
  BY <1>1, BillsRows, PTL

(* One request at a time, of which none died, a recurring bill that was paid  *)
(* has had its next bill inserted.                                            *)
THEOREM BillsSeriesGoOn == ASSUME ~Overlap PROVE BillsSpec => []SeriesGoesOn
<1>1. Rows => SeriesGoesOn
  BY DEF Rows, Series, SeriesGoesOn, Resting, Due
<1> QED
  BY <1>1, BillsRows, PTL

-------------------------------------------------------------------------------
(* Types, however many requests overlap.                                      *)

Contribution == [goal : GoalIds, amount : Nat, withdraw : BOOLEAN]

GoalTypes ==
    /\ goal \in [GoalIds -> Goal]
    /\ saved \in [GoalIds -> Nat]
    /\ banner \in [exists : BOOLEAN, shown : BOOLEAN, amount : Nat]
    /\ offered \in Nat /\ allocated \in Nat /\ contributions \in Nat /\ crashes \in Nat

\* A request that contributes knows to what.
LocalTypes ==
    /\ pc \in [Requests -> Stages]
    /\ caller \in [Requests -> {"user", "bill", "plan"}]
    /\ seen \in [Requests -> [GoalIds -> Goal]]
    /\ task \in [Requests -> Seq(Contribution \cup [goal : GoalIds])]
    /\ checked \in [Requests -> Nat]
    /\ offer \in [Requests -> Nat]
    /\ \A r \in Requests : pc[r] \in {"insert", "progress"} => task[r][1] \in Contribution

\* A payment works on a bill, and a status is one that the row may have.
WorkTypes ==
    /\ on \in [Requests -> BillIds \cup PlanIds \cup {Nobody}]
    /\ was \in [Requests -> Bill]
    /\ linked \in [Requests -> GoalOrNone]
    /\ DOMAIN want = Requests
    /\ \A r \in Requests :
          /\ pc[r] \in {"status", "next"} => on[r] \in BillIds
          /\ pc[r] = "status" => want[r] \in {"UPCOMING", "PAID"}
          /\ pc[r] = "setStatus" => want[r] \in {"PLANNED", "CANCELLED"}

TableTypes ==
    /\ bill \in [BillIds -> Bill]
    /\ payments \in [BillIds -> Nat]
    /\ plan \in [PlanIds -> Plan]
    /\ applied \in [PlanIds -> Nat]

Types == GoalTypes /\ LocalTypes /\ WorkTypes /\ TableTypes

LEMMA BlankRows == NewGoal \in Goal /\ NoRow \in Bill /\ NoPlan \in Plan
  BY DEF NewGoal, Goal, NoRow, Bill, NoPlan, Plan, GoalOrNone

\* A contribution's effect on a goal and on its history.
LEMMA ProgressTypes ==
  ASSUME NEW row \in Goal, NEW old \in Goal, NEW part \in Contribution, NEW total \in Nat
  PROVE  Updated(old, Progress(row, part)) \in Goal /\ Recorded(total, part) \in Nat
<1> DEFINE amount == IF Takes(part) THEN row.current - part.amount ELSE row.current + part.amount
<1>1. row.current \in Nat /\ row.target \in Nat /\ part.amount \in Nat /\ part.withdraw \in BOOLEAN
  BY DEF Goal, Contribution
<1>2. amount \in Int
  BY <1>1
<1>3. Recorded(total, part) \in Nat
  BY <1>1 DEF Recorded, AtLeastZero
<1>4. Progress(row, part) = [current |-> AtLeastZero(amount),
         isCompleted |-> /\ part.goal \in Debts \/ ~part.withdraw
                         /\ Reached(part.goal, amount, row.target)]
  BY DEF Progress
<1> HIDE DEF amount
<1>5. AtLeastZero(amount) \in Nat
  BY <1>2 DEF AtLeastZero
<1>6. Progress(row, part).current \in Nat /\ Progress(row, part).isCompleted \in BOOLEAN
  BY <1>1, <1>4, <1>5
<1>7. Updated(old, Progress(row, part)) \in Goal
  BY <1>6 DEF Updated, Goal
<1> QED
  BY <1>3, <1>7

LEMMA ReturnTypes ==
  ASSUME LocalTypes, NEW r \in Requests, NEW stage \in {"idle", "complete"}, ReturnTo(r, stage)
  PROVE  LocalTypes'
<1>1. << >> \in Seq(Contribution \cup [goal : GoalIds])
  BY EmptySeq
<1> QED
  BY <1>1, BlankRows DEF ReturnTo, Goto, Nothing, LocalTypes, Stages

LEMMA ReadTypes ==
  ASSUME GoalTypes, LocalTypes, NEW r \in Requests, NEW part \in Contribution, ReadGoal(r, part),
         NEW who \in {"user", "bill", "plan"}, caller' = [caller EXCEPT ![r] = who] \/ UNCHANGED caller
  PROVE  LocalTypes' /\ GoalTypes'
<1>1. part.goal \in GoalIds
  BY DEF Contribution
<1>2. <<part>> \in Seq(Contribution \cup [goal : GoalIds]) /\ <<part>>[1] = part
  OBVIOUS
<1>3. seen' \in [Requests -> [GoalIds -> Goal]]
  BY <1>1 DEF ReadGoal, GoalTypes, LocalTypes
<1>4. pc' = [pc EXCEPT ![r] = "insert"] /\ task' = [task EXCEPT ![r] = <<part>>]
  BY DEF ReadGoal, Goto
<1>5. /\ pc' \in [Requests -> Stages] /\ task' \in [Requests -> Seq(Contribution \cup [goal : GoalIds])]
      /\ caller' \in [Requests -> {"user", "bill", "plan"}]
  BY <1>2, <1>4 DEF LocalTypes, Stages
<1>6. UNCHANGED <<checked, offer>>
  BY DEF ReadGoal
<1>7. \A q \in Requests : pc'[q] \in {"insert", "progress"} => task'[q][1] \in Contribution
  BY <1>2, <1>4 DEF LocalTypes
<1>8. LocalTypes'
  BY <1>3, <1>5, <1>6, <1>7 DEF LocalTypes
<1> QED
  BY <1>8 DEF ReadGoal, goalVars, bannerVars, GoalTypes

LEMMA GoOnTypes ==
  ASSUME LocalTypes, NEW r \in Requests, NEW stage \in Stages, Goto(r, stage),
         UNCHANGED <<caller, seen, task, checked, offer>>,
         stage # "insert", stage = "progress" => pc[r] = "insert"
  PROVE  LocalTypes'
  BY DEF Goto, LocalTypes

LEMMA EndWorkTypes ==
  ASSUME LocalTypes, WorkTypes, NEW r \in Requests, EndWork(r), Goto(r, "idle")
  PROVE  WorkTypes'
  BY BlankRows DEF EndWork, Goto, LocalTypes, WorkTypes, GoalOrNone

LEMMA SameWorkTypes ==
  ASSUME LocalTypes, WorkTypes, NEW r \in Requests, NEW stage, UNCHANGED workVars, Goto(r, stage),
         stage \notin {"status", "setStatus"}, stage = "next" => pc[r] = "status"
  PROVE  WorkTypes'
  BY DEF workVars, Goto, LocalTypes, WorkTypes

-------------------------------------------------------------------------------
LEMMA InsertTypes ==
  ASSUME Types, NEW r \in Requests, InsertContribution(r)
  PROVE  /\ GoalTypes' /\ LocalTypes'
         /\ pc[r] = "insert" /\ (Goto(r, "idle") \/ Goto(r, "progress"))
<1> DEFINE part == task[r][1]
<1>1. pc[r] = "insert" /\ part \in Contribution /\ part.goal \in GoalIds
  BY DEF InsertContribution, Types, LocalTypes, Contribution
<1>2. CASE Live(part.goal)
  <2>1. /\ contributions' = contributions + 1
        /\ saved' = [saved EXCEPT ![part.goal] = Recorded(saved[part.goal], part)]
        /\ Goto(r, "progress")
        /\ UNCHANGED <<goal, caller, seen, task, checked, offer, bannerVars, crashes>>
    BY <1>2 DEF InsertContribution
  <2>2. PICK row \in Goal : row = goal[part.goal]
    BY <1>1 DEF Types, GoalTypes
  <2>3. saved[part.goal] \in Nat
    BY <1>1 DEF Types, GoalTypes
  <2> HIDE DEF part
  <2>4. Recorded(saved[part.goal], part) \in Nat
    BY <1>1, <2>2, <2>3, ProgressTypes
  <2>5. GoalTypes'
    <3>1. saved' \in [GoalIds -> Nat]
      BY <2>1, <2>4 DEF Types, GoalTypes
    <3>2. contributions' \in Nat /\ UNCHANGED <<goal, banner, offered, allocated, crashes>>
      BY <2>1 DEF Types, GoalTypes, bannerVars
    <3> QED
      BY <3>1, <3>2 DEF Types, GoalTypes
  <2>6. LocalTypes'
    BY <1>1, <2>1, GoOnTypes DEF Types, Stages
  <2> QED
    BY <1>1, <2>1, <2>5, <2>6
<1>3. CASE ~Live(part.goal)
  <2>1. ReturnTo(r, "idle") /\ UNCHANGED <<goalVars, bannerVars, crashes>>
    BY <1>3 DEF InsertContribution, Finish
  <2>2. LocalTypes'
    BY <2>1, ReturnTypes DEF Types
  <2>3. GoalTypes'
    BY <2>1 DEF goalVars, bannerVars, Types, GoalTypes
  <2> QED
    BY <1>1, <2>1, <2>2, <2>3 DEF ReturnTo
<1> QED
  BY <1>2, <1>3

LEMMA WriteProgressTypes ==
  ASSUME Types, NEW r \in Requests, WriteProgress(r)
  PROVE  /\ GoalTypes' /\ LocalTypes'
         /\ pc[r] = "progress" /\ (Goto(r, "idle") \/ Goto(r, "complete"))
<1> DEFINE part == task[r][1]
           g == part.goal
           stage == IF caller[r] = "plan" THEN "complete" ELSE "idle"
<1>1. pc[r] = "progress" /\ part \in Contribution /\ g \in GoalIds
  BY DEF WriteProgress, Types, LocalTypes, Contribution
<1>2. UNCHANGED <<saved, contributions, bannerVars, crashes>>
  BY DEF WriteProgress
<1>3. CASE Live(g)
  <2>1. /\ goal' = [goal EXCEPT ![g] = Updated(goal[g], Progress(seen[r][g], part))]
        /\ ReturnTo(r, stage)
    BY <1>3 DEF WriteProgress
  <2>2. goal[g] \in Goal /\ seen[r][g] \in Goal
    BY <1>1 DEF Types, GoalTypes, LocalTypes
  <2>3. stage \in {"idle", "complete"}
    OBVIOUS
  <2>4. saved[g] \in Nat
    BY <1>1 DEF Types, GoalTypes
  <2> HIDE DEF part, g, stage
  <2>5. Updated(goal[g], Progress(seen[r][g], part)) \in Goal
    BY <1>1, <2>2, <2>4, ProgressTypes
  <2>6. GoalTypes'
    BY <1>2, <2>1, <2>5 DEF Types, GoalTypes, bannerVars
  <2>7. LocalTypes'
    BY <2>1, <2>3, ReturnTypes DEF Types
  <2> QED
    BY <1>1, <2>1, <2>3, <2>6, <2>7 DEF ReturnTo
<1>4. CASE ~Live(g)
  <2>1. ReturnTo(r, "idle") /\ UNCHANGED goal
    BY <1>4 DEF WriteProgress, Finish
  <2>2. LocalTypes'
    BY <2>1, ReturnTypes DEF Types
  <2>3. GoalTypes'
    BY <1>2, <2>1 DEF bannerVars, Types, GoalTypes
  <2> QED
    BY <1>1, <2>1, <2>2, <2>3 DEF ReturnTo
<1> QED
  BY <1>3, <1>4

\* No request of Bills edits a goal, allocates a banner or announces one.
LEMMA GoalStepTypes == ASSUME Types, NEW r \in Requests, GoalStep(r) PROVE Types'
<1>1. InsertContribution(r) \/ WriteProgress(r)
  BY DEF GoalStep, Step, WriteEdit, CheckGoal, Allocate, CreateBanner, Types, LocalTypes, Stages
<1>2. /\ GoalTypes' /\ LocalTypes'
      /\ Goto(r, "idle") \/ Goto(r, "progress") \/ Goto(r, "complete")
  BY <1>1, InsertTypes, WriteProgressTypes
<1>3. WorkTypes'
  <2>1. CASE pc'[r] = "idle"
    <3>1. Goto(r, "idle")
      BY <1>2, <2>1 DEF Goto, Types, LocalTypes
    <3> QED
      BY <2>1, <3>1, EndWorkTypes DEF GoalStep, Types
  <2>2. CASE pc'[r] # "idle"
    <3>1. UNCHANGED workVars
      BY <2>2 DEF GoalStep
    <3>2. Goto(r, "progress") \/ Goto(r, "complete")
      BY <1>2, <2>2 DEF Goto, Types, LocalTypes
    <3> QED
      BY <3>1, <3>2, SameWorkTypes DEF Types
  <2> QED
    BY <2>1, <2>2
<1>4. TableTypes'
  <2>1. UNCHANGED <<bill, payments, plan>>
    BY DEF GoalStep
  <2>2. applied' = applied \/ applied' = [applied EXCEPT ![on[r]] = applied[on[r]] + 1]
    BY DEF GoalStep
  <2>3. applied' \in [PlanIds -> Nat]
    BY <2>2 DEF Types, TableTypes
  <2> QED
    BY <2>1, <2>3 DEF Types, TableTypes
<1> QED
  BY <1>2, <1>3, <1>4 DEF Types

\* The request is over; what became of the tables is typed.
LEMMA EndTypes ==
  ASSUME Types, NEW r \in Requests, End(r), UNCHANGED <<goalVars, bannerVars>>, crashes' \in Nat,
         TableTypes'
  PROVE  Types'
<1>1. ReturnTo(r, "idle") /\ Goto(r, "idle") /\ EndWork(r)
  BY DEF End, Finish, ReturnTo
<1>2. LocalTypes' /\ WorkTypes'
  BY <1>1, ReturnTypes, EndWorkTypes DEF Types
<1>3. GoalTypes'
  BY DEF goalVars, bannerVars, Types, GoalTypes
<1> QED
  BY <1>2, <1>3 DEF Types

\* It calls addContribution.
LEMMA CallTypes ==
  ASSUME Types, NEW r \in Requests, NEW g \in GoalIds, NEW who \in {"bill", "plan"},
         CallContribution(r, g, who)
  PROVE  Types'
<1> DEFINE part == [goal |-> g, amount |-> BillAmount, withdraw |-> FALSE]
<1>1. part \in Contribution
  BY BillsAssumption DEF Contribution
<1>2. ReadGoal(r, part) /\ caller' = [caller EXCEPT ![r] = who] /\ UNCHANGED <<tableVars, workVars>>
  BY DEF CallContribution
<1> HIDE DEF part
<1>3. LocalTypes' /\ GoalTypes'
  BY <1>1, <1>2, ReadTypes DEF Types
<1>4. Goto(r, "insert")
  BY <1>2 DEF ReadGoal
<1>5. WorkTypes'
  BY <1>2, <1>4, SameWorkTypes DEF Types
<1>6. TableTypes'
  BY <1>2 DEF tableVars, Types, TableTypes
<1> QED
  BY <1>3, <1>5, <1>6 DEF Types

\* It goes on with the same work.
LEMMA ProceedTypes ==
  ASSUME Types, NEW r \in Requests, NEW stage \in {"next", "contribute", "paid", "complete"},
         GoOn(r, stage), UNCHANGED <<goalVars, bannerVars, crashes>>,
         UNCHANGED <<on, was, want>>, linked' \in [Requests -> GoalOrNone],
         stage = "next" => pc[r] = "status", TableTypes'
  PROVE  Types'
<1>1. LocalTypes'
  BY GoOnTypes DEF GoOn, Types, Stages
<1>2. GoalTypes'
  BY DEF goalVars, bannerVars, Types, GoalTypes
<1>3. WorkTypes'
  BY DEF GoOn, Goto, Types, LocalTypes, WorkTypes
<1> QED
  BY <1>1, <1>2, <1>3 DEF Types

LEMMA BillStepTypes == ASSUME Types, NEW r \in Requests, BillStep(r) PROVE Types'
<1>1. crashes \in Nat
  BY DEF Types, GoalTypes
<1>2. CASE WriteStatus(r)
  <2> DEFINE b == on[r]
             stage == IF ~Pays(r) THEN "paid" ELSE IF was[r].recurring THEN "next" ELSE AfterNext(r)
  <2>1. /\ pc[r] = "status" /\ b \in BillIds /\ want[r] \in {"UPCOMING", "PAID"}
        /\ UNCHANGED <<goalVars, bannerVars, crashes, plan, applied>>
    BY <1>2 DEF WriteStatus, Types, WorkTypes
  <2>2. CASE Known(b)
    <3>1. /\ bill' = [bill EXCEPT ![b].status = want[r]]
          /\ payments' = IF want[r] = "PAID" /\ bill[b].status # "PAID"
                         THEN [payments EXCEPT ![b] = payments[b] + 1] ELSE payments
          /\ linked' = [linked EXCEPT ![r] = bill[b].goal]
          /\ GoOn(r, stage)
          /\ UNCHANGED <<on, was, want>>
      BY <1>2, <2>2 DEF WriteStatus
    <3>2. bill[b] \in Bill
      BY <2>1 DEF Types, TableTypes
    <3>3. bill' \in [BillIds -> Bill]
      BY <2>1, <3>1, <3>2 DEF Types, TableTypes, Bill
    <3>4. payments' \in [BillIds -> Nat]
      BY <2>1, <3>1 DEF Types, TableTypes
    <3>5. TableTypes'
      BY <2>1, <3>3, <3>4 DEF Types, TableTypes
    <3>6. linked' \in [Requests -> GoalOrNone]
      BY <3>1, <3>2 DEF Types, WorkTypes, Bill
    <3>7. stage \in {"next", "contribute", "paid"}
      BY DEF AfterNext
    <3> HIDE DEF stage
    <3> QED
      BY <2>1, <3>1, <3>5, <3>6, <3>7, ProceedTypes
  <2>3. CASE ~Known(b)
    <3>1. End(r) /\ UNCHANGED <<bill, payments>>
      BY <1>2, <2>3 DEF WriteStatus
    <3>2. TableTypes'
      BY <2>1, <3>1 DEF Types, TableTypes
    <3> QED
      BY <1>1, <2>1, <3>1, <3>2, EndTypes
  <2> QED
    BY <2>2, <2>3
<1>3. CASE CreateNext(r)
  <2>1. pc[r] = "next" /\ on[r] \in BillIds /\ was[r] \in Bill
    BY <1>3 DEF CreateNext, Types, WorkTypes
  <2>2. UNCHANGED <<goalVars, bannerVars, crashes, payments, plan, applied>>
    BY <1>3 DEF CreateNext
  <2>3. CASE was[r].goal = NoGoal \/ Live(was[r].goal)
    <3>1. PICK b \in BillIds :
             bill' = [bill EXCEPT ![b] = [was[r] EXCEPT !.status = "UPCOMING", !.follows = on[r]]]
      BY <1>3, <2>3 DEF CreateNext
    <3>2. [was[r] EXCEPT !.status = "UPCOMING", !.follows = on[r]] \in Bill
      BY <2>1 DEF Bill
    <3>3. TableTypes'
      BY <2>2, <3>1, <3>2 DEF Types, TableTypes
    <3> DEFINE stage == AfterNext(r)
    <3>4. GoOn(r, stage) /\ UNCHANGED workVars
      BY <1>3, <2>3 DEF CreateNext
    <3>5. stage \in {"contribute", "paid"}
      BY DEF AfterNext
    <3>6. linked' \in [Requests -> GoalOrNone] /\ UNCHANGED <<on, was, want>>
      BY <3>4 DEF workVars, Types, WorkTypes
    <3> HIDE DEF stage
    <3> QED
      BY <2>2, <3>3, <3>4, <3>5, <3>6, ProceedTypes
  <2>4. CASE ~(was[r].goal = NoGoal \/ Live(was[r].goal))
    <3>1. End(r) /\ UNCHANGED bill
      BY <1>3, <2>4 DEF CreateNext
    <3>2. TableTypes'
      BY <2>2, <3>1 DEF Types, TableTypes
    <3> QED
      BY <1>1, <2>2, <3>1, <3>2, EndTypes
  <2> QED
    BY <2>3, <2>4
<1>4. CASE ContributePayment(r)
  BY <1>4, CallTypes DEF ContributePayment, Open, Live
<1>5. CASE EndPayment(r)
  <2>1. End(r) /\ UNCHANGED <<goalVars, bannerVars, crashes, tableVars>>
    BY <1>5 DEF EndPayment
  <2>2. TableTypes'
    BY <2>1 DEF tableVars, Types, TableTypes
  <2> QED
    BY <1>1, <2>1, <2>2, EndTypes
<1> QED
  BY <1>2, <1>3, <1>4, <1>5 DEF BillStep

LEMMA PlanStepTypes == ASSUME Types, NEW r \in Requests, PlanStep(r) PROVE Types'
<1>1. crashes \in Nat
  BY DEF Types, GoalTypes
<1>2. ASSUME NEW status \in {"PLANNED", "COMPLETED", "CANCELLED"}, WritePlan(r, status) PROVE Types'
  <2>1. plan' \in [PlanIds -> Plan]
    BY <1>2 DEF WritePlan, Types, TableTypes, Plan
  <2>2. TableTypes'
    BY <1>2, <2>1 DEF WritePlan, Types, TableTypes
  <2> QED
    BY <1>1, <1>2, <2>2, EndTypes DEF WritePlan
<1>3. CASE SetStatus(r)
  <2>1. want[r] \in {"PLANNED", "CANCELLED"}
    BY <1>3 DEF SetStatus, Types, WorkTypes
  <2> QED
    BY <1>2, <1>3, <2>1 DEF SetStatus
<1>4. CASE Complete(r)
  BY <1>2, <1>4 DEF Complete
<1>5. CASE ApplyToData(r)
  <2>1. UNCHANGED <<goalVars, bannerVars, crashes, bill, payments, plan>>
    BY <1>5 DEF ApplyToData
  <2>2. applied' \in [PlanIds -> Nat]
    BY <1>5 DEF ApplyToData, Applied, Types, TableTypes
  <2>3. TableTypes'
    BY <2>1, <2>2 DEF Types, TableTypes
  <2>4. End(r) \/ (GoOn(r, "complete") /\ UNCHANGED workVars)
    BY <1>5 DEF ApplyToData
  <2>5. CASE End(r)
    BY <1>1, <2>1, <2>3, <2>5, EndTypes
  <2>6. CASE GoOn(r, "complete") /\ UNCHANGED workVars
    <3>1. linked' \in [Requests -> GoalOrNone] /\ UNCHANGED <<on, was, want>>
      BY <2>6 DEF workVars, Types, WorkTypes
    <3> QED
      BY <2>1, <2>3, <2>6, <3>1, ProceedTypes
  <2> QED
    BY <2>4, <2>5, <2>6
<1>6. CASE ApplyToGoal(r)
  BY <1>6, CallTypes DEF ApplyToGoal, Open, Live
<1>7. CASE CannotApply(r)
  <2>1. End(r) /\ UNCHANGED <<goalVars, bannerVars, crashes, tableVars>>
    BY <1>7 DEF CannotApply
  <2>2. TableTypes'
    BY <2>1 DEF tableVars, Types, TableTypes
  <2> QED
    BY <1>1, <2>1, <2>2, EndTypes
<1> QED
  BY <1>3, <1>4, <1>5, <1>6, <1>7 DEF PlanStep

\* Work on a bill or a plan begins.
LEMMA TakeTypes ==
  ASSUME Types, NEW r \in Requests, NEW x \in BillIds \cup PlanIds, NEW status,
         NEW stage \in {"status", "setStatus", "apply"}, Take(r, x, status, stage),
         UNCHANGED <<tableVars, linked>>, was' \in [Requests -> Bill],
         stage = "status" => x \in BillIds /\ status \in {"UPCOMING", "PAID"},
         stage = "setStatus" => status \in {"PLANNED", "CANCELLED"}
  PROVE  Types'
<1>1. /\ Goto(r, stage) /\ on' = [on EXCEPT ![r] = x] /\ want' = [want EXCEPT ![r] = status]
      /\ UNCHANGED <<caller, seen, task, checked, offer, goalVars, bannerVars, crashes>>
  BY DEF Take
<1>2. LocalTypes'
  BY <1>1, GoOnTypes DEF Types, Stages
<1>3. GoalTypes'
  BY <1>1 DEF goalVars, bannerVars, Types, GoalTypes
<1>4. WorkTypes'
  BY <1>1 DEF Goto, Types, LocalTypes, WorkTypes
<1>5. TableTypes'
  BY DEF tableVars, Types, TableTypes
<1> QED
  BY <1>2, <1>3, <1>4, <1>5 DEF Types

LEMMA BeginTypes ==
  ASSUME Types, NEW r \in Requests,
         \/ \E b \in BillIds, status \in {"UPCOMING", "PAID"} : BeginStatus(r, b, status)
         \/ \E p \in PlanIds, status \in {"PLANNED", "CANCELLED"} : BeginSetStatus(r, p, status)
         \/ \E p \in PlanIds : BeginComplete(r, p)
  PROVE  Types'
<1>1. was \in [Requests -> Bill] /\ bill \in [BillIds -> Bill]
  BY DEF Types, WorkTypes, TableTypes
<1>2. ASSUME NEW b \in BillIds, NEW status \in {"UPCOMING", "PAID"}, BeginStatus(r, b, status)
      PROVE  Types'
  <2>1. was' \in [Requests -> Bill]
    BY <1>1, <1>2 DEF BeginStatus
  <2> QED
    BY <1>2, <2>1, TakeTypes DEF BeginStatus
<1>3. ASSUME NEW p \in PlanIds, NEW status \in {"PLANNED", "CANCELLED"}, BeginSetStatus(r, p, status)
      PROVE  Types'
  BY <1>1, <1>3, TakeTypes DEF BeginSetStatus
<1>4. ASSUME NEW p \in PlanIds, BeginComplete(r, p) PROVE Types'
  BY <1>1, <1>4, TakeTypes DEF BeginComplete
<1> QED
  BY <1>2, <1>3, <1>4

\* No step of Bills that leaves the requests alone spoils the tables.
LEMMA QuietTypes ==
  ASSUME Types, UNCHANGED <<localVars, workVars, crashes>>, GoalTypes', TableTypes'
  PROVE  Types'
<1>1. LocalTypes'
  BY DEF localVars, Types, LocalTypes
<1>2. WorkTypes'
  BY DEF localVars, workVars, Types, WorkTypes
<1> QED
  BY <1>1, <1>2 DEF Types

LEMMA GoalRequestsTypes == ASSUME Types, GoalRequests PROVE Types'
<1>1. UNCHANGED <<tableVars, workVars>>
  BY DEF GoalRequests
<1>2. TableTypes'
  BY <1>1 DEF tableVars, Types, TableTypes
<1>3. ASSUME NEW g \in GoalIds, NEW target \in Amounts, CreateGoal(g, target, Nothing) PROVE Types'
  <2> DEFINE first == IF g \in Debts THEN target ELSE 0
             row == [status |-> "live", current |-> first, target |-> target, isCompleted |-> FALSE]
  <2>1. /\ goal' = [goal EXCEPT ![g] = row] /\ saved' = [saved EXCEPT ![g] = first]
        /\ UNCHANGED <<contributions, bannerVars, localVars, crashes>>
    BY <1>3 DEF CreateGoal, Nothing
  <2>2. first \in Nat /\ row \in Goal
    BY GoalsAssumption DEF Goal
  <2> HIDE DEF first, row
  <2>3. GoalTypes'
    BY <2>1, <2>2 DEF bannerVars, Types, GoalTypes
  <2> QED
    BY <1>1, <1>2, <2>1, <2>3, QuietTypes
<1>4. ASSUME NEW r \in Requests, NEW part \in Part, BeginContribution(r, part) PROVE Types'
  <2>1. part \in Contribution
    BY GoalsAssumption DEF Part, Contribution
  <2>2. ReadGoal(r, part) /\ UNCHANGED caller
    BY <1>4 DEF BeginContribution
  <2>3. LocalTypes' /\ GoalTypes'
    BY <2>1, <2>2, ReadTypes DEF Types
  <2>4. WorkTypes'
    BY <1>1, <2>2, SameWorkTypes DEF ReadGoal, Types
  <2> QED
    BY <1>2, <2>3, <2>4 DEF Types
<1> QED
  BY <1>3, <1>4 DEF GoalRequests

LEMMA TableStepTypes ==
  ASSUME Types,
         \/ \E g \in GoalIds : UnlinkGoal(g)
         \/ \E b \in BillIds, g \in GoalOrNone, recurring \in BOOLEAN,
               status \in {"UPCOMING", "PAID"} : CreateBill(b, g, recurring, status)
         \/ \E b \in BillIds : DeleteBill(b)
         \/ \E p \in PlanIds, type \in {"entry", "bill", "goal"},
               link \in GoalOrNone \cup BillIds : CreatePlan(p, type, link)
         \/ \E p \in PlanIds : DeletePlan(p)
  PROVE  Types'
<1>1. GoalTypes /\ TableTypes
  BY DEF Types
<1>2. ASSUME NEW g \in GoalIds, UnlinkGoal(g) PROVE Types'
  <2>1. /\ goal' = [goal EXCEPT ![g].status = "gone"]
        /\ UNCHANGED <<saved, contributions, bannerVars, localVars, crashes, payments, plan, applied, workVars>>
        /\ bill' = [b \in BillIds |-> IF bill[b].goal = g THEN [bill[b] EXCEPT !.goal = NoGoal]
                                                          ELSE bill[b]]
    BY <1>2 DEF UnlinkGoal, DeleteGoal
  <2>2. goal' \in [GoalIds -> Goal]
    BY <1>1, <2>1 DEF GoalTypes, Goal
  <2>3. GoalTypes'
    BY <1>1, <2>1, <2>2 DEF GoalTypes, bannerVars
  <2>4. \A b \in BillIds : [bill[b] EXCEPT !.goal = NoGoal] \in Bill
    BY <1>1 DEF TableTypes, Bill, GoalOrNone
  <2>5. TableTypes'
    BY <1>1, <2>1, <2>4 DEF TableTypes
  <2> QED
    BY <2>1, <2>3, <2>5, QuietTypes
<1>3. ASSUME UNCHANGED <<vars, workVars>>, TableTypes' PROVE Types'
  <2>1. GoalTypes'
    BY <1>1, <1>3 DEF vars, goalVars, bannerVars, GoalTypes
  <2> QED
    BY <1>3, <2>1, QuietTypes DEF vars
<1>4. ASSUME NEW b \in BillIds, NEW g \in GoalOrNone, NEW recurring \in BOOLEAN,
             NEW status \in {"UPCOMING", "PAID"}, CreateBill(b, g, recurring, status)
      PROVE  Types'
  <2>1. [NoRow EXCEPT !.status = status, !.goal = g, !.recurring = recurring] \in Bill
    BY BlankRows DEF Bill
  <2>2. TableTypes'
    BY <1>1, <1>4, <2>1 DEF CreateBill, TableTypes
  <2> QED
    BY <1>3, <1>4, <2>2 DEF CreateBill
<1>5. ASSUME NEW b \in BillIds, DeleteBill(b) PROVE Types'
  <2>1. [bill[b] EXCEPT !.status = "gone", !.goal = NoGoal] \in Bill
    BY <1>1 DEF TableTypes, Bill, GoalOrNone
  <2>2. TableTypes'
    BY <1>1, <1>5, <2>1 DEF DeleteBill, TableTypes
  <2> QED
    BY <1>3, <1>5, <2>2 DEF DeleteBill
<1>6. ASSUME NEW p \in PlanIds, NEW type \in {"entry", "bill", "goal"},
             NEW link \in GoalOrNone \cup BillIds, CreatePlan(p, type, link)
      PROVE  Types'
  <2>1. [status |-> "PLANNED", type |-> type, link |-> link] \in Plan
    BY DEF Plan
  <2>2. TableTypes'
    BY <1>1, <1>6, <2>1 DEF CreatePlan, TableTypes
  <2> QED
    BY <1>3, <1>6, <2>2 DEF CreatePlan
<1>7. ASSUME NEW p \in PlanIds, DeletePlan(p) PROVE Types'
  <2>1. plan' \in [PlanIds -> Plan]
    BY <1>1, <1>7 DEF DeletePlan, TableTypes, Plan
  <2>2. TableTypes'
    BY <1>1, <1>7, <2>1 DEF DeletePlan, TableTypes
  <2> QED
    BY <1>3, <1>7, <2>2 DEF DeletePlan
<1> QED
  BY <1>2, <1>4, <1>5, <1>6, <1>7

LEMMA NextTypes == ASSUME Types, [BillsNext]_allVars PROVE Types'
<1>1. CASE UNCHANGED allVars
  BY <1>1 DEF allVars, vars, goalVars, bannerVars, localVars, tableVars, workVars, Types, GoalTypes,
              LocalTypes, WorkTypes, TableTypes
<1>2. ASSUME NEW r \in Requests, CrashOf(r) PROVE Types'
  <2>1. /\ End(r) /\ crashes' = crashes + 1 /\ UNCHANGED <<goalVars, bannerVars, tableVars>>
    BY <1>2 DEF CrashOf, Crash, End
  <2>2. TableTypes'
    BY <2>1 DEF tableVars, Types, TableTypes
  <2>3. crashes' \in Nat
    BY <2>1 DEF Types, GoalTypes
  <2> QED
    BY <2>1, <2>2, <2>3, EndTypes
<1> QED
  BY <1>1, <1>2, GoalRequestsTypes, TableStepTypes, BeginTypes, GoalStepTypes, BillStepTypes, PlanStepTypes
  DEF BillsNext

LEMMA InitTypes == ASSUME BillsInit PROVE Types
<1>1. GoalTypes /\ LocalTypes
  BY BlankRows, EmptySeq DEF BillsInit, Init, Nothing, GoalTypes, LocalTypes, Stages
<1>2. WorkTypes /\ TableTypes
  BY BlankRows DEF BillsInit, Init, GoalOrNone, WorkTypes, TableTypes
<1> QED
  BY <1>1, <1>2 DEF Types

(* However many requests for goals, bills and plans overlap and wherever they *)
(* die, every row and every request has its type; amounts do not go below     *)
(* zero, and a payment writes to a bill, never to a plan.                     *)
THEOREM BillsTyped == BillsSpec => []BillsTypeOK
<1>1. BillsInit => Types
  BY InitTypes
<1>2. Types /\ [BillsNext]_allVars => Types'
  BY NextTypes
<1>3. Types => BillsTypeOK
  <2>1. LocalTypes => task \in [Requests -> Seq([goal : GoalIds, amount : Nat, withdraw : BOOLEAN]
                                              \cup [goal : GoalIds])]
    BY DEF LocalTypes, Contribution
  <2>2. GoalTypes /\ LocalTypes => TypeOK
    BY <2>1 DEF GoalTypes, LocalTypes, TypeOK
  <2> QED
    BY <2>2 DEF Types, WorkTypes, TableTypes, BillsTypeOK
<1> QED
  BY <1>1, <1>2, <1>3, PTL DEF BillsSpec
================================================================================
