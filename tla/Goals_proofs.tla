------------------------------- MODULE Goals_proofs -------------------------------
(****************************************************************************)
(* Proofs about the rollover banner of Goals, and about goals and their     *)
(* contributions, for any number of goals, any amounts and any offers, when *)
(* one request is in progress at a time and may die anywhere: no more is    *)
(* allocated than was offered, and, while none has died, a goal's amount is *)
(* what its contributions make of it.                                       *)
(****************************************************************************)
EXTENDS Goals, TLAPS

-------------------------------------------------------------------------------
(* The total of an allocation, which has one part or two.                     *)

\* The folds of the library take the largest index first.
LEMMA LastIndex == Max({1}) = 1 /\ Max({2}) = 2 /\ Max({1, 2}) = 2
<1>1. Max({1}) = 1
  BY DEF Max
<1>2. Max({2}) = 2
  BY DEF Max
<1>3. Max({1, 2}) = 2
  BY DEF Max
<1> QED
  BY <1>1, <1>2, <1>3

\* sums[s] is the total of the parts with an index in s.
Adds(parts, sums) ==
    sums = [s \in SUBSET DOMAIN parts |->
               IF s = {} THEN 0 ELSE LET i == Max(s) IN sums[s \ {i}] + parts[i].amount]

\* The total, as the library defines its fold.
LEMMA TotalUnfolds ==
  ASSUME NEW parts
  PROVE  Total(parts) = (CHOOSE sums : Adds(parts, sums))[DOMAIN parts]
  BY DEF Total, FoldLeft, MapThenFoldSet, Adds

\* The total of one part.
LEMMA TotalOfOne ==
  ASSUME NEW parts, DOMAIN parts = {1}, parts[1].amount \in Nat
  PROVE  Total(parts) = parts[1].amount
<1> DEFINE sums == [s \in SUBSET {1} |-> IF s = {} THEN 0 ELSE parts[1].amount]
<1>1. Adds(parts, sums)
  <2>1. sums[{}] = 0 /\ sums[{1}] = parts[1].amount
    OBVIOUS
  <2>2. sums = [s \in SUBSET {1} |-> sums[s]]
    OBVIOUS
  <2> HIDE DEF sums
  <2>3. ASSUME NEW s \in SUBSET {1}
        PROVE  sums[s] = IF s = {} THEN 0 ELSE sums[s \ {Max(s)}] + parts[Max(s)].amount
    <3>1. CASE s = {}
      BY <2>1, <3>1
    <3>2. CASE s = {1}
      <4>1. Max(s) = 1 /\ s \ {1} = {} /\ s # {}
        BY <3>2, LastIndex
      <4>2. sums[s \ {Max(s)}] = 0 /\ parts[Max(s)] = parts[1] /\ sums[s] = parts[1].amount
        BY <2>1, <3>2, <4>1
      <4> QED
        BY <4>1, <4>2
    <3> QED
      BY <3>1, <3>2
  <2> QED
    BY <2>2, <2>3 DEF Adds
<1> HIDE DEF sums
<1> DEFINE chosen == CHOOSE any : Adds(parts, any)
<1>2. Adds(parts, chosen)
  BY <1>1
<1>3. Total(parts) = chosen[{1}]
  BY TotalUnfolds
<1> HIDE DEF chosen
<1>4. \A s \in SUBSET {1} : chosen[s] = IF s = {} THEN 0 ELSE chosen[s \ {Max(s)}] + parts[Max(s)].amount
  BY <1>2 DEF Adds
<1>5. chosen[{}] = 0
  BY <1>4
<1>6. chosen[{1}] = chosen[{1} \ {1}] + parts[1].amount
  BY <1>4, LastIndex
<1>7. {1} \ {1} = {}
  OBVIOUS
<1> QED
  BY <1>3, <1>5, <1>6, <1>7

\* The total of two parts.
LEMMA TotalOfTwo ==
  ASSUME NEW parts, DOMAIN parts = {1, 2}, parts[1].amount \in Nat, parts[2].amount \in Nat
  PROVE  Total(parts) = parts[1].amount + parts[2].amount
<1> DEFINE sums == [s \in SUBSET {1, 2} |-> (IF 1 \in s THEN parts[1].amount ELSE 0)
                                            + (IF 2 \in s THEN parts[2].amount ELSE 0)]
<1>1. Adds(parts, sums)
  <2>1. /\ sums[{}] = 0 /\ sums[{1}] = parts[1].amount /\ sums[{2}] = parts[2].amount
        /\ sums[{1, 2}] = parts[1].amount + parts[2].amount
    OBVIOUS
  <2>2. sums = [s \in SUBSET {1, 2} |-> sums[s]]
    OBVIOUS
  <2> HIDE DEF sums
  <2>3. ASSUME NEW s \in SUBSET {1, 2}
        PROVE  sums[s] = IF s = {} THEN 0 ELSE sums[s \ {Max(s)}] + parts[Max(s)].amount
    <3>1. CASE s = {}
      BY <2>1, <3>1
    <3>2. CASE s = {1}
      <4>1. Max(s) = 1 /\ s \ {1} = {} /\ s # {}
        BY <3>2, LastIndex
      <4>2. sums[s \ {Max(s)}] = 0 /\ parts[Max(s)] = parts[1] /\ sums[s] = parts[1].amount
        BY <2>1, <3>2, <4>1
      <4> QED
        BY <4>1, <4>2
    <3>3. CASE s = {2}
      <4>1. Max(s) = 2 /\ s \ {2} = {} /\ s # {}
        BY <3>3, LastIndex
      <4>2. sums[s \ {Max(s)}] = 0 /\ parts[Max(s)] = parts[2] /\ sums[s] = parts[2].amount
        BY <2>1, <3>3, <4>1
      <4> QED
        BY <4>1, <4>2
    <3>4. CASE s = {1, 2}
      <4>1. Max(s) = 2 /\ s \ {2} = {1} /\ s # {}
        BY <3>4, LastIndex
      <4>2. /\ sums[s \ {Max(s)}] = parts[1].amount /\ parts[Max(s)] = parts[2]
            /\ sums[s] = parts[1].amount + parts[2].amount
        BY <2>1, <3>4, <4>1
      <4> QED
        BY <4>1, <4>2
    <3>5. s = {} \/ s = {1} \/ s = {2} \/ s = {1, 2}
      OBVIOUS
    <3> QED
      BY <3>1, <3>2, <3>3, <3>4, <3>5
  <2> QED
    BY <2>2, <2>3 DEF Adds
<1> HIDE DEF sums
<1> DEFINE chosen == CHOOSE any : Adds(parts, any)
<1>2. Adds(parts, chosen)
  BY <1>1
<1>3. Total(parts) = chosen[{1, 2}]
  BY TotalUnfolds
<1> HIDE DEF chosen
<1>4. \A s \in SUBSET {1, 2} :
          chosen[s] = IF s = {} THEN 0 ELSE chosen[s \ {Max(s)}] + parts[Max(s)].amount
  BY <1>2 DEF Adds
<1>5. chosen[{}] = 0
  BY <1>4
<1>6. chosen[{1}] = chosen[{1} \ {1}] + parts[1].amount
  BY <1>4, LastIndex
<1>7. chosen[{1, 2}] = chosen[{1, 2} \ {2}] + parts[2].amount
  BY <1>4, LastIndex
<1>8. {1} \ {1} = {} /\ {1, 2} \ {2} = {1}
  OBVIOUS
<1>9. chosen[{1, 2}] = 0 + parts[1].amount + parts[2].amount
  BY <1>5, <1>6, <1>7, <1>8
<1> QED
  BY <1>3, <1>9

\* What an allocation takes from the banner is an amount of cents.
LEMMA TotalIsAmount == ASSUME NEW parts \in Allocations PROVE Total(parts) \in Nat
<1> DEFINE Single == [goal : GoalIds, amount : Amounts, withdraw : {FALSE}]
<1>1. \A a \in Single : a.amount \in Nat
  BY GoalsAssumption
<1>2. (\E a \in Single : parts = <<a>>) \/ parts \in Single \X Single
  BY DEF Allocations
<1> HIDE DEF Single
<1>3. CASE \E a \in Single : parts = <<a>>
  <2>1. PICK a \in Single : parts = <<a>>
    BY <1>3
  <2>2. DOMAIN parts = {1} /\ parts[1] = a
    BY <2>1
  <2> QED
    BY <1>1, <2>2, TotalOfOne
<1>4. CASE parts \in Single \X Single
  <2>1. PICK a \in Single, b \in Single : parts = <<a, b>>
    BY <1>4
  <2>2. DOMAIN parts = {1, 2} /\ parts[1] = a /\ parts[2] = b
    BY <2>1
  <2>3. Total(parts) = parts[1].amount + parts[2].amount
    BY <1>1, <2>2, TotalOfTwo
  <2> QED
    BY <1>1, <2>2, <2>3
<1> QED
  BY <1>2, <1>3, <1>4

-------------------------------------------------------------------------------
(* The banner.                                                                *)

\* The banner in step with its histories; its row always exists when it is shown.
Banner ==
    /\ banner \in [exists : BOOLEAN, shown : BOOLEAN, amount : Nat]
    /\ offered \in Nat /\ allocated \in Nat
    /\ allocated <= offered + 1
    /\ banner.shown => banner.amount + allocated = offered

\* A request that allocates has read the banner as it is, and no more than a
\* cent over it was asked for.
Allocates(r) ==
    /\ pc[r] \in {"goals", "allocate"} =>
          /\ banner.shown /\ offer[r] = banner.amount
          /\ task[r] \in Allocations /\ Total(task[r]) <= banner.amount + 1
    /\ pc[r] = "announce" => offer[r] \in Nat

Locals ==
    /\ DOMAIN pc = Requests /\ DOMAIN offer = Requests /\ DOMAIN task = Requests
    /\ \A q, r \in Requests : pc[q] # "idle" /\ pc[r] # "idle" => q = r

Inv == Banner /\ Locals /\ \A r \in Requests : Allocates(r)

\* At the start there is no banner.
LEMMA InitInv == ASSUME Init PROVE Inv
  BY DEF Init, Inv, Banner, Locals, Allocates

\* A request that is over, or called by none, allocates nothing.
LEMMA ReturnInv ==
  ASSUME Inv, NEW r \in Requests, NEW stage \in {"idle", "complete"}, ReturnTo(r, stage), pc[r] # "idle"
  PROVE  Locals' /\ \A q \in Requests : pc'[q] \in {"idle", "complete"}
<1>1. \A q \in Requests : q # r => pc[q] = "idle"
  BY DEF Inv, Locals
<1> QED
  BY <1>1 DEF ReturnTo, Goto, Inv, Locals

\* Steps of a request that reads or writes goals leave the banner alone.
LEMMA GoalStepInv ==
  ASSUME Inv, NEW r \in Requests, WriteEdit(r) \/ InsertContribution(r) \/ WriteProgress(r) \/ Crash(r)
  PROVE  Inv'
<1>1. UNCHANGED bannerVars /\ pc[r] # "idle"
  BY DEF WriteEdit, InsertContribution, WriteProgress, Crash
<1>2. Banner'
  BY <1>1 DEF bannerVars, Inv, Banner
<1>3. CASE \E stage \in {"idle", "complete"} : ReturnTo(r, stage)
  <2>1. Locals' /\ \A q \in Requests : pc'[q] \in {"idle", "complete"}
    BY <1>1, <1>3, ReturnInv
  <2> QED
    BY <1>2, <2>1 DEF Inv, Allocates
<1>4. CASE Goto(r, "progress") /\ UNCHANGED <<task, offer>>
  <2>1. Locals'
    BY <1>1, <1>4 DEF Goto, Inv, Locals
  <2>2. \A q \in Requests : q # r => pc[q] = "idle"
    BY <1>1 DEF Inv, Locals
  <2>3. \A q \in Requests : pc'[q] \in {"idle", "progress"}
    BY <1>4, <2>2 DEF Goto, Inv, Locals
  <2> QED
    BY <1>2, <2>1, <2>3 DEF Inv, Allocates
<1>5. (\E stage \in {"idle", "complete"} : ReturnTo(r, stage)) \/ (Goto(r, "progress") /\ UNCHANGED <<task, offer>>)
  BY DEF WriteEdit, InsertContribution, WriteProgress, Crash, Finish
<1> QED
  BY <1>3, <1>4, <1>5

\* The next goal of an allocation is checked.
LEMMA CheckInv == ASSUME Inv, NEW r \in Requests, CheckGoal(r) PROVE Inv'
<1>1. UNCHANGED bannerVars /\ pc[r] = "goals"
  BY DEF CheckGoal
<1>2. Banner'
  BY <1>1 DEF bannerVars, Inv, Banner
<1>3. CASE Finish(r)
  <2>1. Locals' /\ \A q \in Requests : pc'[q] \in {"idle", "complete"}
    BY <1>1, <1>3, ReturnInv DEF Finish
  <2> QED
    BY <1>2, <2>1 DEF Inv, Allocates
<1>4. CASE \E stage \in {"allocate", "goals"} : Goto(r, stage) /\ UNCHANGED <<task, offer>>
  <2>1. Locals'
    BY <1>1, <1>4 DEF Goto, Inv, Locals
  <2>2. \A q \in Requests : q # r => pc'[q] = pc[q] /\ pc[q] = "idle"
    BY <1>1, <1>4 DEF Goto, Inv, Locals
  <2>3. pc'[r] \in {"allocate", "goals"}
    BY <1>4 DEF Goto, Inv, Locals
  <2>4. \A q \in Requests : Allocates(q)'
    BY <1>1, <1>4, <2>2, <2>3 DEF bannerVars, Inv, Allocates
  <2> QED
    BY <1>2, <2>1, <2>4 DEF Inv
<1>5. Finish(r) \/ \E stage \in {"allocate", "goals"} : Goto(r, stage) /\ UNCHANGED <<task, offer>>
  BY DEF CheckGoal
<1> QED
  BY <1>3, <1>4, <1>5

\* The allocation takes from the banner what it adds to the goals.
LEMMA AllocateInv == ASSUME Inv, NEW r \in Requests, Allocate(r) PROVE Inv'
<1>1. pc[r] = "allocate" /\ Finish(r) /\ offered' = offered
  BY DEF Allocate
<1>2. Locals' /\ \A q \in Requests : pc'[q] \in {"idle", "complete"}
  BY <1>1, ReturnInv DEF Finish
<1>3. /\ banner.shown /\ offer[r] = banner.amount
      /\ task[r] \in Allocations /\ Total(task[r]) <= banner.amount + 1
  BY <1>1 DEF Inv, Allocates
<1>4. PICK total \in Nat : total = Total(task[r])
  BY <1>3, TotalIsAmount
<1>5. CASE banner' = BannerAfter(r) /\ allocated' = allocated + total
  <2> DEFINE left == IF banner.amount - total > 0 THEN banner.amount - total ELSE 0
  <2>1. banner' = IF left < 1 THEN [banner EXCEPT !.shown = FALSE] ELSE [banner EXCEPT !.amount = left]
    BY <1>3, <1>4, <1>5 DEF BannerAfter, AtLeastZero
  <2>2. /\ banner \in [exists : BOOLEAN, shown : BOOLEAN, amount : Nat]
        /\ offered \in Nat /\ allocated \in Nat /\ banner.amount + allocated = offered
        /\ total <= banner.amount + 1
    BY <1>3, <1>4 DEF Inv, Banner
  <2>3. left \in Nat /\ (left >= 1 => left = banner.amount - total)
    BY <2>2
  <2> HIDE DEF left
  <2>4. banner' \in [exists : BOOLEAN, shown : BOOLEAN, amount : Nat]
    BY <2>1, <2>2, <2>3
  <2>5. allocated' \in Nat /\ allocated' <= offered' + 1
    BY <1>1, <1>5, <2>2
  <2>6. banner'.shown => banner'.amount + allocated' = offered'
    BY <1>1, <1>5, <2>1, <2>2, <2>3
  <2> QED
    BY <1>1, <1>2, <2>2, <2>4, <2>5, <2>6 DEF Inv, Banner, Allocates
<1>6. CASE UNCHANGED <<banner, allocated>>
  BY <1>1, <1>2, <1>6 DEF Inv, Banner, Allocates
<1> QED
  BY <1>4, <1>5, <1>6 DEF Allocate

\* A banner that is put up has had nothing allocated from it.
LEMMA OfferInv == ASSUME NEW amount \in Nat, Offer(amount) PROVE Banner'
  BY DEF Offer, Banner

\* A client's banner is created only when there is none.
LEMMA CreateBannerInv == ASSUME Inv, NEW r \in Requests, CreateBanner(r) PROVE Inv'
<1>1. pc[r] = "announce" /\ Finish(r) /\ offer[r] \in Nat
  BY DEF CreateBanner, Inv, Allocates
<1>2. Locals' /\ \A q \in Requests : pc'[q] \in {"idle", "complete"}
  BY <1>1, ReturnInv DEF Finish
<1>3. Banner'
  <2>1. CASE UNCHANGED bannerVars
    BY <2>1 DEF bannerVars, Inv, Banner
  <2>2. CASE Offer(offer[r])
    BY <1>1, <2>2, OfferInv
  <2> QED
    BY <2>1, <2>2 DEF CreateBanner
<1> QED
  BY <1>2, <1>3 DEF Inv, Allocates

\* A request begins when none is in progress; an allocation reads the banner.
LEMMA StartInv == ASSUME Inv, ~Overlap, NEW r \in Requests, Start(r) PROVE Inv'
<1>1. \A q \in Requests : pc[q] = "idle"
  BY DEF Start, Free
<1>2. CASE (\E g \in GoalIds, dto \in Edits : BeginEdit(r, g, dto)) \/ (\E part \in Part : BeginContribution(r, part))
  <2>1. \E stage \in {"edit", "insert"} : Goto(r, stage)
    BY <1>2 DEF BeginEdit, BeginContribution, ReadGoal
  <2>2. UNCHANGED bannerVars /\ DOMAIN task' = Requests /\ offer' = offer
    BY <1>2 DEF BeginEdit, BeginContribution, ReadGoal, Inv, Locals
  <2>3. Locals' /\ \A q \in Requests : pc'[q] \in {"idle", "edit", "insert"}
    BY <1>1, <2>1, <2>2 DEF Goto, Inv, Locals
  <2>4. Banner'
    BY <2>2 DEF bannerVars, Inv, Banner
  <2> QED
    BY <2>3, <2>4 DEF Inv, Allocates
<1>3. CASE \E parts \in Allocations : BeginAllocation(r, parts)
  <2>1. PICK parts \in Allocations : BeginAllocation(r, parts)
    BY <1>3
  <2>2. /\ UNCHANGED bannerVars /\ banner.shown /\ Total(parts) <= banner.amount + 1
        /\ pc' = [pc EXCEPT ![r] = "goals"] /\ task' = [task EXCEPT ![r] = parts]
        /\ offer' = [offer EXCEPT ![r] = banner.amount]
    BY <2>1 DEF BeginAllocation, Goto
  <2>3. Locals' /\ task'[r] = parts /\ offer'[r] = banner.amount /\ \A q \in Requests : q # r => pc'[q] = "idle"
    BY <1>1, <2>2 DEF Inv, Locals
  <2>4. Banner'
    BY <2>2 DEF bannerVars, Inv, Banner
  <2>5. \A q \in Requests : Allocates(q)'
    <3>1. Allocates(r)'
      <4>1. pc'[r] = "goals" /\ banner' = banner
        BY <2>2 DEF bannerVars, Inv, Locals
      <4> QED
        BY <2>2, <2>3, <4>1 DEF Allocates
    <3>2. \A q \in Requests : q # r => Allocates(q)'
      BY <2>3 DEF Allocates
    <3> QED
      BY <3>1, <3>2
  <2> QED
    BY <2>3, <2>4, <2>5 DEF Inv
<1>4. CASE \E a \in Offers : BeginAnnounce(r, a)
  <2>1. PICK a \in Offers : BeginAnnounce(r, a)
    BY <1>4
  <2>2. /\ banner' = [banner EXCEPT !.shown = FALSE] /\ UNCHANGED <<offered, allocated, task>>
        /\ pc' = [pc EXCEPT ![r] = "announce"] /\ offer' = [offer EXCEPT ![r] = a]
    BY <2>1 DEF BeginAnnounce, Goto
  <2>3. /\ Locals' /\ offer'[r] = a /\ pc'[r] = "announce"
        /\ \A q \in Requests : q # r => pc'[q] = "idle"
    BY <1>1, <2>2 DEF Inv, Locals
  <2>4. Banner'
    BY <2>2 DEF Inv, Banner
  <2>5. a \in Nat
    BY GoalsAssumption
  <2> QED
    BY <2>3, <2>4, <2>5 DEF Inv, Allocates
<1> QED
  BY <1>2, <1>3, <1>4 DEF Start

\* A period publishes a banner, the user dismisses it or changes a goal.
LEMMA UserInv == ASSUME Inv, ~Overlap, UserStep \/ \E g \in GoalIds : DeleteGoal(g) PROVE Inv'
<1>1. Free /\ UNCHANGED localVars
  BY DEF UserStep, CreateGoal, PublishBanner, DismissBanner, DeleteGoal
<1>2. Locals' /\ \A q \in Requests : pc'[q] = "idle"
  BY <1>1 DEF localVars, Free, Inv, Locals
<1>3. Banner'
  <2>1. CASE UNCHANGED bannerVars
    BY <2>1 DEF bannerVars, Inv, Banner
  <2>2. CASE \E a \in Offers : PublishBanner(a)
    BY <2>2, OfferInv, GoalsAssumption DEF PublishBanner
  <2>3. CASE DismissBanner
    BY <2>3 DEF DismissBanner, Inv, Banner
  <2> QED
    BY <2>1, <2>2, <2>3 DEF UserStep, CreateGoal, DeleteGoal
<1> QED
  BY <1>2, <1>3 DEF Inv, Allocates

\* Every step, and none at all, keeps the invariant.
LEMMA NextInv == ASSUME Inv, ~Overlap, [Next]_vars PROVE Inv'
<1>1. CASE UNCHANGED vars
  BY <1>1 DEF vars, bannerVars, localVars, Inv, Banner, Locals, Allocates
<1>2. ASSUME NEW r \in Requests, Start(r) \/ Step(r) \/ Crash(r)
      PROVE  Inv'
  BY <1>2, StartInv, GoalStepInv, CheckInv, AllocateInv, CreateBannerInv DEF Step
<1> QED
  BY <1>1, <1>2, UserInv DEF Next

(* One request at a time, the invariant holds throughout.                     *)
THEOREM GoalsInv == ASSUME ~Overlap PROVE Spec => []Inv
<1>1. Init => Inv
  BY InitInv
<1>2. Inv /\ [Next]_vars => Inv'
  BY NextInv
<1> QED
  BY <1>1, <1>2, PTL DEF Spec

(* One request at a time, any number of allocations of one banner together    *)
(* take a cent more than it offered at most: the cents do not add up.         *)
THEOREM BannerNotOverdrawn == ASSUME ~Overlap PROVE Spec => []AllocatedWithinOffer
<1>1. Inv => AllocatedWithinOffer
  BY DEF Inv, Banner, AllocatedWithinOffer
<1> QED
  BY <1>1, GoalsInv, PTL

(* One request at a time, the banner shows what is left of its offer.         *)
THEOREM BannerShowsRest == ASSUME ~Overlap PROVE Spec => []BannerTracksRest
<1>1. Inv => BannerTracksRest
  BY DEF Inv, Banner, BannerTracksRest
<1> QED
  BY <1>1, GoalsInv, PTL

-------------------------------------------------------------------------------
(* An allocation of one part or two, in the table of goals and among the      *)
(* contributions.                                                             *)

\* The non-empty sets of indices of two parts, and what the fold of the library
\* does with each.
LEMMA Indices ==
  ASSUME NEW s \in SUBSET {1, 2}
  PROVE  \/ s = {}
         \/ s = {1} /\ s # {} /\ Max(s) = 1 /\ s \ {Max(s)} = {}
         \/ s = {2} /\ s # {} /\ s # {1} /\ Max(s) = 2 /\ s \ {Max(s)} = {}
         \/ s = {1, 2} /\ s # {} /\ s # {1} /\ s # {2} /\ Max(s) = 2 /\ s \ {Max(s)} = {1}
<1>1. s = {} \/ s = {1} \/ s = {2} \/ s = {1, 2}
  OBVIOUS
<1>2. CASE s = {1}
  BY <1>2, LastIndex
<1>3. CASE s = {2}
  BY <1>3, LastIndex
<1>4. CASE s = {1, 2}
  BY <1>4, LastIndex
<1> QED
  BY <1>1, <1>2, <1>3, <1>4

\* tables[s] is the table of goals with the parts that have an index in s.
AddsTo(table, rows, parts, tables) ==
    tables = [s \in SUBSET DOMAIN parts |->
                 IF s = {} THEN table
                 ELSE LET i == Max(s) IN AddTo(tables[s \ {i}], rows, parts[i])]

\* records[s]: the same for the contributions.
Records(table, parts, records) ==
    records = [s \in SUBSET DOMAIN parts |->
                  IF s = {} THEN table
                  ELSE LET i == Max(s) IN Record(records[s \ {i}], parts[i])]

\* The two tables, as the library defines its fold.
LEMMA AddingUnfolds ==
  ASSUME NEW table, NEW rows, NEW parts
  PROVE  AddAll(table, rows, parts)
           = (CHOOSE tables : AddsTo(table, rows, parts, tables))[DOMAIN parts]
  BY DEF AddAll, FoldLeft, MapThenFoldSet, AddsTo

LEMMA RecordingUnfolds ==
  ASSUME NEW table, NEW parts
  PROVE  RecordAll(table, parts)
           = (CHOOSE records : Records(table, parts, records))[DOMAIN parts]
  BY DEF RecordAll, FoldLeft, MapThenFoldSet, Records

\* The table of goals after one part, and after two.
LEMMA AddedOne ==
  ASSUME NEW table, NEW rows, NEW parts, DOMAIN parts = {1}
  PROVE  AddAll(table, rows, parts) = AddTo(table, rows, parts[1])
<1> DEFINE tables == [s \in SUBSET {1} |-> IF s = {} THEN table ELSE AddTo(table, rows, parts[1])]
<1>1. AddsTo(table, rows, parts, tables)
  <2>1. /\ tables[{}] = table /\ tables[{1}] = AddTo(table, rows, parts[1])
        /\ tables = [s \in SUBSET {1} |-> tables[s]]
    OBVIOUS
  <2> HIDE DEF tables
  <2>2. ASSUME NEW s \in SUBSET {1}
        PROVE  tables[s] = IF s = {} THEN table ELSE AddTo(tables[s \ {Max(s)}], rows, parts[Max(s)])
    <3>1. s = {} \/ (s = {1} /\ s # {} /\ Max(s) = 1 /\ s \ {Max(s)} = {})
      BY Indices
    <3> QED
      BY <2>1, <3>1
  <2> QED
    BY <2>1, <2>2 DEF AddsTo
<1> HIDE DEF tables
<1> DEFINE chosen == CHOOSE any : AddsTo(table, rows, parts, any)
<1>2. AddsTo(table, rows, parts, chosen)
  BY <1>1
<1>3. AddAll(table, rows, parts) = chosen[{1}]
  BY AddingUnfolds
<1> HIDE DEF chosen
<1>4. \A s \in SUBSET {1} :
          chosen[s] = IF s = {} THEN table ELSE AddTo(chosen[s \ {Max(s)}], rows, parts[Max(s)])
  BY <1>2 DEF AddsTo
<1>5. chosen[{}] = table
  BY <1>4
<1>6. Max({1}) = 1 /\ {1} \ {1} = {} /\ {1} # {}
  BY LastIndex
<1> QED
  BY <1>3, <1>4, <1>5, <1>6

LEMMA AddedTwo ==
  ASSUME NEW table, NEW rows, NEW parts, DOMAIN parts = {1, 2}
  PROVE  AddAll(table, rows, parts) = AddTo(AddTo(table, rows, parts[1]), rows, parts[2])
<1> DEFINE tables == [s \in SUBSET {1, 2} |->
                         IF s = {} THEN table
                         ELSE IF s = {1} THEN AddTo(table, rows, parts[1])
                         ELSE IF s = {2} THEN AddTo(table, rows, parts[2])
                         ELSE AddTo(AddTo(table, rows, parts[1]), rows, parts[2])]
<1>1. AddsTo(table, rows, parts, tables)
  <2>1. /\ tables[{}] = table /\ tables[{1}] = AddTo(table, rows, parts[1])
        /\ tables[{2}] = AddTo(table, rows, parts[2])
        /\ tables[{1, 2}] = AddTo(AddTo(table, rows, parts[1]), rows, parts[2])
        /\ tables = [s \in SUBSET {1, 2} |-> tables[s]]
    OBVIOUS
  <2> HIDE DEF tables
  <2>2. ASSUME NEW s \in SUBSET {1, 2}
        PROVE  tables[s] = IF s = {} THEN table ELSE AddTo(tables[s \ {Max(s)}], rows, parts[Max(s)])
    BY <2>1, Indices
  <2> QED
    BY <2>1, <2>2 DEF AddsTo
<1> HIDE DEF tables
<1> DEFINE chosen == CHOOSE any : AddsTo(table, rows, parts, any)
<1>2. AddsTo(table, rows, parts, chosen)
  BY <1>1
<1>3. AddAll(table, rows, parts) = chosen[{1, 2}]
  BY AddingUnfolds
<1> HIDE DEF chosen
<1>4. \A s \in SUBSET {1, 2} :
          chosen[s] = IF s = {} THEN table ELSE AddTo(chosen[s \ {Max(s)}], rows, parts[Max(s)])
  BY <1>2 DEF AddsTo
<1>5. chosen[{}] = table
  BY <1>4
<1>6. chosen[{1}] = AddTo(table, rows, parts[1])
  <2>1. Max({1}) = 1 /\ {1} \ {1} = {} /\ {1} # {}
    BY LastIndex
  <2> QED
    BY <1>4, <1>5, <2>1
<1>7. Max({1, 2}) = 2 /\ {1, 2} \ {2} = {1} /\ {1, 2} # {}
  BY LastIndex
<1>8. chosen[{1, 2}] = AddTo(chosen[{1, 2} \ {2}], rows, parts[2])
  BY <1>4, <1>7
<1> QED
  BY <1>3, <1>6, <1>7, <1>8

\* The contributions after one part, and after two.
LEMMA RecordedOne ==
  ASSUME NEW table, NEW parts, DOMAIN parts = {1}
  PROVE  RecordAll(table, parts) = Record(table, parts[1])
<1> DEFINE records == [s \in SUBSET {1} |-> IF s = {} THEN table ELSE Record(table, parts[1])]
<1>1. Records(table, parts, records)
  <2>1. /\ records[{}] = table /\ records[{1}] = Record(table, parts[1])
        /\ records = [s \in SUBSET {1} |-> records[s]]
    OBVIOUS
  <2> HIDE DEF records
  <2>2. ASSUME NEW s \in SUBSET {1}
        PROVE  records[s] = IF s = {} THEN table ELSE Record(records[s \ {Max(s)}], parts[Max(s)])
    <3>1. s = {} \/ (s = {1} /\ s # {} /\ Max(s) = 1 /\ s \ {Max(s)} = {})
      BY Indices
    <3> QED
      BY <2>1, <3>1
  <2> QED
    BY <2>1, <2>2 DEF Records
<1> HIDE DEF records
<1> DEFINE chosen == CHOOSE any : Records(table, parts, any)
<1>2. Records(table, parts, chosen)
  BY <1>1
<1>3. RecordAll(table, parts) = chosen[{1}]
  BY RecordingUnfolds
<1> HIDE DEF chosen
<1>4. \A s \in SUBSET {1} :
          chosen[s] = IF s = {} THEN table ELSE Record(chosen[s \ {Max(s)}], parts[Max(s)])
  BY <1>2 DEF Records
<1>5. chosen[{}] = table
  BY <1>4
<1>6. Max({1}) = 1 /\ {1} \ {1} = {} /\ {1} # {}
  BY LastIndex
<1> QED
  BY <1>3, <1>4, <1>5, <1>6

LEMMA RecordedTwo ==
  ASSUME NEW table, NEW parts, DOMAIN parts = {1, 2}
  PROVE  RecordAll(table, parts) = Record(Record(table, parts[1]), parts[2])
<1> DEFINE records == [s \in SUBSET {1, 2} |->
                          IF s = {} THEN table
                          ELSE IF s = {1} THEN Record(table, parts[1])
                          ELSE IF s = {2} THEN Record(table, parts[2])
                          ELSE Record(Record(table, parts[1]), parts[2])]
<1>1. Records(table, parts, records)
  <2>1. /\ records[{}] = table /\ records[{1}] = Record(table, parts[1])
        /\ records[{2}] = Record(table, parts[2])
        /\ records[{1, 2}] = Record(Record(table, parts[1]), parts[2])
        /\ records = [s \in SUBSET {1, 2} |-> records[s]]
    OBVIOUS
  <2> HIDE DEF records
  <2>2. ASSUME NEW s \in SUBSET {1, 2}
        PROVE  records[s] = IF s = {} THEN table ELSE Record(records[s \ {Max(s)}], parts[Max(s)])
    BY <2>1, Indices
  <2> QED
    BY <2>1, <2>2 DEF Records
<1> HIDE DEF records
<1> DEFINE chosen == CHOOSE any : Records(table, parts, any)
<1>2. Records(table, parts, chosen)
  BY <1>1
<1>3. RecordAll(table, parts) = chosen[{1, 2}]
  BY RecordingUnfolds
<1> HIDE DEF chosen
<1>4. \A s \in SUBSET {1, 2} :
          chosen[s] = IF s = {} THEN table ELSE Record(chosen[s \ {Max(s)}], parts[Max(s)])
  BY <1>2 DEF Records
<1>5. chosen[{}] = table
  BY <1>4
<1>6. chosen[{1}] = Record(table, parts[1])
  <2>1. Max({1}) = 1 /\ {1} \ {1} = {} /\ {1} # {}
    BY LastIndex
  <2> QED
    BY <1>4, <1>5, <2>1
<1>7. Max({1, 2}) = 2 /\ {1, 2} \ {2} = {1} /\ {1, 2} # {}
  BY LastIndex
<1>8. chosen[{1, 2}] = Record(chosen[{1, 2} \ {2}], parts[2])
  BY <1>4, <1>7
<1> QED
  BY <1>3, <1>6, <1>7, <1>8

\* What a contribution makes of a goal's amount is what its record makes of it.
LEMMA ProgressIsRecorded ==
  ASSUME NEW row, NEW part
  PROVE  Progress(row, part).current = Recorded(row.current, part)
  BY DEF Progress, Recorded

LEMMA UpdatedRow ==
  ASSUME NEW row, "current" \in DOMAIN row, NEW data
  PROVE  Updated(row, data).current = data.current /\ "current" \in DOMAIN Updated(row, data)
  BY DEF Updated

\* A part changes the row of its goal, and no other.
LEMMA AddToRow ==
  ASSUME NEW table, NEW rows, NEW part, DOMAIN table = GoalIds, part.goal \in GoalIds,
         "current" \in DOMAIN table[part.goal]
  PROVE  /\ DOMAIN AddTo(table, rows, part) = GoalIds
         /\ \A g \in GoalIds : g # part.goal => AddTo(table, rows, part)[g] = table[g]
         /\ AddTo(table, rows, part)[part.goal].current = Recorded(rows[part.goal].current, part)
         /\ "current" \in DOMAIN AddTo(table, rows, part)[part.goal]
<1> DEFINE g == part.goal
           row == Updated(table[g], Progress(rows[g], part))
<1>1. row.current = Recorded(rows[g].current, part) /\ "current" \in DOMAIN row
  BY UpdatedRow, ProgressIsRecorded
<1>2. AddTo(table, rows, part) = [table EXCEPT ![g] = row]
  BY DEF AddTo
<1> HIDE DEF row
<1> QED
  BY <1>1, <1>2

LEMMA RecordRow ==
  ASSUME NEW table, NEW part, DOMAIN table = GoalIds, part.goal \in GoalIds
  PROVE  /\ DOMAIN Record(table, part) = GoalIds
         /\ \A g \in GoalIds : g # part.goal => Record(table, part)[g] = table[g]
         /\ Record(table, part)[part.goal] = Recorded(table[part.goal], part)
  BY DEF Record

\* The tables after an allocation to goals that are as they were read.
Kept(table, sums, added, recorded, g) == added[g] = table[g] /\ recorded[g] = sums[g]
Grown(table, sums, added, recorded, part) ==
    /\ added[part.goal].current = Recorded(table[part.goal].current, part)
    /\ "current" \in DOMAIN added[part.goal]
    /\ recorded[part.goal] = Recorded(sums[part.goal], part)

\* An allocation to different goals adds to each what it records for it, and
\* leaves the others as they are.
LEMMA AllocationAddsUp ==
  ASSUME NEW table, NEW sums, NEW rows, NEW parts \in Allocations, ~SameGoalTwice,
         DOMAIN table = GoalIds, DOMAIN sums = GoalIds,
         \A g \in GoalIds : "current" \in DOMAIN table[g],
         \A i \in DOMAIN parts : rows[parts[i].goal] = table[parts[i].goal]
  PROVE  LET added    == AddAll(table, rows, parts)
             recorded == RecordAll(sums, parts)
         IN  /\ DOMAIN added = GoalIds /\ DOMAIN recorded = GoalIds
             /\ \A g \in GoalIds :
                   \/ Kept(table, sums, added, recorded, g)
                   \/ \E i \in DOMAIN parts : parts[i].goal = g /\ Grown(table, sums, added, recorded, parts[i])
<1> DEFINE added    == AddAll(table, rows, parts)
           recorded == RecordAll(sums, parts)
           Single   == [goal : GoalIds, amount : Amounts, withdraw : {FALSE}]
<1>1. \A a \in Single : a.goal \in GoalIds
  OBVIOUS
<1>2. \/ \E a \in Single : parts = <<a>>
      \/ \E a, b \in Single : parts = <<a, b>> /\ a.goal # b.goal
  <2>1. \/ \E a \in Single : parts = <<a>>
        \/ parts \in Single \X Single /\ parts[1].goal # parts[2].goal
    BY DEF Allocations
  <2> HIDE DEF Single
  <2> QED
    BY <2>1
<1> HIDE DEF Single
<1>3. CASE \E a \in Single : parts = <<a>>
  <2>1. PICK a \in Single : parts = <<a>>
    BY <1>3
  <2>2. DOMAIN parts = {1} /\ parts[1] = a /\ a.goal \in GoalIds
    BY <1>1, <2>1
  <2>3. added = AddTo(table, rows, a) /\ recorded = Record(sums, a)
    BY <2>2, AddedOne, RecordedOne
  <2>4. rows[a.goal] = table[a.goal]
    BY <2>2
  <2>5. /\ DOMAIN added = GoalIds /\ DOMAIN recorded = GoalIds
        /\ \A g \in GoalIds : g # a.goal => added[g] = table[g] /\ recorded[g] = sums[g]
        /\ added[a.goal].current = Recorded(table[a.goal].current, a)
        /\ "current" \in DOMAIN added[a.goal]
        /\ recorded[a.goal] = Recorded(sums[a.goal], a)
    BY <2>2, <2>3, <2>4, AddToRow, RecordRow
  <2> HIDE DEF added, recorded
  <2>6. Grown(table, sums, added, recorded, a)
    BY <2>5 DEF Grown
  <2>7. \A g \in GoalIds : g # a.goal => Kept(table, sums, added, recorded, g)
    BY <2>5 DEF Kept
  <2>8. /\ DOMAIN added = GoalIds /\ DOMAIN recorded = GoalIds
        /\ \A g \in GoalIds :
              \/ Kept(table, sums, added, recorded, g)
              \/ \E i \in DOMAIN parts : parts[i].goal = g /\ Grown(table, sums, added, recorded, parts[i])
    BY <2>2, <2>5, <2>6, <2>7
  <2> QED
    BY <2>8 DEF added, recorded
<1>4. CASE \E a, b \in Single : parts = <<a, b>> /\ a.goal # b.goal
  <2>1. PICK a \in Single, b \in Single : parts = <<a, b>> /\ a.goal # b.goal
    BY <1>4
  <2>2. /\ DOMAIN parts = {1, 2} /\ parts[1] = a /\ parts[2] = b
        /\ a.goal \in GoalIds /\ b.goal \in GoalIds
    BY <1>1, <2>1
  <2> DEFINE half == AddTo(table, rows, a)
             first == Record(sums, a)
  <2>3. added = AddTo(half, rows, b) /\ recorded = Record(first, b)
    BY <2>2, AddedTwo, RecordedTwo
  <2>4. rows[a.goal] = table[a.goal] /\ rows[b.goal] = table[b.goal]
    BY <2>2
  <2>5. /\ DOMAIN half = GoalIds /\ DOMAIN first = GoalIds
        /\ \A g \in GoalIds : g # a.goal => half[g] = table[g] /\ first[g] = sums[g]
        /\ half[a.goal].current = Recorded(table[a.goal].current, a)
        /\ "current" \in DOMAIN half[a.goal]
        /\ first[a.goal] = Recorded(sums[a.goal], a)
    BY <2>2, <2>4, AddToRow, RecordRow
  <2> HIDE DEF half, first
  <2>6. "current" \in DOMAIN half[b.goal]
    BY <2>1, <2>2, <2>5
  <2>7. /\ DOMAIN added = GoalIds /\ DOMAIN recorded = GoalIds
        /\ \A g \in GoalIds : g # b.goal => added[g] = half[g] /\ recorded[g] = first[g]
        /\ added[b.goal].current = Recorded(table[b.goal].current, b)
        /\ "current" \in DOMAIN added[b.goal]
        /\ recorded[b.goal] = Recorded(first[b.goal], b)
    BY <2>2, <2>3, <2>4, <2>5, <2>6, AddToRow, RecordRow
  <2> HIDE DEF added, recorded
  <2>8. Grown(table, sums, added, recorded, a)
    BY <2>1, <2>2, <2>5, <2>7 DEF Grown
  <2>9. Grown(table, sums, added, recorded, b)
    BY <2>1, <2>2, <2>5, <2>7 DEF Grown
  <2>10. \A g \in GoalIds : g # a.goal /\ g # b.goal => Kept(table, sums, added, recorded, g)
    BY <2>5, <2>7 DEF Kept
  <2>11. /\ DOMAIN added = GoalIds /\ DOMAIN recorded = GoalIds
         /\ \A g \in GoalIds :
               \/ Kept(table, sums, added, recorded, g)
               \/ \E i \in DOMAIN parts : parts[i].goal = g /\ Grown(table, sums, added, recorded, parts[i])
    BY <2>2, <2>7, <2>8, <2>9, <2>10
  <2> QED
    BY <2>11 DEF added, recorded
<1> QED
  BY <1>2, <1>3, <1>4

-------------------------------------------------------------------------------
(* A goal and its contributions.                                              *)

TableRows ==
    /\ DOMAIN goal = GoalIds /\ DOMAIN saved = GoalIds /\ crashes \in Nat
    /\ \A g \in GoalIds : "current" \in DOMAIN goal[g]

LocalRows ==
    /\ DOMAIN seen = Requests /\ DOMAIN checked = Requests
    /\ \A r \in Requests : DOMAIN seen[r] = GoalIds

\* The row is as the request read it.
AsRead(r, g) == g \in GoalIds /\ Live(g) /\ seen[r][g] = goal[g]

\* What a request has read by its stage is as it was.
Reads(r) ==
    /\ pc[r] \in {"insert", "progress"} => AsRead(r, task[r][1].goal)
    /\ pc[r] = "edit" => task[r][1].goal \in GoalIds
    /\ pc[r] = "goals" => /\ checked[r] \in 0 .. Len(task[r]) - 1
                          /\ \A i \in 1 .. checked[r] : AsRead(r, task[r][i].goal)
    /\ pc[r] = "allocate" => \A i \in DOMAIN task[r] : AsRead(r, task[r][i].goal)

\* The contribution to g is recorded, its goal not yet updated.
Pending(r, g) == pc[r] = "progress" /\ task[r][1].goal = g

\* As long as no request has died, only a pending contribution stands between
\* a goal and its contributions.
Sums(g) ==
    crashes = 0 /\ Live(g) =>
        /\ \A r \in Requests : Pending(r, g) => saved[g] = Recorded(goal[g].current, task[r][1])
        /\ (\A r \in Requests : ~Pending(r, g)) => goal[g].current = saved[g]

\* A request has checked a goal only if it allocates.
Unchecked == \A r \in Requests : pc[r] \notin {"goals", "allocate"} => checked[r] = 0

Even == TableRows /\ LocalRows /\ Unchecked /\ (\A r \in Requests : Reads(r)) /\ \A g \in GoalIds : Sums(g)

\* At the start no goal exists.
LEMMA InitEven == ASSUME Init PROVE Even
<1>1. TableRows
  BY DEF Init, TableRows, NewGoal
<1>2. LocalRows
  BY DEF Init, LocalRows
<1>3. \A r \in Requests : Reads(r)
  BY DEF Init, Reads
<1>4. \A g \in GoalIds : goal[g].status = "new"
  BY DEF Init, NewGoal
<1>5. \A g \in GoalIds : Sums(g)
  BY <1>4 DEF Sums, Live
<1>6. Unchecked
  BY DEF Init, Unchecked
<1> QED
  BY <1>1, <1>2, <1>3, <1>5, <1>6 DEF Even

\* While a request is at another stage, goals and contributions agree.
LEMMA NonePending ==
  ASSUME Inv, Even, NEW r \in Requests, pc[r] \notin {"idle", "progress"}
  PROVE  \A g \in GoalIds : crashes = 0 /\ Live(g) => goal[g].current = saved[g]
<1>1. \A q \in Requests : pc[q] # "progress"
  BY DEF Inv, Locals
<1> QED
  BY <1>1 DEF Even, Sums, Pending

\* So they do when no request is in progress.
LEMMA NoneRunning ==
  ASSUME Even, \A q \in Requests : pc[q] = "idle"
  PROVE  \A g \in GoalIds : crashes = 0 /\ Live(g) => goal[g].current = saved[g]
  BY DEF Even, Sums, Pending

\* A request that is over has read nothing and has nothing pending.
LEMMA ReturnEven ==
  ASSUME Inv, Even, NEW r \in Requests, NEW stage \in {"idle", "complete"}, ReturnTo(r, stage),
         pc[r] # "idle", TableRows',
         \A g \in GoalIds : crashes' = 0 /\ Live(g)' => goal'[g].current = saved'[g]
  PROVE  Even'
<1>1. \A q \in Requests : pc'[q] \in {"idle", "complete"}
  BY ReturnInv
<1>2. LocalRows'
  BY DEF ReturnTo, Even, LocalRows
<1>3. \A q \in Requests : Reads(q)'
  BY <1>1 DEF Reads
<1>4. \A g \in GoalIds : Sums(g)'
  BY <1>1 DEF Sums, Pending
<1>5. Unchecked'
  <2>1. \A q \in Requests : q # r => pc[q] = "idle" /\ checked[q] = 0
    BY DEF Inv, Locals, Even, Unchecked
  <2>2. \A q \in Requests : checked'[q] = IF q = r THEN 0 ELSE checked[q]
    BY DEF ReturnTo, Even, LocalRows
  <2> QED
    BY <2>1, <2>2 DEF Unchecked
<1> QED
  BY <1>2, <1>3, <1>4, <1>5 DEF Even

\* An edit writes the amount it enters, and no other.
LEMMA WrittenRow ==
  ASSUME NEW row, "current" \in DOMAIN row, NEW data
  PROVE  /\ "current" \in DOMAIN Written(row, data)
         /\ Written(row, data).current = IF Sent(data, "current") THEN data.current ELSE row.current
  BY DEF Written

\* An edit that enters an amount starts the sum anew.
LEMMA WriteEditEven == ASSUME Inv, Even, NEW r \in Requests, WriteEdit(r) PROVE Even'
<1>1. pc[r] = "edit" /\ Finish(r) /\ crashes' = crashes
  BY DEF WriteEdit
<1>2. \A g \in GoalIds : crashes = 0 /\ Live(g) => goal[g].current = saved[g]
  BY <1>1, NonePending
<1> PICK n : n = task[r][1].goal
  OBVIOUS
<1>3. CASE ~Live(n)
  <2>1. UNCHANGED <<goal, saved>>
    BY <1>3 DEF WriteEdit
  <2>2. TableRows'
    BY <1>1, <2>1 DEF Even, TableRows
  <2>3. \A g \in GoalIds : crashes' = 0 /\ Live(g)' => goal'[g].current = saved'[g]
    BY <1>1, <1>2, <2>1 DEF Live
  <2> QED
    BY <1>1, <2>2, <2>3, ReturnEven DEF Finish
<1>4. CASE Live(n)
  <2> DEFINE row == Written(goal[n], change[r])
  <2>1. /\ goal' = [goal EXCEPT ![n] = row]
        /\ saved' = IF Sent(change[r], "current") THEN [saved EXCEPT ![n] = change[r].current] ELSE saved
    BY <1>4 DEF WriteEdit
  <2>2. n \in GoalIds /\ "current" \in DOMAIN goal[n] /\ DOMAIN goal = GoalIds /\ DOMAIN saved = GoalIds
    BY <1>4 DEF Live, Even, TableRows
  <2>3. /\ "current" \in DOMAIN row
        /\ row.current = IF Sent(change[r], "current") THEN change[r].current ELSE goal[n].current
    BY <2>2, WrittenRow
  <2> HIDE DEF row
  <2>4. TableRows'
    BY <1>1, <2>1, <2>2, <2>3 DEF Even, TableRows
  <2>5. crashes = 0 => goal'[n].current = saved'[n]
    BY <1>2, <1>4, <2>1, <2>2, <2>3
  <2>6. \A g \in GoalIds : g # n => goal'[g] = goal[g] /\ saved'[g] = saved[g]
    BY <2>1, <2>2
  <2>7. \A g \in GoalIds : crashes' = 0 /\ Live(g)' => goal'[g].current = saved'[g]
    BY <1>1, <1>2, <2>5, <2>6 DEF Live
  <2> QED
    BY <1>1, <2>4, <2>7, ReturnEven DEF Finish
<1> QED
  BY <1>3, <1>4

\* Recording a contribution leaves its goal behind by it.
LEMMA InsertEven == ASSUME Inv, Even, NEW r \in Requests, InsertContribution(r) PROVE Even'
<1> PICK part, n : part = task[r][1] /\ n = part.goal
  OBVIOUS
<1>1. pc[r] = "insert" /\ UNCHANGED <<goal, crashes>>
  BY DEF InsertContribution, goalVars
<1>2. \A g \in GoalIds : crashes = 0 /\ Live(g) => goal[g].current = saved[g]
  BY <1>1, NonePending
<1>3. AsRead(r, n)
  BY <1>1 DEF Even, Reads
<1>4. n \in GoalIds /\ Live(n)
  BY <1>3 DEF AsRead
<1>5. /\ saved' = [saved EXCEPT ![n] = Recorded(saved[n], part)] /\ Goto(r, "progress")
      /\ UNCHANGED <<seen, task, checked>>
  BY <1>4 DEF InsertContribution
<1>6. /\ DOMAIN saved' = GoalIds /\ saved'[n] = Recorded(saved[n], part)
      /\ \A g \in GoalIds : g # n => saved'[g] = saved[g]
  BY <1>4, <1>5 DEF Even, TableRows
<1>7. pc'[r] = "progress" /\ \A q \in Requests : q # r => pc'[q] = "idle"
  BY <1>1, <1>5 DEF Goto, Inv, Locals
<1>8. TableRows' /\ LocalRows'
  BY <1>1, <1>5, <1>6 DEF Even, TableRows, LocalRows
<1>9. AsRead(r, n)'
  BY <1>1, <1>3, <1>5 DEF AsRead, Live
<1>10. \A q \in Requests : Reads(q)'
  <2>1. Reads(r)'
    <3>1. task'[r][1].goal = n
      BY <1>5
    <3> QED
      BY <1>7, <1>9, <3>1 DEF Reads
  <2>2. \A q \in Requests : q # r => Reads(q)'
    BY <1>7 DEF Reads
  <2> QED
    BY <2>1, <2>2
<1>11. Sums(n)'
  <2>1. crashes = 0 => saved'[n] = Recorded(goal[n].current, part)
    BY <1>2, <1>4, <1>6
  <2>2. Pending(r, n)'
    BY <1>5, <1>7 DEF Pending
  <2>3. \A q \in Requests : Pending(q, n)' => q = r
    BY <1>7 DEF Pending
  <2>4. \A q \in Requests : crashes' = 0 /\ Pending(q, n)' => saved'[n] = Recorded(goal'[n].current, task'[q][1])
    BY <1>1, <1>5, <2>1, <2>3
  <2> QED
    BY <2>2, <2>4 DEF Sums
<1>12. \A g \in GoalIds : g # n => Sums(g)'
  <2>1. \A q \in Requests, g \in GoalIds : g # n => ~Pending(q, g)'
    BY <1>5, <1>7 DEF Pending
  <2>2. \A g \in GoalIds : g # n => saved'[g] = saved[g] /\ goal'[g] = goal[g]
    BY <1>1, <1>6
  <2>3. \A g \in GoalIds : g # n /\ crashes' = 0 /\ Live(g)' => goal'[g].current = saved'[g]
    BY <1>1, <1>2, <2>2 DEF Live
  <2> QED
    BY <2>1, <2>3 DEF Sums
<1>13. Unchecked'
  <2>1. \A q \in Requests : checked[q] = 0
    BY <1>1 DEF Inv, Locals, Even, Unchecked
  <2> QED
    BY <1>5, <2>1 DEF Unchecked
<1> QED
  BY <1>8, <1>10, <1>11, <1>12, <1>13 DEF Even

\* Updating the goal catches up with what was recorded.
LEMMA WriteProgressEven == ASSUME Inv, Even, NEW r \in Requests, WriteProgress(r) PROVE Even'
<1> PICK part, n : part = task[r][1] /\ n = part.goal
  OBVIOUS
<1> DEFINE row == Updated(goal[n], Progress(seen[r][n], part))
<1>1. pc[r] = "progress" /\ UNCHANGED <<saved, crashes>>
  BY DEF WriteProgress
<1>2. AsRead(r, n)
  BY <1>1 DEF Even, Reads
<1>3. n \in GoalIds /\ Live(n) /\ seen[r][n] = goal[n]
  BY <1>2 DEF AsRead
<1>4. goal' = [goal EXCEPT ![n] = row] /\ \E stage \in {"idle", "complete"} : ReturnTo(r, stage)
  BY <1>3 DEF WriteProgress
<1>5. row.current = Recorded(goal[n].current, part) /\ "current" \in DOMAIN row
  BY <1>3, UpdatedRow, ProgressIsRecorded DEF Even, TableRows
<1>6. Pending(r, n) /\ \A q \in Requests, g \in GoalIds : g # n => ~Pending(q, g)
  BY <1>1 DEF Pending, Inv, Locals
<1>7. crashes = 0 => saved[n] = Recorded(goal[n].current, part)
  BY <1>3, <1>6 DEF Even, Sums
<1>8. \A g \in GoalIds : g # n /\ crashes = 0 /\ Live(g) => goal[g].current = saved[g]
  BY <1>6 DEF Even, Sums
<1> HIDE DEF row
<1>9. TableRows' /\ goal'[n] = row /\ \A g \in GoalIds : g # n => goal'[g] = goal[g]
  BY <1>1, <1>3, <1>4, <1>5 DEF Even, TableRows
<1>10. \A g \in GoalIds : crashes' = 0 /\ Live(g)' => goal'[g].current = saved'[g]
  BY <1>1, <1>5, <1>7, <1>8, <1>9 DEF Live
<1> QED
  BY <1>1, <1>4, <1>9, <1>10, ReturnEven

\* An allocation has at least one part.
LEMMA AllocationLength ==
  ASSUME NEW parts \in Allocations
  PROVE  Len(parts) \in Nat \ {0} /\ DOMAIN parts = 1 .. Len(parts)
<1> DEFINE Single == [goal : GoalIds, amount : Amounts, withdraw : {FALSE}]
<1>1. (\E a \in Single : parts = <<a>>) \/ (\E a, b \in Single : parts = <<a, b>>)
  <2>1. (\E a \in Single : parts = <<a>>) \/ parts \in Single \X Single
    BY DEF Allocations
  <2> HIDE DEF Single
  <2> QED
    BY <2>1
<1> HIDE DEF Single
<1> QED
  BY <1>1

\* Every goal of an allocation is read before anything is written.
LEMMA CheckEven == ASSUME Inv, Even, NEW r \in Requests, CheckGoal(r) PROVE Even'
<1>1. pc[r] = "goals" /\ UNCHANGED <<goal, saved, crashes>>
  BY DEF CheckGoal, goalVars
<1>2. \A g \in GoalIds : crashes = 0 /\ Live(g) => goal[g].current = saved[g]
  BY <1>1, NonePending
<1>3. \A g \in GoalIds : crashes' = 0 /\ Live(g)' => goal'[g].current = saved'[g]
  BY <1>1, <1>2 DEF Live
<1>4. TableRows'
  BY <1>1 DEF Even, TableRows
<1>5. CASE Finish(r)
  BY <1>1, <1>3, <1>4, <1>5, ReturnEven DEF Finish
<1>6. CASE ~Finish(r)
  <2> PICK n, m, g, stage : /\ n = checked[r] + 1 /\ m = Len(task[r]) /\ g = task[r][n].goal
                            /\ stage = IF n = m THEN "allocate" ELSE "goals"
    OBVIOUS
  <2>1. /\ Live(g) /\ Goto(r, stage) /\ UNCHANGED task
        /\ seen' = [seen EXCEPT ![r][g] = goal[g]] /\ checked' = [checked EXCEPT ![r] = n]
    BY <1>6 DEF CheckGoal, Open
  <2>2. g \in GoalIds
    BY <2>1 DEF Live
  <2>3. /\ checked[r] \in 0 .. m - 1
        /\ \A i \in 1 .. checked[r] : AsRead(r, task[r][i].goal)
        /\ task[r] \in Allocations
    BY <1>1 DEF Even, Reads, Inv, Allocates
  <2>4. DOMAIN task[r] = 1 .. m /\ m \in Nat
    BY <2>3, AllocationLength
  <2>5. LocalRows' /\ seen'[r][g] = goal[g] /\ checked'[r] = n
        /\ \A h \in GoalIds : h # g => seen'[r][h] = seen[r][h]
    BY <2>1, <2>2 DEF Even, LocalRows
  <2>6. AsRead(r, g)'
    BY <1>1, <2>1, <2>2, <2>5 DEF AsRead, Live
  <2>7. \A i \in 1 .. n : AsRead(r, task[r][i].goal)'
    <3> TAKE i \in 1 .. n
    <3> PICK h : h = task[r][i].goal
      OBVIOUS
    <3>1. CASE h = g
      BY <1>1, <2>1, <2>2, <2>5, <3>1 DEF AsRead, Live
    <3>2. CASE h # g
      <4>1. i \in 1 .. checked[r]
        BY <2>3, <2>4, <3>2
      <4>2. AsRead(r, h)
        BY <2>3, <4>1
      <4> QED
        BY <1>1, <2>1, <2>5, <3>2, <4>2 DEF AsRead, Live
    <3> QED
      BY <3>1, <3>2
  <2>8. pc'[r] = stage /\ \A q \in Requests : q # r => pc'[q] = "idle"
    BY <1>1, <2>1 DEF Goto, Inv, Locals
  <2>9. \A q \in Requests : Reads(q)'
    <3>1. Reads(r)'
      <4>1. n = m => \A i \in DOMAIN task'[r] : AsRead(r, task[r][i].goal)'
        BY <2>1, <2>4, <2>7
      <4>2. n # m => n \in 0 .. m - 1
        BY <2>3, <2>4
      <4> QED
        BY <2>1, <2>5, <2>7, <2>8, <4>1, <4>2 DEF Reads
    <3>2. \A q \in Requests : q # r => Reads(q)'
      BY <2>8 DEF Reads
    <3> QED
      BY <3>1, <3>2
  <2>10. \A h \in GoalIds : Sums(h)'
    BY <1>3, <2>8 DEF Sums, Pending
  <2>11. Unchecked'
    <3>1. \A q \in Requests : q # r => checked'[q] = 0
      <4>1. \A q \in Requests : q # r => pc[q] = "idle"
        BY <1>1 DEF Inv, Locals
      <4> QED
        BY <2>1, <4>1 DEF Even, LocalRows, Unchecked
    <3> QED
      BY <2>8, <3>1 DEF Unchecked
  <2> QED
    BY <1>4, <2>5, <2>9, <2>10, <2>11 DEF Even
<1> QED
  BY <1>5, <1>6

\* An allocation adds to each of its goals what it records.
LEMMA AllocateEven == ASSUME Inv, Even, ~SameGoalTwice, NEW r \in Requests, Allocate(r) PROVE Even'
<1>1. pc[r] = "allocate" /\ Finish(r) /\ crashes' = crashes
  BY DEF Allocate
<1>2. \A g \in GoalIds : crashes = 0 /\ Live(g) => goal[g].current = saved[g]
  BY <1>1, NonePending
<1>3. task[r] \in Allocations /\ \A i \in DOMAIN task[r] : AsRead(r, task[r][i].goal)
  BY <1>1 DEF Inv, Allocates, Even, Reads
<1>4. goal' = AddAll(goal, seen[r], task[r]) /\ saved' = RecordAll(saved, task[r])
  BY <1>3 DEF Allocate, AsRead
<1>5. \A i \in DOMAIN task[r] : seen[r][task[r][i].goal] = goal[task[r][i].goal]
  BY <1>3 DEF AsRead
<1>6. DOMAIN goal = GoalIds /\ DOMAIN saved = GoalIds /\ \A g \in GoalIds : "current" \in DOMAIN goal[g]
  BY DEF Even, TableRows
<1>7. /\ DOMAIN goal' = GoalIds /\ DOMAIN saved' = GoalIds
      /\ \A g \in GoalIds :
            \/ Kept(goal, saved, goal', saved', g)
            \/ \E i \in DOMAIN task[r] : task[r][i].goal = g /\ Grown(goal, saved, goal', saved', task[r][i])
  BY <1>3, <1>4, <1>5, <1>6, AllocationAddsUp
<1>8. ASSUME NEW g \in GoalIds
      PROVE  /\ "current" \in DOMAIN goal'[g]
             /\ crashes' = 0 /\ Live(g)' => goal'[g].current = saved'[g]
  <2>1. CASE Kept(goal, saved, goal', saved', g)
    BY <1>1, <1>2, <1>6, <2>1 DEF Kept, Live
  <2>2. CASE \E i \in DOMAIN task[r] : task[r][i].goal = g /\ Grown(goal, saved, goal', saved', task[r][i])
    <3>1. PICK i \in DOMAIN task[r] : task[r][i].goal = g /\ Grown(goal, saved, goal', saved', task[r][i])
      BY <2>2
    <3>2. Live(g)
      BY <1>3, <3>1 DEF AsRead
    <3>3. crashes = 0 => goal[g].current = saved[g]
      BY <1>2, <3>2
    <3> QED
      BY <1>1, <3>1, <3>3 DEF Grown
  <2> QED
    BY <1>7, <2>1, <2>2
<1>9. TableRows'
  BY <1>1, <1>7, <1>8 DEF Even, TableRows
<1> QED
  BY <1>1, <1>8, <1>9, ReturnEven DEF Finish

\* A request that dies ends the promise, and one about the banner leaves the
\* goals alone.
LEMMA OtherStepEven ==
  ASSUME Inv, Even, NEW r \in Requests, CreateBanner(r) \/ Crash(r)
  PROVE  Even'
<1>1. /\ Finish(r) /\ pc[r] # "idle" /\ UNCHANGED <<goal, saved>>
      /\ \/ pc[r] = "announce" /\ crashes' = crashes
         \/ crashes' = crashes + 1
  BY DEF CreateBanner, Crash, goalVars
<1>2. TableRows'
  BY <1>1 DEF Even, TableRows
<1>3. \A g \in GoalIds : crashes' = 0 /\ Live(g)' => goal'[g].current = saved'[g]
  <2>1. CASE pc[r] = "announce" /\ crashes' = crashes
    BY <1>1, <2>1, NonePending DEF Live
  <2>2. CASE crashes' = crashes + 1
    BY <2>2 DEF Even, TableRows
  <2> QED
    BY <1>1, <2>1, <2>2
<1> QED
  BY <1>1, <1>2, <1>3, ReturnEven DEF Finish

\* A request begins when none is in progress, and reads the goal as it is.
LEMMA StartEven == ASSUME Inv, Even, ~Overlap, NEW r \in Requests, Start(r) PROVE Even'
<1>1. \A q \in Requests : pc[q] = "idle"
  BY DEF Start, Free
<1>2. /\ UNCHANGED <<goal, saved, crashes, checked>>
      /\ \/ UNCHANGED seen
         \/ \E g \in GoalIds : seen' = [seen EXCEPT ![r][g] = goal[g]]
  BY DEF Start, BeginEdit, BeginContribution, ReadGoal, BeginAllocation, BeginAnnounce, goalVars, Open, Live
<1>3. TableRows' /\ LocalRows'
  BY <1>2 DEF Even, TableRows, LocalRows
<1>4. \E stage \in {"edit", "insert", "goals", "announce"} : Goto(r, stage)
  BY DEF Start, BeginEdit, BeginContribution, ReadGoal, BeginAllocation, BeginAnnounce
<1>5. pc'[r] \in {"edit", "insert", "goals", "announce"} /\ \A q \in Requests : q # r => pc'[q] = "idle"
  BY <1>1, <1>4 DEF Goto, Inv, Locals
<1>6. \A g \in GoalIds : Sums(g)'
  <2>1. \A g \in GoalIds : crashes' = 0 /\ Live(g)' => goal'[g].current = saved'[g]
    BY <1>1, <1>2, NoneRunning DEF Live
  <2> QED
    BY <1>5, <2>1 DEF Sums, Pending
<1>7. Reads(r)'
  <2>1. ASSUME NEW g \in GoalIds, NEW dto \in Edits, BeginEdit(r, g, dto)
        PROVE  Reads(r)'
    <3>1. pc'[r] = "edit" /\ task'[r] = <<[goal |-> g]>>
      BY <2>1 DEF BeginEdit, Goto, Inv, Locals
    <3> QED
      BY <3>1 DEF Reads
  <2>2. ASSUME NEW part \in Part, BeginContribution(r, part)
        PROVE  Reads(r)'
    <3>1. /\ Live(part.goal) /\ part.goal \in GoalIds /\ pc'[r] = "insert" /\ task'[r] = <<part>>
          /\ seen' = [seen EXCEPT ![r][part.goal] = goal[part.goal]]
      BY <2>2 DEF BeginContribution, ReadGoal, Open, Live, Goto, Inv, Locals
    <3>2. seen'[r][part.goal] = goal[part.goal]
      BY <3>1 DEF Even, LocalRows
    <3>3. AsRead(r, part.goal)'
      BY <1>2, <3>1, <3>2 DEF AsRead, Live
    <3>4. task'[r][1].goal = part.goal
      BY <3>1
    <3> QED
      BY <3>1, <3>3, <3>4 DEF Reads
  <2>3. ASSUME NEW parts \in Allocations, BeginAllocation(r, parts)
        PROVE  Reads(r)'
    <3>1. pc'[r] = "goals" /\ task'[r] = parts /\ checked'[r] = checked[r]
      BY <2>3 DEF BeginAllocation, Goto, Inv, Locals
    <3>2. checked[r] = 0
      BY <1>1 DEF Even, Unchecked
    <3>3. Len(parts) \in Nat \ {0}
      BY AllocationLength
    <3>4. checked'[r] \in 0 .. Len(parts) - 1 /\ 1 .. checked'[r] = {}
      BY <3>1, <3>2, <3>3
    <3> QED
      BY <3>1, <3>4 DEF Reads
  <2>4. ASSUME NEW a \in Offers, BeginAnnounce(r, a)
        PROVE  Reads(r)'
    <3>1. pc'[r] = "announce"
      BY <2>4 DEF BeginAnnounce, Goto, Inv, Locals
    <3> QED
      BY <3>1 DEF Reads
  <2> QED
    BY <2>1, <2>2, <2>3, <2>4 DEF Start
<1>8. \A q \in Requests : q # r => Reads(q)'
  BY <1>5 DEF Reads
<1>9. Unchecked'
  BY <1>1, <1>2 DEF Even, Unchecked
<1> QED
  BY <1>3, <1>6, <1>7, <1>8, <1>9 DEF Even

\* No request is in progress when a goal is created or deleted, and a new goal
\* starts with the amount that is recorded for it.
LEMMA UserEven ==
  ASSUME Inv, Even, ~Overlap, UserStep \/ \E g \in GoalIds : DeleteGoal(g)
  PROVE  Even'
<1>1. /\ \A q \in Requests : pc[q] = "idle"
      /\ UNCHANGED <<pc, seen, checked, crashes>>
  BY DEF UserStep, CreateGoal, PublishBanner, DismissBanner, DeleteGoal, Free, localVars
<1>2. \A g \in GoalIds : crashes = 0 /\ Live(g) => goal[g].current = saved[g]
  BY <1>1, NoneRunning
<1>3. LocalRows' /\ Unchecked' /\ \A q \in Requests : Reads(q)'
  BY <1>1 DEF Even, LocalRows, Unchecked, Reads
<1>4. TableRows' /\ \A g \in GoalIds : crashes' = 0 /\ Live(g)' => goal'[g].current = saved'[g]
  <2>1. ASSUME NEW n \in GoalIds, NEW target \in Amounts, NEW sent,
               CreateGoal(n, target, sent)
        PROVE  TableRows' /\ \A g \in GoalIds : crashes' = 0 /\ Live(g)' => goal'[g].current = saved'[g]
    <3>1. PICK first : /\ goal' = [goal EXCEPT ![n] = [status |-> "live", current |-> first,
                                                       target |-> target, isCompleted |-> FALSE]]
                       /\ saved' = [saved EXCEPT ![n] = first]
      BY <2>1 DEF CreateGoal
    <3> DEFINE row == [status |-> "live", current |-> first, target |-> target, isCompleted |-> FALSE]
    <3>2. row.current = first /\ "current" \in DOMAIN row
      OBVIOUS
    <3>3. goal' = [goal EXCEPT ![n] = row]
      BY <3>1
    <3> HIDE DEF row
    <3>4. goal'[n] = row /\ saved'[n] = first
          /\ \A g \in GoalIds : g # n => goal'[g] = goal[g] /\ saved'[g] = saved[g]
      BY <3>1, <3>3 DEF Even, TableRows
    <3>5. TableRows'
      BY <1>1, <3>1, <3>2, <3>3 DEF Even, TableRows
    <3>6. \A g \in GoalIds : crashes' = 0 /\ Live(g)' => goal'[g].current = saved'[g]
      BY <1>1, <1>2, <3>2, <3>4 DEF Live
    <3> QED
      BY <3>5, <3>6
  <2>2. ASSUME NEW n \in GoalIds, DeleteGoal(n)
        PROVE  TableRows' /\ \A g \in GoalIds : crashes' = 0 /\ Live(g)' => goal'[g].current = saved'[g]
    <3>1. goal' = [goal EXCEPT ![n].status = "gone"] /\ saved' = saved
      BY <2>2 DEF DeleteGoal
    <3>2. /\ "current" \in DOMAIN goal'[n]
          /\ goal'[n].current = goal[n].current /\ (Live(n) => goal'[n].status = "gone")
      BY <2>2, <3>1 DEF Even, TableRows, Live
    <3>3. TableRows'
      BY <1>1, <3>1, <3>2 DEF Even, TableRows
    <3>4. Live(n) /\ \A g \in GoalIds : g # n => goal'[g] = goal[g]
      BY <2>2, <3>1 DEF DeleteGoal, Even, TableRows
    <3>5. \A g \in GoalIds : crashes' = 0 /\ Live(g)' => goal'[g].current = saved'[g]
      BY <1>1, <1>2, <3>1, <3>2, <3>4 DEF Live
    <3> QED
      BY <3>3, <3>5
  <2>3. CASE UNCHANGED goalVars
    BY <1>1, <1>2, <2>3 DEF goalVars, Even, TableRows, Live
  <2> QED
    BY <2>1, <2>2, <2>3 DEF UserStep, PublishBanner, DismissBanner
<1>5. \A g \in GoalIds : Sums(g)'
  BY <1>1, <1>4 DEF Sums, Pending
<1> QED
  BY <1>3, <1>4, <1>5 DEF Even

\* Every step, and none at all, keeps goals and contributions together.
LEMMA NextEven ==
  ASSUME Inv, Even, ~Overlap, ~SameGoalTwice, [Next]_vars
  PROVE  Even'
<1>1. CASE UNCHANGED vars
  <2>1. UNCHANGED <<goal, saved, crashes, pc, seen, task, checked>>
    BY <1>1 DEF vars, goalVars, localVars
  <2>2. TableRows' /\ LocalRows' /\ Unchecked'
    BY <2>1 DEF Even, TableRows, LocalRows, Unchecked
  <2>3. \A q \in Requests : Reads(q)'
    BY <2>1 DEF Even, Reads, AsRead, Live
  <2>4. \A g \in GoalIds : Sums(g)'
    BY <2>1 DEF Even, Sums, Pending, Live
  <2> QED
    BY <2>2, <2>3, <2>4 DEF Even
<1>2. ASSUME NEW r \in Requests, Start(r) \/ Step(r) \/ Crash(r)
      PROVE  Even'
  BY <1>2, StartEven, WriteEditEven, InsertEven, WriteProgressEven, CheckEven, AllocateEven,
     OtherStepEven DEF Step
<1> QED
  BY <1>1, <1>2, UserEven DEF Next

(* One request at a time, and no goal named twice in an allocation, a goal's  *)
(* amount is what its recorded contributions make of the amount last entered. *)
THEOREM GoalsAddUp == ASSUME ~Overlap, ~SameGoalTwice PROVE Spec => []ProgressAddsUp
<1>1. Init => Inv /\ Even
  BY InitInv, InitEven
<1>2. Inv /\ Even /\ [Next]_vars => (Inv /\ Even)'
  BY NextInv, NextEven
<1>3. Inv /\ Even => ProgressAddsUp
  BY DEF Even, Sums, Pending, ProgressAddsUp
<1> QED
  BY <1>1, <1>2, <1>3, PTL DEF Spec
================================================================================
