-------------------------------- MODULE Invoices --------------------------------
(****************************************************************************)
(* The invoices of one user.  Every operation of InvoicesService reads the  *)
(* invoice, decides from its status, and then writes by id, in another      *)
(* database call and without asking for the status again.  Sending e-mails  *)
(* the invoice between the two; paying finds or creates the category of the *)
(* income row between the two.                                              *)
(****************************************************************************)
EXTENDS Integers, Sequences, SequencesExt

CONSTANTS
    Ids,             \* invoice ids that may be created
    Requests,        \* requests that may be in progress together
    NoInvoice,
    MaxVersions,     \* bound: contents an invoice takes by editing
    MaxNumber,       \* bound: invoice numbers
    MaxIncome,       \* bound: income rows of one invoice
    MaxCrashes,      \* bound: requests that die half-way
    LostAnswers      \* the mail service may deliver and still report a failure

ASSUME InvoiceAssumption ==
    /\ NoInvoice \notin Ids
    /\ {MaxVersions, MaxNumber, MaxIncome, MaxCrashes} \subseteq Nat
    /\ MaxVersions > 0
    /\ LostAnswers \in BOOLEAN

VARIABLES
    invoice,      \* invoice[i]: the row of table invoices, with its line items
    issued,       \* the ids of the rows by createdAt
    income,       \* income[i]: INCOME rows written for invoice i
    categories,   \* rows "Freelance Income" of the user in table categories
    held,         \* the client's mailbox: contents of invoice i it was sent
    pc, on, seen, \* requests: stage, invoice worked on, row they read
    next,         \* next[r]: the invoice number request r derived
    crashes       \* counter of its bound

requestVars == <<pc, on, seen, next>>
vars == <<invoice, issued, income, categories, held, requestVars, crashes>>

Status == {"NONE", "DRAFT", "SENT", "PAID", "CANCELED"}

Invoice == [status : Status, number : Nat, content : Nat, sentAt : BOOLEAN, linked : BOOLEAN]

NoRow == [status |-> "NONE", number |-> 0, content |-> 0, sentAt |-> FALSE, linked |-> FALSE]

Stage == {"idle", "insert", "update", "delete", "void", "email", "sent",
          "category", "addCategory", "book"}

Exists(i) == invoice[i].status # "NONE"

Init ==
    /\ invoice = [i \in Ids |-> NoRow]
    /\ issued = << >>
    /\ income = [i \in Ids |-> 0]
    /\ categories = 0
    /\ held = [i \in Ids |-> {}]
    /\ pc = [r \in Requests |-> "idle"]
    /\ on = [r \in Requests |-> NoInvoice]
    /\ seen = [r \in Requests |-> NoRow]
    /\ next = [r \in Requests |-> 0]
    /\ crashes = 0

Goto(r, stage) == pc' = [pc EXCEPT ![r] = stage]

\* The request returns or throws; its locals are gone.
Finish(r) ==
    /\ Goto(r, "idle")
    /\ on' = [on EXCEPT ![r] = NoInvoice]
    /\ seen' = [seen EXCEPT ![r] = NoRow]
    /\ next' = [next EXCEPT ![r] = 0]

-------------------------------------------------------------------------------
(* createInvoice                                                              *)

\* generateInvoiceNumber: one more than the invoice created last has
NextNumber == IF issued = << >> THEN 1 ELSE invoice[Last(issued)].number + 1

BeginCreate(r, i) ==
    /\ pc[r] = "idle"
    /\ ~Exists(i) /\ \A q \in Requests : on[q] # i
    /\ income[i] = 0 /\ held[i] = {}
    /\ NextNumber <= MaxNumber
    /\ on' = [on EXCEPT ![r] = i]
    /\ next' = [next EXCEPT ![r] = NextNumber]
    /\ Goto(r, "insert")
    /\ UNCHANGED <<invoice, issued, income, categories, held, seen, crashes>>

\* The unique key on the number makes the insert fail when it is taken.
InsertInvoice(r) ==
    /\ pc[r] = "insert"
    /\ \/ /\ \A i \in Ids : Exists(i) => invoice[i].number # next[r]
          /\ invoice' = [invoice EXCEPT ![on[r]] =
                           [status |-> "DRAFT", number |-> next[r], content |-> 1,
                            sentAt |-> FALSE, linked |-> FALSE]]
          /\ issued' = Append(issued, on[r])
       \/ /\ \E i \in Ids : Exists(i) /\ invoice[i].number = next[r]
          /\ UNCHANGED <<invoice, issued>>
    /\ Finish(r)
    /\ UNCHANGED <<income, categories, held, crashes>>

-------------------------------------------------------------------------------
(* The operations on one invoice begin with getOwnedInvoice and a check of    *)
(* the status; a request the check rejects changes nothing.                   *)

Begin(r, i, stage) ==
    /\ pc[r] = "idle"
    /\ Exists(i)
    /\ on' = [on EXCEPT ![r] = i]
    /\ seen' = [seen EXCEPT ![r] = invoice[i]]
    /\ Goto(r, stage)
    /\ UNCHANGED <<invoice, issued, income, categories, held, next, crashes>>

\* Slips: a sent invoice may be edited, a paid one voided, a linked one paid.
BeginUpdateOfSent(r, i) ==
    /\ invoice[i].status \notin {"PAID", "CANCELED"}
    /\ invoice[i].content < MaxVersions
    /\ Begin(r, i, "update")

BeginVoidOfPaid(r, i) == invoice[i].status # "CANCELED" /\ Begin(r, i, "void")

BeginPayOfPaid(r, i) ==
    /\ invoice[i].status # "CANCELED"
    /\ income[i] < MaxIncome
    /\ Begin(r, i, "category")

BeginUpdate(r, i) ==
    /\ invoice[i].status = "DRAFT"
    /\ invoice[i].content < MaxVersions
    /\ Begin(r, i, "update")

BeginRemove(r, i) == invoice[i].status = "DRAFT" /\ Begin(r, i, "delete")

BeginVoid(r, i) == invoice[i].status \notin {"PAID", "CANCELED"} /\ Begin(r, i, "void")

BeginSend(r, i) == invoice[i].status \notin {"PAID", "CANCELED"} /\ Begin(r, i, "email")

\* An invoice linked to its income row is returned as it is.
BeginPay(r, i) ==
    /\ invoice[i].status # "CANCELED"
    /\ ~invoice[i].linked
    /\ income[i] < MaxIncome
    /\ Begin(r, i, "category")

\* prisma.invoice.update: fails when the row is gone.
Write(r, stage, row) ==
    /\ pc[r] = stage
    /\ invoice' = IF Exists(on[r]) THEN [invoice EXCEPT ![on[r]] = row] ELSE invoice
    /\ Finish(r)
    /\ UNCHANGED <<issued, income, categories, held, crashes>>

UpdateInvoice(r) ==
    Write(r, "update", [invoice[on[r]] EXCEPT !.content = invoice[on[r]].content + 1])

VoidInvoice(r) == Write(r, "void", [invoice[on[r]] EXCEPT !.status = "CANCELED"])

RemoveInvoice(r) ==
    /\ pc[r] = "delete"
    /\ invoice' = [invoice EXCEPT ![on[r]] = NoRow]
    /\ issued' = RemoveFirst(issued, on[r])
    /\ Finish(r)
    /\ UNCHANGED <<income, categories, held, crashes>>

-------------------------------------------------------------------------------
(* sendInvoice: the PDF is made from the row that was read.                   *)

EmailInvoice(r) ==
    /\ pc[r] = "email"
    /\ \/ /\ held' = [held EXCEPT ![on[r]] = held[on[r]] \cup {seen[r].content}]
          /\ Goto(r, "sent")
          /\ UNCHANGED <<on, seen, next>>
       \/ /\ Finish(r)                       \* the mail service reports a failure
          /\ \/ UNCHANGED held
             \/ /\ LostAnswers
                /\ held' = [held EXCEPT ![on[r]] = held[on[r]] \cup {seen[r].content}]
    /\ UNCHANGED <<invoice, issued, income, categories, crashes>>

MarkSent(r) ==
    Write(r, "sent", [invoice[on[r]] EXCEPT !.status = "SENT", !.sentAt = TRUE])

-------------------------------------------------------------------------------
(* markInvoicePaid                                                            *)

FindCategory(r) ==
    /\ pc[r] = "category"
    /\ Goto(r, IF categories > 0 THEN "book" ELSE "addCategory")
    /\ UNCHANGED <<invoice, issued, income, categories, held, on, seen, next, crashes>>

\* The unique key does not apply: a NULL parentId equals no other.
AddCategory(r) ==
    /\ pc[r] = "addCategory"
    /\ categories' = categories + 1
    /\ Goto(r, "book")
    /\ UNCHANGED <<invoice, issued, income, held, on, seen, next, crashes>>

\* One database transaction: the income row and the invoice's link to it.
BookIncome(r) ==
    /\ pc[r] = "book"
    /\ IF Exists(on[r])
       THEN /\ income' = [income EXCEPT ![on[r]] = income[on[r]] + 1]
            /\ invoice' = [invoice EXCEPT ![on[r]].status = "PAID", ![on[r]].linked = TRUE]
       ELSE UNCHANGED <<income, invoice>>
    /\ Finish(r)
    /\ UNCHANGED <<issued, categories, held, crashes>>

\* Slip: the link outlives the income row.
DeleteIncomeOnly(i) ==
    /\ invoice[i].linked
    /\ income' = [income EXCEPT ![i] = income[i] - 1]
    /\ UNCHANGED <<invoice, issued, categories, held, requestVars, crashes>>

\* DELETE /transactions/:id on the row the invoice is linked to: the foreign
\* key becomes NULL.
DeleteIncome(i) ==
    /\ invoice[i].linked
    /\ income' = [income EXCEPT ![i] = income[i] - 1]
    /\ invoice' = [invoice EXCEPT ![i].linked = FALSE]
    /\ UNCHANGED <<issued, categories, held, requestVars, crashes>>

\* The process stops or a query fails between two database calls.
Crash(r) ==
    /\ crashes < MaxCrashes
    /\ pc[r] # "idle"
    /\ crashes' = crashes + 1
    /\ Finish(r)
    /\ UNCHANGED <<invoice, issued, income, categories, held>>

-------------------------------------------------------------------------------
Start(r) ==
    \E i \in Ids :
        \/ BeginCreate(r, i) \/ BeginUpdate(r, i) \/ BeginRemove(r, i)
        \/ BeginVoid(r, i) \/ BeginSend(r, i) \/ BeginPay(r, i)

Step(r) ==
    \/ InsertInvoice(r) \/ UpdateInvoice(r) \/ VoidInvoice(r) \/ RemoveInvoice(r)
    \/ EmailInvoice(r) \/ MarkSent(r)
    \/ FindCategory(r) \/ AddCategory(r) \/ BookIncome(r)

Next ==
    \/ \E r \in Requests : Start(r) \/ Step(r) \/ Crash(r)
    \/ \E i \in Ids : DeleteIncome(i)

Spec == Init /\ [][Next]_vars

-------------------------------------------------------------------------------
TypeOK ==
    /\ invoice \in [Ids -> Invoice]
    /\ issued \in Seq(Ids)
    /\ income \in [Ids -> Nat]
    /\ categories \in Nat
    /\ held \in [Ids -> SUBSET Nat]
    /\ pc \in [Requests -> Stage]
    /\ on \in [Requests -> Ids \cup {NoInvoice}]
    /\ seen \in [Requests -> Invoice]
    /\ next \in [Requests -> Nat]
    /\ crashes \in Nat

(* An invoice has one income row, however often it is sent, paid, its income  *)
(* deleted and paid again ("can never create two income entries for one       *)
(* invoice").                                                                 *)
IncomeOnce == \A i \in Ids : income[i] <= 1

(* There is no income for an invoice that is not paid ("so we never end up    *)
(* with income but an unpaid invoice"), was voided or deleted.                *)
IncomeOfPaid == \A i \in Ids : income[i] > 0 => invoice[i].status = "PAID"

(* Unless a request died, what the client has in its mailbox is the invoice   *)
(* as it is on record: once sent it is locked "to preserve what the client    *)
(* saw", and only a draft that nobody has seen can be deleted.                *)
ClientSawRecord ==
    crashes = 0 =>
        \A i \in Ids : held[i] # {} => Exists(i) /\ held[i] = {invoice[i].content}
================================================================================
