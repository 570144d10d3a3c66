----------------------------- MODULE Invoices_proofs -----------------------------
(****************************************************************************)
(* Proofs about Invoices, for any number of invoices and contents, when one *)
(* request is in progress at a time and may die anywhere: income rows and   *)
(* statuses agree, and so do the client's mailbox and the record; and that  *)
(* the types hold however many requests overlap.                            *)
(****************************************************************************)
EXTENDS Invoices, FiniteSetTheorems, SequenceTheorems, TLAPS

\* The next request begins when the one before is over.
OneAtATime == \A q, r \in Requests : q = r

USE DEF Exists

\* Tables and locals, as far as the argument needs their types: numbers and
\* contents may be anything.
Tables ==
    /\ DOMAIN invoice = Ids
    /\ \A i \in Ids : invoice[i] \in
          [status : Status, number : {invoice[i].number}, content : {invoice[i].content},
           sentAt : BOOLEAN, linked : BOOLEAN]
    /\ income \in [Ids -> Nat]
    /\ DOMAIN held = Ids
    /\ crashes \in Nat

Locals ==
    /\ pc \in [Requests -> Stage]
    /\ on \in [Requests -> Ids \cup {NoInvoice}]
    /\ DOMAIN seen = Requests

\* An invoice is linked to its one income row, and then it is paid.
Booked(i) ==
    /\ income[i] = IF invoice[i].linked THEN 1 ELSE 0
    /\ invoice[i].linked => invoice[i].status = "PAID"

\* What a request found when it began still holds when it writes.
StillHolds(r) ==
    /\ pc[r] # "idle" => on[r] \in Ids
    /\ pc[r] = "insert" => invoice[on[r]].status = "NONE" /\ held[on[r]] = {}
    /\ pc[r] \in {"update", "delete"} => invoice[on[r]].status = "DRAFT"
    /\ pc[r] \in {"void", "email", "sent"} => invoice[on[r]].status \in {"DRAFT", "SENT"}
    /\ pc[r] = "email" => seen[r].content = invoice[on[r]].content
    /\ pc[r] \in {"category", "addCategory", "book"} =>
          invoice[on[r]].status \in {"DRAFT", "SENT", "PAID"} /\ ~invoice[on[r]].linked

\* A client that holds an invoice holds what is on record, and the invoice is no
\* draft, unless the request that sent it has yet to say so.
Mailed(i) ==
    held[i] # {} =>
        /\ invoice[i].status # "NONE" /\ held[i] = {invoice[i].content}
        /\ invoice[i].status = "DRAFT" => \E r \in Requests : pc[r] = "sent" /\ on[r] = i

Inv ==
    /\ Tables /\ Locals
    /\ \A i \in Ids : Booked(i)
    /\ \A r \in Requests : StillHolds(r)
    /\ crashes = 0 /\ ~LostAnswers => \A i \in Ids : Mailed(i)

-------------------------------------------------------------------------------
LEMMA InitInv == ASSUME Init PROVE Inv
  BY InvoiceAssumption
  DEF Init, Inv, Tables, Locals, Booked, StillHolds, Mailed, NoRow, Status, Stage

\* A request begins: it has read the row as it is.
LEMMA BeginInv ==
  ASSUME OneAtATime, Inv, NEW r \in Requests, NEW i \in Ids, NEW stage \in Stage, Begin(r, i, stage),
         stage \notin {"idle", "insert", "sent"},
         stage \in {"update", "delete"} => invoice[i].status = "DRAFT",
         stage \in {"void", "email"} => invoice[i].status \in {"DRAFT", "SENT"},
         stage \in {"category", "addCategory", "book"} =>
             invoice[i].status \in {"DRAFT", "SENT", "PAID"} /\ ~invoice[i].linked
  PROVE  Inv'
<1>1. Tables' /\ Locals'
  BY DEF Begin, Goto, Inv, Tables, Locals
<1>2. \A k \in Ids : Booked(k)'
  BY DEF Begin, Inv, Booked
<1>3. \A q \in Requests : StillHolds(q)'
  BY DEF OneAtATime, Begin, Goto, Inv, Locals, StillHolds
<1>4. crashes' = 0 /\ ~LostAnswers => \A k \in Ids : Mailed(k)'
  <2>1. \A q \in Requests : pc[q] # "sent"
    BY DEF OneAtATime, Begin
  <2> QED
    BY <2>1 DEF Begin, Inv, Mailed
<1> QED
  BY <1>1, <1>2, <1>3, <1>4 DEF Inv

\* The user's requests begin when none is in progress.
LEMMA StartInv == ASSUME OneAtATime, Inv, NEW r \in Requests, Start(r) PROVE Inv'
<1> PICK i \in Ids :
        \/ BeginCreate(r, i) \/ BeginUpdate(r, i) \/ BeginRemove(r, i)
        \/ BeginVoid(r, i) \/ BeginSend(r, i) \/ BeginPay(r, i)
  BY DEF Start
<1>1. invoice[i].status \in Status
  BY DEF Inv, Tables
<1>2. CASE BeginCreate(r, i)
  <2>1. Tables' /\ Locals'
    BY <1>2 DEF BeginCreate, Goto, Inv, Tables, Locals, Stage
  <2>2. \A k \in Ids : Booked(k)'
    BY <1>2 DEF BeginCreate, Inv, Booked
  <2>3. \A q \in Requests : StillHolds(q)'
    BY <1>1, <1>2 DEF OneAtATime, BeginCreate, Goto, Inv, Locals, StillHolds
  <2>4. crashes' = 0 /\ ~LostAnswers => \A k \in Ids : Mailed(k)'
    <3>1. \A q \in Requests : pc[q] # "sent"
      BY <1>2 DEF OneAtATime, BeginCreate
    <3> QED
      BY <1>2, <3>1 DEF BeginCreate, Inv, Mailed
  <2> QED
    BY <2>1, <2>2, <2>3, <2>4 DEF Inv
<1>3. CASE BeginUpdate(r, i) \/ BeginRemove(r, i)
  BY <1>3, BeginInv DEF BeginUpdate, BeginRemove, Stage
<1>4. CASE BeginVoid(r, i) \/ BeginSend(r, i)
  <2>1. invoice[i].status \in {"DRAFT", "SENT"}
    BY <1>1, <1>4 DEF BeginVoid, BeginSend, Begin, Status
  <2> QED
    BY <1>4, <2>1, BeginInv DEF BeginVoid, BeginSend, Stage
<1>5. CASE BeginPay(r, i)
  <2>1. invoice[i].status \in {"DRAFT", "SENT", "PAID"} /\ ~invoice[i].linked
    BY <1>1, <1>5 DEF BeginPay, Begin, Status
  <2> QED
    BY <1>5, <2>1, BeginInv DEF BeginPay, Stage
<1> QED
  BY <1>2, <1>3, <1>4, <1>5

-------------------------------------------------------------------------------
(* Steps of the request.                                                      *)

\* A request that is over holds nothing.
LEMMA FinishInv ==
  ASSUME OneAtATime, Inv, NEW r \in Requests, Finish(r)
  PROVE  Locals' /\ (\A q \in Requests : pc'[q] = "idle" /\ StillHolds(q)')
<1>1. Locals'
  BY DEF Finish, Goto, Inv, Locals, Stage
<1>2. \A q \in Requests : pc'[q] = "idle"
  BY DEF OneAtATime, Finish, Goto, Inv, Locals
<1> QED
  BY <1>1, <1>2 DEF StillHolds

\* The row of the request's invoice is written, and the request is over.
LEMMA WriteInv ==
  ASSUME OneAtATime, Inv, NEW r \in Requests, NEW stage, stage # "idle", NEW row, Write(r, stage, row),
         LET old == invoice[on[r]]
         IN  /\ row \in [status : Status, number : {row.number}, content : {row.content},
                         sentAt : BOOLEAN, linked : BOOLEAN]
             /\ row.linked = old.linked
             /\ old.linked => row.status = "PAID"
             /\ row.status \notin {"NONE"}
             /\ held[on[r]] # {} /\ crashes = 0 /\ ~LostAnswers =>
                    row.content = old.content /\ row.status # "DRAFT"
  PROVE  Inv'
<1>1. Locals' /\ (\A q \in Requests : pc'[q] = "idle" /\ StillHolds(q)')
  BY FinishInv DEF Write
<1>2. on[r] \in Ids
  BY DEF Write, Inv, StillHolds
<1>3. CASE invoice[on[r]].status = "NONE"
  <2>1. UNCHANGED <<invoice, income, held, crashes>>
    BY <1>3 DEF Write
  <2>2. Tables' /\ (\A i \in Ids : Booked(i)')
    BY <2>1 DEF Inv, Tables, Booked
  <2>3. ASSUME crashes' = 0, ~LostAnswers, NEW i \in Ids, held'[i] # {}
        PROVE  invoice'[i].status # "NONE" /\ held'[i] = {invoice'[i].content} /\ invoice'[i].status # "DRAFT"
    <3>1. Mailed(i)
      BY <2>1, <2>3 DEF Inv
    <3>2. invoice[i].status = "DRAFT" => i = on[r]
      BY <2>1, <2>3, <3>1 DEF Mailed, OneAtATime
    <3> QED
      BY <1>3, <2>1, <2>3, <3>1, <3>2 DEF Mailed
  <2> QED
    BY <1>1, <2>2, <2>3 DEF Inv, Mailed
<1>4. CASE invoice[on[r]].status # "NONE"
  <2>1. invoice' = [invoice EXCEPT ![on[r]] = row] /\ UNCHANGED <<income, held, crashes>>
    BY <1>4 DEF Write
  <2>2. invoice'[on[r]] = row /\ \A i \in Ids : i # on[r] => invoice'[i] = invoice[i]
    BY <1>2, <2>1 DEF Inv, Tables
  <2>3. Tables'
    BY <2>1, <2>2 DEF Inv, Tables
  <2>4. \A i \in Ids : Booked(i)'
    BY <1>2, <2>1, <2>2 DEF Inv, Booked
  <2>5. ASSUME crashes' = 0, ~LostAnswers, NEW i \in Ids, held'[i] # {}
        PROVE  invoice'[i].status # "NONE" /\ held'[i] = {invoice'[i].content} /\ invoice'[i].status # "DRAFT"
    <3>1. Mailed(i)
      BY <2>1, <2>5 DEF Inv
    <3>2. invoice[i].status = "DRAFT" => i = on[r]
      BY <2>1, <2>5, <3>1 DEF Mailed, OneAtATime
    <3> QED
      BY <2>1, <2>2, <2>5, <3>1, <3>2 DEF Mailed
  <2> QED
    BY <1>1, <2>3, <2>4, <2>5 DEF Inv, Mailed
<1> QED
  BY <1>3, <1>4

\* An update by id writes what the request found to be allowed.
LEMMA WritesInv ==
  ASSUME OneAtATime, Inv, NEW r \in Requests, UpdateInvoice(r) \/ VoidInvoice(r) \/ MarkSent(r)
  PROVE  Inv'
<1> DEFINE old == invoice[on[r]]
<1>1. /\ on[r] \in Ids
      /\ old \in [status : Status, number : {old.number}, content : {old.content},
                  sentAt : BOOLEAN, linked : BOOLEAN]
      /\ old.linked => old.status = "PAID"
  BY DEF UpdateInvoice, VoidInvoice, MarkSent, Write, Inv, Tables, Booked, StillHolds
<1>2. CASE UpdateInvoice(r)
  <2>1. old.status = "DRAFT" /\ pc[r] = "update"
    BY <1>2 DEF UpdateInvoice, Write, Inv, StillHolds
  <2>2. held[on[r]] # {} /\ crashes = 0 => LostAnswers
    BY <1>1, <2>1 DEF Inv, Mailed, OneAtATime
  <2> QED
    BY <1>1, <1>2, <2>1, <2>2, WriteInv DEF UpdateInvoice, Status
<1>3. CASE VoidInvoice(r)
  <2>1. old.status \in {"DRAFT", "SENT"}
    BY <1>3 DEF VoidInvoice, Write, Inv, StillHolds
  <2> QED
    BY <1>1, <1>3, <2>1, WriteInv DEF VoidInvoice, Status
<1>4. CASE MarkSent(r)
  <2>1. old.status \in {"DRAFT", "SENT"}
    BY <1>4 DEF MarkSent, Write, Inv, StillHolds
  <2> QED
    BY <1>1, <1>4, <2>1, WriteInv DEF MarkSent, Status
<1> QED
  BY <1>2, <1>3, <1>4

\* The new invoice takes the number that was computed.
LEMMA InsertInv == ASSUME OneAtATime, Inv, NEW r \in Requests, InsertInvoice(r) PROVE Inv'
<1>1. Locals' /\ (\A q \in Requests : pc'[q] = "idle" /\ StillHolds(q)')
  BY FinishInv DEF InsertInvoice
<1>2. on[r] \in Ids /\ invoice[on[r]].status = "NONE" /\ held[on[r]] = {}
  BY DEF InsertInvoice, Inv, StillHolds
<1>3. UNCHANGED <<income, held, crashes>>
  BY DEF InsertInvoice
<1>4. \A q \in Requests : pc[q] # "sent"
  BY DEF InsertInvoice, OneAtATime
<1>5. CASE UNCHANGED invoice
  BY <1>1, <1>3, <1>4, <1>5 DEF Inv, Tables, Booked, Mailed
<1>6. CASE invoice' = [invoice EXCEPT ![on[r]] =
                 [status |-> "DRAFT", number |-> next[r], content |-> 1, sentAt |-> FALSE, linked |-> FALSE]]
  <2>1. /\ invoice'[on[r]] = [status |-> "DRAFT", number |-> next[r], content |-> 1,
                              sentAt |-> FALSE, linked |-> FALSE]
        /\ \A i \in Ids : i # on[r] => invoice'[i] = invoice[i]
    BY <1>2, <1>6 DEF Inv, Tables
  <2>2. Tables'
    BY <1>3, <1>6, <2>1 DEF Inv, Tables, Status
  <2>3. \A i \in Ids : Booked(i)'
    <3>1. income[on[r]] = 0
      BY <1>2 DEF Inv, Booked
    <3> QED
      BY <1>3, <2>1, <3>1 DEF Inv, Booked
  <2>4. crashes' = 0 /\ ~LostAnswers => \A i \in Ids : Mailed(i)'
    BY <1>2, <1>3, <1>4, <2>1 DEF Inv, Mailed
  <2> QED
    BY <1>1, <2>2, <2>3, <2>4 DEF Inv
<1> QED
  BY <1>5, <1>6 DEF InsertInvoice

\* A draft is deleted: it has no income and was mailed to nobody.
LEMMA RemoveInv == ASSUME OneAtATime, Inv, NEW r \in Requests, RemoveInvoice(r) PROVE Inv'
<1>1. Locals' /\ (\A q \in Requests : pc'[q] = "idle" /\ StillHolds(q)')
  BY FinishInv DEF RemoveInvoice
<1>2. on[r] \in Ids /\ invoice[on[r]].status = "DRAFT"
  BY DEF RemoveInvoice, Inv, StillHolds
<1>3. /\ invoice' = [invoice EXCEPT ![on[r]] = NoRow]
      /\ UNCHANGED <<income, held, crashes>>
  BY DEF RemoveInvoice
<1>4. \A q \in Requests : pc[q] # "sent"
  BY DEF RemoveInvoice, OneAtATime
<1>5. invoice'[on[r]] = NoRow /\ \A i \in Ids : i # on[r] => invoice'[i] = invoice[i]
  BY <1>2, <1>3 DEF Inv, Tables
<1>6. Tables'
  BY <1>3, <1>5 DEF Inv, Tables, NoRow, Status
<1>7. \A i \in Ids : Booked(i)'
  <2>1. income[on[r]] = 0
    BY <1>2 DEF Inv, Booked, Tables
  <2> QED
    BY <1>3, <1>5, <2>1 DEF Inv, Booked, NoRow
<1>8. crashes' = 0 /\ ~LostAnswers => \A i \in Ids : Mailed(i)'
  BY <1>2, <1>3, <1>4, <1>5 DEF Inv, Mailed
<1> QED
  BY <1>1, <1>6, <1>7, <1>8 DEF Inv

\* The client is sent what the request read.
LEMMA EmailInv == ASSUME OneAtATime, Inv, NEW r \in Requests, EmailInvoice(r) PROVE Inv'
<1>1. /\ pc[r] = "email" /\ on[r] \in Ids /\ invoice[on[r]].status \in {"DRAFT", "SENT"}
      /\ seen[r].content = invoice[on[r]].content
  BY DEF EmailInvoice, Inv, StillHolds
<1>2. UNCHANGED <<invoice, income, crashes>>
  BY DEF EmailInvoice
<1>3. DOMAIN held' = Ids
  BY DEF EmailInvoice, Inv, Tables
<1>4. Tables' /\ \A i \in Ids : Booked(i)'
  BY <1>2, <1>3 DEF Inv, Tables, Booked
<1>5. \A q \in Requests : pc[q] # "sent"
  BY <1>1, OneAtATime DEF OneAtATime
<1>6. CASE Finish(r)
  <2>1. Locals' /\ (\A q \in Requests : pc'[q] = "idle" /\ StillHolds(q)')
    BY <1>6, FinishInv
  <2>2. ~LostAnswers => UNCHANGED held
    <3>1. pc'[r] = "idle"
      BY <2>1
    <3>2. pc'[r] = "sent" \/ (~LostAnswers => UNCHANGED held)
      BY DEF EmailInvoice, Goto, Inv, Locals
    <3> QED
      BY <3>1, <3>2
  <2>3. crashes' = 0 /\ ~LostAnswers => \A i \in Ids : Mailed(i)'
    BY <1>2, <1>5, <2>2 DEF Inv, Mailed
  <2> QED
    BY <1>4, <2>1, <2>3 DEF Inv
<1>7. CASE /\ held' = [held EXCEPT ![on[r]] = held[on[r]] \cup {seen[r].content}]
           /\ Goto(r, "sent")
           /\ UNCHANGED <<on, seen, next>>
  <2>1. pc' = [pc EXCEPT ![r] = "sent"] /\ pc'[r] = "sent"
    BY <1>7 DEF Goto, Inv, Locals
  <2>2. Locals'
    BY <1>7, <2>1 DEF Inv, Locals, Stage
  <2>3. \A q \in Requests : StillHolds(q)'
    BY <1>1, <1>2, <1>7, <2>1 DEF OneAtATime, StillHolds
  <2>4. ASSUME crashes' = 0, ~LostAnswers, NEW i \in Ids PROVE Mailed(i)'
    <3>1. Mailed(i)
      BY <1>2, <2>4 DEF Inv
    <3>2. CASE i = on[r]
      <4>1. held'[i] = {invoice[i].content}
        BY <1>1, <1>7, <3>1, <3>2 DEF Mailed, Inv, Tables
      <4> QED
        BY <1>1, <1>2, <1>7, <2>1, <3>2, <4>1 DEF Mailed
    <3>3. CASE i # on[r]
      <4>1. held'[i] = held[i]
        BY <1>7, <3>3 DEF Inv, Tables
      <4> QED
        BY <1>2, <1>5, <3>1, <4>1 DEF Mailed
    <3> QED
      BY <3>2, <3>3
  <2> QED
    BY <1>4, <2>2, <2>3, <2>4 DEF Inv
<1> QED
  BY <1>6, <1>7 DEF EmailInvoice

\* The income category is found or made; no invoice changes.
LEMMA CategoryInv ==
  ASSUME OneAtATime, Inv, NEW r \in Requests, FindCategory(r) \/ AddCategory(r)
  PROVE  Inv'
<1>1. /\ UNCHANGED <<invoice, income, held, crashes, on, seen>>
      /\ pc[r] \in {"category", "addCategory"}
      /\ \E stage \in {"addCategory", "book"} : pc' = [pc EXCEPT ![r] = stage]
  BY DEF FindCategory, AddCategory, Goto
<1>2. pc' \in [Requests -> Stage] /\ pc'[r] \in {"addCategory", "book"}
  BY <1>1 DEF Inv, Locals, Stage
<1>3. Tables' /\ Locals' /\ (\A i \in Ids : Booked(i)')
  BY <1>1, <1>2 DEF Inv, Tables, Locals, Booked
<1>4. \A q \in Requests : StillHolds(q)'
  BY <1>1, <1>2 DEF OneAtATime, Inv, StillHolds
<1>5. crashes' = 0 /\ ~LostAnswers => \A i \in Ids : Mailed(i)'
  <2>1. \A q \in Requests : pc[q] # "sent"
    BY <1>1 DEF OneAtATime
  <2> QED
    BY <1>1, <2>1 DEF Inv, Mailed
<1> QED
  BY <1>3, <1>4, <1>5 DEF Inv

\* The income row and the status are written together.
LEMMA BookInv == ASSUME OneAtATime, Inv, NEW r \in Requests, BookIncome(r) PROVE Inv'
<1>1. Locals' /\ (\A q \in Requests : pc'[q] = "idle" /\ StillHolds(q)')
  BY FinishInv DEF BookIncome
<1>2. on[r] \in Ids /\ invoice[on[r]].status \in {"DRAFT", "SENT", "PAID"} /\ ~invoice[on[r]].linked
  BY DEF BookIncome, Inv, StillHolds
<1>3. /\ income' = [income EXCEPT ![on[r]] = income[on[r]] + 1]
      /\ invoice' = [invoice EXCEPT ![on[r]].status = "PAID", ![on[r]].linked = TRUE]
      /\ UNCHANGED <<held, crashes>>
  BY <1>2 DEF BookIncome
<1>4. /\ invoice'[on[r]] = [invoice[on[r]] EXCEPT !.status = "PAID", !.linked = TRUE]
      /\ \A i \in Ids : i # on[r] => invoice'[i] = invoice[i]
  BY <1>2, <1>3 DEF Inv, Tables
<1>5. /\ invoice'[on[r]].status = "PAID" /\ invoice'[on[r]].linked
      /\ invoice'[on[r]].content = invoice[on[r]].content
      /\ invoice'[on[r]] \in [status : Status, number : {invoice'[on[r]].number},
                              content : {invoice'[on[r]].content}, sentAt : BOOLEAN, linked : BOOLEAN]
  BY <1>2, <1>4 DEF Inv, Tables, Status
<1>6. Tables'
  <2>1. DOMAIN invoice' = Ids /\ DOMAIN held' = Ids /\ crashes' \in Nat
    BY <1>3 DEF Inv, Tables
  <2>2. income' \in [Ids -> Nat]
    BY <1>2, <1>3 DEF Inv, Tables
  <2>3. ASSUME NEW i \in Ids
        PROVE  invoice'[i] \in [status : Status, number : {invoice'[i].number},
                                content : {invoice'[i].content}, sentAt : BOOLEAN, linked : BOOLEAN]
    <3>1. CASE i = on[r]
      BY <1>5, <3>1
    <3>2. CASE i # on[r]
      <4>1. invoice'[i] = invoice[i]
        BY <1>4, <3>2
      <4> QED
        BY <4>1 DEF Inv, Tables
    <3> QED
      BY <3>1, <3>2
  <2> QED
    BY <2>1, <2>2, <2>3 DEF Tables
<1>7. \A i \in Ids : Booked(i)'
  <2>1. income[on[r]] = 0
    BY <1>2 DEF Inv, Booked
  <2> QED
    BY <1>2, <1>3, <1>4, <1>5, <2>1 DEF Inv, Tables, Booked
<1>8. \A q \in Requests : pc[q] # "sent"
  BY DEF BookIncome, OneAtATime
<1>9. ASSUME crashes' = 0, ~LostAnswers, NEW i \in Ids PROVE Mailed(i)'
  <2>1. Mailed(i) /\ held'[i] = held[i]
    BY <1>3, <1>9 DEF Inv
  <2>2. CASE i = on[r]
    BY <1>5, <2>1, <2>2 DEF Mailed
  <2>3. CASE i # on[r]
    BY <1>4, <1>8, <2>1, <2>3 DEF Mailed
  <2> QED
    BY <2>2, <2>3
<1> QED
  BY <1>1, <1>6, <1>7, <1>9 DEF Inv

\* A request dies and leaves what it has written.
LEMMA CrashInv == ASSUME OneAtATime, Inv, NEW r \in Requests, Crash(r) PROVE Inv'
<1>1. Locals' /\ (\A q \in Requests : pc'[q] = "idle" /\ StillHolds(q)')
  BY FinishInv DEF Crash
<1>2. UNCHANGED <<invoice, income, held>> /\ crashes' \in Nat /\ crashes' # 0
  BY DEF Crash, Inv, Tables
<1> QED
  BY <1>1, <1>2 DEF Inv, Tables, Booked

-------------------------------------------------------------------------------
\* The deletion of an income row meets no request on that invoice that relies
\* on the link.
LEMMA DeleteIncomeInv == ASSUME Inv, NEW i \in Ids, DeleteIncome(i) PROVE Inv'
<1>1. /\ invoice[i].linked /\ invoice[i].status = "PAID" /\ income[i] = 1
  BY DEF DeleteIncome, Inv, Booked
<1>2. /\ income' = [income EXCEPT ![i] = income[i] - 1]
      /\ invoice' = [invoice EXCEPT ![i].linked = FALSE]
      /\ UNCHANGED <<held, pc, on, seen, crashes>>
  BY DEF DeleteIncome, requestVars
<1>3. /\ invoice'[i] = [invoice[i] EXCEPT !.linked = FALSE]
      /\ \A k \in Ids : k # i => invoice'[k] = invoice[k]
  BY <1>2 DEF Inv, Tables
<1>4. /\ invoice'[i].status = "PAID" /\ ~invoice'[i].linked
      /\ invoice'[i].content = invoice[i].content
      /\ invoice'[i] \in [status : Status, number : {invoice'[i].number}, content : {invoice'[i].content},
                          sentAt : BOOLEAN, linked : BOOLEAN]
  BY <1>1, <1>3 DEF Inv, Tables, Status
<1>5. Tables' /\ Locals'
  BY <1>1, <1>2, <1>3, <1>4 DEF Inv, Tables, Locals
<1>6. \A k \in Ids : Booked(k)'
  BY <1>1, <1>2, <1>3, <1>4 DEF Inv, Tables, Booked
<1>7. \A q \in Requests : StillHolds(q)'
  BY <1>1, <1>2, <1>3, <1>4 DEF Inv, StillHolds
<1>8. crashes' = 0 /\ ~LostAnswers => \A k \in Ids : Mailed(k)'
  BY <1>1, <1>2, <1>3, <1>4 DEF Inv, Mailed
<1> QED
  BY <1>5, <1>6, <1>7, <1>8 DEF Inv

\* Every step, and none at all, keeps the invariant.
LEMMA NextInv == ASSUME OneAtATime, Inv, [Next]_vars PROVE Inv'
<1>1. CASE UNCHANGED vars
  BY <1>1 DEF vars, requestVars, Inv, Tables, Locals, Booked, StillHolds, Mailed
<1>2. ASSUME NEW r \in Requests, Start(r) \/ Step(r) \/ Crash(r)
      PROVE  Inv'
  BY <1>2, StartInv, WritesInv, InsertInv, RemoveInv, EmailInv, CategoryInv, BookInv, CrashInv DEF Step
<1> QED
  BY <1>1, <1>2, DeleteIncomeInv DEF Next

(* One request at a time, the invariant holds throughout.                     *)
THEOREM InvoicesInv == ASSUME OneAtATime PROVE Spec => []Inv
<1>1. Init => Inv
  BY InitInv
<1>2. Inv /\ [Next]_vars => Inv'
  BY NextInv
<1> QED
  BY <1>1, <1>2, PTL DEF Spec

(* One request at a time, an invoice has at most one income row, whatever     *)
(* died before and however often that row was deleted.                        *)
THEOREM InvoiceIncomeOnce == ASSUME OneAtATime PROVE Spec => []IncomeOnce
<1>1. Inv => IncomeOnce
  BY DEF Inv, Booked, IncomeOnce
<1> QED
  BY <1>1, InvoicesInv, PTL

(* One request at a time, an invoice that was not paid has no income row.     *)
THEOREM InvoiceIncomeOfPaid == ASSUME OneAtATime PROVE Spec => []IncomeOfPaid
<1>1. Inv => IncomeOfPaid
  BY DEF Inv, Booked, IncomeOfPaid
<1> QED
  BY <1>1, InvoicesInv, PTL

(* One request at a time, and with a mail service that answers truthfully,    *)
(* the client has what is on record unless a request died.                    *)
THEOREM InvoiceClientSawRecord == ASSUME OneAtATime, ~LostAnswers PROVE Spec => []ClientSawRecord
<1>1. Inv => ClientSawRecord
  BY DEF Inv, Mailed, ClientSawRecord
<1> QED
  BY <1>1, InvoicesInv, PTL

-------------------------------------------------------------------------------
(* Types, however many requests overlap.                                      *)

\* A set of numbers has a least one: the initial segments below its members
\* are well-founded under inclusion.
LEMMA LeastNumber ==
  ASSUME NEW T \in SUBSET Nat, T # {}
  PROVE  \E n \in T : \A m \in T : n <= m
<1>1. PICK top \in T : TRUE
  OBVIOUS
<1> DEFINE Below == FiniteSubsetsOf(0 .. top)
           starts == {0 .. m : m \in {k \in T : k <= top}}
<1>2. IsWellFoundedOn(StrictSubsetOrdering(0 .. top), Below)
  BY FS_StrictSubsetOrderingWellFounded
<1>3. starts \subseteq Below
  <2>1. ASSUME NEW m \in T, m <= top PROVE 0 .. m \in Below
    <3>1. IsFiniteSet(0 .. m)
      BY FS_Interval
    <3> QED
      BY <2>1, <3>1 DEF FiniteSubsetsOf
  <2> QED
    BY <2>1
<1>4. starts # {}
  BY <1>1
<1>5. PICK I \in starts : \A J \in starts : <<J, I>> \notin StrictSubsetOrdering(0 .. top)
  <2> HIDE DEF Below, starts
  <2> QED
    BY <1>2, <1>3, <1>4, WFMin
<1>6. PICK n \in T : n <= top /\ I = 0 .. n
  BY <1>5
<1>7. ASSUME NEW m \in T, m < n PROVE FALSE
  <2>1. 0 .. m \in starts
    BY <1>6, <1>7
  <2>2. /\ 0 .. m \subseteq 0 .. n /\ 0 .. m # 0 .. n
        /\ 0 .. m \subseteq 0 .. top /\ 0 .. n \subseteq 0 .. top
    BY <1>6, <1>7
  <2> QED
    BY <1>5, <1>6, <2>1, <2>2 DEF StrictSubsetOrdering
<1> QED
  BY <1>7

LEMMA RemoveFirstType ==
  ASSUME NEW S, NEW s \in Seq(S), NEW e
  PROVE  RemoveFirst(s, e) \in Seq(S)
<1> DEFINE I == {i \in 1 .. Len(s) : s[i] = e}
<1>1. Len(s) \in Nat
  BY LenProperties
<1>2. CASE I = {}
  BY <1>2 DEF RemoveFirst
<1>3. CASE I # {}
  <2> DEFINE k == Min(I)
  <2>1. I \in SUBSET Nat
    BY <1>1
  <2>2. \E n \in I : \A m \in I : n <= m
    <3> HIDE DEF I
    <3> QED
      BY <1>3, <2>1, LeastNumber
  <2>3. k \in I
    <3> HIDE DEF I
    <3> QED
      BY <2>2 DEF Min
  <2>4. RemoveFirst(s, e) = RemoveAt(s, k)
    BY <1>3 DEF RemoveFirst, SelectInSeq
  <2> HIDE DEF k
  <2>5. k \in 1 .. Len(s)
    BY <2>3
  <2>6. SubSeq(s, 1, k - 1) \in Seq(S) /\ SubSeq(s, k + 1, Len(s)) \in Seq(S)
    BY <1>1, <2>5, SubSeqProperties
  <2> QED
    BY <2>4, <2>6, ConcatProperties DEF RemoveAt
<1> QED
  BY <1>2, <1>3

\* A request at work has an invoice.
LocalTypes ==
    /\ pc \in [Requests -> Stage]
    /\ on \in [Requests -> Ids \cup {NoInvoice}]
    /\ seen \in [Requests -> Invoice]
    /\ next \in [Requests -> Nat]
    /\ \A r \in Requests : pc[r] # "idle" => on[r] \in Ids

\* An invoice that is linked has an income row.
RowTypes ==
    /\ invoice \in [Ids -> Invoice]
    /\ issued \in Seq(Ids)
    /\ income \in [Ids -> Nat]
    /\ categories \in Nat
    /\ held \in [Ids -> SUBSET Nat]
    /\ crashes \in Nat
    /\ \A i \in Ids : invoice[i].linked => income[i] > 0

LEMMA NoRowType == NoRow \in Invoice
  BY DEF NoRow, Invoice, Status

LEMMA FinishTypes == ASSUME LocalTypes, NEW r \in Requests, Finish(r) PROVE LocalTypes'
  BY NoRowType DEF Finish, Goto, LocalTypes, Stage

LEMMA GotoTypes ==
  ASSUME LocalTypes, NEW r \in Requests, NEW stage \in Stage, Goto(r, stage), pc[r] # "idle",
         UNCHANGED <<on, seen, next>>
  PROVE  LocalTypes'
  BY DEF Goto, LocalTypes

LEMMA BeginTypes ==
  ASSUME LocalTypes, RowTypes, NEW r \in Requests, NEW i \in Ids, NEW stage \in Stage, Begin(r, i, stage)
  PROVE  LocalTypes' /\ RowTypes'
  BY DEF Begin, Goto, LocalTypes, RowTypes

LEMMA StartTypes ==
  ASSUME LocalTypes, RowTypes, NEW r \in Requests, Start(r)
  PROVE  LocalTypes' /\ RowTypes'
<1> PICK i \in Ids :
        \/ BeginCreate(r, i) \/ BeginUpdate(r, i) \/ BeginRemove(r, i)
        \/ BeginVoid(r, i) \/ BeginSend(r, i) \/ BeginPay(r, i)
  BY DEF Start
<1>1. CASE BeginCreate(r, i)
  <2>1. NextNumber \in Nat
    <3>1. CASE issued = << >>
      BY <3>1 DEF NextNumber
    <3>2. CASE issued # << >>
      <4>1. Last(issued) \in Ids
        BY <3>2, EmptySeq, ElementOfSeq, LenProperties DEF Last, RowTypes
      <4>2. invoice[Last(issued)].number \in Nat
        BY <4>1 DEF RowTypes, Invoice
      <4> QED
        BY <3>2, <4>2 DEF NextNumber
    <3> QED
      BY <3>1, <3>2
  <2> HIDE DEF NextNumber
  <2>2. LocalTypes'
    BY <1>1, <2>1 DEF BeginCreate, Goto, LocalTypes, Stage
  <2>3. RowTypes'
    BY <1>1 DEF BeginCreate, RowTypes
  <2> QED
    BY <2>2, <2>3
<1>2. CASE ~BeginCreate(r, i)
  <2>1. \E stage \in Stage : Begin(r, i, stage)
    BY <1>2 DEF BeginUpdate, BeginRemove, BeginVoid, BeginSend, BeginPay, Stage
  <2> QED
    BY <2>1, BeginTypes
<1> QED
  BY <1>1, <1>2

LEMMA WriteTypes ==
  ASSUME LocalTypes, RowTypes, NEW r \in Requests, NEW stage, stage # "idle",
         NEW row \in Invoice, row.linked = invoice[on[r]].linked, Write(r, stage, row)
  PROVE  LocalTypes' /\ RowTypes'
<1>1. LocalTypes'
  BY FinishTypes DEF Write
<1>2. on[r] \in Ids
  BY DEF Write, LocalTypes
<1>3. invoice' \in [Ids -> Invoice]
  BY <1>2 DEF Write, RowTypes
<1>4. \A i \in Ids : invoice'[i].linked = invoice[i].linked
  BY <1>2 DEF Write, RowTypes
<1> QED
  BY <1>1, <1>3, <1>4 DEF Write, RowTypes

LEMMA StepTypes ==
  ASSUME LocalTypes, RowTypes, NEW r \in Requests, Step(r)
  PROVE  LocalTypes' /\ RowTypes'
<1>1. pc[r] # "idle" /\ on[r] \in Ids
  BY DEF Step, InsertInvoice, UpdateInvoice, VoidInvoice, RemoveInvoice, EmailInvoice, MarkSent,
         FindCategory, AddCategory, BookIncome, Write, LocalTypes
<1>2. invoice[on[r]] \in Invoice
  BY <1>1 DEF RowTypes
<1>3. CASE UpdateInvoice(r) \/ VoidInvoice(r) \/ MarkSent(r)
  <2>1. ASSUME NEW row \in Invoice
        PROVE  /\ [row EXCEPT !.content = row.content + 1] \in Invoice
               /\ [row EXCEPT !.status = "CANCELED"] \in Invoice
               /\ [row EXCEPT !.status = "SENT", !.sentAt = TRUE] \in Invoice
    <3>1. [row EXCEPT !.content = row.content + 1] \in Invoice
      BY DEF Invoice
    <3>2. [row EXCEPT !.status = "CANCELED"] \in Invoice
      BY DEF Invoice, Status
    <3>3. [row EXCEPT !.status = "SENT", !.sentAt = TRUE] \in Invoice
      BY DEF Invoice, Status
    <3> QED
      BY <3>1, <3>2, <3>3
  <2>2. /\ [invoice[on[r]] EXCEPT !.content = invoice[on[r]].content + 1].linked = invoice[on[r]].linked
        /\ [invoice[on[r]] EXCEPT !.status = "CANCELED"].linked = invoice[on[r]].linked
        /\ [invoice[on[r]] EXCEPT !.status = "SENT", !.sentAt = TRUE].linked = invoice[on[r]].linked
    BY <1>2 DEF Invoice
  <2>3. CASE UpdateInvoice(r)
    BY <1>2, <2>1, <2>2, <2>3, WriteTypes DEF UpdateInvoice
  <2>4. CASE VoidInvoice(r)
    BY <1>2, <2>1, <2>2, <2>4, WriteTypes DEF VoidInvoice
  <2>5. CASE MarkSent(r)
    BY <1>2, <2>1, <2>2, <2>5, WriteTypes DEF MarkSent
  <2> QED
    BY <1>3, <2>3, <2>4, <2>5
<1>4. CASE InsertInvoice(r)
  <2>1. LocalTypes'
    BY <1>4, FinishTypes DEF InsertInvoice
  <2> DEFINE row == [status |-> "DRAFT", number |-> next[r], content |-> 1, sentAt |-> FALSE, linked |-> FALSE]
  <2>2. row \in Invoice /\ row.linked = FALSE
    BY DEF LocalTypes, Invoice, Status
  <2>3. \/ UNCHANGED <<invoice, issued>>
        \/ invoice' = [invoice EXCEPT ![on[r]] = row] /\ issued' = Append(issued, on[r])
    BY <1>4 DEF InsertInvoice
  <2>4. UNCHANGED <<income, categories, held, crashes>>
    BY <1>4 DEF InsertInvoice
  <2> HIDE DEF row
  <2>5. issued' \in Seq(Ids)
    <3>1. issued \in Seq(Ids)
      BY DEF RowTypes
    <3>2. Append(issued, on[r]) \in Seq(Ids)
      BY <1>1, <3>1, AppendProperties
    <3> QED
      BY <2>3, <3>1, <3>2
  <2>6. RowTypes'
    BY <1>1, <2>2, <2>3, <2>4, <2>5 DEF RowTypes
  <2> QED
    BY <2>1, <2>6
<1>5. CASE RemoveInvoice(r)
  <2>1. LocalTypes'
    BY <1>5, FinishTypes DEF RemoveInvoice
  <2>2. issued' \in Seq(Ids)
    BY <1>5, RemoveFirstType DEF RemoveInvoice, RowTypes
  <2>3. NoRow.linked = FALSE
    BY DEF NoRow
  <2>4. RowTypes'
    BY <1>1, <1>5, <2>2, <2>3, NoRowType DEF RemoveInvoice, RowTypes
  <2> QED
    BY <2>1, <2>4
<1>6. CASE EmailInvoice(r)
  <2>1. LocalTypes'
    BY <1>1, <1>6, FinishTypes, GotoTypes DEF EmailInvoice, Stage
  <2>2. seen[r].content \in Nat
    BY DEF LocalTypes, Invoice
  <2>3. RowTypes'
    BY <1>1, <1>6, <2>2 DEF EmailInvoice, RowTypes
  <2> QED
    BY <2>1, <2>3
<1>7. CASE FindCategory(r) \/ AddCategory(r)
  <2>1. Goto(r, "book") \/ Goto(r, "addCategory")
    BY <1>7 DEF FindCategory, AddCategory
  <2>2. LocalTypes'
    BY <1>1, <1>7, <2>1, GotoTypes DEF FindCategory, AddCategory, Stage
  <2>3. RowTypes'
    BY <1>7 DEF FindCategory, AddCategory, RowTypes
  <2> QED
    BY <2>2, <2>3
<1>8. CASE BookIncome(r)
  <2>1. LocalTypes'
    BY <1>8, FinishTypes DEF BookIncome
  <2>2. UNCHANGED <<issued, categories, held, crashes>>
    BY <1>8 DEF BookIncome
  <2>3. CASE UNCHANGED <<income, invoice>>
    BY <2>1, <2>2, <2>3 DEF RowTypes
  <2>4. CASE /\ income' = [income EXCEPT ![on[r]] = income[on[r]] + 1]
             /\ invoice' = [invoice EXCEPT ![on[r]].status = "PAID", ![on[r]].linked = TRUE]
    <3>1. invoice'[on[r]] \in Invoice
      BY <1>1, <1>2, <2>4 DEF RowTypes, Invoice, Status
    <3>2. \A i \in Ids : i # on[r] => invoice'[i] = invoice[i] /\ income'[i] = income[i]
      BY <2>4 DEF RowTypes
    <3>3. income'[on[r]] = income[on[r]] + 1 /\ income[on[r]] \in Nat
      BY <1>1, <2>4 DEF RowTypes
    <3>4. DOMAIN invoice' = Ids /\ DOMAIN income' = Ids
          /\ invoice' = [i \in Ids |-> invoice'[i]] /\ income' = [i \in Ids |-> income'[i]]
      BY <2>4 DEF RowTypes
    <3>5. invoice' \in [Ids -> Invoice]
      BY <3>1, <3>2, <3>4 DEF RowTypes
    <3>6. income' \in [Ids -> Nat]
      BY <3>2, <3>3, <3>4 DEF RowTypes
    <3>7. ASSUME NEW i \in Ids, invoice'[i].linked PROVE income'[i] > 0
      <4>1. CASE i = on[r]
        BY <3>3, <4>1
      <4>2. CASE i # on[r]
        BY <3>2, <3>7, <4>2 DEF RowTypes
      <4> QED
        BY <4>1, <4>2
    <3>8. RowTypes'
      BY <2>2, <3>5, <3>6, <3>7 DEF RowTypes
    <3> QED
      BY <2>1, <3>8
  <2> QED
    BY <1>8, <2>3, <2>4 DEF BookIncome
<1> QED
  BY <1>3, <1>4, <1>5, <1>6, <1>7, <1>8 DEF Step

LEMMA NextTypes == ASSUME LocalTypes, RowTypes, [Next]_vars PROVE LocalTypes' /\ RowTypes'
<1>1. CASE UNCHANGED vars
  BY <1>1 DEF vars, requestVars, LocalTypes, RowTypes
<1>2. CASE \E r \in Requests : Crash(r)
  BY <1>2, FinishTypes DEF Crash, RowTypes
<1>3. CASE \E i \in Ids : DeleteIncome(i)
  <2> PICK i \in Ids : DeleteIncome(i)
    BY <1>3
  <2>1. LocalTypes'
    BY DEF DeleteIncome, requestVars, LocalTypes
  <2>2. income[i] \in Nat /\ income[i] > 0 /\ income'[i] = income[i] - 1
    BY DEF DeleteIncome, RowTypes
  <2>3. invoice'[i] \in Invoice /\ invoice'[i].linked = FALSE
    BY DEF DeleteIncome, RowTypes, Invoice
  <2>4. \A k \in Ids : k # i => invoice'[k] = invoice[k] /\ income'[k] = income[k]
    BY DEF DeleteIncome, RowTypes
  <2>5. /\ DOMAIN invoice' = Ids /\ DOMAIN income' = Ids
        /\ invoice' = [k \in Ids |-> invoice'[k]] /\ income' = [k \in Ids |-> income'[k]]
    BY DEF DeleteIncome, RowTypes
  <2>6. invoice' \in [Ids -> Invoice]
    BY <2>3, <2>4, <2>5 DEF RowTypes
  <2>7. income' \in [Ids -> Nat]
    BY <2>2, <2>4, <2>5 DEF RowTypes
  <2>8. RowTypes'
    BY <2>3, <2>4, <2>6, <2>7 DEF DeleteIncome, RowTypes
  <2> QED
    BY <2>1, <2>8
<1> QED
  BY <1>1, <1>2, <1>3, StartTypes, StepTypes DEF Next

(* However many requests overlap and wherever they die, every row and every   *)
(* request has its type: no count of income rows goes below zero, because an  *)
(* invoice that is linked has one.                                            *)
THEOREM InvoicesTyped == Spec => []TypeOK
<1>1. Init => LocalTypes /\ RowTypes
  BY NoRowType, EmptySeq, InvoiceAssumption DEF Init, LocalTypes, RowTypes, Stage, NoRow
<1>2. LocalTypes /\ RowTypes /\ [Next]_vars => (LocalTypes /\ RowTypes)'
  BY NextTypes
<1>3. LocalTypes /\ RowTypes => TypeOK
  BY DEF LocalTypes, RowTypes, TypeOK
<1> QED
  BY <1>1, <1>2, <1>3, PTL DEF Spec
================================================================================
