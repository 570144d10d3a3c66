-------------------------- MODULE Subscription_proofs --------------------------
(****************************************************************************)
(* Proofs about Subscription, for any number of status requests, any length *)
(* of a period and any number of events, however they are delivered: types, *)
(* and that access is never had on a day no purchase has paid for.          *)
(****************************************************************************)
EXTENDS Subscription, SequenceTheorems, TLAPS

\* What the store may have said of this subscription: it reports no expiry that
\* it has not sold.
Reported == [n : Nat, type : Types, purchased : Nat, expires : bought]

\* The invariant behind the type invariant: every expiry on its way was sold, and
\* so was the one of a user who has Pro.
Sold ==
    /\ inbox \in Seq(Reported)
    /\ isPro => proExpiresAt \in bought
    /\ subscribed => paidUntil \in bought

Inv == TypeOK /\ Sold

-------------------------------------------------------------------------------
(* The inbox.                                                                 *)

LEMMA EventsOfInbox ==
  ASSUME NEW S, NEW s \in Seq(S), NEW i \in 1 .. Len(s)
  PROVE  s[i] \in S
  BY ElementOfSeq

LEMMA RemoveAtType ==
  ASSUME NEW S, NEW s \in Seq(S), NEW i \in 1 .. Len(s)
  PROVE  RemoveAt(s, i) \in Seq(S)
<1>1. Len(s) \in Nat
  BY LenProperties
<1>2. SubSeq(s, 1, i - 1) \in Seq(S)
  BY <1>1, SubSeqProperties
<1>3. SubSeq(s, i + 1, Len(s)) \in Seq(S)
  BY <1>1, SubSeqProperties
<1> QED
  BY <1>2, <1>3, ConcatProperties DEF RemoveAt

\* Reports stay reports when more is sold.
LEMMA ReportedGrows ==
  ASSUME NEW old, NEW new, old \subseteq new, NEW s \in Seq([n : Nat, type : Types, purchased : Nat, expires : old])
  PROVE  s \in Seq([n : Nat, type : Types, purchased : Nat, expires : new])
<1>1. [n : Nat, type : Types, purchased : Nat, expires : old]
          \subseteq [n : Nat, type : Types, purchased : Nat, expires : new]
  OBVIOUS
<1> QED
  BY <1>1, SeqMonotonic

\* A report of an expiry that was sold, now or before, keeps the inbox typed.
LEMMA ReportType ==
  ASSUME TypeOK, Sold, NEW type \in Types, NEW expires \in bought', bought \subseteq bought',
         Report(type, expires)
  PROVE  /\ inbox' \in Seq(Reported)'
         /\ sent' \in Nat
         /\ now' = now /\ isPro' = isPro /\ proExpiresAt' = proExpiresAt /\ stale' = stale
         /\ newest' = newest /\ disturbed' = disturbed
<1> DEFINE e == [n |-> sent + 1, type |-> type, purchased |-> now, expires |-> expires]
<1>1. inbox \in Seq(Reported')
  BY ReportedGrows DEF Sold, Reported
<1>2. e \in Reported'
  BY DEF TypeOK, Reported
<1>3. inbox' = Append(inbox, e)
  BY DEF Report
<1>4. inbox' \in Seq(Reported)'
  BY <1>1, <1>2, <1>3, AppendProperties
<1> QED
  BY <1>4 DEF Report, rowVars, TypeOK

LEMMA ReportedAreEvents ==
  ASSUME bought \subseteq Expiry, NEW s \in Seq(Reported)
  PROVE  s \in Seq(Event)
<1>1. Reported \subseteq Event
  BY DEF Reported, Event
<1> QED
  BY <1>1, SeqMonotonic

-------------------------------------------------------------------------------
(* The invariant.                                                             *)

LEMMA InitInv == ASSUME Init PROVE Inv
<1>1. inbox \in Seq(Reported) /\ inbox \in Seq(Event)
  BY EmptySeq DEF Init
<1> QED
  BY <1>1 DEF Init, Inv, TypeOK, Sold, Expiry

\* Steps of the store: each is a report of an expiry that has been sold.
LEMMA SellInv ==
  ASSUME Inv, NEW type \in Types, NEW expires \in Expiry, Sell(type, expires)
  PROVE  Inv'
<1>1. /\ bought' = bought \cup {expires} /\ paidUntil' = expires
      /\ subscribed' = TRUE /\ renews' = (expires # Never) /\ Report(type, expires)
  BY DEF Sell
<1>2. /\ inbox' \in Seq(Reported)' /\ sent' \in Nat
      /\ now' = now /\ isPro' = isPro /\ proExpiresAt' = proExpiresAt /\ stale' = stale
      /\ newest' = newest /\ disturbed' = disturbed
  BY <1>1, ReportType DEF Inv
<1>3. bought' \subseteq Expiry
  BY <1>1 DEF Inv, TypeOK
<1>4. inbox' \in Seq(Event)
  <2>1. Reported' \subseteq Event
    BY <1>3 DEF Reported, Event
  <2> QED
    BY <1>2, <2>1, SeqMonotonic
<1> QED
  BY <1>1, <1>2, <1>3, <1>4 DEF Inv, TypeOK, Sold

LEMMA ReportInv ==
  ASSUME Inv, NEW type \in Types, subscribed, Report(type, paidUntil),
         subscribed' \in BOOLEAN, renews' \in BOOLEAN, UNCHANGED <<paidUntil, bought>>
  PROVE  Inv'
<1>1. paidUntil \in bought'
  BY DEF Inv, Sold
<1>2. /\ inbox' \in Seq(Reported)' /\ sent' \in Nat
      /\ now' = now /\ isPro' = isPro /\ proExpiresAt' = proExpiresAt /\ stale' = stale
      /\ newest' = newest /\ disturbed' = disturbed
  BY <1>1, ReportType DEF Inv
<1>3. inbox' \in Seq(Event)
  <2>1. Reported' \subseteq Event
    BY DEF Inv, TypeOK, Reported, Event
  <2> QED
    BY <1>2, <2>1, SeqMonotonic
<1> QED
  BY <1>1, <1>2, <1>3 DEF Inv, TypeOK, Sold

LEMMA StoreInv == ASSUME Inv, Store PROVE Inv'
<1>1. CASE Purchase
  <2>1. PICK expires \in {now + Period, Never} : Sell("INITIAL_PURCHASE", expires)
    BY <1>1 DEF Purchase
  <2>2. expires \in Expiry
    BY SubscriptionAssumption DEF Inv, TypeOK, Expiry
  <2> QED
    BY <2>1, <2>2, SellInv DEF Types, Sales
<1>2. CASE Renew
  <2>1. paidUntil + Period \in Expiry
    <3>1. paidUntil \in Nat
      BY <1>2, SubscriptionAssumption DEF Renew, Inv, TypeOK, Expiry, Sold
    <3> QED
      BY <3>1, SubscriptionAssumption DEF Expiry
  <2> QED
    BY <1>2, <2>1, SellInv DEF Renew, Types, Sales
<1>3. CASE Cancel
  BY <1>3, ReportInv DEF Cancel, Types, Inv, TypeOK
<1>4. CASE Uncancel
  BY <1>4, ReportInv DEF Uncancel, Types, Sales, Inv, TypeOK
<1>5. CASE BillingIssue
  BY <1>5, ReportInv DEF BillingIssue, Types, Inv, TypeOK
<1>6. CASE Expire
  BY <1>6, ReportInv DEF Expire, Types, Inv, TypeOK
<1> QED
  BY <1>1, <1>2, <1>3, <1>4, <1>5, <1>6 DEF Store

\* Steps of the service: whatever is delivered, an expiry that was sold is written.
LEMMA DeliverInv ==
  ASSUME Inv, NEW i \in 1 .. Len(inbox), Deliver(i)
  PROVE  Inv'
<1> DEFINE e == inbox[i]
<1>1. e \in Reported
  BY EventsOfInbox DEF Inv, Sold
<1>2. inbox' \in Seq(Reported) /\ inbox' \in Seq(Event)
  <2>1. RemoveAt(inbox, i) \in Seq(Reported)
    BY RemoveAtType DEF Inv, Sold
  <2>2. inbox' \in Seq(Reported)
    BY <2>1 DEF Deliver, Inv, Sold
  <2> QED
    BY <2>2, ReportedAreEvents DEF Inv, TypeOK
<1>3. bought' = bought /\ Reported' = Reported
  BY DEF Deliver, storeVars, Reported
<1>4. /\ isPro' \in BOOLEAN
      /\ proExpiresAt' \in bought \cup {Never}
      /\ isPro' => proExpiresAt' \in bought
      /\ newest' \in Nat /\ disturbed' \in BOOLEAN
  <2>1. handleRevenueCatEvent(e)
    BY DEF Deliver
  <2>2. CASE activateSubscription(e)
    BY <1>1, <2>2 DEF activateSubscription, Ordered, Reported, Inv, TypeOK
  <2>3. CASE handleExpiration(e)
    BY <1>1, <2>3 DEF handleExpiration, Ordered, rowVars, Reported, Inv, TypeOK, Sold
  <2>4. CASE UNCHANGED <<rowVars, newest, disturbed>>
    BY <2>4 DEF rowVars, Inv, TypeOK, Sold
  <2> QED
    BY <2>1, <2>2, <2>3, <2>4 DEF handleRevenueCatEvent
<1> QED
  BY <1>2, <1>3, <1>4 DEF Deliver, storeVars, Inv, TypeOK, Sold

LEMMA FailInv ==
  ASSUME Inv, NEW i \in 1 .. Len(inbox), Fail(i)
  PROVE  Inv'
<1>1. inbox[i] \in Reported
  BY EventsOfInbox DEF Inv, Sold
<1>2. inbox' \in Seq(Reported) /\ inbox' \in Seq(Event)
  BY RemoveAtType, ReportedAreEvents DEF Fail, Inv, Sold, TypeOK
<1>3. newest' \in Nat /\ disturbed' \in BOOLEAN
  BY <1>1 DEF Fail, Reported, Inv, TypeOK
<1>4. bought' = bought /\ Reported' = Reported
  BY DEF Fail, storeVars, Reported
<1> QED
  BY <1>2, <1>3, <1>4 DEF Fail, storeVars, rowVars, Inv, TypeOK, Sold

LEMMA StatusInv ==
  ASSUME Inv, NEW r \in Readers, ReadStatus(r) \/ TakeAway(r)
  PROVE  Inv'
<1>1. Reported' = Reported /\ bought' = bought /\ paidUntil' = paidUntil /\ subscribed' = subscribed
      /\ inbox' = inbox /\ proExpiresAt' = proExpiresAt
  BY DEF ReadStatus, TakeAway, storeVars, rowVars, Reported
<1>2. stale' \subseteq Readers
  BY DEF ReadStatus, TakeAway, Inv, TypeOK
<1>3. disturbed' \in BOOLEAN /\ isPro' \in BOOLEAN /\ (isPro' => isPro)
  BY DEF ReadStatus, TakeAway, rowVars, Inv, TypeOK, Active
<1>4. UNCHANGED <<now, renews, sent, newest>>
  BY DEF ReadStatus, TakeAway, storeVars
<1> QED
  BY <1>1, <1>2, <1>3, <1>4 DEF Inv, TypeOK, Sold

LEMMA NextInv == ASSUME Inv, [Next]_vars PROVE Inv'
<1>1. CASE Tick
  BY <1>1 DEF Tick, storeVars, rowVars, Inv, TypeOK, Sold, Reported
<1>2. CASE Store
  BY <1>2, StoreInv
<1>3. CASE \E i \in 1 .. Len(inbox) : Deliver(i) \/ Fail(i)
  BY <1>3, DeliverInv, FailInv
<1>4. CASE \E r \in Readers : ReadStatus(r) \/ TakeAway(r)
  BY <1>4, StatusInv
<1>5. CASE UNCHANGED vars
  BY <1>5 DEF vars, storeVars, rowVars, Inv, TypeOK, Sold, Reported
<1> QED
  BY <1>1, <1>2, <1>3, <1>4, <1>5 DEF Next

-------------------------------------------------------------------------------
(* Agreement with the store.                                                  *)

Pending == {inbox[i] : i \in 1 .. Len(inbox)}

\* The events that tell whether the store grants access, what they tell, and
\* that the row is as the store has it (a status request may have cleared the
\* flag of an expired one).
Tells(e) == e.type \in Sales \cup {"EXPIRATION"}
Says(e) == IF e.type = "EXPIRATION" THEN ~subscribed ELSE subscribed /\ paidUntil = e.expires
RowFits ==
    IF subscribed THEN proExpiresAt = paidUntil /\ (isPro \/ Passed(proExpiresAt)) ELSE ~isPro

\* The newest telling event says what the store says; when it has been handled
\* and nothing came after it, the row is as the store has it.
Agreement ==
    /\ newest <= sent
    /\ \A e \in Pending : e.n <= sent
    /\ \A e \in Pending :
          Tells(e) /\ e.n >= newest /\ (\A f \in Pending : Tells(f) => f.n <= e.n) => Says(e)
    /\ (\A f \in Pending : Tells(f) => f.n <= newest) => disturbed \/ RowFits

LEMMA PendingType == ASSUME Inv, NEW e \in Pending PROVE e \in Reported
  BY EventsOfInbox DEF Inv, Sold, Pending

LEMMA PendingOfAppend ==
  ASSUME NEW S, NEW s \in Seq(S), NEW e \in S
  PROVE  {Append(s, e)[i] : i \in 1 .. Len(Append(s, e))} = {s[i] : i \in 1 .. Len(s)} \cup {e}
<1> DEFINE t == Append(s, e)
<1>1. Len(s) \in Nat /\ Len(t) = Len(s) + 1 /\ t[Len(s) + 1] = e
  BY AppendProperties, LenProperties
<1>2. \A i \in 1 .. Len(s) : t[i] = s[i]
  BY AppendProperties
<1>3. 1 .. Len(t) = (1 .. Len(s)) \cup {Len(s) + 1}
  BY <1>1
<1> HIDE DEF t
<1> QED
  BY <1>1, <1>2, <1>3 DEF t

LEMMA PendingOfRemoveAt ==
  ASSUME NEW S, NEW s \in Seq(S), NEW i \in 1 .. Len(s)
  PROVE  LET left == {RemoveAt(s, i)[j] : j \in 1 .. Len(RemoveAt(s, i))}
             all == {s[j] : j \in 1 .. Len(s)}
         IN  left \subseteq all /\ all \subseteq left \cup {s[i]}
<1> DEFINE n == Len(s)
           a == SubSeq(s, 1, i - 1)
           b == SubSeq(s, i + 1, n)
           t == RemoveAt(s, i)
<1>1. n \in Nat /\ i \in Nat /\ 1 <= i /\ i <= n
  BY LenProperties
<1>2. a \in Seq(S) /\ Len(a) = i - 1 /\ \A j \in 1 .. i - 1 : a[j] = s[j]
  BY <1>1, SubSeqProperties
<1>3. b \in Seq(S) /\ Len(b) = n - i /\ \A j \in 1 .. n - i : b[j] = s[i + j]
  BY <1>1, SubSeqProperties
<1>4. /\ Len(t) = n - 1
      /\ \A j \in 1 .. n - 1 : t[j] = IF j <= i - 1 THEN s[j] ELSE s[j + 1]
  <2>1. t = a \o b
    BY DEF RemoveAt
  <2> HIDE DEF a, b, t
  <2>2. Len(t) = Len(a) + Len(b) /\ \A j \in 1 .. Len(a) + Len(b) :
            t[j] = IF j <= Len(a) THEN a[j] ELSE b[j - Len(a)]
    BY <1>2, <1>3, <2>1, ConcatProperties
  <2> QED
    BY <1>1, <1>2, <1>3, <2>2
<1> HIDE DEF n, a, b, t
<1>5. \A j \in 1 .. n - 1 : \E k \in 1 .. n : t[j] = s[k]
  BY <1>1, <1>4
<1>6. \A k \in 1 .. n : k = i \/ \E j \in 1 .. n - 1 : t[j] = s[k]
  <2> TAKE k \in 1 .. n
  <2>1. CASE k < i
    <3>1. k \in 1 .. n - 1 /\ t[k] = s[k]
      BY <1>1, <1>4, <2>1
    <3> QED
      BY <3>1
  <2>2. CASE k > i
    <3>1. k - 1 \in 1 .. n - 1 /\ t[k - 1] = s[k]
      BY <1>1, <1>4, <2>2
    <3> QED
      BY <3>1
  <2> QED
    BY <1>1, <2>1, <2>2
<1>7. {t[j] : j \in 1 .. n - 1} \subseteq {s[j] : j \in 1 .. n}
  BY <1>5
<1>8. {s[j] : j \in 1 .. n} \subseteq {t[j] : j \in 1 .. n - 1} \cup {s[i]}
  BY <1>6
<1> QED
  BY <1>4, <1>7, <1>8 DEF n, t

\* A report that tells what the store now says, or tells nothing new, agrees.
LEMMA ReportAgrees ==
  ASSUME Inv, Agreement, NEW type \in Types, NEW expires \in bought', bought \subseteq bought',
         Report(type, expires),
         IF type \in Sales THEN subscribed' /\ paidUntil' = expires
         ELSE IF type = "EXPIRATION" THEN ~subscribed'
         ELSE UNCHANGED <<subscribed, paidUntil>>
  PROVE  Agreement'
<1> PICK e : e = [n |-> sent + 1, type |-> type, purchased |-> now, expires |-> expires]
  OBVIOUS
<1>1. /\ sent \in Nat /\ sent' = sent + 1
      /\ newest \in Nat /\ newest' = newest /\ newest <= sent
      /\ disturbed' = disturbed /\ isPro' = isPro /\ proExpiresAt' = proExpiresAt /\ now' = now
  BY DEF Inv, TypeOK, Agreement, Report, rowVars
<1>2. Pending' = Pending \cup {e}
  <2>1. inbox \in Seq(Reported') /\ e \in Reported'
    <3>1. inbox \in Seq(Reported')
      BY ReportedGrows DEF Inv, Sold, Reported
    <3>2. e \in Reported'
      BY DEF Inv, TypeOK, Reported
    <3> QED
      BY <3>1, <3>2
  <2>2. inbox' = Append(inbox, e)
    BY DEF Report
  <2> QED
    BY <2>1, <2>2, PendingOfAppend DEF Pending
<1>3. \A f \in Pending : f.n \in Nat /\ f.n <= sent
  BY PendingType DEF Reported, Agreement
<1>4. e.n = sent + 1 /\ e.type = type /\ e.expires = expires
  OBVIOUS
<1>5. \A f \in Pending' : f.n <= sent'
  BY <1>1, <1>2, <1>3, <1>4
<1>6. CASE Tells(e)
  <2>1. Says(e)'
    BY <1>4, <1>6 DEF Says, Tells, Sales
  <2>2. \A f \in Pending' : f.n >= e.n => f = e
    BY <1>1, <1>2, <1>3, <1>4
  <2>3. ~(e.n <= newest') /\ e \in Pending'
    BY <1>1, <1>2, <1>4
  <2>4. \A f \in Pending' : (\A h \in Pending' : Tells(h) => h.n <= f.n) => f = e
    <3>1. \A f \in Pending' : f.n \in Nat /\ e.n \in Nat
      BY <1>1, <1>2, <1>3, <1>4
    <3> QED
      BY <1>6, <2>2, <2>3, <3>1
  <2> QED
    BY <1>1, <1>5, <1>6, <2>1, <2>3, <2>4 DEF Agreement, Tells
<1>7. CASE ~Tells(e)
  <2>1. UNCHANGED <<subscribed, paidUntil>>
    BY <1>4, <1>7 DEF Tells
  <2>2. \A f \in Pending' : Tells(f) => f \in Pending
    BY <1>2, <1>7
  <2>3. Pending \subseteq Pending'
    BY <1>2
  <2>4. \A f : Says(f)' = Says(f)
    BY <2>1 DEF Says
  <2>5. RowFits' = RowFits
    BY <1>1, <2>1 DEF RowFits, Passed
  <2> QED
    BY <1>1, <1>5, <2>2, <2>3, <2>4, <2>5 DEF Agreement, Tells
<1> QED
  BY <1>6, <1>7

LEMMA SellAgrees ==
  ASSUME Inv, Agreement, NEW type \in Sales, NEW expires \in Expiry, Sell(type, expires)
  PROVE  Agreement'
  BY ReportAgrees DEF Sell, Types

LEMMA StoreAgrees == ASSUME Inv, Agreement, Store PROVE Agreement'
<1>1. CASE Purchase
  <2>1. \E expires \in Expiry : Sell("INITIAL_PURCHASE", expires)
    BY <1>1, SubscriptionAssumption DEF Purchase, Inv, TypeOK, Expiry
  <2> QED
    BY <2>1, SellAgrees DEF Sales
<1>2. CASE Renew
  <2>1. paidUntil + Period \in Expiry
    BY <1>2, SubscriptionAssumption DEF Renew, Inv, TypeOK, Expiry
  <2> QED
    BY <1>2, <2>1, SellAgrees DEF Renew, Sales
<1>3. subscribed => paidUntil \in bought
  BY DEF Inv, Sold
<1>4. CASE Cancel
  BY <1>3, <1>4, ReportAgrees DEF Cancel, Types, Sales
<1>5. CASE Uncancel
  BY <1>3, <1>5, ReportAgrees DEF Uncancel, Types, Sales
<1>6. CASE BillingIssue
  BY <1>3, <1>6, ReportAgrees DEF BillingIssue, Types, Sales
<1>7. CASE Expire
  BY <1>3, <1>7, ReportAgrees DEF Expire, Types, Sales
<1> QED
  BY <1>1, <1>2, <1>4, <1>5, <1>6, <1>7 DEF Store

\* An event is taken from the inbox, or stays: what is newer than all that were
\* handled is known before and after.
LEMMA InboxShrinks ==
  ASSUME Inv, NEW i \in 1 .. Len(inbox), inbox' = RemoveAt(inbox, i) \/ UNCHANGED inbox
  PROVE  Pending' \subseteq Pending /\ Pending \subseteq Pending' \cup {inbox[i]}
<1>1. CASE inbox' = RemoveAt(inbox, i)
  <2>1. Pending' = {RemoveAt(inbox, i)[j] : j \in 1 .. Len(RemoveAt(inbox, i))}
    BY <1>1 DEF Pending
  <2>2. inbox \in Seq(Reported)
    BY DEF Inv, Sold
  <2> QED
    BY <2>1, <2>2, PendingOfRemoveAt DEF Pending
<1>2. CASE UNCHANGED inbox
  BY <1>2 DEF Pending
<1> QED
  BY <1>1, <1>2

LEMMA DeliverAgrees ==
  ASSUME Inv, Agreement, NEW i \in 1 .. Len(inbox), Deliver(i)
  PROVE  Agreement'
<1> PICK e \in Pending : e = inbox[i]
  BY DEF Pending
<1>1. /\ Pending' \subseteq Pending /\ Pending \subseteq Pending' \cup {e}
      /\ UNCHANGED <<now, stale, subscribed, paidUntil, sent>>
  BY InboxShrinks DEF Deliver, storeVars
<1>2. /\ newest \in Nat /\ sent \in Nat /\ newest <= sent
      /\ \A f \in Pending : f.n \in Nat /\ f.n <= sent /\ f.type \in Types
  BY PendingType DEF Inv, TypeOK, Reported, Agreement
<1>3. \A f : Says(f)' = Says(f)
  BY <1>1 DEF Says
<1>4. handleRevenueCatEvent(e)
  BY DEF Deliver
<1>5. CASE Tells(e)
  <2>1. /\ Ordered(e)
        /\ Says(e) => RowFits'
    <3>1. CASE e.type \in Sales
      BY <1>1, <1>4, <3>1 DEF handleRevenueCatEvent, activateSubscription, Sales, Says, RowFits
    <3>2. CASE e.type = "EXPIRATION"
      BY <1>1, <1>4, <3>2 DEF handleRevenueCatEvent, handleExpiration, Sales, Says, RowFits
    <3> QED
      BY <1>5, <3>1, <3>2 DEF Tells
  <2>2. /\ newest' = IF e.n > newest THEN e.n ELSE newest
        /\ disturbed' = IF e.n > newest THEN FALSE ELSE disturbed \/ e.n < newest
    BY <2>1 DEF Ordered
  <2>3. /\ newest' \in Nat /\ newest' <= sent' /\ e.n <= newest' /\ newest <= newest'
    BY <1>1, <1>2, <2>2
  <2>4. ASSUME NEW f \in Pending', Tells(f), f.n >= newest',
               \A h \in Pending' : Tells(h) => h.n <= f.n
        PROVE  Says(f)'
    <3>1. f \in Pending /\ f.n \in Nat /\ e.n \in Nat /\ f.n >= newest /\ e.n <= f.n
      BY <1>1, <1>2, <2>3, <2>4
    <3>2. \A h \in Pending : Tells(h) => h.n <= f.n
      BY <1>1, <2>4, <3>1
    <3> QED
      BY <1>3, <2>4, <3>1, <3>2 DEF Agreement
  <2>5. ASSUME \A f \in Pending' : Tells(f) => f.n <= newest'
        PROVE  disturbed' \/ RowFits'
    <3>1. \A f \in Pending : Tells(f) => f.n <= newest'
      BY <1>1, <2>3, <2>5
    <3>2. CASE e.n >= newest
      <4>1. newest' = e.n
        BY <1>2, <2>2, <3>2
      <4> QED
        BY <1>5, <2>1, <3>1, <3>2, <4>1 DEF Agreement
    <3>3. CASE e.n < newest
      <4>1. ~(e.n > newest)
        BY <1>2, <3>3
      <4>2. disturbed' = (disturbed \/ e.n < newest)
        BY <2>2, <4>1, Zenon
      <4> QED
        BY <3>3, <4>2, Zenon
    <3> QED
      BY <1>2, <3>2, <3>3
  <2> QED
    BY <1>1, <1>2, <2>3, <2>4, <2>5 DEF Agreement, Tells
<1>6. CASE ~Tells(e)
  <2>1. UNCHANGED <<rowVars, newest, disturbed>>
    BY <1>4, <1>6 DEF handleRevenueCatEvent, handleExpiration, Tells
  <2>2. RowFits' = RowFits
    BY <1>1, <2>1 DEF RowFits, rowVars, Passed
  <2>3. \A f \in Pending : Tells(f) => f \in Pending'
    BY <1>1, <1>6
  <2> QED
    BY <1>1, <1>2, <1>3, <2>1, <2>2, <2>3 DEF Agreement, Tells
<1> QED
  BY <1>5, <1>6

LEMMA FailAgrees ==
  ASSUME Inv, Agreement, NEW i \in 1 .. Len(inbox), Fail(i)
  PROVE  Agreement'
<1> PICK e \in Pending : e = inbox[i]
  BY DEF Pending
<1>1. /\ Pending' \subseteq Pending /\ Pending \subseteq Pending' \cup {e}
      /\ UNCHANGED <<now, subscribed, paidUntil, sent, isPro, proExpiresAt>>
  BY InboxShrinks DEF Fail, storeVars, rowVars
<1>2. /\ newest \in Nat /\ sent \in Nat /\ newest <= sent
      /\ \A f \in Pending : f.n \in Nat /\ f.n <= sent
  BY PendingType DEF Inv, TypeOK, Reported, Agreement
<1>3. RowFits' = RowFits /\ \A f : Says(f)' = Says(f)
  BY <1>1 DEF RowFits, Passed, Says
<1>4. CASE Tells(e) /\ e.n > newest
  <2>1. newest' = e.n /\ disturbed' = TRUE
    BY <1>4 DEF Fail, Tells
  <2>2. ASSUME NEW f \in Pending', Tells(f), f.n >= newest',
               \A h \in Pending' : Tells(h) => h.n <= f.n
        PROVE  Says(f)'
    <3>1. f \in Pending /\ f.n >= newest /\ \A h \in Pending : Tells(h) => h.n <= f.n
      BY <1>1, <1>2, <1>4, <2>1, <2>2
    <3> QED
      BY <1>3, <2>2, <3>1 DEF Agreement
  <2> QED
    BY <1>1, <1>2, <2>1, <2>2 DEF Agreement, Tells
<1>5. CASE ~(Tells(e) /\ e.n > newest)
  <2>1. UNCHANGED <<newest, disturbed>>
    BY <1>5 DEF Fail, Tells
  <2>2. \A f \in Pending : Tells(f) => f \in Pending' \/ f.n <= newest
    BY <1>1, <1>2, <1>5
  <2>3. ASSUME NEW f \in Pending', Tells(f), f.n >= newest',
               \A h \in Pending' : Tells(h) => h.n <= f.n
        PROVE  Says(f)'
    <3>1. f \in Pending /\ f.n >= newest /\ \A h \in Pending : Tells(h) => h.n <= f.n
      BY <1>1, <1>2, <2>1, <2>2, <2>3
    <3> QED
      BY <1>3, <2>3, <3>1 DEF Agreement
  <2>4. ASSUME \A f \in Pending' : Tells(f) => f.n <= newest'
        PROVE  disturbed' \/ RowFits'
    BY <1>3, <2>1, <2>2, <2>4 DEF Agreement
  <2> QED
    BY <1>1, <1>2, <2>1, <2>3, <2>4 DEF Agreement, Tells
<1> QED
  BY <1>4, <1>5

\* Time passes, or a status request clears the flag: only of an expired row, or
\* the row counts as disturbed.
LEMMA RowAgrees ==
  ASSUME Inv, Agreement, disturbed' \/ ((RowFits => RowFits') /\ disturbed' = disturbed),
         UNCHANGED <<inbox, newest, sent, subscribed, paidUntil>>
  PROVE  Agreement'
<1>1. Pending' = Pending /\ \A f : Says(f)' = Says(f)
  BY DEF Pending, Says
<1> QED
  BY <1>1 DEF Agreement, Tells

LEMMA NextAgrees == ASSUME Inv, Agreement, [Next]_vars PROVE Agreement'
<1>1. CASE Tick
  <2>1. UNCHANGED <<inbox, newest, sent, subscribed, paidUntil, isPro, proExpiresAt, disturbed>> /\ now' = now + 1
    BY <1>1 DEF Tick, storeVars, rowVars
  <2>2. Passed(proExpiresAt) => Passed(proExpiresAt)'
    BY <2>1, SubscriptionAssumption DEF Passed, Inv, TypeOK, Expiry
  <2> QED
    BY <2>1, <2>2, RowAgrees DEF RowFits
<1>2. CASE Store
  BY <1>2, StoreAgrees
<1>3. CASE \E i \in 1 .. Len(inbox) : Deliver(i) \/ Fail(i)
  BY <1>3, DeliverAgrees, FailAgrees
<1>4. CASE \E r \in Readers : ReadStatus(r)
  <2>1. UNCHANGED <<now, inbox, newest, sent, subscribed, paidUntil, isPro, proExpiresAt, disturbed>>
    BY <1>4 DEF ReadStatus, storeVars, rowVars
  <2> QED
    BY <2>1, RowAgrees DEF RowFits, Passed
<1>5. CASE \E r \in Readers : TakeAway(r)
  <2>1. /\ UNCHANGED <<now, inbox, newest, sent, subscribed, paidUntil, proExpiresAt>>
        /\ isPro' = FALSE /\ disturbed' = (disturbed \/ Active)
    BY <1>5 DEF TakeAway, storeVars
  <2>2. Passed(proExpiresAt)' = Passed(proExpiresAt)
    BY <2>1 DEF Passed
  <2>3. ~Active /\ RowFits => RowFits'
    BY <2>1, <2>2 DEF Active, RowFits
  <2>4. disturbed \in BOOLEAN /\ (Active => disturbed') /\ (~Active => disturbed' = disturbed)
    BY <2>1 DEF Inv, TypeOK
  <2>5. disturbed' \/ ((RowFits => RowFits') /\ disturbed' = disturbed)
    BY <2>3, <2>4, Zenon
  <2>6. UNCHANGED <<inbox, newest, sent, subscribed, paidUntil>>
    BY <2>1
  <2> QED
    BY <2>5, <2>6, RowAgrees, Zenon
<1>6. CASE UNCHANGED vars
  BY <1>6, RowAgrees DEF vars, storeVars, rowVars, RowFits, Passed
<1> QED
  BY <1>1, <1>2, <1>3, <1>4, <1>5, <1>6 DEF Next

-------------------------------------------------------------------------------
(* The theorems.                                                              *)

(* The inductive invariant holds throughout.                                  *)
THEOREM SubscriptionInv == Spec => []Inv
<1>1. Init => Inv
  BY InitInv
<1>2. Inv /\ [Next]_vars => Inv'
  BY NextInv
<1> QED
  BY <1>1, <1>2, PTL DEF Spec

(* Type correctness: above all, the expiry in the row of the user is always   *)
(* one that was bought, for all orders in which the webhooks come.            *)
THEOREM SubscriptionTyped == Spec => []TypeOK
<1>1. Inv => TypeOK
  BY DEF Inv
<1> QED
  BY <1>1, SubscriptionInv, PTL

(* However late, often or seldom the webhooks come, and whatever the status   *)
(* requests take away, the user has Pro only on days that were paid for.      *)
THEOREM SubscriptionNeverBeyondPaid == Spec => []NeverBeyondPaid
<1>1. Inv => NeverBeyondPaid
  BY DEF Inv, Sold, NeverBeyondPaid, Active
<1> QED
  BY <1>1, SubscriptionInv, PTL

(* The newest event that was handled in time mends whatever went wrong before *)
(* it: with nothing left to deliver, access is as the store has it, for any   *)
(* order, loss and repetition of the webhooks.                                *)
THEOREM SubscriptionAgrees == Spec => []AgreesWithStore
<1>1. Init => Agreement
  BY DEF Init, Agreement, Pending, RowFits
<1>2. Inv /\ Agreement /\ [Next]_vars => Agreement'
  BY NextAgrees
<1>3. Inv /\ Agreement => AgreesWithStore
  <2> SUFFICES ASSUME Inv, Agreement, ~disturbed, inbox = << >>
               PROVE  Active <=> subscribed /\ ~Passed(paidUntil)
    BY DEF AgreesWithStore
  <2>1. Pending = {}
    BY DEF Pending
  <2>2. RowFits
    BY <2>1 DEF Agreement
  <2> QED
    BY <2>2 DEF RowFits, Active
<1> QED
  BY <1>1, <1>2, <1>3, SubscriptionInv, PTL DEF Spec
================================================================================
