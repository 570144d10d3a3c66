------------------------------ MODULE Subscription ------------------------------
(****************************************************************************)
(* The Pro subscription of one user.  The store (RevenueCat, external) sells *)
(* and renews it and reports each step by a webhook event; events are       *)
(* delivered late, twice, out of order or not at all, and a request for the *)
(* status may take an expired subscription away.                            *)
(****************************************************************************)
EXTENDS Integers, Sequences, FiniteSets, SequencesExt

CONSTANTS
    Readers,      \* requests for the status
    Never,        \* an expiry that never comes (null)
    Period,       \* days a purchase or renewal lasts
    MaxDay,       \* bound: the last day
    MaxEvents     \* bound: events of the store

ASSUME SubscriptionAssumption ==
    /\ Period \in Nat \ {0} /\ MaxDay \in Nat /\ MaxEvents \in Nat
    /\ Never \notin Nat

VARIABLES
    now,
    isPro, proExpiresAt,    \* row of table users
    stale,                  \* readers that saw an expired subscription
    \* The store:
    subscribed, paidUntil, renews, bought, sent,
    inbox,                  \* events to deliver, in the order of the store
    newest,                 \* history: number of the newest event that changed the row, or failed to
    disturbed               \* history: the row is not what that event made it

rowVars == <<isPro, proExpiresAt>>
storeVars == <<subscribed, paidUntil, renews, bought, sent>>
vars == <<now, rowVars, stale, storeVars, inbox, newest, disturbed>>

Expiry == Nat \cup {Never}
Sales == {"INITIAL_PURCHASE", "RENEWAL", "UNCANCELLATION"}
Types == Sales \cup {"CANCELLATION", "EXPIRATION", "BILLING_ISSUE"}
Event == [n : Nat, type : Types, purchased : Nat, expires : Expiry]

Passed(date) == date # Never /\ date < now
Reached(date) == date # Never /\ date <= now

Init ==
    /\ now = 0
    /\ isPro = FALSE
    /\ proExpiresAt = Never
    /\ stale = {}
    /\ subscribed = FALSE
    /\ paidUntil = 0
    /\ renews = FALSE
    /\ bought = {}
    /\ sent = 0
    /\ inbox = << >>
    /\ newest = 0
    /\ disturbed = FALSE

-------------------------------------------------------------------------------
(* The store.                                                                *)

\* The step becomes an event.
Report(type, expires) ==
    /\ sent < MaxEvents
    /\ sent' = sent + 1
    /\ inbox' = Append(inbox, [n |-> sent + 1, type |-> type, purchased |-> now, expires |-> expires])
    /\ UNCHANGED <<now, rowVars, stale, newest, disturbed>>

Sell(type, expires) ==
    /\ subscribed' = TRUE
    /\ renews' = (expires # Never)
    /\ paidUntil' = expires
    /\ bought' = bought \cup {expires}
    /\ Report(type, expires)

Purchase == ~subscribed /\ \E expires \in {now + Period, Never} : Sell("INITIAL_PURCHASE", expires)

\* At the end of the period, or up to a day before it.
Renew ==
    /\ subscribed /\ renews
    /\ now \in {paidUntil - 1, paidUntil}
    /\ Sell("RENEWAL", paidUntil + Period)

\* The subscription runs on, but not (or again) beyond its period.
Cancel ==
    /\ subscribed /\ renews
    /\ renews' = FALSE
    /\ Report("CANCELLATION", paidUntil)
    /\ UNCHANGED <<subscribed, paidUntil, bought>>

Uncancel ==
    /\ subscribed /\ ~renews /\ paidUntil # Never /\ ~Reached(paidUntil)
    /\ renews' = TRUE
    /\ Report("UNCANCELLATION", paidUntil)
    /\ UNCHANGED <<subscribed, paidUntil, bought>>

BillingIssue ==
    /\ subscribed /\ renews
    /\ Report("BILLING_ISSUE", paidUntil)
    /\ UNCHANGED <<subscribed, paidUntil, renews, bought>>

Expire ==
    /\ subscribed /\ Reached(paidUntil)
    /\ subscribed' = FALSE
    /\ renews' = FALSE
    /\ Report("EXPIRATION", paidUntil)
    /\ UNCHANGED <<paidUntil, bought>>

-------------------------------------------------------------------------------
(* handleRevenueCatEvent                                                     *)

\* The row is as the newest event wants it, unless an older one came after it.
Ordered(e) ==
    /\ newest' = IF e.n > newest THEN e.n ELSE newest
    /\ disturbed' = IF e.n > newest THEN FALSE ELSE disturbed \/ e.n < newest

\* Slip: the date of the purchase for that of its expiry.
ActivateFromPurchase(e) ==
    /\ isPro' = TRUE
    /\ proExpiresAt' = e.purchased
    /\ Ordered(e)

activateSubscription(e) ==
    /\ isPro' = TRUE
    /\ proExpiresAt' = e.expires
    /\ Ordered(e)

\* Slip: a cancellation ends Pro at once.
ExpireOnCancel(e) == isPro' = FALSE /\ Ordered(e) /\ UNCHANGED proExpiresAt

\* A cancelled subscription has access until it expires.
handleExpiration(e) ==
    IF e.type = "EXPIRATION"
    THEN isPro' = FALSE /\ Ordered(e) /\ UNCHANGED proExpiresAt
    ELSE UNCHANGED <<rowVars, newest, disturbed>>

handleRevenueCatEvent(e) ==
    \/ e.type \in Sales /\ activateSubscription(e)
    \/ e.type \in {"EXPIRATION", "CANCELLATION"} /\ handleExpiration(e)
    \/ /\ e.type \notin Sales \cup {"EXPIRATION", "CANCELLATION"}
       /\ UNCHANGED <<rowVars, newest, disturbed>>

\* Any event may be the next to come, and may come again.
Deliver(i) ==
    /\ handleRevenueCatEvent(inbox[i])
    /\ inbox' = RemoveAt(inbox, i) \/ UNCHANGED inbox
    /\ UNCHANGED <<now, stale, storeVars>>

\* A failure is answered as received, so the event does not come again.
Fail(i) ==
    /\ inbox' = RemoveAt(inbox, i)
    /\ IF inbox[i].type \in Sales \cup {"EXPIRATION"} /\ inbox[i].n > newest
       THEN newest' = inbox[i].n /\ disturbed' = TRUE
       ELSE UNCHANGED <<newest, disturbed>>
    /\ UNCHANGED <<now, rowVars, stale, storeVars>>

-------------------------------------------------------------------------------
(* getSubscriptionStatus, and the view of the home summary.                  *)

\* Slip: the flag alone.
FlagOnly == isPro

\* The answer; isProActive of the home service agrees but for the last instant.
Active == isPro /\ ~Passed(proExpiresAt)

\* The row is read; an expired subscription is taken away by a later call.
ReadStatus(r) ==
    /\ r \notin stale
    /\ isPro /\ Passed(proExpiresAt)
    /\ stale' = stale \cup {r}
    /\ UNCHANGED <<now, rowVars, storeVars, inbox, newest, disturbed>>

\* It takes away what a renewal has granted in between, too.
TakeAway(r) ==
    /\ r \in stale
    /\ stale' = stale \ {r}
    /\ isPro' = FALSE
    /\ disturbed' = (disturbed \/ Active)
    /\ UNCHANGED <<now, proExpiresAt, storeVars, inbox, newest>>

Tick ==
    /\ now < MaxDay
    /\ now' = now + 1
    /\ UNCHANGED <<rowVars, stale, storeVars, inbox, newest, disturbed>>

Store == Purchase \/ Renew \/ Cancel \/ Uncancel \/ BillingIssue \/ Expire

Next ==
    \/ Tick \/ Store
    \/ \E i \in 1..Len(inbox) : Deliver(i) \/ Fail(i)
    \/ \E r \in Readers : ReadStatus(r) \/ TakeAway(r)

Spec == Init /\ [][Next]_vars

-------------------------------------------------------------------------------
(* Types; the expiry in the row is always one that was bought.               *)
TypeOK ==
    /\ now \in Nat /\ isPro \in BOOLEAN
    /\ bought \subseteq Expiry
    /\ proExpiresAt \in bought \cup {Never}
    /\ stale \subseteq Readers
    /\ subscribed \in BOOLEAN /\ renews \in BOOLEAN /\ disturbed \in BOOLEAN
    /\ paidUntil \in Expiry
    /\ sent \in Nat /\ newest \in Nat
    /\ inbox \in Seq(Event)

(* However late, often or seldom events come: the user has Pro only on days   *)
(* that some purchase has paid for.                                           *)
NeverBeyondPaid == Active => \E expires \in bought : ~Passed(expires)

(* When every event has been handled, the newest last, and no late answer to  *)
(* a status request is on its way, the user has Pro exactly while the store   *)
(* says so.  One renewal or expiration handled in time mends all that went    *)
(* wrong before it.                                                           *)
AgreesWithStore ==
    ~disturbed /\ inbox = << >> => (Active <=> subscribed /\ ~Passed(paidUntil))
================================================================================
