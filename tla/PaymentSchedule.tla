---------------------------- MODULE PaymentSchedule ----------------------------
(****************************************************************************)
(* What IncomeSourcesService promises about every income source, with the   *)
(* requests, their reads and their retries hidden.  A source has one        *)
(* pointer, the date of its next payment.  The service does one thing: it   *)
(* books a payment for the date the pointer shows, only when no row exists  *)
(* for that date, and moves the pointer on by one cycle.  Whatever else     *)
(* happens to a pointer is a change the user makes, and counted as such;    *)
(* putting it back asks for the dates from there on to be booked again.  So *)
(* a date is passed without a row only by the user.                         *)
(****************************************************************************)
EXTENDS Integers

CONSTANTS Sources, MaxDay,
          Frequencies      \* lengths of a cycle

VARIABLES pointer,     \* pointer[s]: the date of s's next payment
          rows,        \* rows[s][d]: how many payments of s are dated d
          changes      \* how many changes the user has made, to anything

scheduleVars == <<pointer, rows, changes>>

ScheduleInit ==
    /\ pointer \in [Sources -> Nat]
    /\ rows = [s \in Sources |-> [d \in 0 .. MaxDay |-> 0]]
    /\ changes = 0

\* The pointer of s, and of no other source, takes a new value.
OnlyPointerOf(s) ==
    /\ pointer'[s] \in Nat
    /\ pointer' = [pointer EXCEPT ![s] = pointer'[s]]

\* By the service.
Pay(s) ==
    /\ pointer[s] \in 0 .. MaxDay
    /\ rows[s][pointer[s]] = 0
    /\ rows' = [rows EXCEPT ![s][pointer[s]] = 1]
    /\ OnlyPointerOf(s)
    /\ \E cycle \in Frequencies : pointer'[s] = pointer[s] + cycle
    /\ UNCHANGED changes

\* By the user.
Reschedule(s) ==
    /\ OnlyPointerOf(s)
    /\ rows' = [rows EXCEPT ![s] =
                  [d \in 0 .. MaxDay |-> IF d < pointer'[s] THEN rows[s][d] ELSE 0]]
    /\ changes' = changes + 1

ChangeSomethingElse ==
    /\ changes' = changes + 1
    /\ UNCHANGED <<pointer, rows>>

ScheduleNext ==
    \/ \E s \in Sources : Pay(s) \/ Reschedule(s)
    \/ ChangeSomethingElse

ScheduleSpec == ScheduleInit /\ [][ScheduleNext]_scheduleVars
================================================================================
