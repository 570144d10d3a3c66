-------------------------------- MODULE Sessions --------------------------------
(****************************************************************************)
(* The account of one user: its password and the passwords before it, the   *)
(* counter and lock of failed logins, the refresh tokens (one per session)  *)
(* and the token of a password reset.  Every request reads rows, decides,   *)
(* and writes in later database calls.                                      *)
(****************************************************************************)
EXTENDS Integers, Sequences, FiniteSets, SequencesExt

CONSTANTS
    Tokens, ResetTokens, Passwords, Requests,
    NoToken, NoPassword,
    MaxAttempts,          \* MAX_FAILED_LOGIN_ATTEMPTS
    HistoryCount,         \* PASSWORD_HISTORY_COUNT
    MaxArrivals,          \* bound: requests of more than one step
    MaxCrashes            \* bound: requests that die half-way

ASSUME SessionsAssumption ==
    /\ NoToken \notin Tokens \cup ResetTokens
    /\ Tokens \cap ResetTokens = {}
    /\ NoPassword \notin Passwords
    /\ MaxAttempts \in Nat \ {0} /\ HistoryCount \in Nat \ {0}
    /\ MaxArrivals \in Nat /\ MaxCrashes \in Nat

VARIABLES
    account,          \* "none", "active", "inactive" or "deleted"
    password,         \* passwordHash of the row of table users
    attempts, locked, \*   failedLoginAttempts; lockedUntil is in the future
    reset,            \*   passwordResetToken, NoToken when null or expired
    history,          \* table password_history, oldest first
    session,          \* session[t]: the state of refresh token t
    pc,               \* requests: their stage
    kind,             \*   what they do
    token,            \*   the refresh or reset token they present
    seen, chosen,     \*   the password a session is opened with, the one they set
    began,            \*   history: how many revocations were made when a session's request began
    \* Histories of the account:
    former,           \* the passwords that were set, oldest first
    revocations,      \* how often all sessions were revoked
    opened,           \* opened[t]: with which password, when, by which login
    raced,            \* logins of which one token was rotated twice
    issued, used,     \* reset tokens; used[t]: how often t set a password
    orderly,          \* no two changes of the password have overlapped
    arrived, crashes \* counters of the bounds

userVars == <<account, password, attempts, locked, reset, history>>
localVars == <<pc, kind, token, seen, chosen, began>>
pastVars == <<former, revocations, raced, issued, used, orderly, arrived, crashes>>
vars == <<userVars, session, opened, localVars, pastVars>>

States == {"none", "live", "revoked", "expired", "gone"}
Kinds == {"none", "register", "login", "refresh", "change", "reset"}
Stages == {"idle", "user", "rotate", "open", "count", "lock", "clearAttempts", "create", "history",
           "update", "remember", "cleanup", "clearReset", "revokeAll"}

\* How a session came about: the password the login was checked against, the
\* numbers of revocations when its request began and when it opened the
\* session, and the token of the login it goes back to.
Opening == [password : Passwords \cup {NoPassword}, began : Nat, at : Nat,
            login : Tokens \cup {NoToken}]

NotOpened == [password |-> NoPassword, began |-> 0, at |-> 0, login |-> NoToken]

Init ==
    /\ account = "none"
    /\ password = NoPassword
    /\ attempts = 0
    /\ locked = FALSE
    /\ reset = NoToken
    /\ history = << >>
    /\ session = [t \in Tokens |-> "none"]
    /\ opened = [t \in Tokens |-> NotOpened]
    /\ pc = [r \in Requests |-> "idle"]
    /\ kind = [r \in Requests |-> "none"]
    /\ token = [r \in Requests |-> NoToken]
    /\ seen = [r \in Requests |-> NoPassword]
    /\ chosen = [r \in Requests |-> NoPassword]
    /\ began = [r \in Requests |-> 0]
    /\ former = << >>
    /\ revocations = 0
    /\ raced = {}
    /\ issued = {}
    /\ used = [t \in ResetTokens |-> 0]
    /\ orderly = TRUE
    /\ arrived = 0
    /\ crashes = 0

Exists == account \in {"active", "inactive"}
Live == {t \in Tokens : session[t] = "live"}

LastOf(s, n) == IF Len(s) <= n THEN s ELSE SubSeq(s, Len(s) - n + 1, Len(s))

Goto(r, stage) == pc' = [pc EXCEPT ![r] = stage]

\* A request begins at the given stage.
Begin(r, what, presented, read, new, stage) ==
    /\ pc[r] = "idle"
    /\ arrived < MaxArrivals
    /\ arrived' = arrived + 1
    /\ Goto(r, stage)
    /\ kind' = [kind EXCEPT ![r] = what]
    /\ token' = [token EXCEPT ![r] = presented]
    /\ seen' = [seen EXCEPT ![r] = read]
    /\ chosen' = [chosen EXCEPT ![r] = new]
    /\ began' = [began EXCEPT ![r] = IF what \in {"change", "reset"} THEN 0 ELSE revocations]
    /\ UNCHANGED <<userVars, session, opened, former, revocations, raced, issued, used,
                   crashes>>

Start(r, what, presented, read, new, stage) ==
    Begin(r, what, presented, read, new, stage) /\ UNCHANGED orderly

\* The request is changing the password.
Changing(r) == kind[r] \in {"change", "reset"}

\* It goes on to another stage, or is over.
GoOn(r, stage) == Goto(r, stage) /\ UNCHANGED <<kind, token, seen, chosen, began>>

End(r) ==
    /\ Goto(r, "idle")
    /\ kind' = [kind EXCEPT ![r] = "none"]
    /\ token' = [token EXCEPT ![r] = NoToken]
    /\ seen' = [seen EXCEPT ![r] = NoPassword]
    /\ chosen' = [chosen EXCEPT ![r] = NoPassword]
    /\ began' = [began EXCEPT ![r] = 0]

-------------------------------------------------------------------------------
(* register, login, refreshToken: all end in a new session.                   *)

BeginRegister(r, p) ==
    /\ account = "none"
    /\ Start(r, "register", NoToken, p, p, "create")

\* The unique e-mail makes the second of two registrations fail.
CreateUser(r) ==
    /\ pc[r] = "create"
    /\ IF account = "none"
       THEN /\ account' = "active"
            /\ password' = chosen[r]
            /\ former' = <<chosen[r]>>
            /\ GoOn(r, "remember")
       ELSE /\ End(r)
            /\ UNCHANGED <<account, password, former>>
    /\ UNCHANGED <<attempts, locked, reset, history, session, opened, revocations, raced,
                   issued, used, orderly, arrived, crashes>>

\* A login whose user is gone, inactive or locked is refused.
BeginLogin(r, p) ==
    /\ account = "active"
    /\ ~locked
    /\ Start(r, "login", NoToken, p, NoPassword, IF p = password THEN "clearAttempts" ELSE "count")

\* recordFailedLogin increments in the database and returns the row.
CountFailure(r) ==
    /\ pc[r] = "count"
    /\ IF Exists
       THEN /\ attempts' = attempts + 1
            /\ IF attempts + 1 >= MaxAttempts THEN GoOn(r, "lock") ELSE End(r)
       ELSE /\ End(r)
            /\ UNCHANGED attempts
    /\ UNCHANGED <<account, password, locked, reset, history, session, opened, pastVars>>

LockAccount(r) ==
    /\ pc[r] = "lock"
    /\ locked' = Exists
    /\ End(r)
    /\ UNCHANGED <<account, password, attempts, reset, history, session, opened, pastVars>>

\* Slip: a success takes one failure back.
ForgiveOne(r) ==
    /\ pc[r] = "clearAttempts"
    /\ IF Exists
       THEN /\ attempts' = attempts - 1
            /\ locked' = FALSE
            /\ GoOn(r, "open")
       ELSE /\ End(r)
            /\ UNCHANGED <<attempts, locked>>
    /\ UNCHANGED <<account, password, reset, history, session, opened, pastVars>>

ResetFailedAttempts(r) ==
    /\ pc[r] = "clearAttempts"
    /\ IF Exists
       THEN /\ attempts' = 0
            /\ locked' = FALSE
            /\ GoOn(r, "open")
       ELSE /\ End(r)
            /\ UNCHANGED <<attempts, locked>>
    /\ UNCHANGED <<account, password, reset, history, session, opened, pastVars>>

\* findRefreshToken, then findById.
BeginRefresh(r, t) ==
    /\ session[t] = "live"
    /\ Start(r, "refresh", t, opened[t].password, NoPassword, "user")

FindUser(r) ==
    /\ pc[r] = "user"
    /\ IF account = "active" THEN GoOn(r, "rotate") ELSE End(r)
    /\ UNCHANGED <<userVars, session, opened, pastVars>>

\* Slip: the token stays as it is.
RotateNothing(r) ==
    /\ pc[r] = "rotate"
    /\ GoOn(r, "open")
    /\ UNCHANGED <<userVars, session, opened, pastVars>>

\* revokeRefreshToken, whatever has become of the token in the meantime.
Rotate(r) ==
    /\ pc[r] = "rotate"
    /\ IF session[token[r]] # "gone"
       THEN /\ session' = [session EXCEPT ![token[r]] = "revoked"]
            /\ raced' = IF session[token[r]] = "revoked" THEN raced \cup {opened[token[r]].login}
                                                       ELSE raced
            /\ GoOn(r, "open")
       ELSE /\ End(r)
            /\ UNCHANGED <<session, raced>>
    /\ UNCHANGED <<userVars, opened, former, revocations, issued, used, orderly, arrived, crashes>>

\* createRefreshToken; a refresh carries on the session of the token it rotated.
OpenSession(r) ==
    /\ pc[r] = "open"
    /\ IF Exists
       THEN \E t \in Tokens :
               /\ session[t] = "none"
               /\ session' = [session EXCEPT ![t] = "live"]
               /\ opened' = [opened EXCEPT ![t] =
                    [password |-> seen[r], began |-> began[r], at |-> revocations,
                     login |-> IF kind[r] = "refresh" THEN opened[token[r]].login ELSE t]]
       ELSE UNCHANGED <<session, opened>>
    /\ End(r)
    /\ UNCHANGED <<userVars, pastVars>>

-------------------------------------------------------------------------------
(* logout, revokeSession, revokeOtherSessions: one write each.                *)

Revoke(tokens) ==
    /\ account = "active"
    /\ session' = [t \in Tokens |-> IF t \in tokens \cap Live THEN "revoked" ELSE session[t]]
    /\ UNCHANGED <<userVars, opened, localVars, former, raced, issued, used, orderly, arrived,
                   crashes>>

\* logout of one device; revokeSession does the same by the session's id.
Logout(t) == t \in Live /\ Revoke({t}) /\ UNCHANGED revocations

RevokeOthers(t) == t \in Live /\ Revoke(Tokens \ {t}) /\ UNCHANGED revocations

LogoutEverywhere == Revoke(Tokens) /\ Live # {} /\ revocations' = revocations + 1

-------------------------------------------------------------------------------
(* changePassword, forgotPassword, resetPassword                              *)

\* It overlaps the setting of another password by a request under way.
BeginChanging(r, what, presented, new) ==
    /\ Begin(r, what, presented, NoPassword, new, "history")
    /\ orderly' = (orderly /\ ~\E other \in Requests : Changing(other) \/ kind[other] = "register")

BeginChange(r, new) ==
    /\ account = "active"
    /\ new # password
    /\ BeginChanging(r, "change", NoToken, new)

\* A reset does not ask whether the account is active.
BeginReset(r, t, new) ==
    /\ Exists
    /\ reset = t
    /\ BeginChanging(r, "reset", t, new)

\* forgotPassword: the token is stored, then mailed.
RequestReset(t) ==
    /\ account = "active"
    /\ t \notin issued
    /\ reset' = t
    /\ issued' = issued \cup {t}
    /\ UNCHANGED <<account, password, attempts, locked, history, session, opened, localVars,
                   former, revocations, raced, used, orderly, arrived, crashes>>

\* Slip: the password history is not looked at.
SkipHistory(r) ==
    /\ pc[r] = "history"
    /\ GoOn(r, "update")
    /\ UNCHANGED <<userVars, session, opened, pastVars>>

\* getPasswordHistory
CheckHistory(r) ==
    /\ pc[r] = "history"
    /\ IF chosen[r] \in ToSet(LastOf(history, HistoryCount)) THEN End(r) ELSE GoOn(r, "update")
    /\ UNCHANGED <<userVars, session, opened, pastVars>>

UpdatePassword(r) ==
    /\ pc[r] = "update"
    /\ IF Exists
       THEN /\ password' = chosen[r]
            /\ former' = Append(former, chosen[r])
            /\ used' = IF kind[r] = "reset" THEN [used EXCEPT ![token[r]] = used[token[r]] + 1]
                                            ELSE used
            /\ GoOn(r, "remember")
       ELSE /\ End(r)
            /\ UNCHANGED <<password, former, used>>
    /\ UNCHANGED <<account, attempts, locked, reset, history, session, opened, revocations,
                   raced, issued, orderly, arrived, crashes>>

\* addPasswordToHistory: the last step of a registration before its session.
Remember(r) ==
    /\ pc[r] = "remember"
    /\ history' = Append(history, chosen[r])
    /\ GoOn(r, IF kind[r] = "register" THEN "open" ELSE "cleanup")
    /\ UNCHANGED <<account, password, attempts, locked, reset, session, opened, pastVars>>

\* cleanupOldPasswordHistory
CleanUp(r) ==
    /\ pc[r] = "cleanup"
    /\ history' = LastOf(history, HistoryCount)
    /\ GoOn(r, IF kind[r] = "reset" THEN "clearReset" ELSE "revokeAll")
    /\ UNCHANGED <<account, password, attempts, locked, reset, session, opened, pastVars>>

\* Slip: the token is left to expire.
KeepReset(r) ==
    /\ pc[r] = "clearReset"
    /\ GoOn(r, "revokeAll")
    /\ UNCHANGED <<userVars, session, opened, pastVars>>

\* clearPasswordResetToken, also of a token issued since.
ClearReset(r) ==
    /\ pc[r] = "clearReset"
    /\ reset' = NoToken
    /\ IF Exists THEN GoOn(r, "revokeAll") ELSE End(r)
    /\ UNCHANGED <<account, password, attempts, locked, history, session, opened, pastVars>>

\* Slip: only the sessions that were opened with the new password end.
RevokeNew(r) ==
    /\ pc[r] = "revokeAll"
    /\ session' = [t \in Tokens |-> IF t \in Live /\ opened[t].password = chosen[r]
                                    THEN "revoked" ELSE session[t]]
    /\ revocations' = revocations + 1
    /\ End(r)
    /\ UNCHANGED <<userVars, opened, former, raced, issued, used, orderly, arrived, crashes>>

\* revokeAllUserRefreshTokens
RevokeAll(r) ==
    /\ pc[r] = "revokeAll"
    /\ session' = [t \in Tokens |-> IF t \in Live THEN "revoked" ELSE session[t]]
    /\ revocations' = revocations + 1
    /\ End(r)
    /\ UNCHANGED <<userVars, opened, former, raced, issued, used, orderly, arrived, crashes>>

-------------------------------------------------------------------------------
(* The account is deactivated or deleted, with its tokens; time passes; a     *)
(* request dies between two calls.                                            *)

Deactivate ==
    /\ account = "active"
    /\ account' = "inactive"
    /\ UNCHANGED <<password, attempts, locked, reset, history, session, opened, localVars, pastVars>>

DeleteAccount ==
    /\ account = "active"
    /\ account' = "deleted"
    /\ reset' = NoToken
    /\ locked' = FALSE
    /\ session' = [t \in Tokens |-> IF session[t] = "none" THEN "none" ELSE "gone"]
    /\ UNCHANGED <<password, attempts, history, opened, localVars, pastVars>>

SessionExpires(t) ==
    /\ t \in Live
    /\ session' = [session EXCEPT ![t] = "expired"]
    /\ UNCHANGED <<userVars, opened, localVars, pastVars>>

LockExpires ==
    /\ locked
    /\ locked' = FALSE
    /\ UNCHANGED <<account, password, attempts, reset, history, session, opened, localVars, pastVars>>

ResetExpires ==
    /\ reset # NoToken
    /\ reset' = NoToken
    /\ UNCHANGED <<account, password, attempts, locked, history, session, opened, localVars, pastVars>>

Crash(r) ==
    /\ crashes < MaxCrashes
    /\ pc[r] # "idle"
    /\ crashes' = crashes + 1
    /\ End(r)
    /\ UNCHANGED <<userVars, session, opened, former, revocations, raced, issued, used, orderly,
                   arrived>>
-------------------------------------------------------------------------------
Arrive(r) ==
    \/ \E p \in Passwords : BeginRegister(r, p) \/ BeginLogin(r, p) \/ BeginChange(r, p)
    \/ \E t \in Tokens : BeginRefresh(r, t)
    \/ \E t \in ResetTokens, p \in Passwords : BeginReset(r, t, p)

Step(r) ==
    \/ CreateUser(r) \/ CountFailure(r) \/ LockAccount(r) \/ ResetFailedAttempts(r)
    \/ FindUser(r) \/ Rotate(r) \/ OpenSession(r)
    \/ CheckHistory(r) \/ UpdatePassword(r) \/ Remember(r) \/ CleanUp(r)
    \/ ClearReset(r) \/ RevokeAll(r)

Manage ==
    \/ \E t \in Tokens : Logout(t) \/ RevokeOthers(t)
    \/ LogoutEverywhere
    \/ \E t \in ResetTokens : RequestReset(t)
    \/ Deactivate \/ DeleteAccount

Time == LockExpires \/ ResetExpires \/ \E t \in Tokens : SessionExpires(t)

Next ==
    \/ Manage \/ Time
    \/ \E r \in Requests : Arrive(r) \/ Step(r) \/ Crash(r)

Spec == Init /\ [][Next]_vars

-------------------------------------------------------------------------------
TypeOK ==
    /\ account \in {"none", "active", "inactive", "deleted"}
    /\ password \in Passwords \cup {NoPassword}
    /\ attempts \in Nat /\ locked \in BOOLEAN
    /\ reset \in ResetTokens \cup {NoToken}
    /\ history \in Seq(Passwords) /\ former \in Seq(Passwords)
    /\ session \in [Tokens -> States]
    /\ opened \in [Tokens -> Opening]
    /\ pc \in [Requests -> Stages]
    /\ kind \in [Requests -> Kinds]
    /\ token \in [Requests -> Tokens \cup ResetTokens \cup {NoToken}]
    /\ seen \in [Requests -> Passwords \cup {NoPassword}]
    /\ chosen \in [Requests -> Passwords \cup {NoPassword}]
    /\ began \in [Requests -> Nat]
    /\ revocations \in Nat
    /\ raced \subseteq Tokens \cup {NoToken}
    /\ issued \subseteq ResetTokens
    /\ used \in [ResetTokens -> Nat]
    /\ orderly \in BOOLEAN
    /\ arrived \in Nat /\ crashes \in Nat

\* A request has set the password and has yet to revoke the sessions.
Pending == \E r \in Requests :
    Changing(r) /\ pc[r] \in {"remember", "cleanup", "clearReset", "revokeAll"}

(* Once a change or reset of the password is complete, a session opened with  *)
(* an earlier password is live only if its login, or a refresh of it, was     *)
(* under way when the sessions were revoked ("Please log in again on all      *)
(* devices"), or a request died before it revoked them.                       *)
SurvivorsWereUnderWay ==
    crashes = 0 =>
        \A t \in Live :
            opened[t].password # password =>
                \/ Pending
                \/ \E u \in Tokens : opened[u].login = opened[t].login /\ opened[u].began < opened[u].at

(* One login has one live session, however often it is refreshed, unless two  *)
(* refreshes rotated the same token (rotation).                               *)
OneSessionPerLogin ==
    \A t, u \in Live :
        t # u /\ opened[t].login = opened[u].login => opened[t].login \in raced

(* A password is not set again while it is among the last HistoryCount that   *)
(* were in force, also not by a reset ("Prevent reuse of last N passwords").  *)
NoRecentPassword ==
    [][former' # former /\ orderly /\ crashes = 0 =>
          Last(former') \notin ToSet(LastOf(former, HistoryCount))]_vars

(* A reset token sets a password once, or once more for a request that died   *)
(* before it cleared the token.                                               *)
ResetUsedOnce == orderly => \A t \in ResetTokens : used[t] <= 1 + crashes
================================================================================
