----------------------------- MODULE Sessions_proofs -----------------------------
(****************************************************************************)
(* Proofs about Sessions, for any number of tokens, passwords and requests  *)
(* and any bounds: types, that a login has one session, that a reset token  *)
(* sets the password once, that a recent password is not set again, and     *)
(* which sessions outlive a change of the password.                         *)
(****************************************************************************)
EXTENDS Sessions, SequenceTheorems, TLAPS

USE DEF Exists

\* The type invariant in two parts: the requests, and the rows with their history.
Locals ==
    /\ pc \in [Requests -> Stages]
    /\ kind \in [Requests -> Kinds]
    /\ token \in [Requests -> Tokens \cup ResetTokens \cup {NoToken}]
    /\ seen \in [Requests -> Passwords \cup {NoPassword}]
    /\ chosen \in [Requests -> Passwords \cup {NoPassword}]
    /\ began \in [Requests -> Nat]

Rows ==
    /\ account \in {"none", "active", "inactive", "deleted"}
    /\ password \in Passwords \cup {NoPassword}
    /\ attempts \in Nat /\ locked \in BOOLEAN
    /\ reset \in ResetTokens \cup {NoToken}
    /\ history \in Seq(Passwords) /\ former \in Seq(Passwords)
    /\ session \in [Tokens -> States]
    /\ opened \in [Tokens -> Opening]
    /\ revocations \in Nat
    /\ raced \subseteq Tokens \cup {NoToken}
    /\ issued \subseteq ResetTokens
    /\ used \in [ResetTokens -> Nat]
    /\ orderly \in BOOLEAN
    /\ arrived \in Nat /\ crashes \in Nat

\* What a request holds fits the stage it is at.
Setting == {"create", "remember", "history", "update", "cleanup", "clearReset", "revokeAll"}
Fits(r) ==
    /\ pc[r] \in Setting => chosen[r] \in Passwords
    /\ pc[r] \in {"user", "rotate"} => kind[r] = "refresh"
    /\ pc[r] = "clearAttempts" => kind[r] = "login"
    /\ kind[r] = "refresh" => token[r] \in Tokens
    /\ kind[r] = "reset" => token[r] \in ResetTokens

Fit == \A r \in Requests : Fits(r)

Inv == Locals /\ Rows /\ Fit

-------------------------------------------------------------------------------
(* How a request goes on.                                                     *)

LEMMA EndFits == ASSUME Inv, NEW r \in Requests, End(r) PROVE Locals' /\ Fit'
<1>1. Locals'
  BY DEF End, Goto, Inv, Locals, Stages, Kinds
<1>2. \A q \in Requests : Fits(q)'
  <2> TAKE q \in Requests
  <2>1. CASE q = r
    BY <2>1 DEF End, Goto, Inv, Locals, Fits, Setting
  <2>2. CASE q # r
    BY <2>2 DEF End, Goto, Inv, Locals, Fit, Fits
  <2> QED
    BY <2>1, <2>2
<1> QED
  BY <1>1, <1>2 DEF Fit

LEMMA GoOnFits ==
  ASSUME Inv, NEW r \in Requests, NEW stage \in Stages, GoOn(r, stage),
         stage \in Setting => pc[r] \in Setting,
         stage \in {"user", "rotate"} => kind[r] = "refresh",
         stage # "clearAttempts"
  PROVE  Locals' /\ Fit'
<1>1. Locals'
  BY DEF GoOn, Goto, Inv, Locals
<1>2. \A q \in Requests : Fits(q)'
  <2> TAKE q \in Requests
  <2>1. CASE q = r
    BY <2>1 DEF GoOn, Goto, Inv, Locals, Fit, Fits
  <2>2. CASE q # r
    BY <2>2 DEF GoOn, Goto, Inv, Locals, Fit, Fits
  <2> QED
    BY <2>1, <2>2
<1> QED
  BY <1>1, <1>2 DEF Fit

LEMMA BeginFits ==
  ASSUME Inv, NEW r \in Requests, NEW what \in Kinds,
         NEW presented \in Tokens \cup ResetTokens \cup {NoToken},
         NEW read \in Passwords \cup {NoPassword}, NEW new \in Passwords \cup {NoPassword},
         NEW stage \in Stages, Begin(r, what, presented, read, new, stage),
         orderly' \in BOOLEAN,
         stage \in Setting => new \in Passwords,
         stage \in {"user", "rotate"} => what = "refresh",
         stage = "clearAttempts" => what = "login",
         what = "refresh" => presented \in Tokens,
         what = "reset" => presented \in ResetTokens
  PROVE  Inv'
<1>1. Locals'
  BY DEF Begin, Goto, Inv, Locals, Rows
<1>2. Rows'
  BY DEF Begin, userVars, Inv, Rows
<1>3. \A q \in Requests : Fits(q)'
  <2> TAKE q \in Requests
  <2>1. CASE q = r
    BY <2>1 DEF Begin, Goto, Inv, Locals, Fits
  <2>2. CASE q # r
    BY <2>2 DEF Begin, Goto, Inv, Locals, Fit, Fits
  <2> QED
    BY <2>1, <2>2
<1> QED
  BY <1>1, <1>2, <1>3 DEF Inv, Fit

LEMMA LastOfType ==
  ASSUME NEW S, NEW s \in Seq(S), NEW n \in Nat
  PROVE  LastOf(s, n) \in Seq(S)
<1>1. Len(s) \in Nat
  BY LenProperties
<1>2. Len(s) > n => SubSeq(s, Len(s) - n + 1, Len(s)) \in Seq(S)
  BY <1>1, SubSeqProperties
<1> QED
  BY <1>1, <1>2 DEF LastOf

-------------------------------------------------------------------------------
(* The invariant, step by step.                                               *)

LEMMA InitInv == ASSUME Init PROVE Inv
  BY EmptySeq, SessionsAssumption
  DEF Init, Inv, Locals, Rows, Fit, Fits, Setting, NotOpened, Opening, States, Stages, Kinds

LEMMA ArriveInv == ASSUME Inv, NEW r \in Requests, Arrive(r) PROVE Inv'
<1>1. Rows
  BY DEF Inv
<1>2. CASE \E p \in Passwords : BeginRegister(r, p)
  BY <1>1, <1>2, BeginFits DEF BeginRegister, Start, Stages, Kinds, Setting, Rows
<1>3. CASE \E p \in Passwords : BeginLogin(r, p)
  <2>1. PICK p \in Passwords : BeginLogin(r, p)
    BY <1>3
  <2> DEFINE stage == IF p = password THEN "clearAttempts" ELSE "count"
  <2>2. stage \in Stages /\ stage \notin Setting /\ stage \notin {"user", "rotate"}
    BY DEF Stages, Setting
  <2> HIDE DEF stage
  <2>3. Begin(r, "login", NoToken, p, NoPassword, stage) /\ orderly' = orderly
    BY <2>1 DEF BeginLogin, Start, stage
  <2> QED
    BY <1>1, <2>2, <2>3, BeginFits DEF Kinds, Rows
<1>4. CASE \E p \in Passwords : BeginChange(r, p)
  BY <1>1, <1>4, BeginFits DEF BeginChange, BeginChanging, Stages, Kinds, Setting, Rows
<1>5. CASE \E t \in Tokens : BeginRefresh(r, t)
  <2>1. PICK t \in Tokens : BeginRefresh(r, t)
    BY <1>5
  <2>2. opened[t].password \in Passwords \cup {NoPassword}
    BY <1>1 DEF Rows, Opening
  <2> QED
    BY <1>1, <2>1, <2>2, BeginFits DEF BeginRefresh, Start, Stages, Kinds, Setting, Rows
<1>6. CASE \E t \in ResetTokens, p \in Passwords : BeginReset(r, t, p)
  BY <1>1, <1>6, BeginFits DEF BeginReset, BeginChanging, Stages, Kinds, Setting, Rows
<1> QED
  BY <1>2, <1>3, <1>4, <1>5, <1>6 DEF Arrive

\* Steps of login, refresh and registration.
LEMMA OpeningInv ==
  ASSUME Inv, NEW r \in Requests,
         \/ CreateUser(r) \/ CountFailure(r) \/ LockAccount(r) \/ ResetFailedAttempts(r)
         \/ FindUser(r) \/ Rotate(r) \/ OpenSession(r)
  PROVE  Inv'
<1> USE DEF Stages, Setting, pastVars, userVars
<1>1. CASE CreateUser(r)
  <2>1. Locals' /\ Fit'
    BY <1>1, EndFits, GoOnFits DEF CreateUser
  <2>2. chosen[r] \in Passwords
    BY <1>1 DEF CreateUser, Inv, Fit, Fits
  <2>3. <<chosen[r]>> \in Seq(Passwords)
    BY <2>2
  <2>4. Rows'
    BY <1>1, <2>2, <2>3 DEF CreateUser, Inv, Rows
  <2> QED
    BY <2>1, <2>4 DEF Inv
<1>2. CASE CountFailure(r)
  <2>1. Locals' /\ Fit'
    BY <1>2, EndFits, GoOnFits DEF CountFailure
  <2>2. Rows'
    BY <1>2 DEF CountFailure, Inv, Rows
  <2> QED
    BY <2>1, <2>2 DEF Inv
<1>3. CASE LockAccount(r)
  <2>1. Locals' /\ Fit'
    BY <1>3, EndFits DEF LockAccount
  <2>2. Rows'
    BY <1>3 DEF LockAccount, Inv, Rows
  <2> QED
    BY <2>1, <2>2 DEF Inv
<1>4. CASE ResetFailedAttempts(r)
  <2>1. Locals' /\ Fit'
    BY <1>4, EndFits, GoOnFits DEF ResetFailedAttempts
  <2>2. attempts' \in Nat
    BY <1>4 DEF ResetFailedAttempts, Inv, Rows
  <2>5. locked' \in BOOLEAN
    <3>1. locked' = FALSE \/ locked' = locked
      BY <1>4, Zenon DEF ResetFailedAttempts
    <3> QED
      BY <3>1 DEF Inv, Rows
  <2>3. UNCHANGED <<account, password, reset, history, session, opened, pastVars>>
    BY <1>4 DEF ResetFailedAttempts
  <2>4. Rows'
    BY <2>2, <2>3, <2>5 DEF Inv, Rows
  <2> QED
    BY <2>1, <2>4 DEF Inv
<1>5. CASE FindUser(r)
  <2>1. kind[r] = "refresh"
    BY <1>5 DEF FindUser, Inv, Fit, Fits
  <2>2. Locals' /\ Fit'
    BY <1>5, <2>1, EndFits, GoOnFits DEF FindUser
  <2>3. Rows'
    BY <1>5 DEF FindUser, Inv, Rows
  <2> QED
    BY <2>2, <2>3 DEF Inv
<1>6. CASE Rotate(r)
  <2>1. Locals' /\ Fit'
    BY <1>6, EndFits, GoOnFits DEF Rotate
  <2>2. token[r] \in Tokens
    BY <1>6 DEF Rotate, Inv, Fit, Fits
  <2>3. opened[token[r]].login \in Tokens \cup {NoToken}
    BY <2>2 DEF Inv, Rows, Opening
  <2>4. session' \in [Tokens -> States] /\ raced' \subseteq Tokens \cup {NoToken}
    BY <1>6, <2>2, <2>3 DEF Rotate, Inv, Rows, States
  <2>5. Rows'
    BY <1>6, <2>4 DEF Rotate, Inv, Rows
  <2> QED
    BY <2>1, <2>5 DEF Inv
<1>7. CASE OpenSession(r)
  <2>1. Locals' /\ Fit'
    BY <1>7, EndFits DEF OpenSession
  <2>2. session' \in [Tokens -> States] /\ opened' \in [Tokens -> Opening]
    <3>1. CASE UNCHANGED <<session, opened>>
      BY <3>1 DEF Inv, Rows
    <3>2. ASSUME NEW t \in Tokens,
                 session' = [session EXCEPT ![t] = "live"],
                 opened' = [opened EXCEPT ![t] =
                    [password |-> seen[r], began |-> began[r], at |-> revocations,
                     login |-> IF kind[r] = "refresh" THEN opened[token[r]].login ELSE t]]
          PROVE  session' \in [Tokens -> States] /\ opened' \in [Tokens -> Opening]
      <4>1. (IF kind[r] = "refresh" THEN opened[token[r]].login ELSE t) \in Tokens \cup {NoToken}
        BY DEF Inv, Rows, Fit, Fits, Opening
      <4>2. seen[r] \in Passwords \cup {NoPassword} /\ began[r] \in Nat /\ revocations \in Nat
        BY DEF Inv, Locals, Rows
      <4>3. [password |-> seen[r], began |-> began[r], at |-> revocations,
             login |-> IF kind[r] = "refresh" THEN opened[token[r]].login ELSE t] \in Opening
        BY <4>1, <4>2 DEF Opening
      <4> QED
        BY <3>2, <4>3 DEF Inv, Rows, States
    <3> QED
      BY <1>7, <3>1, <3>2 DEF OpenSession
  <2>3. Rows'
    BY <1>7, <2>2 DEF OpenSession, Inv, Rows
  <2> QED
    BY <2>1, <2>3 DEF Inv
<1> QED
  BY <1>1, <1>2, <1>3, <1>4, <1>5, <1>6, <1>7

\* Steps of a change or reset of the password.
LEMMA ChangingInv ==
  ASSUME Inv, NEW r \in Requests,
         \/ CheckHistory(r) \/ UpdatePassword(r) \/ Remember(r) \/ CleanUp(r)
         \/ ClearReset(r) \/ RevokeAll(r) \/ Crash(r)
  PROVE  Inv'
<1> USE DEF Stages, Setting, pastVars, userVars
<1>1. CASE CheckHistory(r)
  <2>1. Locals' /\ Fit'
    BY <1>1, EndFits, GoOnFits DEF CheckHistory
  <2>2. Rows'
    BY <1>1 DEF CheckHistory, Inv, Rows
  <2> QED
    BY <2>1, <2>2 DEF Inv
<1>2. CASE UpdatePassword(r)
  <2>1. Locals' /\ Fit'
    BY <1>2, EndFits, GoOnFits DEF UpdatePassword
  <2>2. chosen[r] \in Passwords
    BY <1>2 DEF UpdatePassword, Inv, Fit, Fits
  <2>3. Append(former, chosen[r]) \in Seq(Passwords)
    BY <2>2, AppendProperties DEF Inv, Rows
  <2>4. kind[r] = "reset" => token[r] \in ResetTokens
    BY DEF Inv, Fit, Fits
  <2>5. used' \in [ResetTokens -> Nat]
    <3>1. used \in [ResetTokens -> Nat]
      BY DEF Inv, Rows
    <3>2. used' = used \/ (kind[r] = "reset" /\ used' = [used EXCEPT ![token[r]] = used[token[r]] + 1])
      BY <1>2 DEF UpdatePassword
    <3> QED
      BY <2>4, <3>1, <3>2
  <2>6. Rows'
    BY <1>2, <2>2, <2>3, <2>5 DEF UpdatePassword, Inv, Rows
  <2> QED
    BY <2>1, <2>6 DEF Inv
<1>3. CASE Remember(r)
  <2>1. Locals' /\ Fit'
    BY <1>3, GoOnFits DEF Remember
  <2>2. chosen[r] \in Passwords
    BY <1>3 DEF Remember, Inv, Fit, Fits
  <2>3. Append(history, chosen[r]) \in Seq(Passwords)
    BY <2>2, AppendProperties DEF Inv, Rows
  <2>4. Rows'
    BY <1>3, <2>3 DEF Remember, Inv, Rows
  <2> QED
    BY <2>1, <2>4 DEF Inv
<1>4. CASE CleanUp(r)
  <2>1. Locals' /\ Fit'
    BY <1>4, GoOnFits DEF CleanUp
  <2>2. LastOf(history, HistoryCount) \in Seq(Passwords)
    BY LastOfType, SessionsAssumption DEF Inv, Rows
  <2>3. Rows'
    BY <1>4, <2>2 DEF CleanUp, Inv, Rows
  <2> QED
    BY <2>1, <2>3 DEF Inv
<1>5. CASE ClearReset(r)
  <2>1. Locals' /\ Fit'
    BY <1>5, EndFits, GoOnFits DEF ClearReset
  <2>2. Rows'
    BY <1>5 DEF ClearReset, Inv, Rows
  <2> QED
    BY <2>1, <2>2 DEF Inv
<1>6. CASE RevokeAll(r)
  <2>1. Locals' /\ Fit'
    BY <1>6, EndFits DEF RevokeAll
  <2>2. session' \in [Tokens -> States]
    BY <1>6 DEF RevokeAll, Inv, Rows, States
  <2>3. Rows'
    BY <1>6, <2>2 DEF RevokeAll, Inv, Rows
  <2> QED
    BY <2>1, <2>3 DEF Inv
<1>7. CASE Crash(r)
  <2>1. Locals' /\ Fit'
    BY <1>7, EndFits DEF Crash
  <2>2. Rows'
    BY <1>7 DEF Crash, Inv, Rows
  <2> QED
    BY <2>1, <2>2 DEF Inv
<1> QED
  BY <1>1, <1>2, <1>3, <1>4, <1>5, <1>6, <1>7

LEMMA LocalsUnchanged == ASSUME Inv, UNCHANGED localVars PROVE Locals' /\ Fit'
  BY DEF localVars, Inv, Locals, Fit, Fits

\* Steps without a request of their own.
LEMMA OtherInv == ASSUME Inv, Manage \/ Time PROVE Inv'
<1> USE DEF pastVars, userVars
<1>1. UNCHANGED localVars
  BY DEF Manage, Time, Logout, RevokeOthers, LogoutEverywhere, Revoke, RequestReset, Deactivate,
         DeleteAccount, LockExpires, ResetExpires, SessionExpires
<1>2. Rows'
  <2>1. ASSUME NEW tokens, Revoke(tokens), revocations' \in Nat
        PROVE  Rows'
    <3>1. session' \in [Tokens -> States]
      BY <2>1 DEF Revoke, Inv, Rows, States
    <3> QED
      BY <2>1, <3>1 DEF Revoke, Inv, Rows
  <2>2. CASE (\E t \in Tokens : Logout(t) \/ RevokeOthers(t)) \/ LogoutEverywhere
    <3>1. revocations \in Nat
      BY DEF Inv, Rows
    <3>2. \E tokens : Revoke(tokens) /\ revocations' \in {revocations, revocations + 1}
      BY <2>2 DEF Logout, RevokeOthers, LogoutEverywhere
    <3> QED
      BY <2>1, <3>1, <3>2
  <2>3. CASE \E t \in ResetTokens : RequestReset(t)
    BY <2>3 DEF RequestReset, Inv, Rows
  <2>4. CASE Deactivate
    BY <2>4 DEF Deactivate, Inv, Rows
  <2>5. CASE DeleteAccount
    <3>1. session' \in [Tokens -> States]
      BY <2>5 DEF DeleteAccount, States
    <3> QED
      BY <2>5, <3>1 DEF DeleteAccount, Inv, Rows
  <2>6. CASE LockExpires \/ ResetExpires
    BY <2>6 DEF LockExpires, ResetExpires, Inv, Rows
  <2>7. CASE \E t \in Tokens : SessionExpires(t)
    BY <2>7 DEF SessionExpires, Inv, Rows, States
  <2> QED
    BY <2>2, <2>3, <2>4, <2>5, <2>6, <2>7 DEF Manage, Time
<1> QED
  BY <1>1, <1>2, LocalsUnchanged DEF Inv

LEMMA NextInv == ASSUME Inv, [Next]_vars PROVE Inv'
<1>1. CASE \E r \in Requests : Arrive(r) \/ Step(r) \/ Crash(r)
  BY <1>1, ArriveInv, OpeningInv, ChangingInv DEF Step
<1>2. CASE Manage \/ Time
  BY <1>2, OtherInv
<1>3. CASE UNCHANGED vars
  <2>1. UNCHANGED localVars
    BY <1>3 DEF vars
  <2>2. Rows'
    BY <1>3 DEF vars, userVars, pastVars, Inv, Rows
  <2> QED
    BY <2>1, <2>2, LocalsUnchanged DEF Inv
<1> QED
  BY <1>1, <1>2, <1>3 DEF Next

(* The inductive invariant holds throughout.                                  *)
THEOREM SessionsInv == Spec => []Inv
<1>1. Init => Inv
  BY InitInv
<1>2. Inv /\ [Next]_vars => Inv'
  BY NextInv
<1> QED
  BY <1>1, <1>2, PTL DEF Spec

(* Type correctness, for any number of requests and any order of their calls. *)
THEOREM SessionsTyped == Spec => []TypeOK
<1>1. Inv => TypeOK
  BY DEF Inv, Locals, Rows, TypeOK
<1> QED
  BY <1>1, SessionsInv, PTL

-------------------------------------------------------------------------------
(* One session per login.                                                     *)

Login(t) == opened[t].login

\* What may still become, or be, a live session: a token that is live or was
\* until it expired, and a refresh that has rotated its token.
Held(t) == session[t] \in {"live", "expired"}
Carries(r) == pc[r] = "open" /\ kind[r] = "refresh"

USE DEF Login, Held, Carries

\* A session goes back to a login that was opened, also one being refreshed.
Origins ==
    /\ \A t \in Tokens : session[t] # "none" => Login(t) \in Tokens /\ session[Login(t)] # "none"
    /\ \A r \in Requests : kind[r] = "refresh" => session[token[r]] # "none"

\* Unless a token was rotated twice, one of them at most holds a login's session.
OneHolder ==
    /\ \A t, u \in Tokens : Held(t) /\ Held(u) /\ t # u /\ Login(t) = Login(u) => Login(t) \in raced
    /\ \A t \in Tokens, r \in Requests :
          Held(t) /\ Carries(r) /\ Login(token[r]) = Login(t) => Login(t) \in raced
    /\ \A r, q \in Requests :
          Carries(r) /\ Carries(q) /\ r # q /\ Login(token[r]) = Login(token[q])
              => Login(token[r]) \in raced

\* No request takes up a session, and a refresh that begins has one.
NoneCarries ==
    \A q \in Requests :
        /\ Carries(q)' => Carries(q) /\ token[q]' = token[q]
        /\ kind[q]' = "refresh" =>
              \/ kind[q] = "refresh" /\ token[q]' = token[q]
              \/ token[q]' \in Tokens /\ session[token[q]'] # "none"

LEMMA EndCarries == ASSUME Inv, NEW r \in Requests, End(r) PROVE NoneCarries
  BY DEF End, Goto, Inv, Locals, NoneCarries, Carries

LEMMA GoOnCarries ==
  ASSUME Inv, NEW r \in Requests, NEW stage, GoOn(r, stage), stage = "open" => kind[r] # "refresh"
  PROVE  NoneCarries
  BY DEF GoOn, Goto, Inv, Locals, NoneCarries, Carries

LEMMA BeginCarries ==
  ASSUME Inv, NEW r \in Requests, NEW what, NEW presented, NEW read, NEW new, NEW stage,
         Begin(r, what, presented, read, new, stage), stage # "open",
         what = "refresh" => presented \in Tokens /\ session[presented] # "none"
  PROVE  NoneCarries
  BY DEF Begin, Goto, Inv, Locals, NoneCarries, Carries

\* A step that opens no session and rotates no token takes away holders only.
LEMMA QuietStep ==
  ASSUME Inv, Origins, OneHolder, NoneCarries, opened' = opened, raced' = raced,
         \A t \in Tokens : session'[t] = "none" => session[t] = "none",
         \A t \in Tokens : session[t] = "none" => session'[t] = "none",
         \A t \in Tokens : session'[t] \in {"live", "expired"} => session[t] \in {"live", "expired"}
  PROVE  Origins' /\ OneHolder'
<1>1. \A q \in Requests : kind[q] = "refresh" => token[q] \in Tokens
  BY DEF Inv, Fit, Fits
<1>2. ASSUME NEW t \in Tokens, session'[t] # "none"
      PROVE  opened[t].login \in Tokens /\ session'[opened[t].login] # "none"
  <2>1. session[t] # "none"
    BY <1>2
  <2>2. opened[t].login \in Tokens /\ session[opened[t].login] # "none"
    BY <2>1 DEF Origins
  <2> QED
    BY <2>2
<1>3. ASSUME NEW q \in Requests, kind'[q] = "refresh"
      PROVE  session'[token'[q]] # "none"
  <2>1. token'[q] \in Tokens /\ session[token'[q]] # "none"
    BY <1>1, <1>3 DEF Origins, NoneCarries
  <2> QED
    BY <2>1
<1>4. Origins'
  BY <1>2, <1>3 DEF Origins
<1>5. OneHolder'
  BY DEF OneHolder, NoneCarries
<1> QED
  BY <1>4, <1>5

\* A rotation hands the session of a token on to the request.
LEMMA RotateStep == ASSUME Inv, Origins, OneHolder, NEW r \in Requests, Rotate(r)
                    PROVE  Origins' /\ OneHolder'
<1>1. kind[r] = "refresh" /\ token[r] \in Tokens /\ session[token[r]] \in States \ {"none"}
  BY DEF Rotate, Inv, Fit, Fits, Rows, Origins
<1>2. CASE session[token[r]] = "gone"
  <2>1. End(r) /\ UNCHANGED <<session, opened, raced>>
    BY <1>2 DEF Rotate
  <2> QED
    BY <2>1, EndCarries, QuietStep
<1>3. CASE session[token[r]] # "gone"
  <2> DEFINE L == opened[token[r]].login
  <2>1. /\ session' = [session EXCEPT ![token[r]] = "revoked"]
        /\ raced' = IF session[token[r]] = "revoked" THEN raced \cup {L} ELSE raced
        /\ opened' = opened
        /\ pc' = [pc EXCEPT ![r] = "open"] /\ kind' = kind /\ token' = token
    BY <1>3 DEF Rotate, GoOn, Goto
  <2>2. session \in [Tokens -> States] /\ pc \in [Requests -> Stages]
    BY DEF Inv, Rows, Locals
  <2>3. raced \subseteq raced'
    BY <2>1
  <2>4. session[token[r]] \in {"live", "expired"} \/ L \in raced'
    BY <1>1, <1>3, <2>1 DEF States
  <2>5. ASSUME NEW t \in Tokens, session'[t] \in {"live", "expired"}
        PROVE  session[t] \in {"live", "expired"} /\ t # token[r]
    BY <1>1, <2>1, <2>2, <2>5
  <2>6. ASSUME NEW q \in Requests, q # r, pc'[q] = "open"
        PROVE  pc[q] = "open"
    BY <2>1, <2>2, <2>6
  <2>7. ASSUME NEW t \in Tokens, session'[t] \in {"live", "expired"}, opened[t].login = L
        PROVE  L \in raced'
    BY <1>1, <2>3, <2>4, <2>5, <2>7 DEF OneHolder
  <2>8. ASSUME NEW q \in Requests, q # r, pc'[q] = "open", kind[q] = "refresh",
               opened[token[q]].login = L
        PROVE  L \in raced'
    BY <1>1, <2>3, <2>4, <2>6, <2>8 DEF OneHolder
  <2>9. OneHolder'
    <3>1. ASSUME NEW t \in Tokens, NEW u \in Tokens, session'[t] \in {"live", "expired"},
                 session'[u] \in {"live", "expired"}, t # u, opened[t].login = opened[u].login
          PROVE  opened[t].login \in raced'
      BY <2>3, <2>5, <3>1 DEF OneHolder
    <3>2. ASSUME NEW t \in Tokens, NEW q \in Requests, session'[t] \in {"live", "expired"},
                 pc'[q] = "open", kind[q] = "refresh", opened[token[q]].login = opened[t].login
          PROVE  opened[t].login \in raced'
      <4>1. CASE q = r
        BY <2>7, <3>2, <4>1
      <4>2. CASE q # r
        BY <2>3, <2>5, <2>6, <3>2, <4>2 DEF OneHolder
      <4> QED
        BY <4>1, <4>2
    <3>3. ASSUME NEW p \in Requests, NEW q \in Requests, p # q,
                 pc'[p] = "open", kind[p] = "refresh", pc'[q] = "open", kind[q] = "refresh",
                 opened[token[p]].login = opened[token[q]].login
          PROVE  opened[token[p]].login \in raced'
      <4>1. CASE q = r \/ p = r
        BY <2>8, <3>3, <4>1
      <4>2. CASE q # r /\ p # r
        BY <2>3, <2>6, <3>3, <4>2 DEF OneHolder
      <4> QED
        BY <4>1, <4>2
    <3> QED
      BY <2>1, <3>1, <3>2, <3>3 DEF OneHolder
  <2>10. \A t \in Tokens : session[t] # "none" => session'[t] # "none"
    BY <2>1, <2>2
  <2>11. \A q \in Requests : kind[q] = "refresh" => token[q] \in Tokens
    BY DEF Inv, Fit, Fits
  <2>12. \A t \in Tokens : session'[t] # "none" => session[t] # "none"
    BY <1>1, <2>1, <2>2
  <2>13. Origins'
    <3>1. ASSUME NEW t \in Tokens, session'[t] # "none"
          PROVE  opened[t].login \in Tokens /\ session'[opened[t].login] # "none"
      BY <2>10, <2>12, <3>1 DEF Origins
    <3>2. ASSUME NEW q \in Requests, kind[q] = "refresh"
          PROVE  session'[token[q]] # "none"
      BY <2>10, <2>11, <3>2 DEF Origins
    <3> QED
      BY <2>1, <3>1, <3>2 DEF Origins
  <2> QED
    BY <2>9, <2>13
<1> QED
  BY <1>2, <1>3

\* A new session takes over from the request, or begins a login of its own.
LEMMA OpenStep == ASSUME Inv, Origins, OneHolder, NEW r \in Requests, OpenSession(r)
                  PROVE  Origins' /\ OneHolder'
<1>1. End(r) /\ raced' = raced /\ pc[r] = "open"
  BY DEF OpenSession, pastVars
<1>2. CASE UNCHANGED <<session, opened>>
  BY <1>1, <1>2, EndCarries, QuietStep
<1>3. ASSUME NEW t \in Tokens, session[t] = "none",
             session' = [session EXCEPT ![t] = "live"],
             opened' = [opened EXCEPT ![t] =
                [password |-> seen[r], began |-> began[r], at |-> revocations,
                 login |-> IF kind[r] = "refresh" THEN opened[token[r]].login ELSE t]]
      PROVE  Origins' /\ OneHolder'
  <2> DEFINE L == IF kind[r] = "refresh" THEN opened[token[r]].login ELSE t
  <2>1. session \in [Tokens -> States] /\ opened \in [Tokens -> Opening]
    BY DEF Inv, Rows
  <2>2. opened'[t].login = L
    BY <1>3, <2>1
  <2>3. \A u \in Tokens : u # t => opened'[u] = opened[u] /\ session'[u] = session[u]
    BY <1>3, <2>1
  <2>4. session'[t] = "live"
    BY <1>3, <2>1
  <2>5. \A q \in Requests : kind[q] = "refresh" => token[q] \in Tokens \ {t}
    BY <1>3 DEF Inv, Fit, Fits, Origins
  <2>6. ASSUME NEW q \in Requests, kind'[q] = "refresh"
        PROVE  q # r /\ kind[q] = "refresh" /\ token'[q] = token[q] /\ pc'[q] = pc[q]
    BY <1>1, <2>6 DEF End, Goto, Inv, Locals
  <2>7. \A u \in Tokens : session[u] # "none" => session'[u] # "none"
    BY <2>3, <2>4
  <2>8. L \in Tokens /\ session'[L] # "none"
    <3>1. CASE kind[r] = "refresh"
      BY <2>5, <2>7, <3>1 DEF Origins
    <3>2. CASE kind[r] # "refresh"
      BY <2>4, <3>2
    <3> QED
      BY <3>1, <3>2
  <2>9. ASSUME NEW u \in Tokens, u # t, session[u] \in {"live", "expired"}, opened[u].login = L
        PROVE  L \in raced
    <3>1. CASE kind[r] = "refresh"
      BY <1>1, <2>9, <3>1 DEF OneHolder
    <3>2. CASE kind[r] # "refresh"
      BY <1>3, <2>9, <3>2 DEF Origins
    <3> QED
      BY <3>1, <3>2
  <2>10. ASSUME NEW q \in Requests, q # r, pc[q] = "open", kind[q] = "refresh",
                opened[token[q]].login = L
         PROVE  L \in raced
    <3>1. CASE kind[r] = "refresh"
      BY <1>1, <2>10, <3>1 DEF OneHolder
    <3>2. CASE kind[r] # "refresh"
      <4>1. session[token[q]] # "none" /\ token[q] \in Tokens
        BY <2>5, <2>10 DEF Origins
      <4> QED
        BY <1>3, <2>10, <3>2, <4>1 DEF Origins
    <3> QED
      BY <3>1, <3>2
  <2>11. Origins'
    <3>1. ASSUME NEW u \in Tokens, session'[u] # "none"
          PROVE  opened'[u].login \in Tokens /\ session'[opened'[u].login] # "none"
      <4>1. CASE u = t
        BY <2>2, <2>8, <4>1
      <4>2. CASE u # t
        BY <2>3, <2>7, <3>1, <4>2 DEF Origins
      <4> QED
        BY <4>1, <4>2
    <3>2. ASSUME NEW q \in Requests, kind'[q] = "refresh"
          PROVE  session'[token'[q]] # "none"
      BY <2>5, <2>6, <2>7, <3>2 DEF Origins
    <3> QED
      BY <3>1, <3>2 DEF Origins
  <2>12. OneHolder'
    <3>1. ASSUME NEW v \in Tokens, NEW u \in Tokens, session'[v] \in {"live", "expired"},
                 session'[u] \in {"live", "expired"}, v # u, opened'[v].login = opened'[u].login
          PROVE  opened'[v].login \in raced
      <4>1. CASE v = t
        BY <2>2, <2>3, <2>9, <3>1, <4>1
      <4>2. CASE u = t
        BY <2>2, <2>3, <2>9, <3>1, <4>2
      <4>3. CASE v # t /\ u # t
        BY <2>3, <3>1, <4>3 DEF OneHolder
      <4> QED
        BY <4>1, <4>2, <4>3
    <3>2. ASSUME NEW v \in Tokens, NEW q \in Requests, session'[v] \in {"live", "expired"},
                 pc'[q] = "open", kind'[q] = "refresh", opened'[token'[q]].login = opened'[v].login
          PROVE  opened'[v].login \in raced
      <4>1. /\ q # r /\ kind[q] = "refresh" /\ pc[q] = "open"
            /\ token'[q] = token[q] /\ opened'[token[q]] = opened[token[q]]
        BY <2>3, <2>5, <2>6, <3>2
      <4>2. CASE v = t
        BY <2>2, <2>10, <3>2, <4>1, <4>2
      <4>3. CASE v # t
        BY <2>3, <3>2, <4>1, <4>3 DEF OneHolder
      <4> QED
        BY <4>2, <4>3
    <3>3. ASSUME NEW p \in Requests, NEW q \in Requests, p # q,
                 pc'[p] = "open", kind'[p] = "refresh", pc'[q] = "open", kind'[q] = "refresh",
                 opened'[token'[p]].login = opened'[token'[q]].login
          PROVE  opened'[token'[p]].login \in raced
      BY <2>3, <2>5, <2>6, <3>3 DEF OneHolder
    <3> QED
      BY <1>1, <3>1, <3>2, <3>3 DEF OneHolder
  <2> QED
    BY <2>11, <2>12
<1> QED
  BY <1>2, <1>3 DEF OpenSession

\* Every other step is quiet.
LEMMA StepHolders ==
  ASSUME Inv, Origins, OneHolder, NEW r \in Requests, Arrive(r) \/ Step(r) \/ Crash(r)
  PROVE  Origins' /\ OneHolder'
<1>1. CASE Rotate(r) \/ OpenSession(r)
  BY <1>1, RotateStep, OpenStep
<1>2. CASE Arrive(r)
  <2>1. NoneCarries
    BY <1>2, BeginCarries
    DEF Arrive, BeginRegister, BeginLogin, BeginChange, BeginRefresh, BeginReset, Start, BeginChanging
  <2>2. UNCHANGED <<session, opened, raced>>
    BY <1>2 DEF Arrive, BeginRegister, BeginLogin, BeginChange, BeginRefresh, BeginReset, Start,
                BeginChanging, Begin
  <2> QED
    BY <2>1, <2>2, QuietStep
<1>3. CASE \/ CreateUser(r) \/ CountFailure(r) \/ LockAccount(r) \/ ResetFailedAttempts(r)
           \/ FindUser(r) \/ CheckHistory(r) \/ UpdatePassword(r) \/ Remember(r) \/ CleanUp(r)
           \/ ClearReset(r) \/ Crash(r)
  <2>1. pc[r] = "clearAttempts" => kind[r] # "refresh"
    BY DEF Inv, Fit, Fits
  <2>2. NoneCarries
    BY <1>3, <2>1, EndCarries, GoOnCarries
    DEF CreateUser, CountFailure, LockAccount, ResetFailedAttempts, FindUser, CheckHistory,
        UpdatePassword, Remember, CleanUp, ClearReset, Crash
  <2>3. UNCHANGED <<session, opened, raced>>
    BY <1>3
    DEF CreateUser, CountFailure, LockAccount, ResetFailedAttempts, FindUser, CheckHistory,
        UpdatePassword, Remember, CleanUp, ClearReset, Crash, pastVars
  <2> QED
    BY <2>2, <2>3, QuietStep
<1>4. CASE RevokeAll(r)
  <2>1. NoneCarries
    BY <1>4, EndCarries DEF RevokeAll
  <2>2. session' = [t \in Tokens |-> IF t \in Live THEN "revoked" ELSE session[t]]
    BY <1>4 DEF RevokeAll
  <2>3. UNCHANGED <<opened, raced>>
    BY <1>4 DEF RevokeAll
  <2> QED
    BY <2>1, <2>2, <2>3, QuietStep DEF Live
<1> QED
  BY <1>1, <1>2, <1>3, <1>4 DEF Step

LEMMA ManageHolders == ASSUME Inv, Origins, OneHolder, Manage \/ Time PROVE Origins' /\ OneHolder'
<1>1. UNCHANGED <<localVars, opened, raced>>
  BY DEF Manage, Time, Logout, RevokeOthers, LogoutEverywhere, Revoke, RequestReset, Deactivate,
         DeleteAccount, LockExpires, ResetExpires, SessionExpires, pastVars
<1>2. NoneCarries
  BY <1>1 DEF localVars, NoneCarries
<1>3. session \in [Tokens -> States]
  BY DEF Inv, Rows
<1>4. /\ \A t \in Tokens : session'[t] = "none" => session[t] = "none"
      /\ \A t \in Tokens : session[t] = "none" => session'[t] = "none"
      /\ \A t \in Tokens : session'[t] \in {"live", "expired"} => session[t] \in {"live", "expired"}
  <2>1. CASE \E tokens : Revoke(tokens)
    BY <1>3, <2>1 DEF Revoke, Live
  <2>2. CASE session' = session
    BY <2>2
  <2>3. CASE DeleteAccount
    BY <1>3, <2>3 DEF DeleteAccount
  <2>4. CASE \E t \in Tokens : SessionExpires(t)
    BY <1>3, <2>4 DEF SessionExpires, Live
  <2> QED
    BY <2>1, <2>2, <2>3, <2>4
    DEF Manage, Time, Logout, RevokeOthers, LogoutEverywhere, RequestReset, Deactivate,
        LockExpires, ResetExpires
<1> QED
  BY <1>1, <1>2, <1>4, QuietStep

LEMMA NextHolders == ASSUME Inv, Origins, OneHolder, [Next]_vars PROVE Origins' /\ OneHolder'
<1>1. CASE UNCHANGED vars
  <2>1. UNCHANGED <<pc, kind, token, session, opened, raced>>
    BY <1>1 DEF vars, localVars, pastVars
  <2>2. NoneCarries
    BY <2>1 DEF NoneCarries
  <2> QED
    BY <2>1, <2>2, QuietStep
<1> QED
  BY <1>1, StepHolders, ManageHolders DEF Next

(* A login has one live session, however often and by however many requests  *)
(* it is refreshed, unless two refreshes rotated the same token.             *)
THEOREM OneSession == Spec => []OneSessionPerLogin
<1>1. Init => Origins /\ OneHolder
  BY DEF Init, Origins, OneHolder
<1>2. Inv /\ (Origins /\ OneHolder) /\ [Next]_vars => (Origins /\ OneHolder)'
  BY NextHolders
<1>3. OneHolder => OneSessionPerLogin
  BY DEF OneHolder, OneSessionPerLogin, Live
<1> QED
  BY <1>1, <1>2, <1>3, SessionsInv, PTL DEF Spec

-------------------------------------------------------------------------------
(* Changes of the password that do not overlap.                               *)

Registering(r) == kind[r] = "register"

\* What a request is doing, by its stage.
Role(r) ==
    /\ kind[r] # "none" <=> pc[r] # "idle"
    /\ pc[r] \in {"history", "update", "cleanup", "revokeAll"} => Changing(r)
    /\ pc[r] = "clearReset" => kind[r] = "reset"
    /\ pc[r] = "create" => Registering(r)
    /\ pc[r] = "remember" => Changing(r) \/ Registering(r)

Roles == \A r \in Requests : Role(r)

\* Before the account exists there are only registrations, which have yet to
\* create it; only one of them does.
Beginnings ==
    /\ account = "none" =>
          /\ \A r \in Requests : pc[r] # "idle" => Registering(r) /\ pc[r] = "create"
          /\ former = << >> /\ history = << >>
    /\ \A r, q \in Requests :
          Registering(r) /\ Registering(q) /\ pc[r] = "remember" /\ pc[q] = "remember" => r = q

\* While changes are orderly, nothing else sets a password beside one.
OneChange ==
    orderly =>
        \A r, q \in Requests :
            Changing(r) /\ (Changing(q) \/ Registering(q)) => r = q

\* Only a token that was issued is stored, or presented.
Issued ==
    /\ reset \in issued \cup {NoToken}
    /\ \A r \in Requests : kind[r] = "reset" => token[r] \in issued

\* A token that has set a password is about to be cleared, or will not be
\* presented again.
Presents(r, t, stages) == kind[r] = "reset" /\ token[r] = t /\ pc[r] \in stages

Spent(t) ==
    \/ \E r \in Requests : Presents(r, t, {"remember", "cleanup", "clearReset"})
    \/ /\ reset # t /\ t \in issued
       /\ \A r \in Requests : ~Presents(r, t, {"history", "update"})

TokensSpent ==
    orderly => \A t \in ResetTokens : used[t] <= 1 + crashes /\ (used[t] > crashes => Spent(t))

\* The table of passwords ends as the passwords that were set do, but for one
\* that has yet to join it.
Joining(r) == pc[r] = "remember"

Remembered ==
    orderly /\ crashes = 0 =>
        /\ (\A r \in Requests : ~Joining(r)) =>
              LastOf(history, HistoryCount) = LastOf(former, HistoryCount)
        /\ \A r \in Requests : Joining(r) =>
              \E before \in Seq(Passwords) :
                 /\ former = Append(before, chosen[r])
                 /\ LastOf(history, HistoryCount) = LastOf(before, HistoryCount)
        /\ \A r \in Requests : pc[r] = "update" =>
              chosen[r] \notin ToSet(LastOf(history, HistoryCount))

Orderly == Roles /\ Beginnings /\ OneChange /\ Issued /\ TokensSpent /\ Remembered

-------------------------------------------------------------------------------
(* The other requests stay as they are.                                       *)

Rest(r) ==
    \A q \in Requests : q # r =>
        /\ pc'[q] = pc[q] /\ kind'[q] = kind[q] /\ token'[q] = token[q]
        /\ seen'[q] = seen[q] /\ chosen'[q] = chosen[q] /\ began'[q] = began[q]

LEMMA EndRest ==
  ASSUME Inv, NEW r \in Requests, End(r)
  PROVE  Rest(r) /\ pc'[r] = "idle" /\ kind'[r] = "none" /\ began'[r] = 0
  BY DEF End, Goto, Inv, Locals, Rest

LEMMA GoOnRest ==
  ASSUME Inv, NEW r \in Requests, NEW stage, GoOn(r, stage)
  PROVE  /\ Rest(r) /\ pc'[r] = stage
         /\ UNCHANGED <<kind, token, seen, chosen, began>>
  BY DEF GoOn, Goto, Inv, Locals, Rest

LEMMA BeginRest ==
  ASSUME Inv, NEW r \in Requests, NEW what, NEW presented, NEW read, NEW new, NEW stage,
         Begin(r, what, presented, read, new, stage)
  PROVE  /\ Rest(r) /\ pc[r] = "idle" /\ pc'[r] = stage /\ kind'[r] = what
         /\ token'[r] = presented /\ seen'[r] = read /\ chosen'[r] = new
         /\ began'[r] = IF what \in {"change", "reset"} THEN 0 ELSE revocations
  BY DEF Begin, Goto, Inv, Locals, Rest

\* The table as this section looks at it.
tableVars == <<account, reset, history, former, issued, used, orderly>>

LEMMA EndOrderly ==
  ASSUME Inv, Orderly, NEW r \in Requests, End(r), UNCHANGED tableVars,
         \/ crashes' = crashes /\ pc[r] \notin {"remember", "cleanup", "clearReset"}
         \/ crashes' = crashes + 1
  PROVE  Orderly'
<1>1. /\ \A q \in Requests : q # r => /\ pc'[q] = pc[q] /\ kind'[q] = kind[q] /\ token'[q] = token[q]
                                      /\ chosen'[q] = chosen[q]
      /\ pc'[r] = "idle" /\ kind'[r] = "none"
  BY EndRest DEF Rest
<1>2. UNCHANGED <<account, reset, history, former, issued, used, orderly>>
  BY DEF tableVars
<1>3. Roles'
  BY <1>1 DEF Orderly, Roles, Role, Changing, Registering
<1>4. Beginnings'
  BY <1>1, <1>2 DEF Orderly, Beginnings, Registering
<1>5. OneChange'
  BY <1>1, <1>2 DEF Orderly, OneChange, Changing, Registering
<1>6. Issued'
  BY <1>1, <1>2 DEF Orderly, Issued
<1>7. crashes \in Nat /\ used \in [ResetTokens -> Nat]
  BY DEF Inv, Rows
<1>8. TokensSpent'
  <2>1. CASE crashes' = crashes /\ pc[r] \notin {"remember", "cleanup", "clearReset"}
    <3>1. ASSUME NEW t \in ResetTokens, Spent(t) PROVE Spent(t)'
      <4>1. ASSUME NEW q \in Requests, NEW stages, Presents(q, t, stages), q # r PROVE Presents(q, t, stages)'
        BY <1>1, <4>1 DEF Presents
      <4>2. ASSUME NEW q \in Requests, Presents(q, t, {"history", "update"})'
            PROVE  Presents(q, t, {"history", "update"})
        BY <1>1, <4>2 DEF Presents
      <4> QED
        BY <1>2, <2>1, <3>1, <4>1, <4>2 DEF Spent, Presents
    <3> QED
      BY <1>2, <2>1, <3>1 DEF Orderly, TokensSpent
  <2>2. CASE crashes' = crashes + 1
    BY <1>2, <1>7, <2>2 DEF Orderly, TokensSpent
  <2> QED
    BY <2>1, <2>2
<1>9. Remembered'
  <2>1. CASE crashes' = crashes /\ pc[r] \notin {"remember", "cleanup", "clearReset"}
    BY <1>1, <1>2, <2>1 DEF Orderly, Remembered, Joining
  <2>2. CASE crashes' = crashes + 1
    BY <1>7, <2>2 DEF Remembered
  <2> QED
    BY <2>1, <2>2
<1> QED
  BY <1>3, <1>4, <1>5, <1>6, <1>8, <1>9 DEF Orderly

\* Steps of a login or refresh.
LEMMA OpeningOrderly ==
  ASSUME Inv, Orderly, NEW r \in Requests, UNCHANGED tableVars, crashes' = crashes,
         pc[r] \in {"count", "clearAttempts", "user", "rotate"},
         NEW stage \in {"lock", "open", "rotate"}, GoOn(r, stage)
  PROVE  Orderly'
<1>1. /\ \A q \in Requests : q # r => pc'[q] = pc[q]
      /\ pc'[r] = stage /\ UNCHANGED <<kind, token, chosen>>
  BY GoOnRest DEF Rest
<1>2. UNCHANGED <<account, reset, history, former, issued, used, orderly>>
  BY DEF tableVars
<1>3. Roles'
  BY <1>1 DEF Orderly, Roles, Role, Changing, Registering
<1>4. Beginnings'
  BY <1>1, <1>2 DEF Orderly, Beginnings, Registering
<1>5. OneChange' /\ Issued'
  BY <1>1, <1>2 DEF Orderly, OneChange, Changing, Registering, Issued
<1>6. TokensSpent'
  <2>1. \A t : \A q \in Requests : Presents(q, t, {"history", "update"})' <=> Presents(q, t, {"history", "update"})
    BY <1>1 DEF Presents
  <2>2. \A t : \A q \in Requests : Presents(q, t, {"remember", "cleanup", "clearReset"})'
                               <=> Presents(q, t, {"remember", "cleanup", "clearReset"})
    BY <1>1 DEF Presents
  <2> QED
    BY <1>2, <2>1, <2>2 DEF Orderly, TokensSpent, Spent
<1>7. Remembered'
  BY <1>1, <1>2 DEF Orderly, Remembered, Joining
<1> QED
  BY <1>3, <1>4, <1>5, <1>6, <1>7 DEF Orderly

\* Steps that leave the requests as they are.
LEMMA ManageOrderly == ASSUME Inv, Orderly, Manage \/ Time PROVE Orderly'
<1>1. UNCHANGED <<pc, kind, token, chosen, history, former, used, orderly, crashes>>
  BY DEF Manage, Time, Logout, RevokeOthers, Revoke, LogoutEverywhere, RequestReset, Deactivate,
         DeleteAccount, LockExpires, ResetExpires, SessionExpires, userVars, localVars, pastVars
<1>2. account' = account \/ (account # "none" /\ account' # "none")
  BY DEF Manage, Time, Logout, RevokeOthers, Revoke, LogoutEverywhere, RequestReset, Deactivate,
         DeleteAccount, LockExpires, ResetExpires, SessionExpires, userVars
<1>3. \/ reset' \in {reset, NoToken} /\ issued' = issued
      \/ \E t \in ResetTokens : t \notin issued /\ reset' = t /\ issued' = issued \cup {t}
  BY DEF Manage, Time, Logout, RevokeOthers, Revoke, LogoutEverywhere, RequestReset, Deactivate,
         DeleteAccount, LockExpires, ResetExpires, SessionExpires, userVars, pastVars
<1>4. Roles' /\ OneChange'
  BY <1>1 DEF Orderly, Roles, Role, OneChange, Changing, Registering
<1>5. Beginnings'
  BY <1>1, <1>2 DEF Orderly, Beginnings, Registering
<1>6. Issued'
  BY <1>1, <1>3 DEF Orderly, Issued
<1>7. TokensSpent'
  <2>1. ASSUME NEW t \in ResetTokens, Spent(t) PROVE Spent(t)'
    <3>1. \A q \in Requests : /\ Presents(q, t, {"history", "update"})'
                                  <=> Presents(q, t, {"history", "update"})
                              /\ Presents(q, t, {"remember", "cleanup", "clearReset"})'
                                  <=> Presents(q, t, {"remember", "cleanup", "clearReset"})
      BY <1>1 DEF Presents
    <3>2. reset # t /\ t \in issued => reset' # t /\ t \in issued'
      BY <1>3, SessionsAssumption
    <3> QED
      BY <2>1, <3>1, <3>2 DEF Spent
  <2> QED
    BY <1>1, <2>1 DEF Orderly, TokensSpent
<1>8. Remembered'
  BY <1>1 DEF Orderly, Remembered, Joining
<1> QED
  BY <1>4, <1>5, <1>6, <1>7, <1>8 DEF Orderly

\* A request begins that does not change the password.
LEMMA StartOrderly ==
  ASSUME Inv, Orderly, NEW r \in Requests, NEW what \in {"register", "login", "refresh"},
         NEW presented, NEW read, NEW new,
         NEW stage \in {"create", "clearAttempts", "count", "user"},
         Start(r, what, presented, read, new, stage),
         what = "register" <=> stage = "create",
         what = "register" <=> account = "none"
  PROVE  Orderly'
<1>1. /\ \A q \in Requests : q # r => /\ pc'[q] = pc[q] /\ kind'[q] = kind[q] /\ token'[q] = token[q]
                                      /\ chosen'[q] = chosen[q]
      /\ pc[r] = "idle" /\ pc'[r] = stage /\ kind'[r] = what
  BY BeginRest DEF Start, Rest
<1>2. UNCHANGED <<account, reset, history, former, issued, used, orderly, crashes>>
  BY DEF Start, Begin, userVars
<1>3. Roles'
  BY <1>1 DEF Orderly, Roles, Role, Changing, Registering
<1>4. Beginnings'
  BY <1>1, <1>2 DEF Orderly, Beginnings, Registering
<1>5. OneChange'
  <2>1. CASE what = "register"
    <3>1. \A q \in Requests : ~Changing(q)
      BY <2>1 DEF Orderly, Beginnings, Roles, Role, Changing, Registering
    <3> QED
      BY <1>1, <1>2, <2>1, <3>1 DEF OneChange, Changing
  <2>2. CASE what # "register"
    BY <1>1, <1>2, <2>2 DEF Orderly, OneChange, Changing, Registering
  <2> QED
    BY <2>1, <2>2
<1>6. Issued'
  BY <1>1, <1>2 DEF Orderly, Issued
<1>7. TokensSpent'
  <2>1. ASSUME NEW t \in ResetTokens, Spent(t) PROVE Spent(t)'
    <3>1. \A q \in Requests : /\ Presents(q, t, {"history", "update"})'
                                  => Presents(q, t, {"history", "update"})
                              /\ Presents(q, t, {"remember", "cleanup", "clearReset"})
                                  => Presents(q, t, {"remember", "cleanup", "clearReset"})'
      BY <1>1 DEF Presents
    <3> QED
      BY <1>2, <2>1, <3>1 DEF Spent
  <2> QED
    BY <1>2, <2>1 DEF Orderly, TokensSpent
<1>8. Remembered'
  BY <1>1, <1>2 DEF Orderly, Remembered, Joining
<1> QED
  BY <1>3, <1>4, <1>5, <1>6, <1>7, <1>8 DEF Orderly

\* A change of the password begins, orderly if it is alone.
LEMMA ChangeOrderly ==
  ASSUME Inv, Orderly, NEW r \in Requests, NEW what \in {"change", "reset"},
         NEW presented, NEW new, BeginChanging(r, what, presented, new), account # "none",
         what = "reset" => presented \in ResetTokens /\ reset = presented
  PROVE  Orderly'
<1>1. /\ \A q \in Requests : q # r => /\ pc'[q] = pc[q] /\ kind'[q] = kind[q] /\ token'[q] = token[q]
                                      /\ chosen'[q] = chosen[q]
      /\ pc[r] = "idle" /\ pc'[r] = "history" /\ kind'[r] = what /\ token'[r] = presented
  BY BeginRest DEF BeginChanging, Rest
<1>2. UNCHANGED <<account, reset, history, former, issued, used, crashes>>
  BY DEF BeginChanging, Begin, userVars
<1>3. orderly' => orderly /\ \A q \in Requests : ~Changing(q) /\ ~Registering(q)
  BY DEF BeginChanging, Registering
<1>4. Roles'
  BY <1>1 DEF Orderly, Roles, Role, Changing, Registering
<1>5. Beginnings'
  BY <1>1, <1>2 DEF Orderly, Beginnings, Registering
<1>6. OneChange'
  BY <1>1, <1>3 DEF OneChange, Changing, Registering
<1>7. Issued'
  BY <1>1, <1>2, SessionsAssumption DEF Orderly, Issued
<1>8. TokensSpent'
  <2>1. ASSUME NEW t \in ResetTokens, Spent(t), orderly' PROVE Spent(t)'
    <3>1. reset # t /\ t \in issued /\ \A q \in Requests : kind[q] # "reset"
      BY <1>3, <2>1 DEF Spent, Presents, Changing
    <3> QED
      BY <1>1, <1>2, <3>1 DEF Spent, Presents
  <2> QED
    BY <1>2, <1>3, <2>1 DEF Orderly, TokensSpent
<1>9. Remembered'
  BY <1>1, <1>2, <1>3 DEF Orderly, Remembered, Joining
<1> QED
  BY <1>4, <1>5, <1>6, <1>7, <1>8, <1>9 DEF Orderly

\* Only an account that exists has live sessions.
Owned == ~Exists => Live = {}

LEMMA NextOwned == ASSUME Inv, Owned, [Next]_vars PROVE Owned'
<1>1. CASE UNCHANGED vars
  BY <1>1 DEF Owned, Live, vars, userVars
<1>2. CASE \E r \in Requests : Arrive(r) \/ Crash(r)
  <2>1. UNCHANGED <<account, session>>
    BY <1>2 DEF Arrive, Crash, BeginRegister, BeginLogin, BeginChange, BeginRefresh, BeginReset,
                Start, BeginChanging, Begin, userVars
  <2> QED
    BY <2>1 DEF Owned, Live
<1>3. CASE \E r \in Requests : Step(r)
  <2> PICK r \in Requests : Step(r)
    BY <1>3
  <2>1. Exists \/ \A t \in Tokens : session'[t] = "live" => session[t] = "live"
    BY DEF Step, CreateUser, CountFailure, LockAccount, ResetFailedAttempts, FindUser, Rotate, OpenSession,
           CheckHistory, UpdatePassword, Remember, CleanUp, ClearReset, RevokeAll, userVars, Inv, Rows
  <2>2. Exists => Exists'
    BY DEF Step, CreateUser, CountFailure, LockAccount, ResetFailedAttempts, FindUser, Rotate, OpenSession,
           CheckHistory, UpdatePassword, Remember, CleanUp, ClearReset, RevokeAll, userVars
  <2> QED
    BY <2>1, <2>2 DEF Owned, Live
<1>4. CASE Manage \/ Time
  <2>1. \A t \in Tokens : session'[t] = "live" => session[t] = "live"
    BY <1>4 DEF Manage, Time, Logout, RevokeOthers, Revoke, LogoutEverywhere, RequestReset, Deactivate,
           DeleteAccount, LockExpires, ResetExpires, SessionExpires, userVars, Live, Inv, Rows
  <2>2. \/ Exists => Exists'
        \/ DeleteAccount
    BY <1>4 DEF Manage, Time, Logout, RevokeOthers, Revoke, LogoutEverywhere, RequestReset, Deactivate,
           LockExpires, ResetExpires, SessionExpires, userVars
  <2>3. DeleteAccount => Live' = {}
    BY DEF DeleteAccount, Live
  <2> QED
    BY <2>1, <2>2, <2>3 DEF Owned, Live
<1> QED
  BY <1>1, <1>2, <1>3, <1>4 DEF Next

LEMMA ArriveOrderly == ASSUME Inv, Owned, Orderly, NEW r \in Requests, Arrive(r) PROVE Orderly'
<1>1. CASE \E p \in Passwords : BeginRegister(r, p)
  BY <1>1, StartOrderly DEF BeginRegister
<1>2. CASE \E p \in Passwords : BeginLogin(r, p)
  <2>1. PICK p \in Passwords : BeginLogin(r, p)
    BY <1>2
  <2> DEFINE stage == IF p = password THEN "clearAttempts" ELSE "count"
  <2>2. stage \in {"clearAttempts", "count"}
    OBVIOUS
  <2> HIDE DEF stage
  <2>3. Start(r, "login", NoToken, p, NoPassword, stage) /\ account # "none"
    BY <2>1 DEF BeginLogin, stage
  <2> QED
    BY <2>2, <2>3, StartOrderly
<1>3. CASE \E p \in Passwords : BeginChange(r, p)
  BY <1>3, ChangeOrderly DEF BeginChange
<1>4. CASE \E t \in Tokens : BeginRefresh(r, t)
  <2>1. PICK t \in Tokens : BeginRefresh(r, t)
    BY <1>4
  <2>2. account # "none"
    BY <2>1 DEF BeginRefresh, Owned, Live
  <2> QED
    BY <2>1, <2>2, StartOrderly DEF BeginRefresh
<1>5. CASE \E t \in ResetTokens, p \in Passwords : BeginReset(r, t, p)
  BY <1>5, ChangeOrderly DEF BeginReset
<1> QED
  BY <1>1, <1>2, <1>3, <1>4, <1>5 DEF Arrive

-------------------------------------------------------------------------------
(* The last n elements of a sequence.                                         *)

LEMMA LastOfElements ==
  ASSUME NEW S, NEW s \in Seq(S), NEW n \in Nat
  PROVE  /\ LastOf(s, n) \in Seq(S)
         /\ Len(LastOf(s, n)) = IF Len(s) <= n THEN Len(s) ELSE n
         /\ \A i \in 1 .. Len(LastOf(s, n)) : LastOf(s, n)[i] = s[Len(s) - Len(LastOf(s, n)) + i]
<1>1. Len(s) \in Nat /\ \A i \in 1 .. Len(s) : s[i] \in S
  BY LenProperties, ElementOfSeq
<1>2. CASE Len(s) <= n
  BY <1>1, <1>2 DEF LastOf
<1>3. CASE Len(s) > n
  <2> DEFINE t == SubSeq(s, Len(s) - n + 1, Len(s))
  <2>1. \A i \in Len(s) - n + 1 .. Len(s) : s[i] \in S
    BY <1>1, <1>3
  <2>2. /\ t \in Seq(S)
        /\ Len(t) = IF Len(s) - n + 1 <= Len(s) THEN Len(s) - (Len(s) - n + 1) + 1 ELSE 0
        /\ \A i \in 1 .. Len(s) - (Len(s) - n + 1) + 1 : t[i] = s[Len(s) - n + 1 + i - 1]
    BY <1>1, <2>1, SubSeqProperties
  <2>3. LastOf(s, n) = t
    BY <1>1, <1>3 DEF LastOf
  <2> HIDE DEF t
  <2>4. Len(t) = n
    BY <1>1, <1>3, <2>2
  <2>5. ASSUME NEW i \in 1 .. n PROVE t[i] = s[Len(s) - n + i]
    <3>1. i \in 1 .. Len(s) - (Len(s) - n + 1) + 1
      BY <1>1
    <3>2. Len(s) - n + 1 + i - 1 = Len(s) - n + i
      BY <1>1
    <3> QED
      BY <2>2, <3>1, <3>2
  <2>6. LastOf(s, n) \in Seq(S)
    BY <2>2, <2>3
  <2>7. Len(LastOf(s, n)) = n
    BY <2>3, <2>4
  <2>8. Len(LastOf(s, n)) = IF Len(s) <= n THEN Len(s) ELSE n
    BY <1>1, <1>3, <2>7
  <2>9. \A i \in 1 .. n : LastOf(s, n)[i] = s[Len(s) - n + i]
    BY <2>3, <2>5
  <2> QED
    BY <2>6, <2>7, <2>8, <2>9
<1> QED
  BY <1>1, <1>2, <1>3

\* To keep only the last n elements changes nothing about the last n.
LEMMA LastOfTwice ==
  ASSUME NEW S, NEW s \in Seq(S), NEW n \in Nat
  PROVE  LastOf(LastOf(s, n), n) = LastOf(s, n)
  BY LastOfElements, LenProperties DEF LastOf

\* Sequences that end alike still do when the same element is added to both.
LEMMA LastOfAppend ==
  ASSUME NEW S, NEW a \in Seq(S), NEW b \in Seq(S), NEW x \in S, NEW n \in Nat,
         LastOf(a, n) = LastOf(b, n)
  PROVE  LastOf(Append(a, x), n) = LastOf(Append(b, x), n)
<1> DEFINE c == Append(a, x)
           d == Append(b, x)
           k == Len(LastOf(a, n))
           m == Len(LastOf(c, n))
<1>1. /\ Len(a) \in Nat /\ Len(b) \in Nat
      /\ c \in Seq(S) /\ Len(c) = Len(a) + 1 /\ c[Len(a) + 1] = x
      /\ d \in Seq(S) /\ Len(d) = Len(b) + 1 /\ d[Len(b) + 1] = x
      /\ \A i \in 1 .. Len(a) : c[i] = a[i]
      /\ \A i \in 1 .. Len(b) : d[i] = b[i]
  BY AppendProperties, LenProperties
<1>2. /\ k = IF Len(a) <= n THEN Len(a) ELSE n
      /\ k = IF Len(b) <= n THEN Len(b) ELSE n
  BY LastOfElements
<1>3. \A i \in 1 .. k : a[Len(a) - k + i] = b[Len(b) - k + i]
  <2>1. \A i \in 1 .. k : LastOf(a, n)[i] = a[Len(a) - k + i] /\ LastOf(b, n)[i] = b[Len(b) - k + i]
    BY LastOfElements
  <2> QED
    BY <2>1
<1> HIDE DEF c, d, k
<1>4. /\ LastOf(c, n) \in Seq(S) /\ LastOf(d, n) \in Seq(S)
      /\ m = IF Len(c) <= n THEN Len(c) ELSE n
      /\ Len(LastOf(d, n)) = IF Len(d) <= n THEN Len(d) ELSE n
  BY <1>1, LastOfElements
<1>5. \A i \in 1 .. m : LastOf(c, n)[i] = c[Len(c) - m + i]
  <2>1. c \in Seq(S)
    BY <1>1
  <2> QED
    BY <2>1, LastOfElements
<1>6. \A i \in 1 .. Len(LastOf(d, n)) : LastOf(d, n)[i] = d[Len(d) - Len(LastOf(d, n)) + i]
  <2>1. d \in Seq(S)
    BY <1>1
  <2> QED
    BY <2>1, LastOfElements
<1> HIDE DEF m
<1>7. m \in Nat /\ k \in Nat /\ Len(LastOf(d, n)) = m /\ m <= k + 1
  BY <1>1, <1>2, <1>4
<1>8. ASSUME NEW i \in 1 .. m PROVE LastOf(c, n)[i] = LastOf(d, n)[i]
  <2>1. LastOf(c, n)[i] = c[Len(c) - m + i] /\ LastOf(d, n)[i] = d[Len(d) - m + i]
    BY <1>5, <1>6, <1>7
  <2>2. CASE i = m
    <3>1. Len(c) - m + i = Len(a) + 1 /\ Len(d) - m + i = Len(b) + 1
      BY <1>1, <1>7, <2>2
    <3> QED
      BY <1>1, <2>1, <3>1
  <2>3. CASE i # m
    <3> PICK j \in Nat : j = i + k + 1 - m
      BY <1>7
    <3>1. j \in 1 .. k
      BY <1>7, <2>3
    <3>2. Len(c) - m + i = Len(a) - k + j /\ Len(d) - m + i = Len(b) - k + j
      BY <1>1, <1>7
    <3>3. Len(a) - k + j \in 1 .. Len(a) /\ Len(b) - k + j \in 1 .. Len(b)
      BY <1>1, <1>2, <3>1
    <3>4. c[Len(a) - k + j] = a[Len(a) - k + j] /\ d[Len(b) - k + j] = b[Len(b) - k + j]
      BY <1>1, <3>3
    <3> QED
      BY <1>3, <2>1, <3>1, <3>2, <3>4
  <2> QED
    BY <2>2, <2>3
<1>9. LastOf(c, n) = LastOf(d, n)
  BY <1>4, <1>7, <1>8, SeqEqual DEF m
<1> QED
  BY <1>9 DEF c, d

-------------------------------------------------------------------------------
(* The steps that set a password or clear a token.                            *)

LEMMA CreateOrderly ==
  ASSUME Inv, Orderly, NEW r \in Requests, CreateUser(r), account = "none"
  PROVE  Orderly'
<1>1. /\ \A q \in Requests : q # r => pc'[q] = pc[q]
      /\ pc[r] = "create" /\ pc'[r] = "remember" /\ UNCHANGED <<kind, token, chosen>>
  BY GoOnRest DEF CreateUser, Rest
<1>2. /\ account' = "active" /\ former' = <<chosen[r]>>
      /\ UNCHANGED <<reset, history, issued, used, orderly, crashes>>
  BY DEF CreateUser
<1>3. /\ \A q \in Requests : pc[q] # "idle" => Registering(q) /\ pc[q] = "create"
      /\ history = << >>
  BY DEF Orderly, Beginnings
<1>4. \A q \in Requests : pc[q] # "idle" <=> kind[q] # "none"
  BY DEF Orderly, Roles, Role
<1>5. Roles'
  BY <1>1, <1>3 DEF Orderly, Roles, Role, Changing, Registering
<1>6. Beginnings'
  BY <1>1, <1>2, <1>3 DEF Beginnings
<1>7. OneChange'
  BY <1>1, <1>3, <1>4 DEF OneChange, Changing, Registering
<1>8. Issued'
  BY <1>1, <1>2 DEF Orderly, Issued
<1>9. TokensSpent'
  <2>1. \A q \in Requests : kind[q] # "reset"
    BY <1>3, <1>4 DEF Registering
  <2>2. ASSUME NEW t \in ResetTokens, Spent(t) PROVE Spent(t)'
    BY <1>1, <1>2, <2>1, <2>2 DEF Spent, Presents
  <2> QED
    BY <1>2, <2>2 DEF Orderly, TokensSpent
<1>10. Remembered'
  <2>1. chosen[r] \in Passwords
    BY <1>1 DEF Inv, Fit, Fits, Setting
  <2>2. << >> \in Seq(Passwords) /\ former' = Append(<< >>, chosen[r])
    BY <1>2, <2>1, EmptySeq
  <2>3. \A q \in Requests : pc'[q] # "update" /\ (pc'[q] = "remember" => q = r)
    BY <1>1, <1>3
  <2> QED
    BY <1>1, <1>2, <1>3, <2>2, <2>3 DEF Remembered, Joining
<1> QED
  BY <1>5, <1>6, <1>7, <1>8, <1>9, <1>10 DEF Orderly

LEMMA HistoryOrderly ==
  ASSUME Inv, Orderly, NEW r \in Requests, CheckHistory(r),
         chosen[r] \notin ToSet(LastOf(history, HistoryCount))
  PROVE  Orderly'
<1>1. /\ \A q \in Requests : q # r => pc'[q] = pc[q]
      /\ pc[r] = "history" /\ pc'[r] = "update" /\ UNCHANGED <<kind, token, chosen>>
  BY GoOnRest DEF CheckHistory, Rest
<1>2. UNCHANGED <<account, reset, history, former, issued, used, orderly, crashes>>
  BY DEF CheckHistory, userVars, pastVars
<1>3. Roles'
  BY <1>1 DEF Orderly, Roles, Role, Changing, Registering
<1>4. Beginnings'
  BY <1>1, <1>2 DEF Orderly, Beginnings, Registering
<1>5. OneChange' /\ Issued'
  BY <1>1, <1>2 DEF Orderly, OneChange, Changing, Registering, Issued
<1>6. TokensSpent'
  <2>1. ASSUME NEW t \in ResetTokens, Spent(t) PROVE Spent(t)'
    <3>1. \A q \in Requests : /\ Presents(q, t, {"history", "update"})'
                                  <=> Presents(q, t, {"history", "update"})
                              /\ Presents(q, t, {"remember", "cleanup", "clearReset"})'
                                  <=> Presents(q, t, {"remember", "cleanup", "clearReset"})
      BY <1>1 DEF Presents
    <3> QED
      BY <1>2, <2>1, <3>1 DEF Spent
  <2> QED
    BY <1>2, <2>1 DEF Orderly, TokensSpent
<1>7. Remembered'
  BY <1>1, <1>2 DEF Orderly, Remembered, Joining
<1> QED
  BY <1>3, <1>4, <1>5, <1>6, <1>7 DEF Orderly

LEMMA UpdateOrderly ==
  ASSUME Inv, Orderly, NEW r \in Requests, UpdatePassword(r), Exists
  PROVE  Orderly'
<1>1. /\ \A q \in Requests : q # r => pc'[q] = pc[q]
      /\ pc[r] = "update" /\ pc'[r] = "remember" /\ UNCHANGED <<kind, token, chosen>>
  BY GoOnRest DEF UpdatePassword, Rest
<1>2. /\ former' = Append(former, chosen[r])
      /\ used' = IF kind[r] = "reset" THEN [used EXCEPT ![token[r]] = used[token[r]] + 1] ELSE used
      /\ UNCHANGED <<account, reset, history, issued, orderly, crashes>>
  BY DEF UpdatePassword
<1>3. Changing(r)
  BY <1>1 DEF Orderly, Roles, Role
<1>4. orderly => \A q \in Requests : q # r => ~Changing(q) /\ ~Registering(q)
  BY <1>3 DEF Orderly, OneChange
<1>5. Roles'
  BY <1>1 DEF Orderly, Roles, Role, Changing, Registering
<1>6. Beginnings'
  BY <1>1, <1>2, <1>3 DEF Orderly, Beginnings, Registering, Changing
<1>7. OneChange' /\ Issued'
  BY <1>1, <1>2 DEF Orderly, OneChange, Changing, Registering, Issued
<1>8. TokensSpent'
  <2>1. crashes \in Nat /\ used \in [ResetTokens -> Nat]
    BY DEF Inv, Rows
  <2> SUFFICES ASSUME orderly, NEW t \in ResetTokens
               PROVE  used'[t] <= 1 + crashes /\ (used'[t] > crashes => Spent(t)')
    BY <1>2 DEF TokensSpent
  <2>2. used[t] <= 1 + crashes /\ (used[t] > crashes => Spent(t))
    BY DEF Orderly, TokensSpent
  <2>3. CASE kind[r] = "reset" /\ token[r] = t
    <3>1. ~Spent(t)
      BY <1>1, <1>4, <2>3 DEF Spent, Presents, Changing
    <3>2. used'[t] = used[t] + 1
      BY <1>2, <2>1, <2>3
    <3>3. Spent(t)'
      BY <1>1, <2>3 DEF Spent, Presents
    <3> QED
      BY <2>1, <2>2, <3>1, <3>2, <3>3
  <2>4. CASE ~(kind[r] = "reset" /\ token[r] = t)
    <3>1. used'[t] = used[t]
      <4>1. CASE kind[r] = "reset"
        <5>1. token[r] \in ResetTokens
          BY <4>1 DEF Inv, Fit, Fits
        <5> QED
          BY <1>2, <2>1, <2>4, <4>1, <5>1
      <4>2. CASE kind[r] # "reset"
        BY <1>2, <4>2
      <4> QED
        BY <4>1, <4>2
    <3>2. \A q \in Requests : ~Presents(q, t, {"remember", "cleanup", "clearReset"})
      BY <1>1, <1>4 DEF Presents, Changing
    <3>3. \A q \in Requests : ~Presents(q, t, {"history", "update"})' \/ Presents(q, t, {"history", "update"})
      BY <1>1 DEF Presents
    <3>4. Spent(t) => Spent(t)'
      BY <1>2, <3>2, <3>3 DEF Spent
    <3> QED
      BY <2>2, <3>1, <3>4
  <2> QED
    BY <2>3, <2>4
<1>9. Remembered'
  <2> SUFFICES ASSUME orderly, crashes = 0 PROVE Remembered'
    BY <1>2 DEF Remembered
  <2>1. \A q \in Requests : q # r => pc[q] \notin {"remember", "update"}
    BY <1>4 DEF Orderly, Roles, Role
  <2>2. LastOf(history, HistoryCount) = LastOf(former, HistoryCount)
    BY <1>1, <2>1 DEF Orderly, Remembered, Joining
  <2>3. former \in Seq(Passwords)
    BY DEF Inv, Rows
  <2>4. \A q \in Requests : pc'[q] # "update" /\ (pc'[q] = "remember" => q = r)
    BY <1>1, <2>1
  <2>5. \E before \in Seq(Passwords) :
           /\ former' = Append(before, chosen'[r])
           /\ LastOf(history', HistoryCount) = LastOf(before, HistoryCount)
    BY <1>1, <1>2, <2>2, <2>3
  <2> QED
    BY <1>1, <2>4, <2>5 DEF Remembered, Joining
<1> QED
  BY <1>5, <1>6, <1>7, <1>8, <1>9 DEF Orderly

LEMMA RememberOrderly ==
  ASSUME Inv, Orderly, NEW r \in Requests, Remember(r)
  PROVE  Orderly'
<1> DEFINE stage == IF kind[r] = "register" THEN "open" ELSE "cleanup"
<1>1. /\ \A q \in Requests : q # r => pc'[q] = pc[q]
      /\ pc[r] = "remember" /\ pc'[r] = stage /\ UNCHANGED <<kind, token, chosen>>
  <2>1. GoOn(r, stage)
    BY DEF Remember
  <2> HIDE DEF stage
  <2> QED
    BY <2>1, GoOnRest DEF Remember, Rest
<1>2. /\ history' = Append(history, chosen[r])
      /\ UNCHANGED <<account, reset, former, issued, used, orderly, crashes>>
  BY DEF Remember, pastVars
<1>3. account # "none" /\ (Changing(r) \/ Registering(r))
  BY <1>1 DEF Orderly, Roles, Role, Beginnings
<1>4. Roles'
  BY <1>1, <1>3 DEF Orderly, Roles, Role, Changing, Registering
<1>5. Beginnings'
  BY <1>1, <1>2, <1>3 DEF Orderly, Beginnings, Registering
<1>6. OneChange' /\ Issued'
  BY <1>1, <1>2 DEF Orderly, OneChange, Changing, Registering, Issued
<1>7. TokensSpent'
  <2>1. ASSUME NEW t \in ResetTokens, Spent(t) PROVE Spent(t)'
    <3>1. \A q \in Requests : /\ Presents(q, t, {"history", "update"})'
                                  => Presents(q, t, {"history", "update"})
                              /\ Presents(q, t, {"remember", "cleanup", "clearReset"})
                                  => Presents(q, t, {"remember", "cleanup", "clearReset"})'
      BY <1>1 DEF Presents
    <3> QED
      BY <1>2, <2>1, <3>1 DEF Spent
  <2> QED
    BY <1>2, <2>1 DEF Orderly, TokensSpent
<1>8. Remembered'
  <2> SUFFICES ASSUME orderly, crashes = 0 PROVE Remembered'
    BY <1>2 DEF Remembered
  <2>1. \A q \in Requests : q # r => pc[q] \notin {"remember", "update"}
    BY <1>1, <1>3 DEF Orderly, Roles, Role, OneChange, Beginnings
  <2>2. \A q \in Requests : pc'[q] \notin {"remember", "update"}
    BY <1>1, <2>1
  <2>3. PICK before \in Seq(Passwords) :
           /\ former = Append(before, chosen[r])
           /\ LastOf(history, HistoryCount) = LastOf(before, HistoryCount)
    BY <1>1 DEF Orderly, Remembered, Joining
  <2>4. /\ history \in Seq(Passwords) /\ chosen[r] \in Passwords /\ HistoryCount \in Nat
    BY <1>1, SessionsAssumption DEF Inv, Rows, Fit, Fits, Setting
  <2>5. LastOf(history', HistoryCount) = LastOf(former', HistoryCount)
    BY <1>2, <2>3, <2>4, LastOfAppend
  <2> QED
    BY <2>2, <2>5 DEF Remembered, Joining
<1> QED
  BY <1>4, <1>5, <1>6, <1>7, <1>8 DEF Orderly

LEMMA CleanUpOrderly ==
  ASSUME Inv, Orderly, NEW r \in Requests, CleanUp(r)
  PROVE  Orderly'
<1> DEFINE stage == IF kind[r] = "reset" THEN "clearReset" ELSE "revokeAll"
<1>1. /\ \A q \in Requests : q # r => pc'[q] = pc[q]
      /\ pc[r] = "cleanup" /\ pc'[r] = stage /\ UNCHANGED <<kind, token, chosen>>
  <2>1. GoOn(r, stage)
    BY DEF CleanUp
  <2> HIDE DEF stage
  <2> QED
    BY <2>1, GoOnRest DEF CleanUp, Rest
<1>2. /\ history' = LastOf(history, HistoryCount)
      /\ UNCHANGED <<account, reset, former, issued, used, orderly, crashes>>
  BY DEF CleanUp, pastVars
<1>3. account # "none" /\ Changing(r)
  BY <1>1 DEF Orderly, Roles, Role, Beginnings
<1>4. Roles'
  BY <1>1, <1>3 DEF Orderly, Roles, Role, Changing, Registering
<1>5. Beginnings'
  BY <1>1, <1>2, <1>3 DEF Orderly, Beginnings, Registering
<1>6. OneChange' /\ Issued'
  BY <1>1, <1>2 DEF Orderly, OneChange, Changing, Registering, Issued
<1>7. TokensSpent'
  <2>1. ASSUME NEW t \in ResetTokens, Spent(t) PROVE Spent(t)'
    <3>1. \A q \in Requests : /\ Presents(q, t, {"history", "update"})'
                                  => Presents(q, t, {"history", "update"})
                              /\ Presents(q, t, {"remember", "cleanup", "clearReset"})
                                  => Presents(q, t, {"remember", "cleanup", "clearReset"})'
      BY <1>1 DEF Presents
    <3> QED
      BY <1>2, <2>1, <3>1 DEF Spent
  <2> QED
    BY <1>2, <2>1 DEF Orderly, TokensSpent
<1>8. Remembered'
  <2> SUFFICES ASSUME orderly, crashes = 0 PROVE Remembered'
    BY <1>2 DEF Remembered
  <2>1. \A q \in Requests : pc[q] \notin {"remember", "update"}
    BY <1>1, <1>3 DEF Orderly, Roles, Role, OneChange
  <2>2. \A q \in Requests : pc'[q] \notin {"remember", "update"}
    BY <1>1, <2>1
  <2>3. LastOf(history, HistoryCount) = LastOf(former, HistoryCount)
    BY <2>1 DEF Orderly, Remembered, Joining
  <2>4. LastOf(history', HistoryCount) = LastOf(history, HistoryCount)
    BY <1>2, SessionsAssumption, LastOfTwice DEF Inv, Rows
  <2> QED
    BY <1>2, <2>2, <2>3, <2>4 DEF Remembered, Joining
<1> QED
  BY <1>4, <1>5, <1>6, <1>7, <1>8 DEF Orderly

LEMMA ClearOrderly ==
  ASSUME Inv, Orderly, NEW r \in Requests, ClearReset(r)
  PROVE  Orderly'
<1>1. /\ \A q \in Requests : q # r => /\ pc'[q] = pc[q] /\ kind'[q] = kind[q] /\ token'[q] = token[q]
                                      /\ chosen'[q] = chosen[q]
      /\ \/ pc'[r] = "idle" /\ kind'[r] = "none"
         \/ pc'[r] = "revokeAll" /\ kind'[r] = kind[r] /\ token'[r] = token[r]
  BY EndRest, GoOnRest DEF ClearReset, Rest
<1>2. /\ pc[r] = "clearReset" /\ reset' = NoToken
      /\ UNCHANGED <<account, history, former, issued, used, orderly, crashes>>
  BY DEF ClearReset, pastVars
<1>3. kind[r] = "reset"
  BY <1>2 DEF Orderly, Roles, Role
<1>4. Roles'
  BY <1>1, <1>3 DEF Orderly, Roles, Role, Changing, Registering
<1>5. Beginnings'
  BY <1>1, <1>2 DEF Orderly, Beginnings, Registering
<1>6. OneChange'
  BY <1>1, <1>2 DEF Orderly, OneChange, Changing, Registering
<1>7. Issued'
  BY <1>1, <1>2 DEF Orderly, Issued
<1>8. TokensSpent'
  <2>1. ASSUME orderly, NEW t \in ResetTokens, Spent(t) PROVE Spent(t)'
    <3>1. \A q \in Requests : q # r => kind[q] # "reset" /\ kind'[q] # "reset"
      BY <1>1, <1>3, <2>1 DEF Orderly, OneChange, Changing
    <3>2. \A q \in Requests : ~Presents(q, t, {"history", "update"})'
      BY <1>1, <3>1 DEF Presents
    <3>3. t \in issued
      BY <1>3, <2>1, <3>1 DEF Spent, Presents, Orderly, Issued
    <3> QED
      BY <1>2, <3>2, <3>3, SessionsAssumption DEF Spent
  <2> QED
    BY <1>2, <2>1 DEF Orderly, TokensSpent
<1>9. Remembered'
  BY <1>1, <1>2 DEF Orderly, Remembered, Joining
<1> QED
  BY <1>4, <1>5, <1>6, <1>7, <1>8, <1>9 DEF Orderly

LEMMA StepOrderly == ASSUME Inv, Orderly, NEW r \in Requests, Step(r) PROVE Orderly'
<1>1. CASE CreateUser(r)
  <2>1. CASE account # "none"
    <3>1. End(r) /\ UNCHANGED tableVars /\ crashes' = crashes /\ pc[r] = "create"
      BY <1>1, <2>1 DEF CreateUser, tableVars
    <3> QED
      BY <3>1, EndOrderly
  <2> QED
    BY <1>1, <2>1, CreateOrderly
<1>2. CASE CountFailure(r)
  <2>1. (End(r) \/ GoOn(r, "lock")) /\ UNCHANGED tableVars /\ crashes' = crashes /\ pc[r] = "count"
    BY <1>2 DEF CountFailure, tableVars, pastVars
  <2> QED
    BY <2>1, EndOrderly, OpeningOrderly
<1>3. CASE LockAccount(r)
  <2>1. End(r) /\ UNCHANGED tableVars /\ crashes' = crashes /\ pc[r] = "lock"
    BY <1>3 DEF LockAccount, tableVars, pastVars
  <2> QED
    BY <2>1, EndOrderly
<1>4. CASE ResetFailedAttempts(r)
  <2>1. (End(r) \/ GoOn(r, "open")) /\ UNCHANGED tableVars /\ crashes' = crashes /\ pc[r] = "clearAttempts"
    BY <1>4 DEF ResetFailedAttempts, tableVars, pastVars
  <2> QED
    BY <2>1, EndOrderly, OpeningOrderly
<1>5. CASE FindUser(r)
  <2>1. (End(r) \/ GoOn(r, "rotate")) /\ UNCHANGED tableVars /\ crashes' = crashes /\ pc[r] = "user"
    BY <1>5 DEF FindUser, tableVars, userVars, pastVars
  <2> QED
    BY <2>1, EndOrderly, OpeningOrderly
<1>6. CASE Rotate(r)
  <2>1. (End(r) \/ GoOn(r, "open")) /\ UNCHANGED tableVars /\ crashes' = crashes /\ pc[r] = "rotate"
    BY <1>6 DEF Rotate, tableVars, userVars
  <2> QED
    BY <2>1, EndOrderly, OpeningOrderly
<1>7. CASE OpenSession(r)
  <2>1. End(r) /\ UNCHANGED tableVars /\ crashes' = crashes /\ pc[r] = "open"
    BY <1>7 DEF OpenSession, tableVars, userVars, pastVars
  <2> QED
    BY <2>1, EndOrderly
<1>8. CASE CheckHistory(r)
  <2>1. CASE chosen[r] \in ToSet(LastOf(history, HistoryCount))
    <3>1. End(r) /\ UNCHANGED tableVars /\ crashes' = crashes /\ pc[r] = "history"
      BY <1>8, <2>1 DEF CheckHistory, tableVars, userVars, pastVars
    <3> QED
      BY <3>1, EndOrderly
  <2> QED
    BY <1>8, <2>1, HistoryOrderly
<1>9. CASE UpdatePassword(r)
  <2>1. CASE ~Exists
    <3>1. End(r) /\ UNCHANGED tableVars /\ crashes' = crashes /\ pc[r] = "update"
      BY <1>9, <2>1 DEF UpdatePassword, tableVars
    <3> QED
      BY <3>1, EndOrderly
  <2> QED
    BY <1>9, <2>1, UpdateOrderly
<1>10. CASE RevokeAll(r)
  <2>1. End(r) /\ UNCHANGED tableVars /\ crashes' = crashes /\ pc[r] = "revokeAll"
    BY <1>10 DEF RevokeAll, tableVars, userVars
  <2> QED
    BY <2>1, EndOrderly
<1> QED
  BY <1>1, <1>2, <1>3, <1>4, <1>5, <1>6, <1>7, <1>8, <1>9, <1>10,
     RememberOrderly, CleanUpOrderly, ClearOrderly DEF Step

LEMMA CrashOrderly == ASSUME Inv, Orderly, NEW r \in Requests, Crash(r) PROVE Orderly'
<1>1. End(r) /\ UNCHANGED tableVars /\ crashes' = crashes + 1
  BY DEF Crash, tableVars, userVars
<1> QED
  BY <1>1, EndOrderly

LEMMA InitOrderly == ASSUME Init PROVE Orderly
<1>1. /\ pc = [r \in Requests |-> "idle"] /\ kind = [r \in Requests |-> "none"]
      /\ former = << >> /\ history = << >> /\ reset = NoToken /\ issued = {} /\ crashes = 0
      /\ used = [t \in ResetTokens |-> 0]
  BY DEF Init
<1>2. Roles /\ Beginnings /\ OneChange /\ Issued
  BY <1>1 DEF Roles, Role, Beginnings, OneChange, Issued, Changing, Registering
<1>3. TokensSpent /\ Remembered
  BY <1>1 DEF TokensSpent, Remembered, Joining
<1> QED
  BY <1>2, <1>3 DEF Orderly

LEMMA NextOrderly == ASSUME Inv, Owned, Orderly, [Next]_vars PROVE Orderly'
<1>1. CASE UNCHANGED vars
  <2>1. UNCHANGED <<pc, kind, token, chosen, account, reset, history, former, issued, used, orderly, crashes>>
    BY <1>1 DEF vars, userVars, localVars, pastVars
  <2>2. Roles' /\ Beginnings' /\ OneChange' /\ Issued' /\ Remembered'
    BY <2>1 DEF Orderly, Roles, Role, Beginnings, OneChange, Issued, Remembered, Joining, Changing, Registering
  <2>3. TokensSpent'
    BY <2>1 DEF Orderly, TokensSpent, Spent, Presents
  <2> QED
    BY <2>2, <2>3 DEF Orderly
<1> QED
  BY <1>1, ManageOrderly, ArriveOrderly, StepOrderly, CrashOrderly DEF Next

\* Both invariants of this section hold.
LEMMA OrderlyHolds == Spec => [](Owned /\ Orderly)
<1>1. Init => Owned /\ Orderly
  BY InitOrderly DEF Init, Owned, Live
<1>2. Inv /\ (Owned /\ Orderly) /\ [Next]_vars => (Owned /\ Orderly)'
  BY NextOwned, NextOrderly
<1> QED
  BY <1>1, <1>2, SessionsInv, PTL DEF Spec

(* While no two changes of the password overlap, a reset token sets the       *)
(* password once, and once more for every request that died before it cleared *)
(* the token, whatever the numbers of requests and of tokens.                 *)
THEOREM ResetOnce == Spec => []ResetUsedOnce
<1>1. Orderly => ResetUsedOnce
  BY DEF Orderly, TokensSpent, ResetUsedOnce
<1> QED
  BY <1>1, OrderlyHolds, PTL

(* While no two changes overlap and no request died, a step that sets the     *)
(* password never sets one of the last HistoryCount passwords, though it is   *)
(* compared with a table that is written and trimmed in steps of its own.     *)
THEOREM PasswordNotReused == Spec => NoRecentPassword
<1>1. ASSUME Inv, Orderly, [Next]_vars, former' # former, orderly, crashes = 0
      PROVE  Last(former') \notin ToSet(LastOf(former, HistoryCount))
  <2>1. \E r \in Requests : (CreateUser(r) /\ account = "none") \/ (UpdatePassword(r) /\ Exists)
    <3>1. ~UNCHANGED vars
      BY <1>1 DEF vars, pastVars
    <3>2. ~(Manage \/ Time)
      BY <1>1 DEF Manage, Time, Logout, RevokeOthers, Revoke, LogoutEverywhere, RequestReset, Deactivate,
         DeleteAccount, LockExpires, ResetExpires, SessionExpires, pastVars
    <3>3. \A r \in Requests : ~Arrive(r) /\ ~Crash(r)
      BY <1>1 DEF Arrive, Crash, BeginRegister, BeginLogin, BeginChange, BeginRefresh, BeginReset,
                  Start, BeginChanging, Begin
    <3>4. \A r \in Requests : Step(r) => (CreateUser(r) /\ account = "none") \/ (UpdatePassword(r) /\ Exists)
      BY <1>1 DEF Step, CreateUser, CountFailure, LockAccount, ResetFailedAttempts, FindUser, Rotate,
             OpenSession, CheckHistory, UpdatePassword, Remember, CleanUp, ClearReset, RevokeAll, pastVars
    <3> QED
      BY <1>1, <3>1, <3>2, <3>3, <3>4 DEF Next
  <2>2. PICK r \in Requests : (CreateUser(r) /\ account = "none") \/ (UpdatePassword(r) /\ Exists)
    BY <2>1
  <2>3. former \in Seq(Passwords) /\ HistoryCount \in Nat
    BY <1>1, SessionsAssumption DEF Inv, Rows
  <2>4. CASE CreateUser(r) /\ account = "none"
    <3>1. former = << >>
      BY <1>1, <2>4 DEF Orderly, Beginnings
    <3>2. LastOf(former, HistoryCount) = << >>
      BY <2>3, <3>1 DEF LastOf
    <3> QED
      BY <3>2 DEF ToSet
  <2>5. CASE UpdatePassword(r) /\ Exists
    <3>1. pc[r] = "update" /\ former' = Append(former, chosen[r])
      BY <2>5 DEF UpdatePassword
    <3>2. chosen[r] \in Passwords
      BY <1>1, <3>1 DEF Inv, Fit, Fits, Setting
    <3>3. Last(former') = chosen[r]
      BY <2>3, <3>1, <3>2, AppendProperties DEF Last
    <3>4. \A q \in Requests : ~Joining(q)
      BY <1>1, <3>1 DEF Orderly, Roles, Role, OneChange, Joining
    <3> QED
      BY <1>1, <3>1, <3>3, <3>4 DEF Orderly, Remembered
  <2> QED
    BY <2>2, <2>4, <2>5
<1>2. Inv /\ Orderly /\ [Next]_vars
        => [former' # former /\ orderly /\ crashes = 0 =>
              Last(former') \notin ToSet(LastOf(former, HistoryCount))]_vars
  BY <1>1
<1> QED
  BY <1>2, SessionsInv, OrderlyHolds, PTL DEF Spec, NoRecentPassword

-------------------------------------------------------------------------------
(* Sessions that outlive a change of the password.                            *)

\* A request began before now, and a registration opens its session with the
\* password it sets.
Starts ==
    \A r \in Requests :
        /\ began[r] <= revocations
        /\ Registering(r) => seen[r] = chosen[r]

\* A token that was not issued excuses no session.
Unopened == \A t \in Tokens : session[t] = "none" => opened[t].began >= opened[t].at

\* A session of the login was under way when the sessions were revoked.
Late(login) == \E u \in Tokens : opened[u].login = login /\ opened[u].began < opened[u].at

\* The request is on its way to opening a session.
Opens(r) ==
    \/ pc[r] \in {"clearAttempts", "user", "rotate", "open"}
    \/ Registering(r) /\ pc[r] = "remember"

\* Why request r may open its session.
Excused(r) ==
    \/ seen[r] = password
    \/ Pending
    \/ began[r] < revocations
    \/ kind[r] = "refresh" /\ Late(opened[token[r]].login)

Openings == crashes = 0 /\ Exists => \A r \in Requests : Opens(r) => Excused(r)

Survivors == Openings /\ SurvivorsWereUnderWay

-------------------------------------------------------------------------------
LEMMA StepLocals ==
  ASSUME Inv, NEW r \in Requests, Step(r) \/ Crash(r)
  PROVE  /\ revocations' \in {revocations, revocations + 1}
         /\ End(r) \/ \E stage \in Stages : GoOn(r, stage)
<1>1. CASE Crash(r)
  BY <1>1 DEF Crash
<1>2. CASE CreateUser(r) \/ CountFailure(r) \/ LockAccount(r) \/ ResetFailedAttempts(r)
           \/ FindUser(r) \/ Rotate(r) \/ OpenSession(r)
  BY <1>2 DEF CreateUser, CountFailure, LockAccount, ResetFailedAttempts, FindUser, Rotate, OpenSession,
              pastVars, Stages
<1>3. CASE CheckHistory(r) \/ UpdatePassword(r) \/ ClearReset(r) \/ RevokeAll(r)
  BY <1>3 DEF CheckHistory, UpdatePassword, ClearReset, RevokeAll, pastVars, Stages
<1>4. CASE Remember(r)
  <2>1. GoOn(r, "open") \/ GoOn(r, "cleanup")
    BY <1>4 DEF Remember
  <2> QED
    BY <1>4, <2>1 DEF Remember, pastVars, Stages
<1>5. CASE CleanUp(r)
  <2>1. GoOn(r, "clearReset") \/ GoOn(r, "revokeAll")
    BY <1>5 DEF CleanUp
  <2> QED
    BY <1>5, <2>1 DEF CleanUp, pastVars, Stages
<1> QED
  BY <1>1, <1>2, <1>3, <1>4, <1>5 DEF Step

LEMMA NextStarts == ASSUME Inv, Starts, [Next]_vars PROVE Starts'
<1>1. began \in [Requests -> Nat] /\ revocations \in Nat
  BY DEF Inv, Locals, Rows
<1>2. CASE UNCHANGED vars
  BY <1>2 DEF Starts, Registering, vars, localVars, pastVars
<1>3. CASE Manage \/ Time
  <2>1. UNCHANGED <<kind, seen, chosen, began>> /\ revocations' \in {revocations, revocations + 1}
    BY <1>3 DEF Manage, Time, Logout, RevokeOthers, Revoke, LogoutEverywhere, RequestReset, Deactivate,
         DeleteAccount, LockExpires, ResetExpires, SessionExpires, localVars, pastVars
  <2> QED
    BY <1>1, <2>1 DEF Starts, Registering
<1>4. CASE \E r \in Requests : Step(r) \/ Crash(r)
  <2> PICK r \in Requests : Step(r) \/ Crash(r)
    BY <1>4
  <2>1. revocations' \in {revocations, revocations + 1}
    BY StepLocals
  <2>2. CASE End(r)
    <3>1. /\ \A q \in Requests : q # r => /\ kind'[q] = kind[q] /\ seen'[q] = seen[q]
                                          /\ chosen'[q] = chosen[q] /\ began'[q] = began[q]
          /\ kind'[r] = "none" /\ began'[r] = 0
      BY <2>2, EndRest DEF Rest
    <3>2. \A q \in Requests : began'[q] <= revocations'
      BY <1>1, <2>1, <3>1 DEF Starts
    <3> QED
      BY <3>1, <3>2 DEF Starts, Registering
  <2>3. CASE \E stage \in Stages : GoOn(r, stage)
    <3>1. UNCHANGED <<kind, seen, chosen, began>>
      BY <2>3 DEF GoOn
    <3> QED
      BY <1>1, <2>1, <3>1 DEF Starts, Registering
  <2> QED
    BY <2>2, <2>3, StepLocals
<1>5. CASE \E r \in Requests : Arrive(r)
  <2> PICK r \in Requests : Arrive(r)
    BY <1>5
  <2>1. /\ revocations' = revocations
        /\ \E what, presented, read, new, stage :
              /\ Begin(r, what, presented, read, new, stage)
              /\ what = "register" => read = new
    BY DEF Arrive, BeginRegister, BeginLogin, BeginChange, BeginRefresh, BeginReset, Start, BeginChanging, Begin
  <2>2. PICK what, presented, read, new, stage :
              /\ Begin(r, what, presented, read, new, stage)
              /\ what = "register" => read = new
    BY <2>1
  <2>3. /\ Rest(r) /\ kind'[r] = what /\ seen'[r] = read /\ chosen'[r] = new
        /\ began'[r] = IF what \in {"change", "reset"} THEN 0 ELSE revocations
    BY <2>2, BeginRest
  <2>4. \A q \in Requests : began'[q] <= revocations'
    BY <1>1, <2>1, <2>3 DEF Starts, Rest
  <2> QED
    BY <2>2, <2>3, <2>4 DEF Starts, Registering, Rest
<1> QED
  BY <1>2, <1>3, <1>4, <1>5 DEF Next

\* What a step may do to the sessions: open one, or none and keep how they were opened.
LEMMA NextSessions ==
  ASSUME Inv, [Next]_vars
  PROVE  \/ /\ opened' = opened
            /\ \A t \in Tokens : /\ session'[t] = "live" => session[t] = "live"
                                 /\ session'[t] = "none" => session[t] = "none"
         \/ \E r \in Requests : OpenSession(r)
<1>1. CASE UNCHANGED vars
  BY <1>1 DEF vars
<1>2. CASE Manage \/ Time
  BY <1>2 DEF Manage, Time, Logout, RevokeOthers, Revoke, LogoutEverywhere, RequestReset, Deactivate,
           DeleteAccount, LockExpires, ResetExpires, SessionExpires, Live, Inv, Rows
<1>3. CASE \E r \in Requests : Arrive(r) \/ Crash(r)
  BY <1>3 DEF Arrive, Crash, BeginRegister, BeginLogin, BeginChange, BeginRefresh, BeginReset,
                Start, BeginChanging, Begin
<1>4. CASE \E r \in Requests : Step(r)
  BY <1>4 DEF Step, CreateUser, CountFailure, LockAccount, ResetFailedAttempts, FindUser, Rotate,
           CheckHistory, UpdatePassword, Remember, CleanUp, ClearReset, RevokeAll, Inv, Rows, Live
<1> QED
  BY <1>1, <1>2, <1>3, <1>4 DEF Next

LEMMA NextUnopened == ASSUME Inv, Unopened, [Next]_vars PROVE Unopened'
<1>1. CASE /\ opened' = opened
           /\ \A t \in Tokens : session'[t] = "none" => session[t] = "none"
  BY <1>1 DEF Unopened
<1>2. CASE \E r \in Requests : OpenSession(r)
  BY <1>2 DEF OpenSession, Unopened, Inv, Rows
<1> QED
  BY <1>1, <1>2, NextSessions

\* A session that was opened late stays so.
LEMMA LateStays ==
  ASSUME Inv, Unopened, NEW r \in Requests, OpenSession(r), NEW login, Late(login)
  PROVE  Late(login)'
<1> PICK u \in Tokens : opened[u].login = login /\ opened[u].began < opened[u].at
  BY DEF Late
<1>1. opened[u].began \in Nat /\ opened[u].at \in Nat
  BY DEF Inv, Rows, Opening
<1>2. session[u] # "none"
  BY <1>1 DEF Unopened
<1>3. opened'[u] = opened[u]
  BY <1>2 DEF OpenSession, Inv, Rows
<1> QED
  BY <1>3 DEF Late

-------------------------------------------------------------------------------
\* No request gets on its way to a session without an excuse, or loses one.
Kept ==
    /\ Exists' /\ Pending => Pending'
    /\ \A q \in Requests : Opens(q)' =>
          \/ Excused(q)'
          \/ /\ Opens(q) /\ kind'[q] = kind[q] /\ token'[q] = token[q]
             /\ seen'[q] = seen[q] /\ began'[q] = began[q]

PendingStages == {"remember", "cleanup", "clearReset", "revokeAll"}

LEMMA KeptSurvivors ==
  ASSUME Inv, Owned', Survivors, Kept, opened' = opened, password' = password, crashes' = crashes,
         \A t \in Tokens : session'[t] = "live" => session[t] = "live",
         revocations' \in {revocations, revocations + 1}, Exists' => Exists
  PROVE  Survivors'
<1>1. began \in [Requests -> Nat] /\ revocations \in Nat
  BY DEF Inv, Locals, Rows
<1>2. Openings'
  <2> SUFFICES ASSUME crashes' = 0, Exists', NEW q \in Requests, Opens(q)' PROVE Excused(q)'
    BY DEF Openings
  <2> SUFFICES ASSUME Opens(q), kind'[q] = kind[q], token'[q] = token[q], seen'[q] = seen[q],
                      began'[q] = began[q]
               PROVE  Excused(q)'
    BY DEF Kept
  <2>1. Excused(q)
    BY DEF Survivors, Openings
  <2>2. CASE Pending
    BY <2>2 DEF Kept, Excused
  <2>3. CASE ~Pending
    <3>1. began[q] < revocations => began'[q] < revocations'
      BY <1>1
    <3>2. kind[q] = "refresh" /\ Late(opened[token[q]].login)
             => kind'[q] = "refresh" /\ Late(opened[token[q]].login)'
      BY DEF Late
    <3> QED
      BY <2>1, <2>3, <3>1, <3>2 DEF Excused
  <2> QED
    BY <2>2, <2>3
<1>3. SurvivorsWereUnderWay'
  BY DEF SurvivorsWereUnderWay, Survivors, Live, Owned, Kept
<1> QED
  BY <1>2, <1>3 DEF Survivors

LEMMA EndKept ==
  ASSUME Inv, NEW r \in Requests, End(r), Changing(r) => pc[r] \notin PendingStages
  PROVE  Kept
<1>1. Rest(r) /\ pc'[r] = "idle" /\ kind'[r] = "none"
  BY EndRest
<1>2. Pending => Pending'
  BY <1>1 DEF Pending, Changing, Rest, PendingStages
<1>3. \A q \in Requests : Opens(q)' => q # r /\ Opens(q)
  BY <1>1 DEF Opens, Registering, Rest
<1> QED
  BY <1>1, <1>2, <1>3 DEF Kept, Rest

LEMMA GoOnKept ==
  ASSUME Inv, NEW r \in Requests, NEW stage, GoOn(r, stage),
         stage \notin {"clearAttempts", "user", "remember"},
         stage \in {"rotate", "open"} => Opens(r),
         Changing(r) /\ pc[r] \in PendingStages => stage \in PendingStages
  PROVE  Kept
<1>1. Rest(r) /\ pc'[r] = stage /\ UNCHANGED <<kind, token, seen, chosen, began>>
  BY GoOnRest
<1>2. Pending => Pending'
  BY <1>1 DEF Pending, Changing, Rest, PendingStages
<1>3. \A q \in Requests : Opens(q)' => Opens(q)
  BY <1>1 DEF Opens, Registering, Rest
<1> QED
  BY <1>1, <1>2, <1>3 DEF Kept, Rest

\* A request that begins knows the password, or refreshes a session that is excused.
LEMMA ArriveKept ==
  ASSUME Inv, Survivors, NEW r \in Requests, Arrive(r), crashes = 0
  PROVE  Kept
<1>1. UNCHANGED <<account, password, session, opened, revocations, crashes>>
  BY DEF Arrive, BeginRegister, BeginLogin, BeginChange, BeginRefresh, BeginReset,
                Start, BeginChanging, Begin, userVars
<1>2. \E what, presented, read, new, stage : Begin(r, what, presented, read, new, stage)
  BY DEF Arrive, BeginRegister, BeginLogin, BeginChange, BeginRefresh, BeginReset, Start, BeginChanging
<1>3. Rest(r) /\ pc[r] = "idle"
  BY <1>2, BeginRest
<1>4. Pending => Pending'
  BY <1>3 DEF Pending, Changing, Rest
<1>5. \A q \in Requests : q # r /\ Opens(q)' => Opens(q)
  BY <1>3 DEF Opens, Registering, Rest
<1>6. Opens(r)' => Excused(r)'
  <2>1. CASE \E p \in Passwords : BeginRegister(r, p)
    <3>1. pc'[r] = "create"
      BY <2>1, BeginRest DEF BeginRegister, Start
    <3> QED
      BY <3>1 DEF Opens
  <2>2. CASE \E p \in Passwords : BeginLogin(r, p)
    <3> PICK p \in Passwords : BeginLogin(r, p)
      BY <2>2
    <3> DEFINE stage == IF p = password THEN "clearAttempts" ELSE "count"
    <3>1. Begin(r, "login", NoToken, p, NoPassword, stage)
      BY DEF BeginLogin, Start
    <3> HIDE DEF stage
    <3>2. kind'[r] = "login" /\ pc'[r] = stage /\ seen'[r] = p
      BY <3>1, BeginRest
    <3>3. CASE p = password
      BY <1>1, <3>2, <3>3 DEF Excused
    <3>4. CASE p # password
      BY <3>2, <3>4 DEF Opens, Registering, stage
    <3> QED
      BY <3>3, <3>4
  <2>3. CASE \E p \in Passwords : BeginChange(r, p)
    <3>1. pc'[r] = "history"
      BY <2>3, BeginRest DEF BeginChange, BeginChanging
    <3> QED
      BY <3>1 DEF Opens
  <2>4. CASE \E t \in ResetTokens, p \in Passwords : BeginReset(r, t, p)
    <3>1. pc'[r] = "history"
      BY <2>4, BeginRest DEF BeginReset, BeginChanging
    <3> QED
      BY <3>1 DEF Opens
  <2>5. CASE \E t \in Tokens : BeginRefresh(r, t)
    <3> PICK t \in Tokens : BeginRefresh(r, t)
      BY <2>5
    <3>1. Begin(r, "refresh", t, opened[t].password, NoPassword, "user")
      BY DEF BeginRefresh, Start
    <3>2. kind'[r] = "refresh" /\ token'[r] = t /\ seen'[r] = opened[t].password
      BY <3>1, BeginRest
    <3>3. t \in Live
      BY DEF BeginRefresh, Live
    <3>4. opened[t].password = password \/ Pending \/ Late(opened[t].login)
      BY <3>3 DEF Survivors, SurvivorsWereUnderWay, Late
    <3>5. Late(opened[t].login) => Late(opened[token[r]].login)'
      BY <1>1, <3>2 DEF Late
    <3> QED
      BY <1>1, <1>4, <3>2, <3>4, <3>5 DEF Excused
  <2> QED
    BY <2>1, <2>2, <2>3, <2>4, <2>5 DEF Arrive
<1> QED
  BY <1>3, <1>4, <1>5, <1>6 DEF Kept, Rest

\* The password of a new account is the one its registration goes on with.
LEMMA CreateSurvivors ==
  ASSUME Inv, Owned, Orderly, Starts, NEW r \in Requests, CreateUser(r), account = "none"
  PROVE  Survivors'
<1>1. Rest(r) /\ pc[r] = "create" /\ pc'[r] = "remember" /\ UNCHANGED <<kind, seen>>
  BY GoOnRest DEF CreateUser
<1>2. password' = chosen[r] /\ session' = session
  BY DEF CreateUser
<1>3. \A q \in Requests : pc[q] # "idle" => Registering(q) /\ pc[q] = "create"
  BY DEF Orderly, Beginnings
<1>4. \A q \in Requests : Opens(q)' => q = r
  BY <1>1, <1>3 DEF Opens, Registering, Rest
<1>5. seen[r] = chosen[r]
  BY <1>1, <1>3 DEF Starts
<1>6. Openings'
  BY <1>1, <1>2, <1>4, <1>5 DEF Openings, Excused
<1>7. SurvivorsWereUnderWay'
  BY <1>2 DEF Owned, Live, SurvivorsWereUnderWay
<1> QED
  BY <1>6, <1>7 DEF Survivors

\* Once the password is set, the sessions have yet to be revoked.
LEMMA UpdateSurvivors ==
  ASSUME Inv, Orderly, NEW r \in Requests, UpdatePassword(r), Exists
  PROVE  Survivors'
<1>1. pc[r] = "update" /\ pc'[r] = "remember" /\ kind' = kind
  BY GoOnRest DEF UpdatePassword
<1>2. Pending'
  BY <1>1 DEF Orderly, Roles, Role, Pending, Changing
<1> QED
  BY <1>2 DEF Survivors, Openings, Excused, SurvivorsWereUnderWay

\* When all sessions are revoked, none is live, and every request under way is late.
LEMMA RevokedSurvivors ==
  ASSUME Inv, Starts, revocations' = revocations + 1,
         \A t \in Tokens : session'[t] # "live",
         \A q \in Requests : Opens(q)' => began'[q] = began[q]
  PROVE  Survivors'
<1>1. began \in [Requests -> Nat] /\ revocations \in Nat
  BY DEF Inv, Locals, Rows
<1>2. \A q \in Requests : began[q] < revocations'
  BY <1>1 DEF Starts
<1> QED
  BY <1>2 DEF Survivors, Openings, Excused, SurvivorsWereUnderWay, Live

\* A session that is opened inherits the excuse of its request.
LEMMA OpenSurvivors ==
  ASSUME Inv, Origins, Unopened, Owned', Survivors, NEW r \in Requests, OpenSession(r)
  PROVE  Survivors'
<1>1. UNCHANGED <<account, password, revocations, crashes>> /\ pc[r] = "open" /\ End(r)
  BY DEF OpenSession, userVars, pastVars
<1>2. Rest(r) /\ pc'[r] = "idle" /\ kind'[r] = "none"
  BY <1>1, EndRest
<1>3. Kept
  BY <1>1, EndKept DEF PendingStages
<1>4. CASE ~Exists
  <2>1. session' = session /\ opened' = opened
    BY <1>4 DEF OpenSession
  <2>2. revocations' \in {revocations, revocations + 1}
    BY <1>1
  <2> QED
    BY <1>1, <1>3, <2>1, <2>2, KeptSurvivors
<1>5. CASE Exists
  <2>1. PICK t \in Tokens :
           /\ session[t] = "none"
           /\ session' = [session EXCEPT ![t] = "live"]
           /\ opened' = [opened EXCEPT ![t] =
                [password |-> seen[r], began |-> began[r], at |-> revocations,
                 login |-> IF kind[r] = "refresh" THEN opened[token[r]].login ELSE t]]
    BY <1>5 DEF OpenSession
  <2>2. /\ \A u \in Tokens : u # t => opened'[u] = opened[u] /\ session'[u] = session[u]
        /\ opened'[t] = [password |-> seen[r], began |-> began[r], at |-> revocations,
                         login |-> IF kind[r] = "refresh" THEN opened[token[r]].login ELSE t]
    BY <2>1 DEF Inv, Rows
  <2>3. \A login : Late(login) => Late(login)'
    BY LateStays
  <2>4. Pending => Pending'
    BY <1>1, <1>3, <1>5 DEF Kept
  <2>5. Openings'
    <3> SUFFICES ASSUME crashes = 0, NEW q \in Requests, Opens(q)' PROVE Excused(q)'
      BY <1>1 DEF Openings
    <3>1. /\ q # r /\ Opens(q) /\ kind'[q] = kind[q] /\ token'[q] = token[q]
          /\ seen'[q] = seen[q] /\ began'[q] = began[q]
      BY <1>2 DEF Opens, Registering, Rest
    <3>2. Excused(q)
      BY <1>5, <3>1 DEF Survivors, Openings
    <3>3. CASE kind[q] = "refresh" /\ Late(opened[token[q]].login)
      <4>1. token[q] \in Tokens /\ token[q] # t
        BY <2>1, <3>3 DEF Origins, Inv, Fit, Fits
      <4>2. opened'[token'[q]].login = opened[token[q]].login
        BY <2>2, <3>1, <4>1
      <4> PICK login : login = opened[token[q]].login
        OBVIOUS
      <4>3. Late(login)'
        BY <2>3, <3>3
      <4>4. Late(opened[token[q]].login)'
        BY <4>2, <4>3 DEF Late
      <4> QED
        BY <3>1, <3>3, <4>4 DEF Excused
    <3>4. CASE ~(kind[q] = "refresh" /\ Late(opened[token[q]].login))
      BY <1>1, <2>4, <3>1, <3>2, <3>4 DEF Excused
    <3> QED
      BY <3>3, <3>4
  <2>6. SurvivorsWereUnderWay'
    <3> SUFFICES ASSUME crashes = 0, ~Pending', NEW u \in Tokens, session'[u] = "live",
                        opened'[u].password # password
                 PROVE  \E v \in Tokens : opened'[v].login = opened'[u].login /\ opened'[v].began < opened'[v].at
      BY <1>1 DEF SurvivorsWereUnderWay, Live
    <3> PICK login : login = opened'[u].login
      OBVIOUS
    <3>1. CASE u # t
      <4>1. u \in Live /\ opened[u].password # password /\ opened[u].login = login
        BY <2>2, <3>1 DEF Live
      <4>2. Late(login)
        BY <2>4, <4>1 DEF Survivors, SurvivorsWereUnderWay, Late
      <4> QED
        BY <2>3, <4>2 DEF Late
    <3>2. CASE u = t
      <4>1. Excused(r) /\ seen[r] # password
        BY <1>1, <1>5, <2>2, <3>2 DEF Survivors, Openings, Opens
      <4>2. CASE began[r] < revocations
        BY <2>2, <3>2, <4>2
      <4>3. CASE kind[r] = "refresh" /\ Late(opened[token[r]].login)
        <5>1. login = opened[token[r]].login
          BY <2>2, <3>2, <4>3
        <5> QED
          BY <2>3, <4>3, <5>1 DEF Late
      <4> QED
        BY <2>4, <4>1, <4>2, <4>3 DEF Excused
    <3> QED
      BY <3>1, <3>2
  <2> QED
    BY <2>5, <2>6 DEF Survivors
<1> QED
  BY <1>4, <1>5

-------------------------------------------------------------------------------
LEMMA StepSurvivors ==
  ASSUME Inv, Origins, Owned, Owned', Orderly, Starts, Unopened, Survivors, NEW r \in Requests, Step(r)
  PROVE  Survivors'
<1>1. CASE CreateUser(r)
  <2>1. CASE account # "none"
    <3>1. /\ End(r) /\ pc[r] = "create" /\ UNCHANGED <<account, password, session, opened, crashes, revocations>>
      BY <1>1, <2>1 DEF CreateUser
    <3> QED
      BY <3>1, EndKept, KeptSurvivors DEF PendingStages
  <2> QED
    BY <1>1, <2>1, CreateSurvivors
<1>2. CASE CountFailure(r) \/ LockAccount(r) \/ ResetFailedAttempts(r)
  <2>1. UNCHANGED <<account, password, session, opened, crashes, revocations>>
    BY <1>2 DEF CountFailure, LockAccount, ResetFailedAttempts, pastVars
  <2>2. /\ pc[r] \in {"count", "lock", "clearAttempts"}
        /\ End(r) \/ GoOn(r, "lock") \/ (GoOn(r, "open") /\ pc[r] = "clearAttempts")
    BY <1>2 DEF CountFailure, LockAccount, ResetFailedAttempts
  <2>3. Kept
    BY <2>2, EndKept, GoOnKept DEF PendingStages, Opens
  <2> QED
    BY <2>1, <2>3, KeptSurvivors
<1>3. CASE FindUser(r) \/ Rotate(r)
  <2>1. UNCHANGED <<account, password, opened, crashes, revocations>>
    BY <1>3 DEF FindUser, Rotate, userVars, pastVars
  <2>2. /\ pc[r] \in {"user", "rotate"}
        /\ End(r) \/ GoOn(r, "rotate") \/ GoOn(r, "open")
    BY <1>3 DEF FindUser, Rotate
  <2>3. Kept
    BY <2>2, EndKept, GoOnKept DEF PendingStages, Opens
  <2>4. \A t \in Tokens : session'[t] = "live" => session[t] = "live"
    BY <1>3 DEF FindUser, Rotate, Inv, Rows
  <2> QED
    BY <2>1, <2>3, <2>4, KeptSurvivors
<1>4. CASE CheckHistory(r)
  <2>1. UNCHANGED <<account, password, session, opened, crashes, revocations>>
    BY <1>4 DEF CheckHistory, userVars, pastVars
  <2>2. pc[r] = "history" /\ (End(r) \/ GoOn(r, "update"))
    BY <1>4 DEF CheckHistory
  <2>3. Kept
    BY <2>2, EndKept, GoOnKept DEF PendingStages
  <2> QED
    BY <2>1, <2>3, KeptSurvivors
<1>5. CASE UpdatePassword(r)
  <2>1. CASE ~Exists
    <3>1. /\ End(r) /\ pc[r] = "update" /\ UNCHANGED <<account, password, session, opened, crashes, revocations>>
      BY <1>5, <2>1 DEF UpdatePassword
    <3> QED
      BY <3>1, EndKept, KeptSurvivors DEF PendingStages
  <2> QED
    BY <1>5, <2>1, UpdateSurvivors
<1>6. CASE Remember(r) \/ CleanUp(r)
  <2>1. UNCHANGED <<account, password, session, opened, crashes, revocations>>
    BY <1>6 DEF Remember, CleanUp, pastVars
  <2>2. \/ pc[r] = "remember" /\ Registering(r) /\ GoOn(r, "open")
        \/ pc[r] = "remember" /\ GoOn(r, "cleanup")
        \/ pc[r] = "cleanup" /\ (GoOn(r, "clearReset") \/ GoOn(r, "revokeAll"))
    BY <1>6 DEF Remember, CleanUp, Registering
  <2>3. Kept
    BY <2>2, GoOnKept DEF PendingStages, Opens, Registering, Changing
  <2> QED
    BY <2>1, <2>3, KeptSurvivors
<1>7. CASE ClearReset(r)
  <2>1. UNCHANGED <<account, password, session, opened, crashes, revocations>>
    BY <1>7 DEF ClearReset, pastVars
  <2>2. CASE Exists
    <3>1. GoOn(r, "revokeAll")
      BY <1>7, <2>2 DEF ClearReset
    <3>2. Kept
      BY <3>1, GoOnKept DEF PendingStages
    <3> QED
      BY <2>1, <3>2, KeptSurvivors
  <2>3. CASE ~Exists
    <3>1. Live' = {} /\ ~Exists'
      BY <2>1, <2>3 DEF Owned, Live
    <3> QED
      BY <3>1 DEF Survivors, Openings, SurvivorsWereUnderWay
  <2> QED
    BY <2>2, <2>3
<1>8. CASE RevokeAll(r)
  <2>1. revocations' = revocations + 1 /\ End(r)
    BY <1>8 DEF RevokeAll
  <2>2. \A t \in Tokens : session'[t] # "live"
    BY <1>8 DEF RevokeAll, Live
  <2>3. \A q \in Requests : Opens(q)' => began'[q] = began[q]
    BY <2>1, EndRest DEF Rest, Opens
  <2> QED
    BY <2>1, <2>2, <2>3, RevokedSurvivors
<1> QED
  BY <1>1, <1>2, <1>3, <1>4, <1>5, <1>6, <1>7, <1>8, OpenSurvivors DEF Step

LEMMA ManageSurvivors ==
  ASSUME Inv, Owned', Starts, Survivors, Manage \/ Time
  PROVE  Survivors'
<1>1. UNCHANGED <<password, opened, crashes, localVars>>
  BY DEF Manage, Time, Logout, RevokeOthers, Revoke, LogoutEverywhere, RequestReset, Deactivate,
         DeleteAccount, LockExpires, ResetExpires, SessionExpires, userVars, pastVars
<1>2. Exists' => Exists
  BY DEF Manage, Time, Logout, RevokeOthers, Revoke, LogoutEverywhere, RequestReset, Deactivate,
         DeleteAccount, LockExpires, ResetExpires, SessionExpires, userVars
<1>3. /\ revocations' \in {revocations, revocations + 1}
      /\ \A t \in Tokens : session'[t] = "live" => session[t] = "live"
  BY DEF Manage, Time, Logout, RevokeOthers, Revoke, LogoutEverywhere, RequestReset, Deactivate,
         DeleteAccount, LockExpires, ResetExpires, SessionExpires, pastVars, Live, Inv, Rows
<1>4. Kept
  BY <1>1 DEF Kept, Pending, Changing, Opens, Registering, localVars
<1> QED
  BY <1>1, <1>2, <1>3, <1>4, KeptSurvivors

LEMMA NextSurvivors ==
  ASSUME Inv, Origins, Owned, Owned', Orderly, Starts, Unopened, Survivors, [Next]_vars
  PROVE  Survivors'
<1>1. CASE UNCHANGED vars
  <2>1. UNCHANGED <<account, password, session, opened, pc, kind, token, seen, began, revocations, crashes>>
    BY <1>1 DEF vars, userVars, localVars, pastVars
  <2>2. Kept
    BY <2>1 DEF Kept, Pending, Changing, Opens, Registering
  <2> QED
    BY <2>1, <2>2, KeptSurvivors
<1>2. ASSUME NEW r \in Requests, Arrive(r) PROVE Survivors'
  <2>1. UNCHANGED <<account, password, session, opened, revocations, crashes>>
    BY <1>2 DEF Arrive, BeginRegister, BeginLogin, BeginChange, BeginRefresh, BeginReset,
                Start, BeginChanging, Begin, userVars
  <2>2. CASE crashes = 0
    BY <1>2, <2>1, <2>2, ArriveKept, KeptSurvivors
  <2>3. CASE crashes # 0
    BY <2>1, <2>3 DEF Survivors, Openings, SurvivorsWereUnderWay
  <2> QED
    BY <2>2, <2>3
<1>3. ASSUME NEW r \in Requests, Crash(r) PROVE Survivors'
  <2>1. crashes' # 0
    BY <1>3 DEF Crash, Inv, Rows
  <2> QED
    BY <2>1 DEF Survivors, Openings, SurvivorsWereUnderWay
<1> QED
  BY <1>1, <1>2, <1>3, StepSurvivors, ManageSurvivors DEF Next

(* While no request died half-way, a session that was opened with a password  *)
(* other than the one in force is live only while a change of the password    *)
(* has yet to revoke the sessions, or when its login or a refresh of it was   *)
(* under way as they were revoked; whatever the numbers of sessions, requests *)
(* and passwords.                                                             *)
THEOREM SurvivorsKnown == Spec => []SurvivorsWereUnderWay
<1>1. Init => Origins /\ OneHolder /\ Starts /\ Unopened /\ Survivors
  BY DEF Init, Origins, OneHolder, Starts, Registering, Unopened, NotOpened, Survivors, Openings,
         SurvivorsWereUnderWay, Live
<1>2. Inv /\ (Owned /\ Orderly) /\ (Owned /\ Orderly)'
        /\ (Origins /\ OneHolder /\ Starts /\ Unopened /\ Survivors) /\ [Next]_vars
        => (Origins /\ OneHolder /\ Starts /\ Unopened /\ Survivors)'
  BY NextHolders, NextStarts, NextUnopened, NextSurvivors
<1>3. Survivors => SurvivorsWereUnderWay
  BY DEF Survivors
<1> QED
  BY <1>1, <1>2, <1>3, SessionsInv, OrderlyHolds, PTL DEF Spec
================================================================================
