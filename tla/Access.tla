------------------------------- MODULE Access -------------------------------
(***************************************************************************)
(* Logins to one account, its lock after failed attempts, and its          *)
(* sessions.  What ends sessions (a new password, a new phone, a pause) is *)
(* a write of the account followed by the revocation of its sessions, two  *)
(* statements.  The phone and the codes are in Accounts; the password is   *)
(* right or wrong against the hash that was read.                          *)
(***************************************************************************)
EXTENDS Integers, FiniteSetsExt

CONSTANTS
    Sessions, Logins,   \* rows of sessions, requests
    MaxLoginAttempts,   \* MAX_LOGIN_ATTEMPTS, 5 in the code
    MaxFailed,          \* bound: failed logins counted
    MaxEpoch,           \* bound: writes that end sessions
    None

VARIABLES
    account,   \* the columns of the row of users that logins read and write
    session,   \* table sessions
    epoch,     \* history: writes so far that were to end every session
    login,     \* what each request is doing
    late,      \* history: sessions of logins that began before such a write
    died       \* history: a request died between its two statements

vars == <<account, session, epoch, login, late, died>>

Statuses == {"PENDING_VERIFICATION", "ACTIVE", "PAUSED"}
Locks == {"NONE", "ON", "PAST"}   \* locked_until: null, to come, past

Account == [status : Statuses, failed : 0..MaxFailed, lock : Locks]

Session == [status : {"ABSENT", "LIVE", "REVOKED"}, epoch : 0..MaxEpoch]

Stages == {"idle", "verifying", "locking", "opening", "revoking"}

\* status, lock: as they were read.  keep: the session a change of password
\* leaves alone.
Login == [stage : Stages, right : BOOLEAN, status : Statuses, lock : Locks,
          epoch : 0..MaxEpoch, keep : Sessions \union {None}]

NewAccount == [status |-> "PENDING_VERIFICATION", failed |-> 0, lock |-> "NONE"]
Idle == [stage |-> "idle", right |-> FALSE, status |-> "ACTIVE", lock |-> "NONE",
         epoch |-> 0, keep |-> None]

TypeOK ==
    /\ account \in Account
    /\ session \in [Sessions -> Session]
    /\ epoch \in 0..MaxEpoch
    /\ login \in [Logins -> Login]
    /\ late \subseteq Sessions
    /\ died \in BOOLEAN

Init ==
    /\ account = NewAccount
    /\ session = [s \in Sessions |-> [status |-> "ABSENT", epoch |-> 0]]
    /\ login = [r \in Logins |-> Idle]
    /\ epoch = 0 /\ late = {} /\ died = FALSE

Become(r, p) == login' = [login EXCEPT ![r] = p]
Done(r) == Become(r, Idle)

-----------------------------------------------------------------------------
(* AuthService.login.                                                      *)

LoginRead(r, right) ==
    /\ login[r].stage = "idle"
    /\ Become(r, [Idle EXCEPT !.stage = "verifying", !.right = right,
                              !.status = account.status, !.lock = account.lock,
                              !.epoch = epoch])
    /\ UNCHANGED <<account, session, epoch, late, died>>

\* A locked account answers without counting; one that is paused answers too.
LoginRefuse(r) ==
    /\ login[r].stage = "verifying"
    /\ \/ login[r].lock = "ON"
       \/ login[r].right /\ login[r].status = "PAUSED"
    /\ Done(r)
    /\ UNCHANGED <<account, session, epoch, late, died>>

OverLimit(n) == n > MaxLoginAttempts

AtLimit(n) == n >= MaxLoginAttempts

\* recordFailedLogin: the increment returns the row it left.
FailedIncrement(r) ==
    LET n == account.failed + 1
    IN  /\ login[r].stage = "verifying" /\ ~login[r].right
        /\ login[r].lock # "ON"
        /\ n <= MaxFailed
        /\ account' = [account EXCEPT !.failed = n]
        /\ IF AtLimit(n) /\ account.lock # "ON"
           THEN Become(r, [Idle EXCEPT !.stage = "locking"])
           ELSE Done(r)
        /\ UNCHANGED <<session, epoch, late, died>>

FailedLock(r) ==
    /\ login[r].stage = "locking"
    /\ account' = IF AtLimit(account.failed) /\ account.lock # "ON"
                  THEN [account EXCEPT !.lock = "ON"] ELSE account
    /\ Done(r)
    /\ UNCHANGED <<session, epoch, late, died>>

\* Before verification the login only resumes it, while that is still pending.
LoginPending(r) ==
    /\ login[r].stage = "verifying" /\ login[r].right
    /\ login[r].lock # "ON" /\ login[r].status = "PENDING_VERIFICATION"
    /\ account' = IF account.status = "PENDING_VERIFICATION"
                  THEN [account EXCEPT !.failed = 0, !.lock = "NONE"] ELSE account
    /\ Done(r)
    /\ UNCHANGED <<session, epoch, late, died>>

LoginSucceed(r) ==
    /\ login[r].stage = "verifying" /\ login[r].right
    /\ login[r].lock # "ON" /\ login[r].status = "ACTIVE"
    /\ account' = [account EXCEPT !.failed = 0, !.lock = "NONE"]
    /\ Become(r, [Idle EXCEPT !.stage = "opening", !.epoch = login[r].epoch])
    /\ UNCHANGED <<session, epoch, late, died>>

\* verifyPhone opens a session too.
VerifyPhone(r) ==
    /\ login[r].stage = "idle"
    /\ account.status = "PENDING_VERIFICATION"
    /\ account' = [account EXCEPT !.status = "ACTIVE"]
    /\ Become(r, [Idle EXCEPT !.stage = "opening", !.epoch = epoch])
    /\ UNCHANGED <<session, epoch, late, died>>

SessionCreate(r, s) ==
    /\ login[r].stage = "opening"
    /\ session[s].status = "ABSENT"
    /\ session' = [session EXCEPT ![s] = [status |-> "LIVE", epoch |-> login[r].epoch]]
    /\ late' = IF login[r].epoch # epoch THEN late \union {s} ELSE late
    /\ Done(r)
    /\ UNCHANGED <<account, epoch, died>>

-----------------------------------------------------------------------------
(* What ends sessions.                                                     *)

\* SessionService.authenticate.
Admitted(s) == session[s].status = "LIVE" /\ account.status = "ACTIVE"

\* The account's new columns; the sessions are still to be revoked.
Ends(r, row, keep) ==
    /\ login[r].stage = "idle"
    /\ epoch < MaxEpoch
    /\ epoch' = epoch + 1
    /\ account' = row
    /\ Become(r, [Idle EXCEPT !.stage = "revoking", !.epoch = epoch + 1, !.keep = keep])
    /\ UNCHANGED <<session, late, died>>

\* With an accepted code; a paused account is not reset.
ResetPassword(r) ==
    /\ account.status # "PAUSED"
    /\ Ends(r, [status |-> "ACTIVE", failed |-> 0, lock |-> "NONE"], None)

ChangePassword(r, s) == Admitted(s) /\ Ends(r, account, s)

\* The client's own change of phone, or the administrator's.
ChangePhone(r) == Ends(r, [account EXCEPT !.status = "PENDING_VERIFICATION"], None)

Pause(r) == Ends(r, [account EXCEPT !.status = "PAUSED"], None)

\* updateStatus to ACTIVE revokes nothing.
Reactivate(r) ==
    /\ login[r].stage = "idle"
    /\ account.status = "PAUSED"
    /\ account' = [account EXCEPT !.status = "ACTIVE"]
    /\ UNCHANGED <<session, epoch, login, late, died>>

RevokedOnly(keep, e) ==
    [s \in Sessions |->
       IF s = keep THEN [session[s] EXCEPT !.status = "REVOKED"] ELSE session[s]]

\* The session that changed the password goes on, under the new one.
Revoked(keep, e) ==
    [s \in Sessions |->
       IF s = keep THEN [session[s] EXCEPT !.epoch = Max({e, session[s].epoch})]
       ELSE IF session[s].status = "LIVE" THEN [session[s] EXCEPT !.status = "REVOKED"]
       ELSE session[s]]

RevokeAll(r) ==
    /\ login[r].stage = "revoking"
    /\ session' = Revoked(login[r].keep, login[r].epoch)
    /\ Done(r)
    /\ UNCHANGED <<account, epoch, late, died>>

Logout(s) ==
    /\ Admitted(s)
    /\ session' = [session EXCEPT ![s].status = "REVOKED"]
    /\ UNCHANGED <<account, epoch, login, late, died>>

LogoutAll(s) ==
    /\ Admitted(s)
    /\ session' = Revoked(None, 0)
    /\ UNCHANGED <<account, epoch, login, late, died>>

\* Fifteen minutes.
LockExpires ==
    /\ account.lock = "ON"
    /\ account' = [account EXCEPT !.lock = "PAST"]
    /\ UNCHANGED <<session, epoch, login, late, died>>

Die(r) ==
    /\ login[r].stage # "idle"
    /\ died' = (died \/ login[r].stage \in {"locking", "revoking"})
    /\ Done(r)
    /\ UNCHANGED <<account, session, epoch, late>>

Next ==
    \/ \E r \in Logins :
         \/ \E right \in BOOLEAN : LoginRead(r, right)
         \/ LoginRefuse(r) \/ FailedIncrement(r) \/ FailedLock(r) \/ LoginPending(r)
         \/ LoginSucceed(r) \/ VerifyPhone(r) \/ Die(r)
         \/ ResetPassword(r) \/ ChangePhone(r) \/ Pause(r) \/ Reactivate(r) \/ RevokeAll(r)
         \/ \E s \in Sessions : SessionCreate(r, s) \/ ChangePassword(r, s)
    \/ \E s \in Sessions : Logout(s) \/ LogoutAll(s)
    \/ LockExpires

Spec == Init /\ [][Next]_vars

-----------------------------------------------------------------------------
(* Properties.                                                             *)

At(stage) == \E r \in Logins : login[r].stage = stage

\* Once failed logins reach the limit the account has been locked, however
\* attempts and successes interleave, unless the request that was to lock it is
\* still about to, or died.
LockedAtLimit ==
    account.failed >= MaxLoginAttempts => account.lock # "NONE" \/ At("locking") \/ died

\* A live session dates from after the last new password, change of phone or
\* pause, or was kept by the change itself; the exceptions are a session that a
\* login already under way opened late, and a revocation that is still to come
\* or never came.
OldSessionsExplained ==
    \A s \in Sessions : session[s].status = "LIVE" =>
       session[s].epoch = epoch \/ s \in late \/ At("revoking") \/ died

=============================================================================
