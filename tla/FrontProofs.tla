----------------------------- MODULE FrontProofs -----------------------------
(***************************************************************************)
(* What accounts, sessions, routes, messages and pages each keep, for any  *)
(* users, requests, sessions, messages and calls.                          *)
(***************************************************************************)
EXTENDS MCFront, TLAPS

-----------------------------------------------------------------------------
(* Access.  Failed logins and the lock need no more than the property; the *)
(* sessions need to know which revocation is the one still to come: that   *)
(* of the last write that ends sessions.                                   *)

Revoking == \E r \in Logins : login[r].stage = "revoking" /\ login[r].epoch = epoch

EpochsPast ==
    /\ \A s \in Sessions : session[s].epoch <= epoch
    /\ \A r \in Logins : login[r].epoch <= epoch

SessionsCurrent ==
    \A s \in Sessions : session[s].status = "LIVE" =>
        session[s].epoch = epoch \/ s \in late \/ Revoking \/ died

AccessIInv == L!TypeOK /\ L!LockedAtLimit /\ EpochsPast /\ SessionsCurrent

LEMMA AccessLimits ==
  MaxLoginAttempts \in Nat /\ MaxLoginAttempts > 0 /\ MaxFailed \in Nat /\ MaxEpoch \in Nat
  BY FrontAssumption

LEMMA LaterEpoch ==
  ASSUME NEW a \in Nat, NEW b \in Nat
  PROVE  L!Max({a, b}) = IF a >= b THEN a ELSE b
  BY DEF L!Max

LEMMA LoginType == L!Idle \in L!Login
  BY AccessLimits DEF L!Idle, L!Login, L!Stages, L!Statuses, L!Locks

LEMMA AccessInit == L!Init => AccessIInv
  <1> SUFFICES ASSUME L!Init PROVE AccessIInv
    OBVIOUS
  <1> USE DEF L!Init
  <1>1. L!TypeOK
    <2>1. account \in L!Account /\ session \in [Sessions -> L!Session]
      BY AccessLimits DEF L!Account, L!NewAccount, L!Statuses, L!Locks, L!Session
    <2>2. login \in [Logins -> L!Login]
      <3>1. L!Idle \in L!Login
        BY LoginType
      <3> QED
        BY <3>1
    <2>3. epoch \in 0..MaxEpoch /\ late \subseteq Sessions
      BY AccessLimits
    <2>4. died \in BOOLEAN
      OBVIOUS
    <2> QED
      BY <2>1, <2>2, <2>3, <2>4 DEF L!TypeOK
  <1>2. L!LockedAtLimit
    BY AccessLimits DEF L!LockedAtLimit, L!NewAccount
  <1>3. EpochsPast /\ SessionsCurrent
    BY DEF EpochsPast, SessionsCurrent, L!Idle
  <1> QED
    BY <1>1, <1>2, <1>3 DEF AccessIInv

\* Steps that end sessions nowhere and leave the tables of sessions alone.
LEMMA SessionsStay ==
  ASSUME AccessIInv, NEW r \in Logins, NEW x \in L!Login, L!Become(r, x),
         login[r].stage # "revoking", x.epoch <= epoch,
         UNCHANGED <<session, epoch, late, died>>
  PROVE  EpochsPast' /\ SessionsCurrent'
  <1> USE DEF AccessIInv, L!TypeOK, L!Become
  <1>1. EpochsPast'
    BY DEF EpochsPast
  <1>2. Revoking => Revoking'
    BY DEF Revoking
  <1>3. SessionsCurrent'
    BY <1>2 DEF SessionsCurrent
  <1> QED
    BY <1>1, <1>3

\* Steps of a request that is not about to lock the account, and that count no
\* failed login towards the limit.
LEMMA LockStays ==
  ASSUME AccessIInv, NEW r \in Logins, NEW x \in L!Login, L!Become(r, x),
         login[r].stage # "locking", UNCHANGED died,
         account' \in L!Account,
         \/ account'.failed = 0
         \/ account'.failed = account.failed /\ account'.lock = account.lock
  PROVE  L!LockedAtLimit'
  <1> USE DEF AccessIInv, L!TypeOK, L!Become
  <1>1. L!At("locking") => L!At("locking")'
    BY DEF L!At
  <1> QED
    BY <1>1, AccessLimits DEF L!LockedAtLimit


-----------------------------------------------------------------------------

\* What ends sessions: the account's row, which counts no failed login, and the
\* request that goes on to revoke them.
LEMMA EndsStep ==
  ASSUME AccessIInv, NEW r \in Logins, NEW keep \in Sessions \union {None},
         NEW row0 \in L!Account, L!Ends(r, row0, keep),
         \/ row0.failed = 0
         \/ row0.failed = account.failed /\ row0.lock = account.lock
  PROVE  AccessIInv'
  <1> DEFINE x == [L!Idle EXCEPT !.stage = "revoking", !.epoch = epoch + 1, !.keep = keep]
  <1>1. /\ account' = row0 /\ epoch' = epoch + 1 /\ epoch' \in 0..MaxEpoch
        /\ login' = [login EXCEPT ![r] = x] /\ UNCHANGED <<session, late, died>>
        /\ login[r].stage = "idle"
    BY AccessLimits DEF L!Ends, L!Become, AccessIInv, L!TypeOK
  <1>2. /\ x \in L!Login /\ x.stage = "revoking" /\ x.epoch = epoch'
    BY <1>1, LoginType DEF L!Login, L!Stages
  <1> HIDE DEF x
  <1>3. L!TypeOK'
    BY <1>1, <1>2 DEF AccessIInv, L!TypeOK
  <1>4. L!LockedAtLimit'
    BY <1>1, <1>2, LockStays DEF AccessIInv, L!Become
  <1>5. EpochsPast'
    BY <1>1, <1>2 DEF AccessIInv, EpochsPast, L!TypeOK, L!Session, L!Login
  <1>6. Revoking'
    BY <1>1, <1>2 DEF Revoking, AccessIInv, L!TypeOK
  <1>7. SessionsCurrent'
    BY <1>6 DEF SessionsCurrent
  <1> QED
    BY <1>3, <1>4, <1>5, <1>7 DEF AccessIInv

LEMMA EndingSteps ==
  ASSUME AccessIInv, NEW r \in Logins,
         \/ L!ResetPassword(r) \/ L!ChangePhone(r) \/ L!Pause(r)
         \/ \E s \in Sessions : L!ChangePassword(r, s)
  PROVE  AccessIInv'
  <1>1. /\ account \in L!Account
        /\ \A status \in L!Statuses : [account EXCEPT !.status = status] \in L!Account
        /\ [status |-> "ACTIVE", failed |-> 0, lock |-> "NONE"] \in L!Account
    BY AccessLimits DEF AccessIInv, L!TypeOK, L!Account, L!Statuses, L!Locks
  <1>2. \A status \in L!Statuses :
          /\ [account EXCEPT !.status = status].failed = account.failed
          /\ [account EXCEPT !.status = status].lock = account.lock
    BY <1>1 DEF L!Account
  <1>3. CASE L!ResetPassword(r)
    BY <1>1, <1>3, EndsStep DEF L!ResetPassword
  <1>4. CASE L!ChangePhone(r)
    BY <1>1, <1>2, <1>4, EndsStep DEF L!ChangePhone, L!Statuses
  <1>5. CASE L!Pause(r)
    BY <1>1, <1>2, <1>5, EndsStep DEF L!Pause, L!Statuses
  <1>6. ASSUME NEW s \in Sessions, L!ChangePassword(r, s) PROVE AccessIInv'
    BY <1>1, <1>6, EndsStep DEF L!ChangePassword
  <1> QED
    BY <1>3, <1>4, <1>5, <1>6

\* The sessions that a revocation of epoch e leaves live date from e at least.
LEMMA RevokedLeaves ==
  ASSUME L!TypeOK, EpochsPast, NEW keep, NEW e \in 0..epoch
  PROVE  /\ L!Revoked(keep, e) \in [Sessions -> L!Session]
         /\ \A s \in Sessions :
              LET then == L!Revoked(keep, e)[s] IN
              /\ then.epoch <= epoch
              /\ then.status = "LIVE" =>
                   /\ s = keep /\ session[s].status = "LIVE"
                   /\ then.epoch >= e /\ then.epoch >= session[s].epoch
  <1> SUFFICES ASSUME NEW s \in Sessions
               PROVE  LET then == L!Revoked(keep, e)[s] IN
                      /\ then \in L!Session
                      /\ then.epoch <= epoch
                      /\ then.status = "LIVE" =>
                           /\ s = keep /\ session[s].status = "LIVE"
                           /\ then.epoch >= e /\ then.epoch >= session[s].epoch
    BY DEF L!Revoked
  <1> DEFINE m == L!Max({e, session[s].epoch})
             then == L!Revoked(keep, e)[s]
  <1>1. session[s] \in L!Session /\ session[s].epoch \in Nat /\ epoch \in 0..MaxEpoch /\ e \in Nat
    BY AccessLimits DEF L!TypeOK, L!Session
  <1>2. m \in 0..epoch /\ m >= e /\ m >= session[s].epoch
    BY <1>1, LaterEpoch DEF EpochsPast
  <1>3. then = IF s = keep THEN [session[s] EXCEPT !.epoch = m]
               ELSE IF session[s].status = "LIVE" THEN [session[s] EXCEPT !.status = "REVOKED"]
               ELSE session[s]
    BY DEF L!Revoked
  <1> HIDE DEF m, then
  <1>4. CASE s = keep
    <2>1. then = [session[s] EXCEPT !.epoch = m]
      BY <1>3, <1>4
    <2>2. then \in L!Session /\ then.epoch = m /\ then.status = session[s].status
      <3>1. m \in 0..MaxEpoch
        BY <1>1, <1>2, AccessLimits
      <3> QED
        BY <1>1, <2>1, <3>1 DEF L!Session
    <2> QED
      BY <1>2, <1>4, <2>2 DEF then
  <1>5. CASE s # keep
    <2>1. then = session[s] \/ then = [session[s] EXCEPT !.status = "REVOKED"]
      BY <1>3, <1>5
    <2>2. then.status # "LIVE"
      BY <1>1, <1>3, <1>5 DEF L!Session
    <2>3. then \in L!Session /\ then.epoch = session[s].epoch
      BY <1>1, <2>1 DEF L!Session
    <2> QED
      BY <2>2, <2>3 DEF EpochsPast, then
  <1> QED
    BY <1>4, <1>5 DEF then

-----------------------------------------------------------------------------

\* Steps of a login before its session is opened: they go on to x.
LEMMA LoginStep ==
  ASSUME AccessIInv, NEW r \in Logins, NEW x \in L!Login, L!Become(r, x),
         login[r].stage \notin {"locking", "revoking"}, x.epoch <= epoch,
         UNCHANGED <<session, epoch, late, died>>,
         account' \in L!Account,
         \/ account'.failed = 0
         \/ account'.failed = account.failed /\ account'.lock = account.lock
         \/ x.stage = "locking"
         \/ account'.failed < MaxLoginAttempts
         \/ account'.lock = "ON"
  PROVE  AccessIInv'
  <1>1. L!TypeOK'
    BY DEF AccessIInv, L!TypeOK, L!Become
  <1>2. EpochsPast' /\ SessionsCurrent'
    BY SessionsStay
  <1>3. L!LockedAtLimit'
    <2>1. CASE account'.failed = 0 \/ (account'.failed = account.failed /\ account'.lock = account.lock)
      BY <2>1, LockStays
    <2>2. CASE x.stage = "locking"
      BY <2>2 DEF L!LockedAtLimit, L!At, L!Become, AccessIInv, L!TypeOK
    <2>3. CASE account'.failed < MaxLoginAttempts \/ account'.lock = "ON"
      BY <2>3, AccessLimits DEF L!LockedAtLimit, L!Account
    <2> QED
      BY <2>1, <2>2, <2>3
  <1> QED
    BY <1>1, <1>2, <1>3 DEF AccessIInv

\* A request that goes on, and one that is done.
LEMMA LoginRecords ==
  ASSUME AccessIInv, NEW r \in Logins
  PROVE  /\ account \in L!Account /\ login[r] \in L!Login /\ epoch \in 0..MaxEpoch
         /\ login[r].epoch <= epoch /\ 0 <= epoch
         /\ L!Idle \in L!Login /\ L!Idle.epoch = 0 /\ L!Idle.stage = "idle"
         /\ [L!Idle EXCEPT !.stage = "locking"] \in L!Login
         /\ [L!Idle EXCEPT !.stage = "locking"].stage = "locking"
         /\ [L!Idle EXCEPT !.stage = "locking"].epoch = 0
         /\ \A e \in 0..MaxEpoch :
              LET x == [L!Idle EXCEPT !.stage = "opening", !.epoch = e] IN
              x \in L!Login /\ x.stage = "opening" /\ x.epoch = e
  <1>1. L!Idle.epoch = 0 /\ L!Idle.stage = "idle"
    BY DEF L!Idle
  <1>2. [L!Idle EXCEPT !.stage = "locking"] \in L!Login
        /\ [L!Idle EXCEPT !.stage = "locking"].stage = "locking"
        /\ [L!Idle EXCEPT !.stage = "locking"].epoch = 0
    BY <1>1, LoginType DEF L!Login, L!Stages
  <1>3. \A e \in 0..MaxEpoch :
              LET x == [L!Idle EXCEPT !.stage = "opening", !.epoch = e] IN
              x \in L!Login /\ x.stage = "opening" /\ x.epoch = e
    BY LoginType DEF L!Login, L!Stages
  <1>4. account \in L!Account /\ login[r] \in L!Login /\ epoch \in 0..MaxEpoch /\ 0 <= epoch
        /\ login[r].epoch <= epoch
    BY AccessLimits DEF AccessIInv, L!TypeOK, EpochsPast
  <1> QED
    BY <1>1, <1>2, <1>3, <1>4, LoginType

LEMMA LoginReadStep ==
  ASSUME AccessIInv, NEW r \in Logins, NEW right \in BOOLEAN, L!LoginRead(r, right)
  PROVE  AccessIInv'
  <1> DEFINE x == [L!Idle EXCEPT !.stage = "verifying", !.right = right,
                              !.status = account.status, !.lock = account.lock,
                              !.epoch = epoch]
  <1>1. x \in L!Login /\ x.epoch = epoch
    BY LoginType, LoginRecords DEF L!Login, L!Stages, L!Account
  <1>2. /\ L!Become(r, x) /\ login[r].stage = "idle"
        /\ UNCHANGED <<account, session, epoch, late, died>>
    BY DEF L!LoginRead
  <1> HIDE DEF x
  <1>3. account \in L!Account /\ epoch <= epoch
    <2>1. account \in L!Account /\ epoch \in 0..MaxEpoch
      BY LoginRecords
    <2> QED
      BY <2>1, AccessLimits
  <1> QED
    BY <1>1, <1>2, <1>3, LoginStep

LEMMA RefuseStep == ASSUME AccessIInv, NEW r \in Logins, L!LoginRefuse(r) PROVE AccessIInv'
  BY LoginRecords, LoginStep DEF L!LoginRefuse, L!Done

LEMMA IncrementStep ==
  ASSUME AccessIInv, NEW r \in Logins, L!FailedIncrement(r) PROVE AccessIInv'
  <1> DEFINE n == account.failed + 1
             row0 == [account EXCEPT !.failed = n]
  <1>1. /\ login[r].stage = "verifying" /\ n <= MaxFailed /\ account' = row0
        /\ UNCHANGED <<session, epoch, late, died>>
        /\ IF n >= MaxLoginAttempts /\ account.lock # "ON"
           THEN L!Become(r, [L!Idle EXCEPT !.stage = "locking"])
           ELSE L!Become(r, L!Idle)
    BY DEF L!FailedIncrement, L!AtLimit, L!Done
  <1>2. account \in L!Account /\ account.failed \in Nat
    <2>1. account \in L!Account
      BY LoginRecords
    <2> QED
      BY <2>1, AccessLimits DEF L!Account
  <1>3. row0 \in L!Account /\ row0.failed = n /\ row0.lock = account.lock
    BY <1>1, <1>2, AccessLimits DEF L!Account
  <1> HIDE DEF row0
  <1>4. CASE n >= MaxLoginAttempts /\ account.lock # "ON"
    BY <1>1, <1>3, <1>4, LoginRecords, LoginStep
  <1>5. CASE ~(n >= MaxLoginAttempts /\ account.lock # "ON")
    <2>1. row0.failed < MaxLoginAttempts \/ row0.lock = "ON"
      BY <1>2, <1>3, <1>5, AccessLimits
    <2> QED
      BY <1>1, <1>3, <1>5, <2>1, LoginRecords, LoginStep
  <1> QED
    BY <1>4, <1>5

LEMMA LockStep == ASSUME AccessIInv, NEW r \in Logins, L!FailedLock(r) PROVE AccessIInv'
  <1>1. /\ account' \in L!Account
        /\ account'.failed >= MaxLoginAttempts => account'.lock = "ON"
    BY LoginRecords, AccessLimits DEF L!FailedLock, L!AtLimit, L!Account, L!Locks
  <1>2. /\ login[r].stage = "locking" /\ L!Become(r, L!Idle)
        /\ UNCHANGED <<session, epoch, late, died>>
    BY DEF L!FailedLock, L!Done
  <1>3. L!TypeOK'
    BY <1>1, <1>2, LoginType DEF AccessIInv, L!TypeOK, L!Become
  <1>4. L!LockedAtLimit'
    BY <1>1 DEF L!LockedAtLimit
  <1>5. EpochsPast' /\ SessionsCurrent'
    BY <1>2, LoginRecords, SessionsStay
  <1> QED
    BY <1>3, <1>4, <1>5 DEF AccessIInv

\* What a login that succeeds makes of the row.
LEMMA Unlocked ==
  ASSUME L!TypeOK
  PROVE  /\ [account EXCEPT !.failed = 0, !.lock = "NONE"] \in L!Account
         /\ [account EXCEPT !.failed = 0, !.lock = "NONE"].failed = 0
  <1>1. account \in L!Account /\ 0 \in 0..MaxFailed /\ "NONE" \in L!Locks
    BY AccessLimits DEF L!TypeOK, L!Locks
  <1> QED
    BY <1>1 DEF L!Account

LEMMA PendingStep == ASSUME AccessIInv, NEW r \in Logins, L!LoginPending(r) PROVE AccessIInv'
  <1>1. /\ account' \in L!Account
        /\ account' = account \/ account'.failed = 0
    BY Unlocked, LoginRecords DEF L!LoginPending, AccessIInv
  <1> QED
    BY <1>1, LoginRecords, LoginStep DEF L!LoginPending, L!Done

LEMMA SucceedStep == ASSUME AccessIInv, NEW r \in Logins, L!LoginSucceed(r) PROVE AccessIInv'
  <1> DEFINE x == [L!Idle EXCEPT !.stage = "opening", !.epoch = login[r].epoch]
  <1>1. x \in L!Login /\ x.epoch = login[r].epoch /\ login[r].epoch <= epoch
    BY LoginRecords DEF L!Login
  <1>2. account' \in L!Account /\ account'.failed = 0
    BY Unlocked DEF L!LoginSucceed, AccessIInv
  <1> QED
    BY <1>1, <1>2, LoginStep DEF L!LoginSucceed

LEMMA VerifyPhoneStep == ASSUME AccessIInv, NEW r \in Logins, L!VerifyPhone(r) PROVE AccessIInv'
  <1> DEFINE x == [L!Idle EXCEPT !.stage = "opening", !.epoch = epoch]
  <1>1. x \in L!Login /\ x.epoch = epoch /\ epoch <= epoch
    <2>1. epoch \in 0..MaxEpoch
      BY LoginRecords
    <2>2. epoch <= epoch
      BY <2>1, AccessLimits
    <2> QED
      BY <2>1, <2>2, LoginRecords
  <1>2. /\ account' \in L!Account
        /\ account'.failed = account.failed /\ account'.lock = account.lock
    BY LoginRecords DEF L!VerifyPhone, L!Account, L!Statuses
  <1> QED
    BY <1>1, <1>2, LoginStep DEF L!VerifyPhone

-----------------------------------------------------------------------------

LEMMA SessionCreateStep ==
  ASSUME AccessIInv, NEW r \in Logins, NEW s \in Sessions, L!SessionCreate(r, s)
  PROVE  AccessIInv'
  <1> DEFINE new == [status |-> "LIVE", epoch |-> login[r].epoch]
  <1>1. /\ login[r].stage = "opening" /\ login' = [login EXCEPT ![r] = L!Idle]
        /\ session' = [session EXCEPT ![s] = new]
        /\ late' = IF login[r].epoch # epoch THEN late \union {s} ELSE late
        /\ UNCHANGED <<account, epoch, died>>
    BY DEF L!SessionCreate, L!Done, L!Become
  <1>2. new \in L!Session
    BY LoginRecords DEF L!Session, L!Login
  <1>3. L!TypeOK'
    BY <1>1, <1>2, LoginType DEF AccessIInv, L!TypeOK
  <1>4. L!LockedAtLimit'
    BY <1>1 DEF AccessIInv, L!TypeOK, L!LockedAtLimit, L!At
  <1>5. EpochsPast'
    BY <1>1, LoginRecords DEF AccessIInv, L!TypeOK, EpochsPast
  <1>6. SessionsCurrent'
    <2> SUFFICES ASSUME NEW z \in Sessions, session'[z].status = "LIVE"
                 PROVE  session'[z].epoch = epoch \/ z \in late' \/ Revoking' \/ died
      BY <1>1 DEF SessionsCurrent
    <2>1. Revoking => Revoking'
      BY <1>1 DEF AccessIInv, L!TypeOK, Revoking
    <2>2. CASE z = s
      BY <1>1, <2>2 DEF AccessIInv, L!TypeOK
    <2>3. CASE z # s
      BY <1>1, <2>1, <2>3 DEF AccessIInv, L!TypeOK, SessionsCurrent
    <2> QED
      BY <2>2, <2>3
  <1> QED
    BY <1>3, <1>4, <1>5, <1>6 DEF AccessIInv

\* A revocation; the request that made it, if any, is done.
LEMMA RevokedStep ==
  ASSUME AccessIInv, NEW keep, NEW e \in 0..epoch, session' = L!Revoked(keep, e),
         UNCHANGED <<account, epoch, late, died>>,
         \/ UNCHANGED login
         \/ \E r \in Logins : /\ login[r].stage = "revoking" /\ login[r].epoch = e
                              /\ login' = [login EXCEPT ![r] = L!Idle]
  PROVE  AccessIInv'
  <1>1. login' \in [Logins -> L!Login] /\ \A q \in Logins : login'[q].epoch <= epoch
    <2>1. CASE UNCHANGED login
      BY <2>1 DEF AccessIInv, L!TypeOK, EpochsPast
    <2>2. ASSUME NEW r \in Logins, login' = [login EXCEPT ![r] = L!Idle]
          PROVE  login' \in [Logins -> L!Login] /\ \A q \in Logins : login'[q].epoch <= epoch
      BY <2>2, LoginType, LoginRecords DEF AccessIInv, L!TypeOK, EpochsPast
    <2> QED
      BY <2>1, <2>2
  <1>2. L!TypeOK'
    BY <1>1, RevokedLeaves DEF AccessIInv, L!TypeOK
  <1>3. L!LockedAtLimit'
    BY DEF AccessIInv, L!TypeOK, L!LockedAtLimit, L!At
  <1>4. EpochsPast'
    BY <1>1, RevokedLeaves DEF AccessIInv, EpochsPast
  <1>5. SessionsCurrent'
    <2> SUFFICES ASSUME NEW s \in Sessions, session'[s].status = "LIVE", s \notin late, ~died,
                        ~Revoking'
                 PROVE  session'[s].epoch = epoch
      BY DEF SessionsCurrent
    <2>1. /\ session'[s].epoch <= epoch /\ session[s].status = "LIVE"
          /\ session'[s].epoch >= e /\ session'[s].epoch >= session[s].epoch
          /\ session'[s].epoch \in Nat
      BY RevokedLeaves, AccessLimits DEF AccessIInv, L!Session
    <2>2. session[s].epoch = epoch \/ e = epoch
      <3>1. session[s].epoch = epoch \/ Revoking
        BY <2>1 DEF AccessIInv, SessionsCurrent
      <3>2. Revoking => e = epoch
        BY DEF AccessIInv, L!TypeOK, Revoking
      <3> QED
        BY <3>1, <3>2
    <2>3. epoch \in Nat
      BY AccessLimits DEF AccessIInv, L!TypeOK
    <2> QED
      BY <2>1, <2>2, <2>3
  <1> QED
    BY <1>2, <1>3, <1>4, <1>5 DEF AccessIInv

LEMMA RevokingSteps ==
  ASSUME AccessIInv,
         \/ \E r \in Logins : L!RevokeAll(r)
         \/ \E s \in Sessions : L!LogoutAll(s)
  PROVE  AccessIInv'
  <1>1. ASSUME NEW r \in Logins, L!RevokeAll(r) PROVE AccessIInv'
    <2>1. login[r].epoch \in 0..epoch
      <3>1. login[r] \in L!Login /\ login[r].epoch <= epoch
        BY LoginRecords
      <3> QED
        BY <3>1, AccessLimits DEF AccessIInv, L!TypeOK, L!Login
    <2>2. /\ session' = L!Revoked(login[r].keep, login[r].epoch)
          /\ login[r].stage = "revoking" /\ login' = [login EXCEPT ![r] = L!Idle]
          /\ UNCHANGED <<account, epoch, late, died>>
      BY <1>1 DEF L!RevokeAll, L!Done, L!Become
    <2> QED
      BY <2>1, <2>2, RevokedStep
  <1>2. ASSUME NEW s \in Sessions, L!LogoutAll(s) PROVE AccessIInv'
    <2>1. 0 \in 0..epoch
      BY AccessLimits DEF AccessIInv, L!TypeOK
    <2> QED
      BY <1>2, <2>1, RevokedStep DEF L!LogoutAll
  <1> QED
    BY <1>1, <1>2

LEMMA LogoutStep == ASSUME AccessIInv, NEW s \in Sessions, L!Logout(s) PROVE AccessIInv'
  <1>1. /\ session' = [session EXCEPT ![s].status = "REVOKED"]
        /\ UNCHANGED <<account, epoch, login, late, died>>
    BY DEF L!Logout
  <1>2. session \in [Sessions -> L!Session]
    BY DEF AccessIInv, L!TypeOK
  <1>3. session' \in [Sessions -> L!Session]
    BY <1>1, <1>2 DEF L!Session
  <1>4. L!TypeOK' /\ L!LockedAtLimit'
    BY <1>1, <1>3 DEF AccessIInv, L!TypeOK, L!LockedAtLimit, L!At
  <1>5. EpochsPast' /\ SessionsCurrent'
    BY <1>1, <1>2 DEF AccessIInv, EpochsPast, SessionsCurrent, Revoking, L!Session
  <1> QED
    BY <1>4, <1>5 DEF AccessIInv

\* The lock runs out, or the administrator ends a pause.
LEMMA AccountStep ==
  ASSUME AccessIInv, L!LockExpires \/ \E r \in Logins : L!Reactivate(r)
  PROVE  AccessIInv'
  <1>1. /\ account' \in L!Account
        /\ account'.failed = account.failed
        /\ account'.lock = "NONE" => account.lock = "NONE"
    BY DEF AccessIInv, L!TypeOK, L!Account, L!LockExpires, L!Reactivate, L!Statuses, L!Locks
  <1>2. UNCHANGED <<session, epoch, login, late, died>>
    BY DEF L!LockExpires, L!Reactivate
  <1>3. L!TypeOK' /\ L!LockedAtLimit'
    BY <1>1, <1>2 DEF AccessIInv, L!TypeOK, L!LockedAtLimit, L!At
  <1>4. EpochsPast' /\ SessionsCurrent'
    BY <1>2 DEF AccessIInv, EpochsPast, SessionsCurrent, Revoking
  <1> QED
    BY <1>3, <1>4 DEF AccessIInv

LEMMA DieStep == ASSUME AccessIInv, NEW r \in Logins, L!Die(r) PROVE AccessIInv'
  <1>1. /\ died' = (died \/ login[r].stage \in {"locking", "revoking"})
        /\ login' = [login EXCEPT ![r] = L!Idle]
        /\ UNCHANGED <<account, session, epoch, late>>
    BY DEF L!Die, L!Done, L!Become
  <1>2. L!TypeOK'
    BY <1>1, LoginType DEF AccessIInv, L!TypeOK
  <1>3. L!LockedAtLimit' /\ SessionsCurrent'
    BY <1>1 DEF AccessIInv, L!TypeOK, L!LockedAtLimit, L!At, SessionsCurrent, Revoking
  <1>4. EpochsPast'
    BY <1>1, LoginRecords DEF AccessIInv, L!TypeOK, EpochsPast
  <1> QED
    BY <1>2, <1>3, <1>4 DEF AccessIInv

LEMMA AccessNextStep == AccessIInv /\ [L!Next]_accessVars => AccessIInv'
  <1> SUFFICES ASSUME AccessIInv, [L!Next]_accessVars PROVE AccessIInv'
    OBVIOUS
  <1>1. ASSUME NEW r \in Logins, NEW right \in BOOLEAN, L!LoginRead(r, right) PROVE AccessIInv'
    BY <1>1, LoginReadStep
  <1>2. ASSUME NEW r \in Logins,
               \/ L!LoginRefuse(r) \/ L!FailedIncrement(r) \/ L!FailedLock(r) \/ L!LoginPending(r)
               \/ L!LoginSucceed(r) \/ L!VerifyPhone(r) \/ L!Die(r)
        PROVE  AccessIInv'
    BY <1>2, RefuseStep, IncrementStep, LockStep, PendingStep, SucceedStep, VerifyPhoneStep, DieStep
  <1>3. ASSUME NEW r \in Logins,
               \/ L!ResetPassword(r) \/ L!ChangePhone(r) \/ L!Pause(r)
               \/ \E s \in Sessions : L!ChangePassword(r, s)
        PROVE  AccessIInv'
    BY <1>3, EndingSteps
  <1>4. ASSUME NEW r \in Logins, L!RevokeAll(r) \/ L!Reactivate(r) PROVE AccessIInv'
    BY <1>4, RevokingSteps, AccountStep
  <1>5. ASSUME NEW r \in Logins, NEW s \in Sessions, L!SessionCreate(r, s) PROVE AccessIInv'
    BY <1>5, SessionCreateStep
  <1>6. ASSUME NEW s \in Sessions, L!Logout(s) \/ L!LogoutAll(s) PROVE AccessIInv'
    BY <1>6, LogoutStep, RevokingSteps
  <1>7. CASE L!LockExpires
    BY <1>7, AccountStep
  <1>8. CASE UNCHANGED accessVars
    BY <1>8 DEF accessVars, AccessIInv, L!TypeOK, L!LockedAtLimit, L!At, EpochsPast,
                SessionsCurrent, Revoking
  <1> QED
    BY <1>1, <1>2, <1>3, <1>4, <1>5, <1>6, <1>7, <1>8 DEF L!Next

LEMMA AccessSafe == AccessIInv => L!TypeOK /\ L!LockedAtLimit /\ L!OldSessionsExplained
  BY DEF AccessIInv, SessionsCurrent, Revoking, L!OldSessionsExplained, L!At

-----------------------------------------------------------------------------
(* Messaging.  What the caller hears and what the provider took follow     *)
(* from the choice made for the message on its way, in an environment the  *)
(* API accepted.                                                           *)

Accepted == api = "up" => M!ValidateEnvironment

Followed ==
    IF message = None THEN taken = "nothing" /\ answer = "none"
    ELSE /\ api = "up"
         /\ IF M!Choice(message) = "call"
            THEN /\ answer \in {"none", "not delivered", "whatsapp-cloud", "smtp"}
                 /\ taken \in {"nothing", M!Body}
                 /\ answer \in {"whatsapp-cloud", "smtp"} => taken # "nothing"
            ELSE taken = "nothing" /\ answer = M!Choice(message)

MessagingIInv == M!TypeOK /\ Accepted /\ Followed

LEMMA MessagesAreNotNone == \A m \in M!CodeMessages \union M!Notices : m # None
  BY FrontAssumption

LEMMA MessagingInit == M!Init => MessagingIInv
  BY DEF M!Init, MessagingIInv, M!TypeOK, Accepted, Followed

LEMMA ChoiceType ==
  ASSUME NEW m
  PROVE  M!Choice(m) \in {"call", "mock", "mock with code", "not configured", "unsupported"}
  <1>1. M!MockOtpReceipt \in {"mock with code", "not configured"}
    BY DEF M!MockOtpReceipt
  <1>2. M!MockNotice \in {"mock", "not configured"}
    BY DEF M!MockNotice
  <1>3. M!SendWhatsApp(m) \in {"call", "mock with code", "not configured", "unsupported"}
    BY <1>1 DEF M!SendWhatsApp
  <1>4. M!SendWhatsAppTemplate(m) \in {"call", "mock", "not configured", "unsupported"}
    BY <1>2 DEF M!SendWhatsAppTemplate
  <1> QED
    BY <1>1, <1>2, <1>3, <1>4 DEF M!Choice, M!SendEmail, M!SendNotificationEmail

LEMMA BodyType == M!Body \in {"mail", "text", "template"}
  BY DEF M!Body

\* The choice for a message and its body depend on the environment alone.
LEMMA SameChoice ==
  ASSUME UNCHANGED <<env, message>>
  PROVE  /\ M!Choice(message)' = M!Choice(message) /\ M!Body' = M!Body
         /\ M!ValidateEnvironment' <=> M!ValidateEnvironment
  BY DEF M!Choice, M!SendWhatsApp, M!SendWhatsAppTemplate, M!SendEmail, M!SendNotificationEmail,
         M!MockOtpReceipt, M!MockNotice, M!WithoutWhatsApp, M!WithoutMail, M!Template,
         M!CanUseDevelopmentText, M!HasDevelopmentRecipients, M!CanExposeMockOtpCode, M!Body,
         M!ValidateEnvironment

LEMMA StartApi == ASSUME MessagingIInv, M!Start PROVE MessagingIInv'
  <1>1. M!Choice(message)' = M!Choice(message) /\ M!Body' = M!Body
        /\ (M!ValidateEnvironment' <=> M!ValidateEnvironment)
    BY SameChoice DEF M!Start
  <1>2. message = None
    BY DEF M!Start, MessagingIInv, Followed
  <1> QED
    BY <1>1, <1>2 DEF M!Start, MessagingIInv, M!TypeOK, Accepted, Followed

LEMMA SendMessage ==
  ASSUME MessagingIInv, NEW m \in M!CodeMessages \union M!Notices, M!Send(m)
  PROVE  MessagingIInv'
  <1>1. M!Choice(message)' = M!Choice(m)
    BY DEF M!Send, M!Choice, M!SendWhatsApp, M!SendWhatsAppTemplate, M!SendEmail,
           M!SendNotificationEmail, M!MockOtpReceipt, M!MockNotice, M!WithoutWhatsApp,
           M!WithoutMail, M!Template, M!CanUseDevelopmentText, M!HasDevelopmentRecipients,
           M!CanExposeMockOtpCode
  <1>2. Accepted'
    BY DEF M!Send, MessagingIInv, Accepted, M!ValidateEnvironment
  <1>3. Followed'
    BY <1>1, MessagesAreNotNone DEF M!Send, Followed
  <1>4. M!TypeOK'
    BY ChoiceType DEF M!Send, MessagingIInv, M!TypeOK, M!Refusals
  <1> QED
    BY <1>2, <1>3, <1>4 DEF MessagingIInv

LEMMA ProviderStep ==
  ASSUME MessagingIInv, M!ProviderTakes \/ M!ProviderAnswers \/ M!ProviderFails
  PROVE  MessagingIInv'
  <1>1. UNCHANGED <<env, api, message>> /\ message # None /\ answer = "none"
    BY DEF M!ProviderTakes, M!ProviderAnswers, M!ProviderFails, M!Calling
  <1>2. M!Choice(message)' = M!Choice(message) /\ M!Body' = M!Body
        /\ (M!ValidateEnvironment' <=> M!ValidateEnvironment)
    BY <1>1, SameChoice
  <1>3. M!Choice(message) = "call"
    BY <1>1, ChoiceType DEF MessagingIInv, Followed
  <1>4. /\ answer' \in {"none", "not delivered", "whatsapp-cloud", "smtp"}
        /\ taken' \in {"nothing", M!Body}
        /\ answer' \in {"whatsapp-cloud", "smtp"} => taken' # "nothing"
    BY <1>1, <1>3 DEF M!ProviderTakes, M!ProviderAnswers, M!ProviderFails, MessagingIInv, Followed
  <1>5. M!TypeOK'
    BY <1>1, <1>4, BodyType DEF MessagingIInv, M!TypeOK, M!Refusals
  <1>6. Accepted' /\ Followed'
    BY <1>1, <1>2, <1>3, <1>4 DEF MessagingIInv, Accepted, Followed
  <1> QED
    BY <1>5, <1>6 DEF MessagingIInv

LEMMA MessageDone == ASSUME MessagingIInv, M!Done \/ UNCHANGED messagingVars PROVE MessagingIInv'
  <1>1. CASE M!Done
    BY <1>1 DEF M!Done, MessagingIInv, M!TypeOK, Accepted, Followed, M!ValidateEnvironment
  <1>2. CASE UNCHANGED messagingVars
    <2>1. M!Choice(message)' = M!Choice(message) /\ M!Body' = M!Body
          /\ (M!ValidateEnvironment' <=> M!ValidateEnvironment)
      BY <1>2, SameChoice DEF messagingVars
    <2> QED
      BY <1>2, <2>1 DEF messagingVars, MessagingIInv, M!TypeOK, Accepted, Followed
  <1> QED
    BY <1>1, <1>2

LEMMA MessagingNextStep == MessagingIInv /\ [M!Next]_messagingVars => MessagingIInv'
  BY StartApi, SendMessage, ProviderStep, MessageDone DEF M!Next

-----------------------------------------------------------------------------

\* A choice that is a mock, and a text, say where the API runs.
LEMMA DevelopmentOnly ==
  ASSUME MessagingIInv, message # None
  PROVE  M!MocksStayInDevelopment
  <1>1. M!Choice(message) \in {"mock", "mock with code"} => env.node # "production"
    BY DEF M!Choice, M!SendWhatsApp, M!SendWhatsAppTemplate, M!SendEmail, M!SendNotificationEmail,
           M!MockOtpReceipt, M!MockNotice, M!CanExposeMockOtpCode
  <1>2. M!Choice(message) = "mock with code" => M!CanExposeMockOtpCode
    BY DEF M!Choice, M!SendWhatsApp, M!SendWhatsAppTemplate, M!SendEmail, M!SendNotificationEmail,
           M!MockOtpReceipt, M!MockNotice
  <1>3. taken = "text" => M!Body = "text"
    BY DEF MessagingIInv, Followed
  <1>4. taken = "text" => M!CanUseDevelopmentText(message.to)
    BY <1>3 DEF M!Body
  <1> QED
    BY <1>1, <1>2, <1>4 DEF MessagingIInv, Followed, M!MocksStayInDevelopment,
       M!CanExposeMockOtpCode, M!CanUseDevelopmentText, M!HasDevelopmentRecipients

LEMMA RealCalls ==
  ASSUME MessagingIInv, message \in M!CodeMessages
  PROVE  /\ M!ModeOf(message.channel) = "real" => M!Choice(message) = "call"
         /\ M!ModeOf(message.channel) = "unavailable" /\ message.purpose = "VERIFY_PHONE" =>
              M!Choice(message) \in {"not configured", "unsupported"}
  <1> USE DEF M!Choice, M!ModeOf, M!CanExposeMockOtpCode
  <1>1. /\ message.kind = "code" /\ message.channel \in {"WHATSAPP", "EMAIL"}
        /\ message.purpose \in {"VERIFY_PHONE", "RESET_PASSWORD"}
    BY DEF M!CodeMessages
  <1>2. /\ env.node \in {"production", "development", "other"}
        /\ env.provider \in {"cloud", "mock", "unsupported"}
    BY DEF MessagingIInv, M!TypeOK, M!Environment
  <1>3. CASE message.channel = "WHATSAPP"
    BY <1>1, <1>2, <1>3 DEF M!WhatsAppMode, M!WhatsAppTesting, M!WhatsAppConfigured, M!SendWhatsApp,
       M!MockOtpReceipt, M!WithoutWhatsApp, M!Template, M!CanUseDevelopmentText,
       M!HasDevelopmentRecipients
  <1>4. CASE message.channel = "EMAIL"
    BY <1>1, <1>4 DEF M!EmailMode, M!SendEmail, M!MockOtpReceipt, M!WithoutMail
  <1> QED
    BY <1>1, <1>3, <1>4

LEMMA MessagingSafe == MessagingIInv => M!TypeOK /\ M!MessagingOK
  <1> SUFFICES ASSUME MessagingIInv PROVE M!MessagingOK
    BY DEF MessagingIInv
  <1>1. M!ReceiptsFollowTaking
    BY ChoiceType DEF MessagingIInv, Followed, M!ReceiptsFollowTaking
  <1>2. M!MocksStayInDevelopment
    BY DevelopmentOnly DEF MessagingIInv, Followed, M!MocksStayInDevelopment
  <1>3. M!StatusTellsTruth
    <2> SUFFICES ASSUME message # None, message.kind = "code"
                 PROVE  /\ M!ModeOf(message.channel) = "real" =>
                             answer \in {"none", "not delivered", "whatsapp-cloud", "smtp"}
                        /\ M!ModeOf(message.channel) = "unavailable"
                             /\ message.purpose = "VERIFY_PHONE" =>
                             taken = "nothing" /\ answer \notin {"none", "mock", "mock with code"}
      BY DEF M!StatusTellsTruth
    <2>1. message \in M!CodeMessages
      BY DEF MessagingIInv, M!TypeOK, M!Notices
    <2> QED
      BY <2>1, RealCalls DEF MessagingIInv, Followed
  <1> QED
    BY <1>1, <1>2, <1>3 DEF M!MessagingOK

-----------------------------------------------------------------------------
(* Routes.  A request at work was let in by a route of its name, and what  *)
(* its handler checked is so until somebody overtakes it.                  *)

Names == {route.name : route \in G!Routes} \union {"none"}

RouteRequest ==
    [stage : {"idle", "admitted", "serving"}, name : Names,
     user : G!AllUsers \union {None}, overtaken : BOOLEAN]

LetIn(x) ==
    \E route \in G!Routes :
        /\ route.name = x.name
        /\ IF x.user = None THEN G!Open(route) ELSE G!RolesAllow(route, x.user)

Current(x) == x.user \notin off /\ (x.user \in must => x.name \in G!PasswordRoutes)

\* A manicurist's appointment or quote, or one she may take.
HersOrFree(u, kind) ==
    \/ row.technician = u
    \/ kind = "quote" /\ row.technician = None /\ row.open /\ row.preferred \in {None, u}

Checked(x) ==
    /\ G!About(x.name) \in {row.kind, "none"}
    /\ x.user \in RouteClients /\ G!About(x.name) # "none" => row.client = x.user
    /\ x.name = "receipt" => x.user \in Administrators \union {row.client}
    /\ ~x.overtaken /\ x.user \in Technicians /\ G!About(x.name) # "none" =>
          HersOrFree(x.user, G!About(x.name))

RoutesIInv ==
    /\ G!TypeOK
    /\ routeReq \in [RouteRequests -> RouteRequest]
    /\ \A r \in RouteRequests :
         /\ routeReq[r].stage # "idle" =>
               LetIn(routeReq[r]) /\ (~routeReq[r].overtaken => Current(routeReq[r]))
         /\ routeReq[r].stage = "serving" => Checked(routeReq[r])

\* Only the administrator passes where the decisions leave it to her; no open
\* route is about a row.
WellGuarded(route) ==
    /\ route.name \in G!AdministratorsAlone => route.roles = {G!ADMIN}
    /\ G!Open(route) => G!About(route.name) = "none"

LEMMA OneRole ==
  ASSUME NEW roles, NEW handlers, NEW route \in G!For(roles, handlers),
         \/ handlers \intersect G!AdministratorsAlone = {}
         \/ roles = {G!ADMIN},
         \/ "PUBLIC" \notin roles
         \/ handlers \intersect (G!QuoteRoutes \union G!AppointmentRoutes) = {}
  PROVE  WellGuarded(route)
  <1>1. route.name \in handlers /\ route.roles = roles
    BY DEF G!For
  <1> QED
    BY <1>1 DEF WellGuarded, G!Open, G!About

LEMMA RolesNotPublic == "PUBLIC" \notin G!Roles /\ "PUBLIC" \notin G!Staff
                        /\ "PUBLIC" \notin {G!CLIENT} /\ "PUBLIC" \notin {G!NAIL_TECHNICIAN}
                        /\ "PUBLIC" \notin {G!ADMIN}
  BY DEF G!Roles, G!Staff, G!CLIENT, G!NAIL_TECHNICIAN, G!ADMIN

LEMMA CatalogGuarded ==
  \A route \in G!CatalogRoutes \union G!AdminCatalogRoutes : WellGuarded(route)
  BY OneRole, RolesNotPublic DEF G!CatalogRoutes, G!AdminCatalogRoutes,
     G!AdministratorsAlone, G!QuoteRoutes, G!AppointmentRoutes

LEMMA AccountsGuarded ==
  \A route \in G!AdminUsersRoutes \union G!AuthRoutes : WellGuarded(route)
  BY OneRole, RolesNotPublic DEF G!AdminUsersRoutes, G!AuthRoutes,
     G!AdministratorsAlone, G!QuoteRoutes, G!AppointmentRoutes

LEMMA SchedulingGuarded ==
  \A route \in G!AdminSchedulingRoutes \union G!SchedulingRoutes \union G!AppointmentsRoutes :
     WellGuarded(route)
  BY OneRole, RolesNotPublic
     DEF G!AdminSchedulingRoutes, G!SchedulingRoutes, G!AppointmentsRoutes,
         G!AdministratorsAlone, G!QuoteRoutes, G!AppointmentRoutes

LEMMA LoyaltyGuarded ==
  \A route \in G!LoyaltyRoutes \union G!AdminLoyaltyRoutes \union G!NotificationsRoutes
                \union G!AdminNotificationsRoutes :
     WellGuarded(route)
  BY OneRole, RolesNotPublic
     DEF G!LoyaltyRoutes, G!AdminLoyaltyRoutes, G!NotificationsRoutes, G!AdminNotificationsRoutes,
         G!AdministratorsAlone, G!QuoteRoutes, G!AppointmentRoutes

LEMMA OperationsGuarded ==
  \A route \in G!CalendarRoutes \union G!IntegrationRoutes \union G!HealthRoutes
                \union G!BackgroundJobsRoutes \union G!StudioRoutes :
     WellGuarded(route)
  BY OneRole, RolesNotPublic
     DEF G!CalendarRoutes, G!IntegrationRoutes, G!HealthRoutes, G!BackgroundJobsRoutes,
         G!StudioRoutes, G!AdministratorsAlone, G!QuoteRoutes, G!AppointmentRoutes

LEMMA PaymentsGuarded ==
  \A route \in G!AdminOperationsRoutes \union G!PaymentsRoutes \union G!AdminPaymentsRoutes :
     WellGuarded(route)
  BY OneRole, RolesNotPublic
     DEF G!AdminOperationsRoutes, G!PaymentsRoutes, G!AdminPaymentsRoutes,
         G!AdministratorsAlone, G!QuoteRoutes, G!AppointmentRoutes

LEMMA RoutesGuarded == \A route \in G!Routes : WellGuarded(route)
  BY CatalogGuarded, AccountsGuarded, SchedulingGuarded, LoyaltyGuarded, OperationsGuarded,
     PaymentsGuarded DEF G!Routes

-----------------------------------------------------------------------------

LEMMA UserRoles ==
  ASSUME NEW u \in G!AllUsers
  PROVE  /\ G!RoleOf(u) \in G!Roles
         /\ G!RoleOf(u) = G!CLIENT <=> u \in RouteClients
         /\ G!RoleOf(u) = G!NAIL_TECHNICIAN <=> u \in Technicians
         /\ G!RoleOf(u) = G!ADMIN => u \in Administrators
         /\ u # None
  <1>1. RouteClients \intersect Technicians = {} /\ None \notin G!AllUsers
    BY FrontAssumption
  <1> QED
    BY <1>1 DEF G!AllUsers, G!RoleOf, G!Roles, G!CLIENT, G!NAIL_TECHNICIAN, G!ADMIN

\* Whom a route let in, by what it is about.
LEMMA LetInMeans ==
  ASSUME NEW x \in RouteRequest, LetIn(x)
  PROVE  /\ x.name \in G!AdministratorsAlone => x.user \in Administrators
         /\ G!About(x.name) # "none" => x.user \in G!AllUsers
  <1> PICK route \in G!Routes :
        /\ route.name = x.name
        /\ IF x.user = None THEN G!Open(route) ELSE G!RolesAllow(route, x.user)
    BY DEF LetIn
  <1>1. WellGuarded(route)
    BY RoutesGuarded
  <1>2. x.user \in G!AllUsers \union {None}
    BY DEF RouteRequest
  <1>3. CASE x.user = None
    <2>1. G!About(x.name) = "none" /\ "PUBLIC" \in route.roles
      BY <1>1, <1>3 DEF WellGuarded, G!Open
    <2>2. route.roles # {G!ADMIN}
      BY <2>1 DEF G!ADMIN
    <2> QED
      BY <1>1, <2>1, <2>2 DEF WellGuarded
  <1>4. CASE x.user # None
    BY <1>1, <1>2, <1>4, UserRoles DEF WellGuarded, G!RolesAllow
  <1> QED
    BY <1>3, <1>4

LEMMA AboutType == \A name : G!About(name) \in {"quote", "appointment", "none"}
  BY DEF G!About

\* What the handler checked is what the properties ask for.
LEMMA AccessChecked ==
  ASSUME G!TypeOK, NEW x \in RouteRequest, LetIn(x), G!Access(x.name, x.user),
         G!About(x.name) \in {row.kind, "none"}
  PROVE  Checked(x)
  <1>1. CASE G!About(x.name) = "none"
    BY <1>1 DEF Checked, G!About, G!AppointmentRoutes
  <1>2. CASE G!About(x.name) = "quote"
    <2>1. x.user \in G!AllUsers /\ G!QuoteAccess(x.name, x.user)
      BY <1>2, LetInMeans DEF G!Access
    <2>2. x.user \in RouteClients => row.client = x.user
      BY <2>1, UserRoles DEF G!QuoteAccess, G!CLIENT, G!NAIL_TECHNICIAN
    <2>3. x.user \in Technicians => HersOrFree(x.user, "quote")
      BY <2>1, UserRoles DEF G!QuoteAccess, G!CLIENT, G!NAIL_TECHNICIAN, G!Claimable,
         G!CanTechnicianAccess, HersOrFree
    <2>4. x.name # "receipt"
      BY <1>2 DEF G!About, G!QuoteRoutes, G!AppointmentRoutes
    <2> QED
      BY <1>2, <2>2, <2>3, <2>4 DEF Checked
  <1>3. CASE G!About(x.name) = "appointment"
    <2>1. x.user \in G!AllUsers /\ G!AppointmentAccess(x.name, x.user)
      BY <1>3, LetInMeans DEF G!Access
    <2>2. x.user \in RouteClients => row.client = x.user
      BY <2>1, UserRoles DEF G!AppointmentAccess, G!CLIENT, G!NAIL_TECHNICIAN
    <2>3. x.user \in Technicians => row.technician = x.user /\ x.name # "receipt"
      BY <2>1, UserRoles DEF G!AppointmentAccess, G!CLIENT, G!NAIL_TECHNICIAN
    <2>4. x.user \in RouteClients \union Technicians \union Administrators
      BY <2>1 DEF G!AllUsers
    <2> QED
      BY <1>3, <2>2, <2>3, <2>4 DEF Checked, HersOrFree
  <1> QED
    BY <1>1, <1>2, <1>3, AboutType

-----------------------------------------------------------------------------

LEMMA RoutesInit == G!Init => RoutesIInv
  <1> SUFFICES ASSUME G!Init PROVE RoutesIInv
    OBVIOUS
  <1>1. G!Idle \in RouteRequest /\ G!Idle.stage = "idle"
    BY DEF G!Idle, RouteRequest, Names
  <1>2. routeReq \in [RouteRequests -> RouteRequest]
        /\ \A r \in RouteRequests : routeReq[r].stage = "idle"
    BY <1>1 DEF G!Init
  <1>3. G!TypeOK
    BY <1>2 DEF G!Init, G!TypeOK, RouteRequest
  <1> QED
    BY <1>2, <1>3 DEF RoutesIInv

\* A request goes on, and nobody else does anything.
LEMMA RequestGoesOn ==
  ASSUME RoutesIInv, NEW r \in RouteRequests, NEW x \in RouteRequest, G!Become(r, x),
         UNCHANGED <<row, off, must>>,
         x.stage # "idle" => LetIn(x) /\ (~x.overtaken => Current(x)),
         x.stage = "serving" => Checked(x)
  PROVE  RoutesIInv'
  <1>1. routeReq' = [routeReq EXCEPT ![r] = x]
    BY DEF G!Become
  <1>2. routeReq' \in [RouteRequests -> RouteRequest]
        /\ \A q \in RouteRequests : routeReq'[q] = IF q = r THEN x ELSE routeReq[q]
    BY <1>1 DEF RoutesIInv
  <1>3. G!TypeOK'
    BY <1>2 DEF RoutesIInv, G!TypeOK, RouteRequest
  <1> QED
    BY <1>2, <1>3 DEF RoutesIInv, Current, Checked, HersOrFree

LEMMA GuardsStep ==
  ASSUME RoutesIInv, NEW r \in RouteRequests, NEW u \in G!AllUsers \union {None}, G!Guards(r, u)
  PROVE  RoutesIInv'
  <1> PICK route \in G!Routes :
         /\ IF u = None THEN G!Open(route)
            ELSE /\ ~G!Open(route)
                 /\ u \in must => route.name \in G!PasswordRoutes
                 /\ G!RolesAllow(route, u)
         /\ G!Become(r, [stage |-> "admitted", name |-> route.name, user |-> u, overtaken |-> FALSE])
    BY DEF G!Guards
  <1> DEFINE x == [stage |-> "admitted", name |-> route.name, user |-> u, overtaken |-> FALSE]
  <1>1. x \in RouteRequest
    BY DEF RouteRequest, Names
  <1>2. LetIn(x)
    BY DEF LetIn
  <1>3. None \notin must
    BY FrontAssumption DEF RoutesIInv, G!TypeOK
  <1>4. Current(x)
    BY <1>3 DEF Current, G!Guards
  <1>5. UNCHANGED <<row, off, must>> /\ x.stage # "serving"
    BY DEF G!Guards
  <1> HIDE DEF x
  <1>6. G!Become(r, x)
    BY DEF x
  <1> QED
    BY <1>1, <1>2, <1>4, <1>5, <1>6, RequestGoesOn

LEMMA HandleStep == ASSUME RoutesIInv, NEW r \in RouteRequests, G!Handle(r) PROVE RoutesIInv'
  <1> DEFINE x == routeReq[r]
             y == [x EXCEPT !.stage = "serving"]
  <1>1. x \in RouteRequest /\ LetIn(x) /\ (~x.overtaken => Current(x)) /\ G!TypeOK
    BY DEF RoutesIInv, G!Handle
  <1>2. G!About(x.name) \in {row.kind, "none"} /\ UNCHANGED <<row, off, must>>
    BY DEF G!Handle
  <1>3. CASE G!Access(x.name, x.user)
    <2>1. G!Become(r, y)
      BY <1>3 DEF G!Handle
    <2>2. Checked(x)
      BY <1>1, <1>2, <1>3, AccessChecked
    <2>3. y \in RouteRequest /\ y.stage = "serving" /\ y.name = x.name /\ y.user = x.user
          /\ y.overtaken = x.overtaken
      BY <1>1 DEF RouteRequest
    <2> HIDE DEF x, y
    <2>4. LetIn(y) /\ (~y.overtaken => Current(y)) /\ Checked(y)
      BY <1>1, <2>2, <2>3 DEF LetIn, Current, Checked
    <2> QED
      BY <1>2, <2>1, <2>3, <2>4, RequestGoesOn
  <1>4. CASE ~G!Access(x.name, x.user)
    <2>1. G!Become(r, G!Idle) /\ G!Idle \in RouteRequest /\ G!Idle.stage = "idle"
      BY <1>4 DEF G!Handle, G!Idle, RouteRequest, Names
    <2> QED
      BY <1>2, <2>1, RequestGoesOn
  <1> QED
    BY <1>3, <1>4

LEMMA AnswerStep == ASSUME RoutesIInv, NEW r \in RouteRequests, G!Answer(r) PROVE RoutesIInv'
  <1>1. G!Idle \in RouteRequest /\ G!Idle.stage = "idle"
    BY DEF G!Idle, RouteRequest, Names
  <1> QED
    BY <1>1, RequestGoesOn DEF G!Answer

\* Whoever is overtaken goes on with what it was let in for.
LEMMA Overtaken ==
  ASSUME RoutesIInv, NEW rs, G!Overtake(rs)
  PROVE  /\ routeReq' \in [RouteRequests -> RouteRequest]
         /\ \A r \in RouteRequests :
              LET x == routeReq[r]  y == routeReq'[r] IN
              /\ y.stage = x.stage /\ y.name = x.name /\ y.user = x.user
              /\ x.stage # "idle" =>
                   y.overtaken = (x.overtaken \/ r \in rs) /\ LetIn(y)
  <1> SUFFICES ASSUME NEW r \in RouteRequests
               PROVE  LET x == routeReq[r]  y == routeReq'[r] IN
                      /\ y \in RouteRequest
                      /\ y.stage = x.stage /\ y.name = x.name /\ y.user = x.user
                      /\ x.stage # "idle" =>
                           y.overtaken = (x.overtaken \/ r \in rs) /\ LetIn(y)
    BY DEF G!Overtake
  <1>1. routeReq[r] \in RouteRequest
    BY DEF RoutesIInv
  <1>2. routeReq'[r] = IF r \in rs /\ routeReq[r].stage # "idle"
                       THEN [routeReq[r] EXCEPT !.overtaken = TRUE] ELSE routeReq[r]
    BY DEF G!Overtake
  <1>3. /\ routeReq'[r] \in RouteRequest
        /\ routeReq'[r].stage = routeReq[r].stage /\ routeReq'[r].name = routeReq[r].name
        /\ routeReq'[r].user = routeReq[r].user
        /\ routeReq[r].stage # "idle" =>
             routeReq'[r].overtaken = (routeReq[r].overtaken \/ r \in rs)
    BY <1>1, <1>2 DEF RouteRequest
  <1>4. routeReq[r].stage # "idle" => LetIn(routeReq'[r])
    BY <1>3 DEF RoutesIInv, LetIn
  <1> QED
    BY <1>3, <1>4

\* A user is paused, let in again, told to change the password, or has.
LEMMA UserStep ==
  ASSUME RoutesIInv, NEW u \in G!AllUsers,
         G!Pause(u) \/ G!Activate(u) \/ G!RequirePassword(u) \/ G!ChangePassword(u)
  PROVE  RoutesIInv'
  <1>1. CASE G!Pause(u) \/ G!RequirePassword(u)
    <2>1. /\ G!Overtake(G!ByUser(u)) /\ UNCHANGED row
          /\ off \union must = {} /\ off' \subseteq {u} /\ must' \subseteq {u}
      BY <1>1 DEF G!Pause, G!RequirePassword
    <2>2. ASSUME NEW r \in RouteRequests, routeReq'[r].stage # "idle"
          PROVE  LetIn(routeReq'[r]) /\ (~routeReq'[r].overtaken => Current(routeReq[r])')
      <3>1. /\ routeReq[r].stage # "idle" /\ LetIn(routeReq'[r])
            /\ routeReq'[r].name = routeReq[r].name /\ routeReq'[r].user = routeReq[r].user
            /\ routeReq'[r].overtaken = (routeReq[r].overtaken \/ r \in G!ByUser(u))
        BY <2>1, <2>2, Overtaken
      <3> QED
        BY <2>1, <3>1 DEF Current, G!ByUser
    <2>3. ASSUME NEW r \in RouteRequests, routeReq'[r].stage = "serving"
          PROVE  Checked(routeReq[r])'
      <3>1. /\ routeReq[r].stage = "serving"
            /\ routeReq'[r].name = routeReq[r].name /\ routeReq'[r].user = routeReq[r].user
            /\ routeReq'[r].overtaken = (routeReq[r].overtaken \/ r \in G!ByUser(u))
        BY <2>1, <2>3, Overtaken
      <3>2. Checked(routeReq[r])
        BY <3>1 DEF RoutesIInv
      <3> QED
        BY <2>1, <3>1, <3>2 DEF Checked, HersOrFree
    <2>4. G!TypeOK'
      BY <2>1, Overtaken DEF RoutesIInv, G!TypeOK, RouteRequest
    <2> QED
      BY <2>1, <2>2, <2>3, <2>4, Overtaken DEF RoutesIInv
  <1>2. CASE G!Activate(u) \/ G!ChangePassword(u)
    <2>1. /\ UNCHANGED <<row, routeReq>>
          /\ off' \subseteq off /\ must' \subseteq must
      BY <1>2 DEF G!Activate, G!ChangePassword
    <2> QED
      BY <2>1 DEF RoutesIInv, G!TypeOK, Current, Checked, HersOrFree
  <1> QED
    BY <1>1, <1>2

\* The row passes to a manicurist, or is closed.
LEMMA RowStep ==
  ASSUME RoutesIInv, G!CloseQuote \/ \E t \in Technicians : G!PassTo(t)
  PROVE  RoutesIInv'
  <1>1. /\ G!Overtake(G!OnRow) /\ UNCHANGED <<off, must>>
        /\ row' \in G!Row /\ row'.kind = row.kind /\ row'.client = row.client
    BY DEF G!CloseQuote, G!PassTo, RoutesIInv, G!TypeOK, G!Row
  <1>2. ASSUME NEW r \in RouteRequests, routeReq'[r].stage # "idle"
        PROVE  LetIn(routeReq'[r]) /\ (~routeReq'[r].overtaken => Current(routeReq[r])')
    <2>1. /\ routeReq[r].stage # "idle" /\ LetIn(routeReq'[r])
          /\ routeReq'[r].name = routeReq[r].name /\ routeReq'[r].user = routeReq[r].user
          /\ ~routeReq'[r].overtaken => ~routeReq[r].overtaken
      BY <1>1, <1>2, Overtaken
    <2>2. ~routeReq[r].overtaken => Current(routeReq[r])
      BY <2>1 DEF RoutesIInv
    <2> QED
      BY <1>1, <2>1, <2>2 DEF Current
  <1>3. ASSUME NEW r \in RouteRequests, routeReq'[r].stage = "serving"
        PROVE  Checked(routeReq[r])'
    <2>1. routeReq[r].stage = "serving" /\ Checked(routeReq[r])
      BY <1>1, <1>3, Overtaken DEF RoutesIInv
    <2>2. G!About(routeReq[r].name) # "none" => routeReq'[r].overtaken
      <3>1. routeReq'[r].overtaken = (routeReq[r].overtaken \/ r \in G!OnRow)
        BY <1>1, <2>1, Overtaken
      <3> QED
        BY <2>1, <3>1 DEF Checked, G!OnRow
    <2>3. routeReq'[r].name = routeReq[r].name /\ routeReq'[r].user = routeReq[r].user
      BY <1>1, Overtaken
    <2> QED
      BY <1>1, <2>1, <2>2, <2>3 DEF Checked
  <1>4. G!TypeOK'
    BY <1>1, Overtaken DEF RoutesIInv, G!TypeOK, RouteRequest
  <1> QED
    BY <1>1, <1>2, <1>3, <1>4, Overtaken DEF RoutesIInv

LEMMA RoutesNextStep == RoutesIInv /\ [G!Next]_routeVars => RoutesIInv'
  <1> SUFFICES ASSUME RoutesIInv, [G!Next]_routeVars PROVE RoutesIInv'
    OBVIOUS
  <1>1. ASSUME NEW r \in RouteRequests, NEW u \in G!AllUsers \union {None}, G!Guards(r, u)
        PROVE  RoutesIInv'
    BY <1>1, GuardsStep
  <1>2. ASSUME NEW r \in RouteRequests, G!Handle(r) \/ G!Answer(r) PROVE RoutesIInv'
    BY <1>2, HandleStep, AnswerStep
  <1>3. ASSUME NEW u \in G!AllUsers,
               G!Pause(u) \/ G!Activate(u) \/ G!RequirePassword(u) \/ G!ChangePassword(u)
        PROVE  RoutesIInv'
    BY <1>3, UserStep
  <1>4. CASE G!CloseQuote \/ \E t \in Technicians : G!PassTo(t)
    BY <1>4, RowStep
  <1>5. CASE UNCHANGED routeVars
    BY <1>5 DEF routeVars, RoutesIInv, G!TypeOK, Current, Checked, HersOrFree
  <1> QED
    BY <1>1, <1>2, <1>3, <1>4, <1>5 DEF G!Next

LEMMA RoutesSafe == RoutesIInv => G!TypeOK /\ G!ServedRightly
  <1> SUFFICES ASSUME RoutesIInv, NEW r \in RouteRequests, routeReq[r].stage = "serving"
               PROVE  LET u == routeReq[r].user
                          name == routeReq[r].name
                      IN  /\ name \in G!AdministratorsAlone => u \in Administrators
                          /\ u \in RouteClients /\ G!About(name) # "none" => row.client = u
                          /\ name = "receipt" => u \in Administrators \union {row.client}
                          /\ \/ routeReq[r].overtaken
                             \/ /\ u \notin off /\ (u \in must => name \in G!PasswordRoutes)
                                /\ u \in Technicians /\ G!About(name) # "none" =>
                                     HersOrFree(u, G!About(name))
    BY DEF RoutesIInv, G!ServedRightly, G!Serving, HersOrFree
  <1>1. routeReq[r] \in RouteRequest /\ LetIn(routeReq[r]) /\ Checked(routeReq[r])
        /\ (~routeReq[r].overtaken => Current(routeReq[r]))
    BY DEF RoutesIInv
  <1> QED
    BY <1>1, LetInMeans DEF Checked, Current

-----------------------------------------------------------------------------
(* Accounts.  AccountsProofs shows what it keeps; the module instantiated  *)
(* there and the one instantiated in MCFront are the same, definition by   *)
(* definition.                                                             *)

AP == INSTANCE AccountsProofs WITH proc <- accountProc

LEMMA SameAccountsInit == A!Init => AP!Init
  BY DEF A!NoRow, A!NoCode, A!Idle, A!Init, AP!NoRow, AP!NoCode, AP!Idle, AP!Init

LEMMA SameAccountsNext == A!Next => AP!Next
  BY DEF A!Statuses, A!Purposes, A!NoRow, A!NoCode, A!Gone, A!Idle, A!Exists, A!PhoneFree,
       A!OfPhone, A!Unfinished, A!IsExpired, A!Lapsed, A!Delete, A!DeleteNone, A!Closed,
       A!Become, A!Done, A!Go, A!Records, A!Surroundings, A!StartIssue, A!Proceeding,
       A!IssueCooldown, A!IssueCreate, A!IssueSent, A!IssueFails, A!Register, A!RegisterInsert,
       A!Discards, A!Discard, A!Resend, A!LoginPending, A!ForgotPassword, A!Usable, A!Reading,
       A!Answer, A!Matches, A!ConsumeAgain, A!ConsumeWrong, A!ConsumeRight, A!InTime,
       A!VerifyMatches, A!Activated, A!VerifyWrite, A!Resettable, A!ResetMatches, A!ResetWrite,
       A!SignIn, A!ProfileRead, A!WithPhone, A!ProfileSave, A!AdminCreate, A!AdminRead,
       A!AdminUpdate, A!AdminStatus, A!SendPasswordReset, A!PurgeExpired, A!Lapse, A!Expire,
       A!CoolDown, A!Abandon, A!Handles, A!Next, AP!Statuses, AP!Purposes, AP!NoRow, AP!NoCode,
       AP!Gone, AP!Idle, AP!Exists, AP!PhoneFree, AP!OfPhone, AP!Unfinished, AP!IsExpired,
       AP!Lapsed, AP!Delete, AP!DeleteNone, AP!Closed, AP!Become, AP!Done, AP!Go, AP!Records,
       AP!Surroundings, AP!StartIssue, AP!Proceeding, AP!IssueCooldown, AP!IssueCreate,
       AP!IssueSent, AP!IssueFails, AP!Register, AP!RegisterInsert, AP!Discards, AP!Discard,
       AP!Resend, AP!LoginPending, AP!ForgotPassword, AP!Usable, AP!Reading, AP!Answer,
       AP!Matches, AP!ConsumeAgain, AP!ConsumeWrong, AP!ConsumeRight, AP!InTime,
       AP!VerifyMatches, AP!Activated, AP!VerifyWrite, AP!Resettable, AP!ResetMatches,
       AP!ResetWrite, AP!SignIn, AP!ProfileRead, AP!WithPhone, AP!ProfileSave, AP!AdminCreate,
       AP!AdminRead, AP!AdminUpdate, AP!AdminStatus, AP!SendPasswordReset, AP!PurgeExpired,
       AP!Lapse, AP!Expire, AP!CoolDown, AP!Abandon, AP!Handles, AP!Next

LEMMA SameAccountsType == AP!TypeOK => A!TypeOK
  BY DEF A!Statuses, A!Purposes, A!Row, A!Code, A!Issuing, A!Stages, A!Proc, A!TypeOK,
       AP!Statuses, AP!Purposes, AP!Row, AP!Code, AP!Issuing, AP!Stages, AP!Proc, AP!TypeOK

LEMMA AccountsLimits == AP!Parameters
  BY AccountsParameters DEF AP!Parameters, A!Statuses, AP!Statuses

LEMMA AccountsInit == A!Init => AP!IInv
  BY SameAccountsInit, AccountsLimits, AP!InitIInv

LEMMA AccountsSteps == [A!Next]_accountsVars => [AP!Next]_AP!vars
  BY SameAccountsNext DEF accountsVars, AP!vars

LEMMA AccountsNextStep == AP!IInv /\ [A!Next]_accountsVars => AP!IInv'
  BY AccountsSteps, AccountsLimits, AP!NextIInv

LEMMA AccountsSafe == AP!IInv => A!TypeOK
  BY SameAccountsType DEF AP!IInv

\* What a step of Accounts does.
LEMMA AccountsActions ==
  ASSUME AP!IInv, [A!Next]_accountsVars
  PROVE  A!AnswersOnce /\ A!ActivatesProven /\ A!PauseStays
  <1>1. AP!AnswersOnce /\ AP!ActivatesProven /\ AP!PauseStays
    BY AccountsSteps, AccountsLimits, AP!AcceptedOnce, AP!ActivatedProven, AP!PausedStays
  <1> QED
    BY <1>1 DEF A!Accepts, A!AnswersOnce, A!Confirms, A!ActivatesProven, A!Overwriting, A!PauseStays,
       AP!Accepts, AP!AnswersOnce, AP!Confirms, AP!ActivatesProven, AP!Overwriting,
       AP!PauseStays

-----------------------------------------------------------------------------
(* Screens.  While no calls crossed and none was lost, a write is alone in *)
(* flight and the load asked for last is the one the page waits for.       *)

PageRecord == [of : S!Keys, changes : SUBSET Changes]

CallRecord ==
    [stage : {"idle", "asked", "served"}, does : panel.handlers \union {None}, of : S!Keys,
     change : Changes \union {None}, got : SUBSET Changes]

ScreensTyped ==
    /\ panel \in S!Panels /\ key \in S!Keys
    /\ shown \in PageRecord \union {None}
    /\ first \subseteq Changes
    /\ rows \in [S!Keys -> SUBSET Changes] /\ own \in [S!Keys -> SUBSET Changes]
    /\ call \in [Calls -> CallRecord]
    /\ last \in Calls \union {None}
    /\ crossed \in BOOLEAN /\ failed \in BOOLEAN /\ astray \in BOOLEAN

\* A write was begun by a handler that writes, on a page that is still there.
WriteBegun(x) ==
    x.stage # "idle" /\ x.change # None =>
        x.does \in panel.handlers /\ x.does.then # "load" /\ shown # None

\* What was read, or written, is in the database.
ServedTrue(x) ==
    x.stage = "served" => x.got \subseteq rows[x.of] /\ (x.change # None => x.change \in x.got)

\* The cache holds rows of the first key.
CacheTrue ==
    panel.cached =>
        /\ first \subseteq rows["first"]
        /\ shown = None => key = "first" /\ \A c \in Calls : call[c].of = "first"

Answered ==
    /\ \A k \in S!Keys : own[k] \subseteq rows[k]
    /\ \A c \in Calls : WriteBegun(call[c]) /\ ServedTrue(call[c])
    /\ CacheTrue

OwnShown == own[key] \subseteq shown.changes \/ (panel.cached /\ key = "first")

\* The page is right, if there is one.
PageRight ==
    shown # None => shown.of = key /\ OwnShown /\ shown.changes \subseteq rows[key]

\* A write in flight: a page that was edited is ahead of the database.
Writing(x) ==
    /\ x.of = key /\ shown # None /\ shown.of = key /\ OwnShown
    /\ IF x.does.then = "edited"
       THEN x.change \in shown.changes /\ shown.changes \subseteq rows[key] \union {x.change}
       ELSE shown.changes \subseteq rows[key]
    /\ x.stage = "served" => own[key] \subseteq x.got

\* The load the page waits for.
Loading(x) == x.of = key /\ (x.stage = "served" => own[key] \subseteq x.got)

Undisturbed == ~crossed /\ ~failed

InFlight(c) == call[c].stage # "idle"

Orderly ==
    /\ ~astray
    /\ \A b, c \in Calls : InFlight(b) /\ InFlight(c) /\ b # c =>
          panel.latest /\ shown # None /\ call[b].change = None /\ call[c].change = None
    /\ \A c \in Calls : InFlight(c) =>
          IF call[c].change # None THEN Writing(call[c])
          ELSE IF c = last THEN Loading(call[c]) ELSE panel.latest /\ shown # None
    /\ (\A c \in Calls : InFlight(c) => call[c].change = None /\ c # last) => PageRight

ScreensIInv == ScreensTyped /\ Answered /\ (Undisturbed => Orderly)

Thens == {"load", "reload", "answer", "patch", "edited", "leave"}

\* The panel that caches is never left.
WellMade(p) ==
    /\ p.cached \in BOOLEAN
    /\ \A h \in p.handlers : h.then \in Thens /\ (p.cached => h.then # "leave")

LEMMA PanelWellMade ==
  ASSUME NEW name, NEW chooses, NEW latest, NEW handlers,
         \A h \in handlers : h.then \in Thens
  PROVE  WellMade(S!Panel(name, chooses, latest, handlers))
  BY DEF WellMade, S!Panel

LEMMA CachingWellMade ==
  ASSUME NEW name, NEW chooses, NEW latest, NEW handlers,
         \A h \in handlers : h.then \in Thens /\ h.then # "leave"
  PROVE  WellMade([S!Panel(name, chooses, latest, handlers) EXCEPT !.cached = TRUE])
  BY DEF WellMade, S!Panel

LEMMA HandlerMade ==
  ASSUME NEW name, NEW locks, NEW then \in Thens
  PROVE  S!Does(name, then, locks).then \in Thens
  BY DEF S!Does

LEMMA HandlerStays ==
  ASSUME NEW name, NEW locks, NEW then \in Thens \ {"leave"}
  PROVE  S!Does(name, then, locks).then \in Thens /\ S!Does(name, then, locks).then # "leave"
  BY DEF S!Does

LEMMA ThensListed ==
  /\ "load" \in Thens /\ "reload" \in Thens /\ "answer" \in Thens /\ "patch" \in Thens
  /\ "edited" \in Thens /\ "leave" \in Thens
  BY DEF Thens

LEMMA EverybodysPanels ==
  /\ WellMade(S!SessionIndicator)
  /\ WellMade(S!AccessGate)
  /\ WellMade(S!StudioBrand)
  /\ WellMade(S!LoginForm)
  /\ WellMade(S!RegisterForm)
  /\ WellMade(S!RecoveryForm)
  /\ WellMade(S!VerifyPhoneForm)
  /\ WellMade(S!AccountPanel)
  /\ WellMade(S!ProfileDataPanel)
  /\ WellMade(S!NotificationsPanel)
  <1> USE PanelWellMade, HandlerMade, ThensListed
  <1>1. WellMade(S!SessionIndicator)
    BY Zenon DEF S!SessionIndicator
  <1>2. WellMade(S!AccessGate)
    BY Zenon DEF S!AccessGate
  <1>3. WellMade(S!StudioBrand)
    BY Zenon DEF S!StudioBrand
  <1>4. WellMade(S!LoginForm)
    BY Zenon DEF S!LoginForm
  <1>5. WellMade(S!RegisterForm)
    BY Zenon DEF S!RegisterForm
  <1>6. WellMade(S!RecoveryForm)
    BY Zenon DEF S!RecoveryForm
  <1>7. WellMade(S!VerifyPhoneForm)
    BY Zenon DEF S!VerifyPhoneForm
  <1>8. WellMade(S!AccountPanel)
    BY Zenon DEF S!AccountPanel
  <1>9. WellMade(S!ProfileDataPanel)
    BY Zenon DEF S!ProfileDataPanel
  <1>10. WellMade(S!NotificationsPanel)
    BY Zenon DEF S!NotificationsPanel
  <1> QED
    BY <1>1, <1>2, <1>3, <1>4, <1>5, <1>6, <1>7, <1>8, <1>9, <1>10

LEMMA ClientsPanels ==
  /\ WellMade(S!CatalogPanel)
  /\ WellMade(S!BookingPanel)
  /\ WellMade(S!PaymentPanel)
  /\ WellMade(S!MyLoyaltyPanel)
  /\ WellMade(S!QuotesPanel)
  /\ WellMade(S!AppointmentsPanel)
  /\ WellMade(S!StaffLoyaltyPanel)
  /\ WellMade(S!IntegrationsPanel)
  <1> USE PanelWellMade, HandlerMade, ThensListed
  <1>1. WellMade(S!CatalogPanel)
    BY Zenon DEF S!CatalogPanel
  <1>2. WellMade(S!BookingPanel)
    BY Zenon DEF S!BookingPanel
  <1>3. WellMade(S!PaymentPanel)
    BY Zenon DEF S!PaymentPanel
  <1>4. WellMade(S!MyLoyaltyPanel)
    BY Zenon DEF S!MyLoyaltyPanel
  <1>5. WellMade(S!QuotesPanel)
    BY Zenon DEF S!QuotesPanel
  <1>6. WellMade(S!AppointmentsPanel)
    BY Zenon DEF S!AppointmentsPanel
  <1>7. WellMade(S!StaffLoyaltyPanel)
    BY Zenon DEF S!StaffLoyaltyPanel
  <1>8. WellMade(S!IntegrationsPanel)
    BY Zenon DEF S!IntegrationsPanel
  <1> QED
    BY <1>1, <1>2, <1>3, <1>4, <1>5, <1>6, <1>7, <1>8

LEMMA AdministratorsPanels ==
  /\ WellMade(S!AdminUsersPanel)
  /\ WellMade(S!AdminCatalogPanel)
  /\ WellMade(S!AdminCalculatorPanel)
  /\ WellMade(S!AdminLoyaltyPanel)
  /\ WellMade(S!AdminPaymentsPanel)
  /\ WellMade(S!AdminNotificationsPanel)
  /\ WellMade(S!StudioSettingsPanel)
  /\ WellMade(S!AdminDashboardPanel)
  /\ WellMade(S!AdminAuditPanel)
  /\ WellMade(S!AdminReportsPanel)
  <1> USE PanelWellMade, HandlerMade, ThensListed
  <1>1. WellMade(S!AdminUsersPanel)
    BY Zenon DEF S!AdminUsersPanel
  <1>2. WellMade(S!AdminCatalogPanel)
    BY Zenon DEF S!AdminCatalogPanel
  <1>3. WellMade(S!AdminCalculatorPanel)
    BY Zenon DEF S!AdminCalculatorPanel
  <1>4. WellMade(S!AdminLoyaltyPanel)
    BY Zenon DEF S!AdminLoyaltyPanel
  <1>5. WellMade(S!AdminPaymentsPanel)
    BY Zenon DEF S!AdminPaymentsPanel
  <1>6. WellMade(S!AdminNotificationsPanel)
    BY Zenon DEF S!AdminNotificationsPanel
  <1>7. WellMade(S!StudioSettingsPanel)
    BY Zenon DEF S!StudioSettingsPanel
  <1>8. WellMade(S!AdminDashboardPanel)
    BY Zenon DEF S!AdminDashboardPanel
  <1>9. WellMade(S!AdminAuditPanel)
    BY Zenon DEF S!AdminAuditPanel
  <1>10. WellMade(S!AdminReportsPanel)
    BY Zenon DEF S!AdminReportsPanel
  <1> QED
    BY <1>1, <1>2, <1>3, <1>4, <1>5, <1>6, <1>7, <1>8, <1>9, <1>10

LEMMA ScheduleWellMade == WellMade(S!SchedulePanel)
  <1> DEFINE handlers ==
         {S!Does("saveWeekly", "edited", FALSE), S!Does("inheritGlobal", "answer", FALSE),
          S!Does("saveOverride, removeOverride or toggleBookings", "patch", FALSE)}
  <1>1. "edited" \in Thens \ {"leave"} /\ "answer" \in Thens \ {"leave"}
        /\ "patch" \in Thens \ {"leave"}
    BY DEF Thens
  <1>2. \A h \in handlers : h.then \in Thens /\ h.then # "leave"
    BY Zenon, <1>1, HandlerStays
  <1> QED
    BY Zenon, <1>2, CachingWellMade DEF S!SchedulePanel

LEMMA PanelsWellMade == \A p \in S!Panels : WellMade(p)
  BY EverybodysPanels, ClientsPanels, AdministratorsPanels, ScheduleWellMade DEF S!Panels

LEMMA ScreensInit == S!Init => ScreensIInv
  <1> SUFFICES ASSUME S!Init PROVE ScreensIInv
    OBVIOUS
  <1> USE DEF S!Init
  <1>1. S!Idle \in CallRecord /\ S!Idle.stage = "idle" /\ S!Idle.of = "first"
    BY DEF S!Idle, CallRecord, S!Keys
  <1>2. call \in [Calls -> CallRecord]
        /\ \A c \in Calls : call[c].stage = "idle" /\ call[c].of = "first"
    BY <1>1
  <1>3. ScreensTyped
    BY <1>2 DEF ScreensTyped, S!Keys
  <1>4. Answered
    BY <1>2 DEF Answered, WriteBegun, ServedTrue, CacheTrue, S!Keys
  <1>5. Orderly
    BY <1>2 DEF Orderly, InFlight, PageRight
  <1> QED
    BY <1>3, <1>4, <1>5 DEF ScreensIInv

-----------------------------------------------------------------------------

LEMMA IdleCall ==
  /\ S!Idle \in CallRecord /\ S!Idle.stage = "idle" /\ S!Idle.of = "first" /\ S!Idle.change = None
  BY DEF S!Idle, CallRecord, S!Keys

LEMMA ChangesAreNotNone ==
  /\ \A x \in Changes : x # None
  /\ \A page \in PageRecord : page # None
  BY FrontAssumption DEF PageRecord

\* The call c, and no other, becomes x.
LEMMA OneCall ==
  ASSUME ScreensTyped, NEW c \in Calls, NEW x \in CallRecord, call' = [call EXCEPT ![c] = x],
         UNCHANGED panel
  PROVE  /\ call' \in [Calls -> CallRecord'] /\ call'[c] = x
         /\ \A b \in Calls \ {c} : call'[b] = call[b]
  BY DEF ScreensTyped, CallRecord

\* The answers stay true while rows grow and the cache is as it was.
LEMMA StaysAnswered ==
  ASSUME ScreensTyped, Answered, NEW c \in Calls, NEW x \in CallRecord,
         call' = [call EXCEPT ![c] = x], UNCHANGED <<panel, first>>,
         \A k \in S!Keys : rows[k] \subseteq rows'[k] /\ own'[k] \subseteq rows'[k],
         WriteBegun(x), x.stage = "served" => x.got \subseteq rows'[x.of],
         x.stage = "served" /\ x.change # None => x.change \in x.got,
         shown' = None => shown = None,
         panel.cached /\ shown' = None => key' = key /\ x.of = "first"
  PROVE  Answered'
  <1>1. call'[c] = x /\ \A b \in Calls \ {c} : call'[b] = call[b]
    BY OneCall
  <1>2. \A b \in Calls : WriteBegun(call[b])'
    BY <1>1 DEF Answered, WriteBegun
  <1>3. \A b \in Calls : ServedTrue(call[b])'
    <2> SUFFICES ASSUME NEW b \in Calls PROVE ServedTrue(call[b])'
      OBVIOUS
    <2>1. CASE b = c
      BY <1>1, <2>1 DEF ServedTrue
    <2>2. CASE b # c
      <3>1. call'[b] = call[b] /\ call[b].of \in S!Keys /\ ServedTrue(call[b])
        BY <1>1, <2>2 DEF Answered, ScreensTyped, CallRecord
      <3> QED
        BY <3>1 DEF ServedTrue
    <2> QED
      BY <2>1, <2>2
  <1>4. CacheTrue'
    BY <1>1 DEF Answered, CacheTrue, S!Keys
  <1> QED
    BY <1>2, <1>3, <1>4 DEF Answered

LEMMA Begun ==
  ASSUME ScreensTyped, NEW c \in Calls, NEW does \in panel.handlers \union {None},
         NEW k \in S!Keys, NEW change \in Changes \union {None}, S!Begin(c, does, k, change)
  PROVE  /\ \E x \in CallRecord :
              /\ x.stage = "asked" /\ x.does = does /\ x.of = k /\ x.change = change
              /\ call' = [call EXCEPT ![c] = x]
         /\ ~InFlight(c) /\ last' = IF change = None THEN c ELSE last
         /\ crossed' \in BOOLEAN
         /\ ~crossed' => /\ ~crossed
                         /\ \/ \A b \in Calls : ~InFlight(b)
                            \/ /\ panel.latest /\ change = None
                               /\ \A b \in Calls : InFlight(b) => call[b].change = None
  <1> DEFINE x == [S!Idle EXCEPT !.stage = "asked", !.does = does, !.of = k, !.change = change]
  <1>1. x \in CallRecord /\ x.stage = "asked" /\ x.does = does /\ x.of = k /\ x.change = change
    BY IdleCall DEF CallRecord
  <1>2. call' = [call EXCEPT ![c] = x]
    BY DEF S!Begin
  <1>3. crossed' \in BOOLEAN
        /\ (~crossed' => ~crossed /\ (\/ S!Busy = {}
                                      \/ panel.latest /\ change = None /\ \A b \in S!Busy : S!IsLoad(b)))
    BY DEF S!Begin
  <1> QED
    BY <1>1, <1>2, <1>3 DEF S!Begin, InFlight, S!Busy, S!IsLoad

\* A load: the first of the page, one of the user's choice, or a handler's.
LEMMA LoadBegins ==
  ASSUME ScreensIInv, NEW c \in Calls, NEW does \in panel.handlers \union {None},
         NEW k \in S!Keys, S!Begin(c, does, k, None), key' = k,
         UNCHANGED <<panel, shown, first, rows, own, failed, astray>>,
         shown # None \/ \A b \in Calls : ~InFlight(b),
         shown = None => key = k
  PROVE  ScreensIInv'
  <1> PICK x \in CallRecord :
         /\ x.stage = "asked" /\ x.does = does /\ x.of = k /\ x.change = None
         /\ call' = [call EXCEPT ![c] = x]
    BY Begun DEF ScreensIInv
  <1>1. ~InFlight(c) /\ last' = c /\ crossed' \in BOOLEAN
        /\ (~crossed' => /\ ~crossed
                         /\ \/ \A b \in Calls : ~InFlight(b)
                            \/ panel.latest /\ \A b \in Calls : InFlight(b) => call[b].change = None)
    BY Begun DEF ScreensIInv
  <1>2. call' \in [Calls -> CallRecord'] /\ call'[c] = x
        /\ \A b \in Calls \ {c} : call'[b] = call[b]
    BY OneCall DEF ScreensIInv
  <1>3. ScreensTyped'
    BY <1>1, <1>2 DEF ScreensIInv, ScreensTyped
  <1>4. Answered'
    <2>1. panel.cached /\ shown = None => x.of = "first"
      BY DEF ScreensIInv, Answered, CacheTrue
    <2> QED
      BY <2>1, StaysAnswered DEF ScreensIInv, Answered, WriteBegun
  <1>5. ASSUME Undisturbed' PROVE Orderly'
    <2>1. Undisturbed /\ Orderly
      BY <1>1, <1>5 DEF ScreensIInv, Undisturbed
    <2>2. \A b \in Calls : InFlight(b)' <=> b = c \/ InFlight(b)
      BY <1>2 DEF InFlight
    <2>3. \A b \in Calls : InFlight(b) => panel.latest /\ shown # None /\ call[b].change = None /\ b # c
      BY <1>1, <1>5 DEF Undisturbed
    <2>4. Loading(call[c])'
      BY <1>2 DEF Loading
    <2> QED
      BY <1>1, <1>2, <2>1, <2>2, <2>3, <2>4 DEF Orderly
  <1> QED
    BY <1>3, <1>4, <1>5 DEF ScreensIInv

LEMMA MountStep == ASSUME ScreensIInv, NEW c \in Calls, S!Mount(c) PROVE ScreensIInv'
  <1>1. \A b \in Calls : ~InFlight(b)
    BY DEF S!Mount, S!Busy, InFlight
  <1>2. key \in S!Keys
    BY DEF ScreensIInv, ScreensTyped
  <1> QED
    BY <1>1, <1>2, LoadBegins DEF S!Mount

LEMMA ChooseStep ==
  ASSUME ScreensIInv, NEW c \in Calls, NEW k \in S!Keys, S!Choose(c, k) PROVE ScreensIInv'
  <1>1. CASE panel.cached /\ k = "first"
    <2> DEFINE page == [of |-> "first", changes |-> first]
    <2>1. /\ key' = "first" /\ shown' = page
          /\ crossed' = (crossed \/ S!Busy # {})
          /\ UNCHANGED <<call, last, panel, first, rows, own, failed, astray>>
          /\ shown # None
      BY <1>1 DEF S!Choose, S!Page
    <2>2. page \in PageRecord /\ page # None /\ first \subseteq rows["first"] /\ "first" \in S!Keys
      BY <1>1, ChangesAreNotNone DEF ScreensIInv, ScreensTyped, Answered, CacheTrue, PageRecord, S!Keys
    <2>3. ScreensTyped'
      BY <2>1, <2>2 DEF ScreensIInv, ScreensTyped, CallRecord
    <2>4. Answered'
      BY <2>1, <2>2 DEF ScreensIInv, Answered, WriteBegun, ServedTrue, CacheTrue
    <2>5. ASSUME Undisturbed' PROVE Orderly'
      <3>1. Undisturbed /\ Orderly /\ \A b \in Calls : ~InFlight(b)
        BY <2>1, <2>5 DEF ScreensIInv, Undisturbed, S!Busy, InFlight
      <3>2. \A b \in Calls : ~InFlight(b)'
        BY <2>1, <3>1 DEF InFlight
      <3>3. PageRight'
        BY <1>1, <2>1, <2>2 DEF PageRight, OwnShown
      <3> QED
        BY <2>1, <3>1, <3>2, <3>3 DEF Orderly
    <2> QED
      BY <2>3, <2>4, <2>5 DEF ScreensIInv
  <1>2. CASE ~(panel.cached /\ k = "first")
    BY <1>2, LoadBegins DEF S!Choose
  <1> QED
    BY <1>1, <1>2

\* A handler that writes; one that was edited shows its change at once.
LEMMA HandlerWrites ==
  ASSUME ScreensIInv, NEW c \in Calls, NEW h \in panel.handlers, NEW x \in Changes,
         S!Handle(c, h, x)
  PROVE  ScreensIInv'
  <1>1. x # None /\ h.then # "load" /\ shown # None
    BY ChangesAreNotNone DEF S!Handle
  <1>2. /\ S!Begin(c, h, key, x)
        /\ shown' = IF h.then = "edited" THEN [shown EXCEPT !.changes = @ \union {x}] ELSE shown
        /\ astray' = (astray \/ (h.then = "edited" /\ shown.of # key))
        /\ UNCHANGED <<panel, key, first, rows, own, failed>>
    BY DEF S!Handle
  <1>3. key \in S!Keys /\ shown \in PageRecord
    BY <1>1 DEF ScreensIInv, ScreensTyped
  <1> PICK y \in CallRecord :
         /\ y.stage = "asked" /\ y.does = h /\ y.of = key /\ y.change = x
         /\ call' = [call EXCEPT ![c] = y]
    BY <1>2, <1>3, Begun DEF ScreensIInv
  <1>4. ~InFlight(c) /\ last' = last /\ crossed' \in BOOLEAN
        /\ (~crossed' => ~crossed /\ \A b \in Calls : ~InFlight(b))
    BY <1>1, <1>2, <1>3, Begun DEF ScreensIInv
  <1>5. call' \in [Calls -> CallRecord'] /\ call'[c] = y
        /\ \A b \in Calls \ {c} : call'[b] = call[b]
    BY <1>2, OneCall DEF ScreensIInv
  <1>6. shown' \in PageRecord /\ shown' # None /\ shown'.of = shown.of
        /\ shown'.changes = IF h.then = "edited" THEN shown.changes \union {x} ELSE shown.changes
    BY <1>2, <1>3, ChangesAreNotNone DEF PageRecord
  <1>7. ScreensTyped'
    BY <1>2, <1>4, <1>5, <1>6 DEF ScreensIInv, ScreensTyped
  <1>8. Answered'
    BY <1>1, <1>2, <1>6, StaysAnswered DEF ScreensIInv, Answered, WriteBegun
  <1>9. ASSUME Undisturbed' PROVE Orderly'
    <2>1. Undisturbed /\ Orderly /\ \A b \in Calls : ~InFlight(b)
      BY <1>2, <1>4, <1>9 DEF ScreensIInv, Undisturbed
    <2>2. \A b \in Calls : InFlight(b)' <=> b = c
      BY <1>5, <2>1 DEF InFlight
    <2>3. shown.of = key /\ OwnShown /\ shown.changes \subseteq rows[key]
      BY <1>1, <2>1 DEF Orderly, PageRight
    <2>4. OwnShown'
      BY <1>2, <1>6, <2>3 DEF OwnShown
    <2>5. Writing(call[c])'
      BY <1>2, <1>5, <1>6, <2>3, <2>4 DEF Writing
    <2>6. ~astray'
      BY <1>2, <2>1, <2>3 DEF Orderly
    <2> QED
      BY <1>1, <1>5, <2>2, <2>5, <2>6 DEF Orderly
  <1> QED
    BY <1>7, <1>8, <1>9 DEF ScreensIInv

LEMMA ScreenHandleStep ==
  ASSUME ScreensIInv, NEW c \in Calls, NEW h \in panel.handlers,
         NEW x \in Changes \union {None}, S!Handle(c, h, x)
  PROVE  ScreensIInv'
  <1>1. CASE x = None
    <2>1. /\ S!Begin(c, h, key, None) /\ shown # None /\ shown' = shown
          /\ UNCHANGED <<panel, key, first, rows, own, failed>>
          /\ astray' = (astray \/ FALSE)
      BY <1>1 DEF S!Handle
    <2>2. astray' = astray /\ key \in S!Keys
      BY <2>1 DEF ScreensIInv, ScreensTyped
    <2> QED
      BY <2>1, <2>2, LoadBegins
  <1> QED
    BY <1>1, HandlerWrites

-----------------------------------------------------------------------------

LEMMA ServeStep == ASSUME ScreensIInv, NEW c \in Calls, S!Serve(c) PROVE ScreensIInv'
  <1> DEFINE k == call[c].of
             now0 == rows[k] \union (IF S!IsLoad(c) THEN {} ELSE {call[c].change})
             x == [call[c] EXCEPT !.stage = "served", !.got = now0]
  <1>1. /\ call[c].stage = "asked" /\ rows' = [rows EXCEPT ![k] = now0]
        /\ UNCHANGED <<panel, key, shown, first, last, own, crossed, failed, astray>>
        /\ call' = [call EXCEPT ![c].stage = "served", ![c].got = now0]
    BY DEF S!Serve
  <1>2. call[c] \in CallRecord /\ k \in S!Keys /\ call \in [Calls -> CallRecord]
        /\ rows \in [S!Keys -> SUBSET Changes]
    BY DEF ScreensIInv, ScreensTyped, CallRecord
  <1>3. call' = [call EXCEPT ![c] = x]
    BY <1>1, <1>2
  <1>4. now0 \subseteq Changes
    BY <1>2 DEF S!IsLoad, CallRecord
  <1>5. x \in CallRecord /\ x.stage = "served" /\ x.got = now0 /\ x.of = k
        /\ x.change = call[c].change /\ x.does = call[c].does
    BY <1>2, <1>4 DEF CallRecord
  <1>6. rows' \in [S!Keys -> SUBSET Changes] /\ rows'[k] = now0
        /\ \A j \in S!Keys : rows[j] \subseteq rows'[j]
    BY <1>1, <1>2, <1>4
  <1>7. x.change # None => x.change \in now0
    BY <1>5 DEF S!IsLoad
  <1> HIDE DEF x, now0, k
  <1>8. call' \in [Calls -> CallRecord'] /\ call'[c] = x
        /\ \A b \in Calls \ {c} : call'[b] = call[b]
    BY <1>1, <1>3, <1>5, OneCall DEF ScreensIInv
  <1>9. ScreensTyped'
    BY <1>1, <1>6, <1>8 DEF ScreensIInv, ScreensTyped
  <1>10. WriteBegun(x) /\ (panel.cached /\ shown = None => x.of = "first")
    BY <1>1, <1>5 DEF ScreensIInv, Answered, WriteBegun, CacheTrue, k
  <1>11. \A j \in S!Keys : own[j] \subseteq rows[j]
    BY DEF ScreensIInv, Answered
  <1>12. Answered'
    BY <1>1, <1>3, <1>5, <1>6, <1>7, <1>10, <1>11, StaysAnswered DEF ScreensIInv
  <1>13. ASSUME Undisturbed' PROVE Orderly'
    <2>1. Undisturbed /\ Orderly /\ key \in S!Keys
      BY <1>1, <1>13 DEF ScreensIInv, Undisturbed, ScreensTyped
    <2>2. \A b \in Calls : /\ InFlight(b)' <=> InFlight(b)
                           /\ call'[b].change = call[b].change
      BY <1>1, <1>5, <1>8 DEF InFlight
    <2>3. own[k] \subseteq now0
      BY <1>2, <1>6, <1>11
    <2>4. InFlight(c)
      BY <1>1 DEF InFlight
    <2>5. ASSUME NEW b \in Calls, InFlight(b), call[b].change # None PROVE Writing(call[b])'
      <3>1. Writing(call[b]) /\ b = c
        BY <2>1, <2>4, <2>5 DEF Orderly
      <3>2. k = key
        BY <3>1 DEF Writing, k
      <3>3. call[c].does = x.does
        BY <1>5
      <3> QED
        BY <1>1, <1>5, <1>6, <1>8, <2>1, <2>3, <3>1, <3>2 DEF Writing, OwnShown
    <2>6. ASSUME Loading(call[last]), last \in Calls, InFlight(last) PROVE Loading(call[last])'
      BY <1>1, <1>5, <1>8, <2>3, <2>6 DEF Loading, k
    <2>7. PageRight => PageRight'
      BY <1>1, <1>6, <2>1 DEF PageRight, OwnShown
    <2> QED
      BY <1>1, <2>1, <2>2, <2>5, <2>6, <2>7 DEF Orderly
  <1> QED
    BY <1>9, <1>12, <1>13 DEF ScreensIInv

-----------------------------------------------------------------------------

LEMMA FailStep == ASSUME ScreensIInv, NEW c \in Calls, S!Fail(c) PROVE ScreensIInv'
  <1>1. /\ call[c].stage # "idle" /\ call' = [call EXCEPT ![c] = S!Idle]
        /\ failed' = (failed \/ shown # None)
        /\ UNCHANGED <<panel, key, shown, first, rows, last, own, crossed, astray>>
    BY DEF S!Fail
  <1>2. call' \in [Calls -> CallRecord'] /\ call'[c] = S!Idle
        /\ \A b \in Calls \ {c} : call'[b] = call[b]
    BY <1>1, IdleCall, OneCall DEF ScreensIInv
  <1>3. ScreensTyped'
    BY <1>1, <1>2 DEF ScreensIInv, ScreensTyped
  <1>4. Answered'
    BY <1>1, IdleCall, StaysAnswered DEF ScreensIInv, Answered, WriteBegun
  <1>5. ASSUME Undisturbed' PROVE Orderly'
    <2>1. Undisturbed /\ Orderly /\ shown = None
      BY <1>1, <1>5 DEF ScreensIInv, Undisturbed
    <2>2. \A b \in Calls \ {c} : ~InFlight(b)
      BY <1>1, <2>1 DEF Orderly, InFlight
    <2>3. \A b \in Calls : ~InFlight(b)'
      BY <1>2, <2>2, IdleCall DEF InFlight
    <2> QED
      BY <1>1, <2>1, <2>3 DEF Orderly, PageRight
  <1> QED
    BY <1>3, <1>4, <1>5 DEF ScreensIInv

LEMMA ArriveLoadStep == ASSUME ScreensIInv, NEW c \in Calls, S!ArriveLoad(c) PROVE ScreensIInv'
  <1> DEFINE x == call[c]
             page == [of |-> x.of, changes |-> x.got]
  <1>1. /\ x.stage = "served" /\ x.change = None /\ call' = [call EXCEPT ![c] = S!Idle]
        /\ shown' = IF panel.latest /\ last # c THEN shown ELSE page
        /\ first' = IF shown = None THEN x.got ELSE first
        /\ UNCHANGED <<panel, key, rows, last, own, crossed, failed, astray>>
    BY DEF S!ArriveLoad, S!IsLoad, S!Stale, S!Page
  <1>2. /\ x \in CallRecord /\ x.got \subseteq rows[x.of] /\ x.got \subseteq Changes
        /\ page \in PageRecord /\ page # None
    BY <1>1, ChangesAreNotNone
       DEF ScreensIInv, ScreensTyped, Answered, ServedTrue, CallRecord, PageRecord
  <1>3. call' \in [Calls -> CallRecord'] /\ call'[c] = S!Idle
        /\ \A b \in Calls \ {c} : call'[b] = call[b]
    BY <1>1, IdleCall, OneCall DEF ScreensIInv
  <1>4. ScreensTyped'
    BY <1>1, <1>2, <1>3 DEF ScreensIInv, ScreensTyped
  <1>5. Answered'
    <2>1. shown # None => shown' # None
      BY <1>1, <1>2
    <2>2. \A b \in Calls : WriteBegun(call[b])'
      BY <1>1, <1>3, <2>1, IdleCall DEF ScreensIInv, Answered, WriteBegun
    <2>3. \A b \in Calls : ServedTrue(call[b])'
      BY <1>1, <1>3, IdleCall DEF ScreensIInv, Answered, ServedTrue
    <2>4. CacheTrue'
      BY <1>1, <1>2, <1>3, IdleCall DEF ScreensIInv, Answered, CacheTrue
    <2> QED
      BY <1>1, <2>2, <2>3, <2>4 DEF ScreensIInv, Answered
  <1>6. ASSUME Undisturbed' PROVE Orderly'
    <2>1. Undisturbed /\ Orderly /\ InFlight(c)
      BY <1>1, <1>6 DEF ScreensIInv, Undisturbed, InFlight
    <2>2. \A b \in Calls : /\ InFlight(b)' <=> InFlight(b) /\ b # c
                           /\ b # c => call'[b] = call[b]
      BY <1>3, IdleCall DEF InFlight
    <2>3. \A b \in Calls : InFlight(b)' => call[b].change = None /\ panel.latest /\ shown # None
      BY <2>1, <2>2 DEF Orderly
    <2>4. CASE c = last
      <3>1. shown' = page /\ x.of = key /\ own[key] \subseteq x.got
        BY <1>1, <2>1, <2>4 DEF Orderly, Loading
      <3>2. PageRight'
        BY <1>1, <1>2, <3>1 DEF PageRight, OwnShown
      <3> QED
        BY <1>1, <1>2, <2>1, <2>2, <2>3, <2>4, <3>1, <3>2 DEF Orderly
    <2>5. CASE c # last
      <3>1. shown' = shown
        BY <1>1, <2>1, <2>5 DEF Orderly
      <3>2. PageRight => PageRight'
        BY <1>1, <3>1 DEF PageRight, OwnShown
      <3>3. ASSUME Loading(call[last]), last \in Calls, last # c PROVE Loading(call[last])'
        BY <1>1, <1>3, <3>3 DEF Loading
      <3>4. (\A b \in Calls : InFlight(b)' => call'[b].change = None /\ b # last) =>
              (\A b \in Calls : InFlight(b) => call[b].change = None /\ b # last)
        BY <1>1, <2>2, <2>5
      <3> QED
        BY <1>1, <2>1, <2>2, <2>3, <3>1, <3>2, <3>3, <3>4 DEF Orderly
    <2> QED
      BY <2>4, <2>5
  <1> QED
    BY <1>4, <1>5, <1>6 DEF ScreensIInv

-----------------------------------------------------------------------------

\* The write of c is answered, and what is then in flight is x in c, if any.
LEMMA WriteAnswered ==
  ASSUME ScreensIInv, NEW c \in Calls, call[c].stage = "served", call[c].change # None,
         own' = [own EXCEPT ![call[c].of] = @ \union {call[c].change}],
         UNCHANGED <<panel, key, first, rows, crossed, failed, astray>>
  PROVE  /\ own' \in [S!Keys -> SUBSET Changes]
         /\ \A k \in S!Keys : own'[k] \subseteq rows[k]
         /\ Undisturbed' =>
              /\ Orderly /\ Writing(call[c]) /\ \A b \in Calls \ {c} : ~InFlight(b)
              /\ own'[key] = own[key] \union {call[c].change}
  <1>1. /\ call[c] \in CallRecord /\ call[c].of \in S!Keys /\ call[c].change \in Changes
        /\ call[c].got \subseteq rows[call[c].of] /\ call[c].change \in call[c].got
    BY DEF ScreensIInv, ScreensTyped, Answered, ServedTrue, CallRecord
  <1>2. own \in [S!Keys -> SUBSET Changes] /\ \A k \in S!Keys : own[k] \subseteq rows[k]
    BY DEF ScreensIInv, ScreensTyped, Answered
  <1>3. own' \in [S!Keys -> SUBSET Changes] /\ \A k \in S!Keys : own'[k] \subseteq rows[k]
    BY <1>1, <1>2
  <1>4. ASSUME Undisturbed'
        PROVE  /\ Orderly /\ Writing(call[c]) /\ \A b \in Calls \ {c} : ~InFlight(b)
               /\ own'[key] = own[key] \union {call[c].change}
    <2>1. Orderly /\ InFlight(c)
      BY <1>4 DEF ScreensIInv, Undisturbed, InFlight
    <2>2. Writing(call[c]) /\ \A b \in Calls \ {c} : ~InFlight(b)
      BY <2>1 DEF Orderly
    <2>3. call[c].of = key
      BY <2>2 DEF Writing
    <2> QED
      BY <1>1, <1>2, <2>1, <2>2, <2>3
  <1> QED
    BY <1>3, <1>4

\* The handler loads again.
LEMMA ReloadStep ==
  ASSUME ScreensIInv, NEW c \in Calls, S!ArriveWrite(c), call[c].does.then = "reload"
  PROVE  ScreensIInv'
  <1> DEFINE x == [call[c] EXCEPT !.stage = "asked", !.change = None, !.got = {}]
  <1>1. /\ call[c].stage = "served" /\ call[c].change # None
        /\ own' = [own EXCEPT ![call[c].of] = @ \union {call[c].change}]
        /\ UNCHANGED <<panel, key, first, rows, crossed, failed, astray>>
        /\ last' = c /\ shown' = shown
    BY DEF S!ArriveWrite, S!IsLoad
  <1>2. call[c] \in CallRecord /\ call \in [Calls -> CallRecord]
    BY DEF ScreensIInv, ScreensTyped
  <1>3. call' = [call EXCEPT ![c] = x]
    BY <1>2 DEF S!ArriveWrite
  <1>4. x \in CallRecord /\ x.stage = "asked" /\ x.change = None /\ x.of = call[c].of
    BY <1>2 DEF CallRecord
  <1> HIDE DEF x
  <1>5. call' \in [Calls -> CallRecord'] /\ call'[c] = x
        /\ \A b \in Calls \ {c} : call'[b] = call[b]
    BY <1>1, <1>3, <1>4, OneCall DEF ScreensIInv
  <1>6. own' \in [S!Keys -> SUBSET Changes] /\ \A k \in S!Keys : own'[k] \subseteq rows[k]
    BY <1>1, WriteAnswered
  <1>7. ScreensTyped'
    BY <1>1, <1>5, <1>6 DEF ScreensIInv, ScreensTyped
  <1>8. Answered'
    <2>1. panel.cached /\ shown = None => x.of = "first"
      BY <1>4 DEF ScreensIInv, Answered, CacheTrue
    <2> QED
      BY <1>1, <1>3, <1>4, <1>6, <2>1, StaysAnswered DEF ScreensIInv, WriteBegun
  <1>9. ASSUME Undisturbed' PROVE Orderly'
    <2>1. Orderly /\ Writing(call[c]) /\ \A b \in Calls \ {c} : ~InFlight(b)
      BY <1>1, <1>9, WriteAnswered
    <2>2. \A b \in Calls : InFlight(b)' <=> b = c
      BY <1>4, <1>5, <2>1 DEF InFlight
    <2>3. Loading(call[c])'
      BY <1>1, <1>4, <1>5, <2>1 DEF Loading, Writing
    <2> QED
      BY <1>1, <1>4, <1>5, <2>1, <2>2, <2>3 DEF Orderly
  <1> QED
    BY <1>7, <1>8, <1>9 DEF ScreensIInv

\* It shows what was answered, patches what it shows, or had edited it.
LEMMA ShowsStep ==
  ASSUME ScreensIInv, NEW c \in Calls, S!ArriveWrite(c),
         call[c].does.then \in {"answer", "patch", "edited"}
  PROVE  ScreensIInv'
  <1> DEFINE x == call[c]
             page == [of |-> x.of, changes |-> x.got]
  <1>1. /\ x.stage = "served" /\ x.change # None
        /\ own' = [own EXCEPT ![x.of] = @ \union {x.change}]
        /\ UNCHANGED <<panel, key, first, rows, crossed, failed, astray, last>>
        /\ call' = [call EXCEPT ![c] = S!Idle]
        /\ x.does.then = "answer" => shown' = page
        /\ x.does.then = "patch" => shown' = [shown EXCEPT !.changes = @ \union {x.change}]
        /\ x.does.then = "edited" => shown' = shown
    BY DEF S!ArriveWrite, S!IsLoad, S!Page
  <1>2. /\ x \in CallRecord /\ x.change \in Changes /\ x.of \in S!Keys
        /\ x.got \subseteq rows[x.of] /\ x.got \subseteq Changes /\ x.change \in x.got
    BY <1>1 DEF ScreensIInv, ScreensTyped, Answered, ServedTrue, CallRecord
  <1>3. call' \in [Calls -> CallRecord'] /\ call'[c] = S!Idle
        /\ \A b \in Calls \ {c} : call'[b] = call[b]
    BY <1>1, IdleCall, OneCall DEF ScreensIInv
  <1>4. own' \in [S!Keys -> SUBSET Changes] /\ \A k \in S!Keys : own'[k] \subseteq rows[k]
    BY <1>1, WriteAnswered
  <1>5. shown \in PageRecord /\ shown' \in PageRecord /\ shown' # None
    <2>1. shown \in PageRecord
      BY <1>1 DEF ScreensIInv, ScreensTyped, Answered, WriteBegun
    <2>2. page \in PageRecord
      BY <1>2 DEF PageRecord
    <2>3. [shown EXCEPT !.changes = @ \union {x.change}] \in PageRecord
      BY <1>2, <2>1 DEF PageRecord
    <2> QED
      BY <1>1, <2>1, <2>2, <2>3, ChangesAreNotNone
  <1>6. ScreensTyped'
    BY <1>1, <1>3, <1>4, <1>5 DEF ScreensIInv, ScreensTyped
  <1>7. Answered'
    <2>1. WriteBegun(S!Idle)
      BY IdleCall DEF WriteBegun
    <2> QED
      BY <1>1, <1>4, <1>5, <2>1, IdleCall, StaysAnswered DEF ScreensIInv
  <1>8. ASSUME Undisturbed' PROVE Orderly'
    <2>1. Orderly /\ Writing(x) /\ (\A b \in Calls \ {c} : ~InFlight(b))
          /\ own'[key] = own[key] \union {x.change}
      BY <1>1, <1>8, WriteAnswered
    <2>2. \A b \in Calls : ~InFlight(b)'
      BY <1>3, <2>1, IdleCall DEF InFlight
    <2>3. x.of = key /\ shown.of = key /\ OwnShown /\ own[key] \subseteq x.got
      BY <1>1, <2>1 DEF Writing
    <2>4. PageRight'
      <3>1. CASE x.does.then = "answer"
        <4>1. shown'.of = key /\ shown'.changes = x.got
          BY <1>1, <2>3, <3>1
        <4> QED
          BY <1>1, <1>2, <2>1, <2>3, <4>1 DEF PageRight, OwnShown
      <3>2. CASE x.does.then = "patch"
        <4>1. shown'.of = key /\ shown'.changes = shown.changes \union {x.change}
          BY <1>1, <1>5, <2>3, <3>2 DEF PageRecord
        <4>2. shown.changes \subseteq rows[key] /\ x.change \in rows[key]
          BY <1>2, <2>1, <2>3, <3>2 DEF Writing
        <4> QED
          BY <1>1, <2>1, <2>3, <4>1, <4>2 DEF PageRight, OwnShown
      <3>3. CASE x.does.then = "edited"
        <4>1. x.change \in shown.changes /\ shown.changes \subseteq rows[key]
          BY <1>2, <2>1, <2>3, <3>3 DEF Writing
        <4> QED
          BY <1>1, <2>1, <2>3, <3>3, <4>1 DEF PageRight, OwnShown
      <3> QED
        BY <3>1, <3>2, <3>3
    <2> QED
      BY <1>1, <2>1, <2>2, <2>4 DEF Orderly
  <1> QED
    BY <1>6, <1>7, <1>8 DEF ScreensIInv

\* It goes to another page, and hears no more of its calls.
LEMMA LeaveStep ==
  ASSUME ScreensIInv, NEW c \in Calls, S!ArriveWrite(c), call[c].does.then = "leave"
  PROVE  ScreensIInv'
  <1>1. /\ call[c].stage = "served" /\ call[c].change # None
        /\ own' = [own EXCEPT ![call[c].of] = @ \union {call[c].change}]
        /\ UNCHANGED <<panel, key, first, rows, crossed, failed, astray, last>>
        /\ call' = [b \in Calls |-> S!Idle] /\ shown' = None
    BY DEF S!ArriveWrite, S!IsLoad
  <1>2. ~panel.cached
    <2>1. call[c].does \in panel.handlers /\ panel \in S!Panels
      BY <1>1 DEF ScreensIInv, Answered, WriteBegun, ScreensTyped
    <2> QED
      BY <2>1, PanelsWellMade DEF WellMade
  <1>3. own' \in [S!Keys -> SUBSET Changes] /\ (\A k \in S!Keys : own'[k] \subseteq rows[k])
        /\ (Undisturbed' => Orderly)
    BY <1>1, <1>2, WriteAnswered
  <1>4. \A b \in Calls : call'[b].stage = "idle"
    BY <1>1, IdleCall
  <1>5. ScreensTyped'
    <2>1. call' \in [Calls -> CallRecord']
      BY <1>1, IdleCall DEF CallRecord
    <2> QED
      BY <1>1, <1>3, <2>1 DEF ScreensIInv, ScreensTyped
  <1>6. Answered'
    BY <1>1, <1>2, <1>3, <1>4 DEF Answered, WriteBegun, ServedTrue, CacheTrue
  <1>7. Undisturbed' => Orderly'
    BY <1>1, <1>3, <1>4 DEF Orderly, InFlight, PageRight
  <1> QED
    BY <1>5, <1>6, <1>7 DEF ScreensIInv

LEMMA ArriveWriteStep == ASSUME ScreensIInv, NEW c \in Calls, S!ArriveWrite(c) PROVE ScreensIInv'
  <1>1. call[c].does \in panel.handlers /\ call[c].does.then # "load" /\ panel \in S!Panels
    BY DEF S!ArriveWrite, S!IsLoad, ScreensIInv, ScreensTyped, Answered, WriteBegun
  <1>2. call[c].does.then \in Thens
    BY <1>1, PanelsWellMade DEF WellMade
  <1> QED
    BY <1>1, <1>2, ReloadStep, ShowsStep, LeaveStep DEF Thens

LEMMA ElsewhereStep ==
  ASSUME ScreensIInv, NEW k \in S!Keys, NEW x \in Changes, S!Elsewhere(k, x) PROVE ScreensIInv'
  <1>1. /\ rows' = [rows EXCEPT ![k] = @ \union {x}]
        /\ UNCHANGED <<panel, key, shown, first, call, last, own, crossed, failed, astray>>
    BY DEF S!Elsewhere
  <1>2. /\ rows' \in [S!Keys -> SUBSET Changes]
        /\ \A j \in S!Keys : rows[j] \subseteq rows'[j]
        /\ key \in S!Keys /\ "first" \in S!Keys
        /\ \A c \in Calls : call[c].of \in S!Keys
    BY <1>1 DEF ScreensIInv, ScreensTyped, CallRecord, S!Keys
  <1>3. ScreensTyped'
    BY <1>1, <1>2 DEF ScreensIInv, ScreensTyped, CallRecord
  <1>4. Answered'
    <2>1. \A c \in Calls : WriteBegun(call[c])' /\ ServedTrue(call[c])'
      BY <1>1, <1>2 DEF ScreensIInv, Answered, WriteBegun, ServedTrue
    <2>2. CacheTrue' /\ \A j \in S!Keys : own[j] \subseteq rows'[j]
      BY <1>1, <1>2 DEF ScreensIInv, Answered, CacheTrue
    <2> QED
      BY <1>1, <2>1, <2>2 DEF Answered
  <1>5. ASSUME Undisturbed' PROVE Orderly'
    <2>1. Orderly
      BY <1>1, <1>5 DEF ScreensIInv, Undisturbed
    <2>2. PageRight => PageRight'
      BY <1>1, <1>2 DEF PageRight, OwnShown
    <2>3. \A c \in Calls : /\ Writing(call[c]) => Writing(call[c])'
                           /\ Loading(call[c]) => Loading(call[c])'
                           /\ InFlight(c)' <=> InFlight(c)
      BY <1>1, <1>2 DEF Writing, OwnShown, Loading, InFlight
    <2> QED
      BY <1>1, <2>1, <2>2, <2>3 DEF Orderly
  <1> QED
    BY <1>3, <1>4, <1>5 DEF ScreensIInv

LEMMA ScreensNextStep == ScreensIInv /\ [S!Next]_screenVars => ScreensIInv'
  <1> SUFFICES ASSUME ScreensIInv, [S!Next]_screenVars PROVE ScreensIInv'
    OBVIOUS
  <1>1. ASSUME NEW c \in Calls,
               \/ S!Mount(c) \/ S!Serve(c) \/ S!Fail(c) \/ S!ArriveLoad(c) \/ S!ArriveWrite(c)
        PROVE  ScreensIInv'
    BY <1>1, MountStep, ServeStep, FailStep, ArriveLoadStep, ArriveWriteStep
  <1>2. ASSUME NEW c \in Calls, NEW k \in S!Keys, S!Choose(c, k) PROVE ScreensIInv'
    BY <1>2, ChooseStep
  <1>3. ASSUME NEW c \in Calls, NEW h \in panel.handlers, NEW x \in Changes \union {None},
               S!Handle(c, h, x)
        PROVE  ScreensIInv'
    BY <1>3, ScreenHandleStep
  <1>4. ASSUME NEW k \in S!Keys, NEW x \in Changes, S!Elsewhere(k, x) PROVE ScreensIInv'
    BY <1>4, ElsewhereStep
  <1>5. CASE UNCHANGED screenVars
    <2>1. UNCHANGED <<panel, key, shown, first, rows, call, last, own, crossed, failed, astray>>
      BY <1>5 DEF screenVars
    <2>2. ScreensTyped'
      BY <2>1 DEF ScreensIInv, ScreensTyped, CallRecord
    <2>3. Answered'
      BY <2>1 DEF ScreensIInv, Answered, WriteBegun, ServedTrue, CacheTrue
    <2>4. Undisturbed' => Orderly'
      BY <2>1 DEF ScreensIInv, Undisturbed, Orderly, InFlight, Writing, Loading, PageRight, OwnShown
    <2> QED
      BY <2>2, <2>3, <2>4 DEF ScreensIInv
  <1> QED
    BY <1>1, <1>2, <1>3, <1>4, <1>5 DEF S!Next

LEMMA ScreensSafe == ScreensIInv => S!TypeOK /\ S!ScreensTruthful
  <1> SUFFICES ASSUME ScreensIInv PROVE S!TypeOK /\ S!ScreensTruthful
    OBVIOUS
  <1>1. S!TypeOK
    BY DEF ScreensIInv, ScreensTyped, CallRecord, PageRecord, S!TypeOK
  <1>2. S!ScreensTruthful
    <2> SUFFICES ASSUME S!Busy = {}, shown # None, ~crossed, ~failed
                 PROVE  /\ shown.of = key
                        /\ own[key] \subseteq shown.changes \/ (panel.cached /\ key = "first")
                        /\ shown.changes \subseteq rows[key]
                        /\ ~astray
      BY DEF S!ScreensTruthful
    <2>1. Orderly /\ \A c \in Calls : ~InFlight(c)
      BY DEF ScreensIInv, Undisturbed, S!Busy, InFlight
    <2> QED
      BY <2>1 DEF Orderly, PageRight, OwnShown
  <1> QED
    BY <1>1, <1>2

-----------------------------------------------------------------------------
(* The parts together: whichever a behaviour is of, its invariant holds.   *)

FrontIInv ==
    /\ part = "accounts" => AP!IInv
    /\ part = "access" => AccessIInv
    /\ part = "routes" => RoutesIInv
    /\ part = "messaging" => MessagingIInv
    /\ part = "screens" => ScreensIInv

LEMMA FrontInitIInv == FrontInit => FrontIInv
  BY AccountsInit, AccessInit, RoutesInit, MessagingInit, ScreensInit DEF FrontInit, FrontIInv

\* A step is one of its part, or moves nothing of it.
LEMMA FrontStep ==
  ASSUME [FrontNext]_<<part, vars, accountsVars, accessVars, routeVars, messagingVars, screenVars>>
  PROVE  /\ part' = part
         /\ part = "accounts" => [A!Next]_accountsVars
         /\ part = "access" => [L!Next]_accessVars
         /\ part = "routes" => [G!Next]_routeVars
         /\ part = "messaging" => [M!Next]_messagingVars
         /\ part = "screens" => [S!Next]_screenVars
  <1>1. CASE FrontNext
    <2>1. part' = part
      BY <1>1 DEF FrontNext, QuotesNext, AccountsNext, AccessNext, RoutesNext, MessagingNext,
         ScreensNext, Others
    <2>2. /\ part = "accounts" => A!Next
          /\ part = "access" => L!Next
          /\ part = "routes" => G!Next
          /\ part = "messaging" => M!Next
          /\ part = "screens" => S!Next
      BY <1>1 DEF FrontNext, QuotesNext, AccountsNext, AccessNext, RoutesNext, MessagingNext,
         ScreensNext
    <2> QED
      BY <2>1, <2>2
  <1>2. CASE UNCHANGED <<part, vars, accountsVars, accessVars, routeVars, messagingVars, screenVars>>
    BY <1>2
  <1> QED
    BY <1>1, <1>2

LEMMA FrontNextIInv ==
  /\ FrontIInv
  /\ [FrontNext]_<<part, vars, accountsVars, accessVars, routeVars, messagingVars, screenVars>>
  => FrontIInv'
  <1> SUFFICES ASSUME FrontIInv,
                      [FrontNext]_<<part, vars, accountsVars, accessVars, routeVars, messagingVars,
                                    screenVars>>
               PROVE  FrontIInv'
    OBVIOUS
  <1>1. part = "accounts" => AP!IInv'
    BY FrontStep, AccountsNextStep DEF FrontIInv
  <1>2. part = "access" => AccessIInv'
    BY FrontStep, AccessNextStep DEF FrontIInv
  <1>3. part = "routes" => RoutesIInv'
    BY FrontStep, RoutesNextStep DEF FrontIInv
  <1>4. part = "messaging" => MessagingIInv'
    BY FrontStep, MessagingNextStep DEF FrontIInv
  <1>5. part = "screens" => ScreensIInv'
    BY FrontStep, ScreensNextStep DEF FrontIInv
  <1> QED
    BY FrontStep, <1>1, <1>2, <1>3, <1>4, <1>5 DEF FrontIInv

LEMMA FrontInvariant == FrontSpec => []FrontIInv
  <1> QED
    BY FrontInitIInv, FrontNextIInv, PTL DEF FrontSpec

\* The rows, sessions, requests, messages and pages keep their types, whatever
\* part a behaviour is of.
THEOREM FrontTypeCorrect == FrontSpec => []FrontTypeOK
  <1>1. FrontIInv => FrontTypeOK
    BY AccountsSafe, AccessSafe, RoutesSafe, MessagingSafe, ScreensSafe DEF FrontIInv, FrontTypeOK
  <1> QED
    BY <1>1, FrontInvariant, PTL

\* However logins overlap, an account with as many failed ones as the limit is
\* locked, unless the request that was to lock it is about to or died; a session
\* older than what ends sessions is one a login under way opened, or one whose
\* revocation is to come or never came; and a route serves only who may use it.
THEOREM SessionsAreGuarded == FrontSpec => []SessionsGuarded
  <1>1. FrontIInv => SessionsGuarded
    BY AccessSafe, RoutesSafe DEF FrontIInv, SessionsGuarded
  <1> QED
    BY <1>1, FrontInvariant, PTL

\* In whatever order answers arrive, a page at rest shows the rows of the
\* user's choice with what she changed, unless calls crossed or one was lost;
\* no mock passes for a delivery in production, and what a provider is said to
\* have taken it took.
THEOREM PagesTellTheTruth == FrontSpec => []ToldTruthfully
  <1>1. FrontIInv => ToldTruthfully
    BY ScreensSafe, MessagingSafe DEF FrontIInv, ToldTruthfully
  <1> QED
    BY <1>1, FrontInvariant, PTL

\* Of any number of requests that answer a code at a time, one at most is
\* accepted, while the code is open and has attempts left.
THEOREM CodesAreAnsweredOnce == FrontSpec => CodesAnswerOnce
  <1>1. FrontIInv
        /\ [FrontNext]_<<part, vars, accountsVars, accessVars, routeVars, messagingVars, screenVars>>
        => [part = "accounts" => A!AnswersOnce]_accountsVars
    BY FrontStep, AccountsActions DEF FrontIInv
  <1> QED
    BY <1>1, FrontInvariant, PTL DEF FrontSpec, CodesAnswerOnce

\* However requests overlap, who becomes active answered a code that was sent
\* to the telephone the account has.
THEOREM ActivationsAreProven == FrontSpec => CodeActivatesProven
  <1>1. FrontIInv
        /\ [FrontNext]_<<part, vars, accountsVars, accessVars, routeVars, messagingVars, screenVars>>
        => [part = "accounts" => A!ActivatesProven]_accountsVars
    BY FrontStep, AccountsActions DEF FrontIInv
  <1> QED
    BY <1>1, FrontInvariant, PTL DEF FrontSpec, CodeActivatesProven

\* A code sent before an administrator paused the account does not end the
\* pause when it is answered.
THEOREM PausesAreKept == FrontSpec => PauseBeatsCode
  <1>1. FrontIInv
        /\ [FrontNext]_<<part, vars, accountsVars, accessVars, routeVars, messagingVars, screenVars>>
        => [part = "accounts" => A!PauseStays]_accountsVars
    BY FrontStep, AccountsActions DEF FrontIInv
  <1> QED
    BY <1>1, FrontInvariant, PTL DEF FrontSpec, PauseBeatsCode

=============================================================================
