------------------------------ MODULE Accounts ------------------------------
(***************************************************************************)
(* Clients' accounts: registration, codes sent to a phone, verification,   *)
(* recovery, changes of phone, and what the administrator does to an       *)
(* account.  Passwords, failed logins and sessions are in Access; a staff  *)
(* account differs by its e-mail and is left out.  A code is right or      *)
(* wrong; its digits, their hash and the message are left out.             *)
(***************************************************************************)
EXTENDS Integers, FiniteSets

CONSTANTS
    Users, Codes,   \* identifiers of rows
    Phones,
    Requests,
    Targets,        \* statuses the administrator's screen sends
    MaxAttempts,    \* verification_challenges.max_attempts, 5 in the code
    None            \* null

Statuses == {"INVITED", "PENDING_VERIFICATION", "ACTIVE", "PAUSED", "ARCHIVED"}
Purposes == {"VERIFY_PHONE", "RESET_PASSWORD"}

VARIABLES
    user,      \* table users
    lapsed,    \* users whose 24 hours of registration are over
    code,      \* table verification_challenges
    cooling,   \* keys identity:challenge:* in Redis
    proc,      \* what each request is doing
    proved     \* history: phones from which a user answered with the right code

vars == <<user, lapsed, code, cooling, proc, proved>>

Row == [status : Statuses \union {"ABSENT", "DELETED"}, phone : Phones \union {None},
        verified : BOOLEAN, temporary : BOOLEAN, archived : BOOLEAN]

NoRow == [status |-> "ABSENT", phone |-> None,
          verified |-> FALSE, temporary |-> FALSE, archived |-> FALSE]

Code == [status : {"ABSENT", "OPEN", "CONSUMED", "DELETED"}, user : Users \union {None},
         purpose : Purposes, phone : Phones \union {None}, attempts : 0..MaxAttempts,
         expired : BOOLEAN]

NoCode == [status |-> "ABSENT", user |-> None, purpose |-> "VERIFY_PHONE", phone |-> None,
           attempts |-> 0, expired |-> FALSE]

Gone == [NoCode EXCEPT !.status = "DELETED"]

Issuing == {"cooling", "creating", "sending"}
Stages == Issuing \union {"idle", "inserting", "discarding", "consuming", "accepted", "signed",
                          "saving", "editing", "ruling"}

\* for: the handler a code is issued for.  row: the user's row as it was read.
Proc == [stage : Stages, for : {"register", "profile", "other"}, user : Users \union {None},
         row : Row, code : Codes \union {None}, attempts : 0..MaxAttempts,
         purpose : Purposes, phone : Phones \union {None}, right : BOOLEAN,
         target : Statuses]

Idle == [stage |-> "idle", for |-> "other", user |-> None, row |-> NoRow, code |-> None,
         attempts |-> 0, purpose |-> "VERIFY_PHONE", phone |-> None, right |-> FALSE,
         target |-> "ACTIVE"]

TypeOK ==
    /\ user \in [Users -> Row]
    /\ lapsed \subseteq Users
    /\ code \in [Codes -> Code]
    /\ cooling \subseteq Users \X Purposes
    /\ proc \in [Requests -> Proc]
    /\ proved \subseteq Users \X Phones

Init ==
    /\ user = [u \in Users |-> NoRow]
    /\ code = [k \in Codes |-> NoCode]
    /\ proc = [r \in Requests |-> Idle]
    /\ lapsed = {} /\ cooling = {} /\ proved = {}

-----------------------------------------------------------------------------

Exists(u) == user[u].status \notin {"ABSENT", "DELETED"}

\* The unique index on users.phone.
PhoneFree(p, u) == \A v \in Users \ {u} : Exists(v) => user[v].phone # p

\* What the handlers that write a phone still use of the row they read.
OfPhone(row) == [NoRow EXCEPT !.phone = row.phone]

Unfinished(u, row) == row.status = "PENDING_VERIFICATION" /\ ~row.verified /\ row.temporary

\* PendingRegistrationService.isExpired, of a row read before.
IsExpired(u, row) == Unfinished(u, row) /\ u \in lapsed

Lapsed == {u \in Users : IsExpired(u, user[u])}

\* deleteMany of users; their codes go with them.
Delete(us) ==
    /\ user' = [u \in Users |-> IF u \in us THEN [NoRow EXCEPT !.status = "DELETED"] ELSE user[u]]
    /\ code' = [k \in Codes |-> IF code[k].user \in us
                                THEN Gone ELSE code[k]]

DeleteNone == UNCHANGED <<user, code>>

\* updateMany of open codes of a user, of one purpose or of any.
Closed(u, purposes) ==
    [k \in Codes |-> IF code[k].user = u /\ code[k].purpose \in purposes /\ code[k].status = "OPEN"
                     THEN [code[k] EXCEPT !.status = "CONSUMED"] ELSE code[k]]

Become(r, p) == proc' = [proc EXCEPT ![r] = p]
Done(r) == Become(r, Idle)
Go(r, s) == Become(r, [proc[r] EXCEPT !.stage = s])
Records == UNCHANGED proved
Surroundings == UNCHANGED <<lapsed, cooling>>

StartIssue(r, u, row, purpose, phone, for) ==
    Become(r, [Idle EXCEPT !.stage = "cooling", !.for = for, !.user = u, !.row = row,
                           !.purpose = purpose, !.phone = phone])

-----------------------------------------------------------------------------
(* ChallengeService.issue.                                                 *)

\* What the rest of issue uses of the row it was given.
Proceeding(r) ==
    [proc[r] EXCEPT !.stage = "creating",
                    !.row = IF proc[r].for = "profile" THEN OfPhone(proc[r].row) ELSE NoRow]

\* SET NX of the cooldown, and the registration's own deadline.
IssueCooldown(r) ==
    LET key == <<proc[r].user, proc[r].purpose>>
        fresh == key \notin cooling
        late == proc[r].row.temporary /\ proc[r].user \in lapsed
        failed == IF proc[r].for = "register" THEN "discarding" ELSE "idle"
    IN  /\ proc[r].stage = "cooling"
        /\ cooling' = IF fresh /\ ~late THEN cooling \union {key} ELSE cooling
        /\ IF fresh /\ ~late THEN Become(r, Proceeding(r))
           ELSE IF failed = "idle" THEN Done(r) ELSE Go(r, failed)
        /\ UNCHANGED <<user, lapsed, code>> /\ Records

\* The open codes are closed and the new one is created; nobody else issues
\* one for this key meanwhile.  The row of a deleted user refuses the code.
IssueCreate(r, k) ==
    LET u == proc[r].user
    IN  /\ proc[r].stage = "creating"
        /\ code[k].status = "ABSENT"
        /\ IF Exists(u)
           THEN /\ code' = [Closed(u, {proc[r].purpose}) EXCEPT ![k] =
                     [NoCode EXCEPT !.status = "OPEN", !.user = u,
                                    !.purpose = proc[r].purpose, !.phone = proc[r].phone]]
                /\ Become(r, [proc[r] EXCEPT !.stage = "sending", !.code = k])
           ELSE /\ IF proc[r].for = "register" THEN Go(r, "discarding") ELSE Done(r)
                /\ UNCHANGED code
        /\ UNCHANGED user /\ Surroundings /\ Records

IssueSent(r) ==
    /\ proc[r].stage = "sending"
    /\ IF proc[r].for = "profile" THEN Go(r, "saving") ELSE Done(r)
    /\ UNCHANGED <<user, code>> /\ Surroundings /\ Records

\* The provider failed, although the message may have arrived.
IssueFails(r) ==
    /\ proc[r].stage = "sending"
    /\ code' = [code EXCEPT ![proc[r].code] = Gone]
    /\ cooling' = cooling \ {<<proc[r].user, proc[r].purpose>>}
    /\ IF proc[r].for = "register" THEN Go(r, "discarding") ELSE Done(r)
    /\ UNCHANGED <<user, lapsed>> /\ Records

-----------------------------------------------------------------------------
(* AuthService: registration and verification.                             *)

Register(r, p) ==
    LET late == {u \in Lapsed : user[u].phone = p}
    IN  /\ proc[r].stage = "idle"
        /\ Delete(late)
        /\ IF \A u \in Users \ late : Exists(u) => user[u].phone # p
           THEN Become(r, [Idle EXCEPT !.stage = "inserting", !.phone = p])
           ELSE UNCHANGED proc
        /\ Surroundings /\ Records

RegisterInsert(r, u) ==
    LET row == [NoRow EXCEPT !.status = "PENDING_VERIFICATION", !.phone = proc[r].phone,
                             !.temporary = TRUE]
    IN  /\ proc[r].stage = "inserting"
        /\ user[u].status = "ABSENT"
        /\ IF PhoneFree(proc[r].phone, u)
           THEN /\ user' = [user EXCEPT ![u] = row]
                /\ StartIssue(r, u, row, "VERIFY_PHONE", proc[r].phone, "register")
           ELSE Done(r) /\ UNCHANGED user
        /\ UNCHANGED code /\ Surroundings /\ Records

Discards(u) == Unfinished(u, user[u])

\* discardFailedRegistration.
Discard(r) ==
    /\ proc[r].stage = "discarding"
    /\ Delete({u \in {proc[r].user} : Discards(u)})
    /\ Done(r)
    /\ Surroundings /\ Records

Resend(r, k) ==
    LET u == code[k].user
    IN  /\ proc[r].stage = "idle"
        /\ code[k].status \in {"OPEN", "CONSUMED"} /\ code[k].purpose = "VERIFY_PHONE"
        /\ ~user[u].archived /\ user[u].status = "PENDING_VERIFICATION"
        /\ user[u].phone = code[k].phone
        /\ IF IsExpired(u, user[u])
           THEN Delete({u}) /\ UNCHANGED proc
           ELSE DeleteNone /\ StartIssue(r, u, user[u], "VERIFY_PHONE", user[u].phone, "other")
        /\ Surroundings /\ Records

\* login of an account that is still to be verified, with its password.
LoginPending(r, u) ==
    /\ proc[r].stage = "idle"
    /\ user[u].status = "PENDING_VERIFICATION"
    /\ IF IsExpired(u, user[u])
       THEN Delete({u}) /\ UNCHANGED proc
       ELSE /\ ~user[u].archived
            /\ DeleteNone
            /\ StartIssue(r, u, user[u], "VERIFY_PHONE", user[u].phone, "other")
    /\ Surroundings /\ Records

ForgotPassword(r, u) ==
    /\ proc[r].stage = "idle"
    /\ user[u].status \in {"ACTIVE", "INVITED", "PENDING_VERIFICATION"} /\ ~user[u].archived
    /\ IF IsExpired(u, user[u])
       THEN Delete({u}) /\ UNCHANGED proc
       ELSE DeleteNone /\ StartIssue(r, u, user[u], "RESET_PASSWORD", user[u].phone, "other")
    /\ Surroundings /\ Records

-----------------------------------------------------------------------------
(* ChallengeService.consume: a loop of read, compare and conditional write. *)

Usable(k) == code[k].status = "OPEN" /\ ~code[k].expired /\ code[k].attempts < MaxAttempts

\* The code and its user's row, as they are read together.
Reading(k, right) ==
    [Idle EXCEPT !.stage = "consuming", !.user = code[k].user, !.row = user[code[k].user],
                 !.code = k, !.phone = code[k].phone, !.purpose = code[k].purpose,
                 !.attempts = code[k].attempts, !.right = right]

\* verifyPhone or resetPassword, by the code's purpose; another purpose is refused.
Answer(r, k, right) ==
    /\ proc[r].stage = "idle"
    /\ Usable(k)
    /\ Become(r, Reading(k, right))
    /\ UNCHANGED <<user, code>> /\ Surroundings /\ Records

MatchesOpen(r) == code[proc[r].code].status = "OPEN"

MatchesAttempts(r) == code[proc[r].code].attempts = proc[r].attempts

\* The WHERE of both writes; expiry was compared when the code was read.
Matches(r) ==
    /\ code[proc[r].code].status = "OPEN"
    /\ code[proc[r].code].attempts = proc[r].attempts

ConsumeAgain(r) ==
    /\ proc[r].stage = "consuming"
    /\ ~Matches(r)
    /\ IF Usable(proc[r].code) THEN Become(r, Reading(proc[r].code, proc[r].right)) ELSE Done(r)
    /\ UNCHANGED <<user, code>> /\ Surroundings /\ Records

ConsumeWrong(r) ==
    LET k == proc[r].code
        last == proc[r].attempts + 1 >= MaxAttempts
    IN  /\ proc[r].stage = "consuming" /\ ~proc[r].right
        /\ Matches(r)
        /\ code' = [code EXCEPT ![k].attempts = code[k].attempts + 1,
                                ![k].status = IF last THEN "CONSUMED" ELSE "OPEN"]
        /\ Done(r)
        /\ UNCHANGED user /\ Surroundings /\ Records

ConsumeRight(r) ==
    LET k == proc[r].code
    IN  /\ proc[r].stage = "consuming" /\ proc[r].right
        /\ Matches(r)
        /\ code' = [code EXCEPT ![k].status = "CONSUMED"]
        /\ proved' = proved \union {<<code[k].user, code[k].phone>>}
        /\ Become(r, [proc[r] EXCEPT !.stage = "accepted", !.code = None, !.attempts = 0])
        /\ UNCHANGED user /\ Surroundings

\* registrationExpiresAt is null or still to come.
InTime(u) == user[u].temporary => u \notin lapsed

VerifyMatchesAnyPhone(r) ==
    LET u == proc[r].user
    IN  user[u].status = "PENDING_VERIFICATION" /\ ~user[u].archived /\ InTime(u)

VerifyMatches(r) ==
    LET u == proc[r].user
    IN  /\ user[u].status = "PENDING_VERIFICATION" /\ ~user[u].archived
        /\ user[u].phone = proc[r].phone /\ InTime(u)

Activated(u) ==
    [user EXCEPT ![u].status = "ACTIVE", ![u].verified = TRUE, ![u].temporary = FALSE]

\* verifyPhone after consume: what was read decides first, then the conditional update.
VerifyWrite(r) ==
    LET u == proc[r].user
        row == proc[r].row
        pending == row.status = "PENDING_VERIFICATION" /\ ~row.archived
                   /\ row.phone = proc[r].phone
    IN  /\ proc[r].stage = "accepted" /\ proc[r].purpose = "VERIFY_PHONE"
        /\ IF IsExpired(u, row) THEN Delete({u} \intersect Lapsed)
           ELSE IF pending /\ VerifyMatches(r) THEN user' = Activated(u) /\ UNCHANGED code
           ELSE DeleteNone
        /\ Done(r)
        /\ Surroundings /\ Records

Resettable == {"ACTIVE", "INVITED", "PENDING_VERIFICATION"}

ResetMatchesAny(r) == user[proc[r].user].phone = proc[r].phone

ResetMatches(r) ==
    LET u == proc[r].user
    IN  /\ user[u].status = proc[r].row.status /\ ~user[u].archived
        /\ user[u].phone = proc[r].phone /\ InTime(u)

\* resetPassword after consume.
ResetWrite(r) ==
    LET u == proc[r].user
        row == proc[r].row
        available == ~row.archived /\ row.status \in Resettable
                     /\ row.phone = proc[r].phone
    IN  /\ proc[r].stage = "accepted" /\ proc[r].purpose = "RESET_PASSWORD"
        /\ IF IsExpired(u, row) THEN Delete({u} \intersect Lapsed)
           ELSE IF available /\ ResetMatches(r) THEN user' = Activated(u) /\ UNCHANGED code
           ELSE DeleteNone
        /\ Done(r)
        /\ Surroundings /\ Records

-----------------------------------------------------------------------------
(* updateProfile, of a request the guard let in.                           *)

SignIn(r, u) ==
    /\ proc[r].stage = "idle"
    /\ user[u].status = "ACTIVE" /\ ~user[u].archived
    /\ Become(r, [Idle EXCEPT !.stage = "signed", !.user = u])
    /\ UNCHANGED <<user, code>> /\ Surroundings /\ Records

\* The code for a new phone is issued before the row holds that phone.
ProfileRead(r, p) ==
    LET u == proc[r].user
        row == user[u]
    IN  /\ proc[r].stage = "signed"
        /\ IF ~Exists(u) \/ (p # row.phone /\ ~PhoneFree(p, u)) THEN Done(r)
           ELSE IF p # row.phone THEN StartIssue(r, u, row, "VERIFY_PHONE", p, "profile")
           ELSE Become(r, [proc[r] EXCEPT !.stage = "saving", !.row = OfPhone(row), !.phone = p])
        /\ UNCHANGED <<user, code>> /\ Surroundings /\ Records

\* A new phone is to be verified; the same one changes nothing else.
WithPhone(u, old, p) ==
    IF p # old.phone
    THEN [user[u] EXCEPT !.phone = p, !.verified = FALSE, !.temporary = FALSE,
                         !.status = "PENDING_VERIFICATION"]
    ELSE [user[u] EXCEPT !.phone = p]

ProfileSave(r) ==
    LET u == proc[r].user
    IN  /\ proc[r].stage = "saving"
        /\ IF Exists(u) /\ PhoneFree(proc[r].phone, u)
           THEN user' = [user EXCEPT ![u] = WithPhone(u, proc[r].row, proc[r].phone)]
           ELSE UNCHANGED user
        /\ Done(r)
        /\ UNCHANGED code /\ Surroundings /\ Records

-----------------------------------------------------------------------------
(* AdminUsersService.                                                      *)

AdminCreate(r, u, p, status) ==
    /\ proc[r].stage = "idle"
    /\ user[u].status = "ABSENT" /\ PhoneFree(p, u)
    /\ status \in {"INVITED", "PENDING_VERIFICATION"}
    /\ user' = [user EXCEPT ![u] = [NoRow EXCEPT !.status = status, !.phone = p]]
    /\ UNCHANGED <<code, proc>> /\ Surroundings /\ Records

AdminRead(r, u) ==
    /\ proc[r].stage = "idle"
    /\ Exists(u)
    /\ \/ \E p \in Phones :
             /\ PhoneFree(p, u)
             /\ Become(r, [Idle EXCEPT !.stage = "editing", !.user = u,
                                !.row = OfPhone(user[u]), !.phone = p])
       \/ \E s \in Targets :
             /\ s = "ACTIVE" => user[u].verified
             /\ Become(r, [Idle EXCEPT !.stage = "ruling", !.user = u, !.target = s])
    /\ UNCHANGED <<user, code>> /\ Surroundings /\ Records

\* One transaction with the codes, when the phone changes.
AdminUpdate(r) ==
    LET u == proc[r].user
        p == proc[r].phone
    IN  /\ proc[r].stage = "editing"
        /\ IF Exists(u) /\ PhoneFree(p, u)
           THEN /\ user' = [user EXCEPT ![u] = WithPhone(u, proc[r].row, p)]
                /\ code' = IF p # proc[r].row.phone THEN Closed(u, Purposes) ELSE code
           ELSE DeleteNone
        /\ Done(r)
        /\ Surroundings /\ Records

AdminStatus(r) ==
    LET u == proc[r].user
        s == proc[r].target
    IN  /\ proc[r].stage = "ruling"
        /\ IF Exists(u)
           THEN /\ user' = [user EXCEPT ![u].status = s, ![u].archived = (s = "ARCHIVED"),
                       ![u].temporary = (s = "PENDING_VERIFICATION" /\ user[u].temporary)]
                /\ code' = IF s \in {"PAUSED", "ARCHIVED"} THEN Closed(u, Purposes) ELSE code
           ELSE DeleteNone
        /\ Done(r)
        /\ Surroundings /\ Records

SendPasswordReset(r, u) ==
    /\ proc[r].stage = "idle"
    /\ Exists(u) /\ ~user[u].archived /\ user[u].status \notin {"PAUSED", "ARCHIVED"}
    /\ StartIssue(r, u, user[u], "RESET_PASSWORD", user[u].phone, "other")
    /\ UNCHANGED <<user, code>> /\ Surroundings /\ Records

-----------------------------------------------------------------------------
(* The worker's purge, the clock and a request that dies.                  *)

PurgeExpired ==
    /\ Lapsed # {}
    /\ Delete(Lapsed)
    /\ UNCHANGED proc /\ Surroundings /\ Records

\* 24 hours after a registration; its codes promise no more than that.
Lapse(u) ==
    /\ user[u].temporary /\ u \notin lapsed
    /\ lapsed' = lapsed \union {u}
    /\ code' = [k \in Codes |-> IF code[k].user = u THEN [code[k] EXCEPT !.expired = TRUE] ELSE code[k]]
    /\ UNCHANGED <<user, cooling, proc>> /\ Records

Expire(k) ==
    /\ code[k].status = "OPEN" /\ ~code[k].expired
    /\ code' = [code EXCEPT ![k].expired = TRUE]
    /\ UNCHANGED <<user, proc>> /\ Surroundings /\ Records

CoolDown(key) ==
    /\ key \in cooling
    /\ cooling' = cooling \ {key}
    /\ UNCHANGED <<user, lapsed, code, proc>> /\ Records

Abandon(r) ==
    /\ proc[r].stage # "idle"
    /\ Done(r)
    /\ UNCHANGED <<user, code>> /\ Surroundings /\ Records

Handles(r) ==
    \/ \E p \in Phones : Register(r, p) \/ ProfileRead(r, p)
    \/ \E u \in Users :
          \/ RegisterInsert(r, u) \/ LoginPending(r, u) \/ ForgotPassword(r, u)
          \/ SignIn(r, u) \/ AdminRead(r, u) \/ SendPasswordReset(r, u)
          \/ \E p \in Phones, s \in Statuses : AdminCreate(r, u, p, s)
    \/ \E k \in Codes :
          \/ IssueCreate(r, k) \/ Resend(r, k)
          \/ \E right \in BOOLEAN : Answer(r, k, right)
    \/ IssueCooldown(r) \/ IssueSent(r) \/ IssueFails(r) \/ Discard(r)
    \/ ConsumeAgain(r) \/ ConsumeWrong(r) \/ ConsumeRight(r)
    \/ VerifyWrite(r) \/ ResetWrite(r) \/ ProfileSave(r)
    \/ AdminUpdate(r) \/ AdminStatus(r) \/ Abandon(r)

Next ==
    \/ \E r \in Requests : Handles(r)
    \/ PurgeExpired
    \/ \E u \in Users : Lapse(u)
    \/ \E k \in Codes : Expire(k)
    \/ \E key \in cooling : CoolDown(key)

Spec == Init /\ [][Next]_vars

-----------------------------------------------------------------------------
(* Properties.                                                             *)

Accepts(r) == proc[r].stage = "consuming" /\ proc'[r].stage = "accepted"

\* However many requests try a code at once, it is accepted only while it is
\* open and has attempts left, and by one of them: consume compares attempts
\* and consumedAt when it writes.
AnswersOnce ==
    \A r \in Requests : Accepts(r) =>
         LET k == proc[r].code
         IN  /\ code[k].status = "OPEN" /\ code'[k].status = "CONSUMED"
             /\ code[k].attempts < MaxAttempts

Confirms(r) == proc[r].stage = "accepted" /\ proc'[r].stage = "idle"

\* An account that an answered code activates is active with a phone its client
\* answered from, whatever changed the phone, paused or deleted the account
\* while the code was being checked: verifyPhone and resetPassword look again
\* when they write.
ActivatesProven ==
    \A u \in Users, r \in Requests :
         Confirms(r) /\ user'[u] # user[u] /\ user'[u].status = "ACTIVE" =>
           <<u, user'[u].phone>> \in proved

\* Whatever made it active, an active account has such a phone (docs/DECISIONES.md:165).
ActivePhoneProven ==
    \A u \in Users : user[u].status = "ACTIVE" => <<u, user[u].phone>> \in proved

Overwriting(r) == proc[r].stage \in {"saving", "editing", "ruling"} /\ proc'[r].stage = "idle"

\* An answered code never ends a pause or an archive that came while it was
\* being answered: only the handlers that write blindly change those statuses.
PauseStays ==
    \A u \in Users : user[u].status \in {"PAUSED", "ARCHIVED"} =>
         \/ user'[u] = user[u]
         \/ \E r \in Requests : Overwriting(r) /\ proc[r].user = u

=============================================================================
