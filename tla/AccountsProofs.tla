--------------------------- MODULE AccountsProofs ---------------------------
(***************************************************************************)
(* What Accounts keeps, for any users, codes, phones and requests.         *)
(***************************************************************************)
EXTENDS Accounts, TLAPS

\* What the theorems assume of the constants.
Parameters == MaxAttempts \in Nat /\ Targets \subseteq Statuses

\* The phone a code was sent to and whom it answers for, while it can be answered.
OwnedCode(c) ==
    c.status \in {"OPEN", "CONSUMED"} => c.user \in Users /\ c.phone \in Phones

Owned(codes) == \A k \in Codes : OwnedCode(codes[k])

Listed(row) == row.status \notin {"ABSENT", "DELETED"} => row.phone \in Phones

\* The stages at which a request works for a user, and for a phone.
AtUser == Issuing \union {"discarding", "consuming", "accepted", "signed", "saving",
                            "editing", "ruling"}
AtPhone == Issuing \union {"inserting", "consuming", "accepted", "saving", "editing"}

\* The user and phone a request works for; while it compares a code, that it is
\* the code's user and phone, and that there was an attempt left; once the code
\* is accepted, that it answered from that phone.
Carries(p, codes, known) ==
    /\ p.stage \in AtUser => p.user \in Users
    /\ p.stage \in AtPhone => p.phone \in Phones
    /\ p.stage \in {"sending", "consuming"} => p.code \in Codes
    /\ p.stage = "consuming" =>
          /\ p.attempts < MaxAttempts
          /\ codes[p.code].status # "ABSENT"
          /\ codes[p.code].status = "OPEN" =>
                codes[p.code].user = p.user /\ codes[p.code].phone = p.phone
    /\ p.stage = "accepted" => <<p.user, p.phone>> \in known

IInv ==
    /\ TypeOK
    /\ \A u \in Users : Listed(user[u])
    /\ Owned(code)
    /\ \A r \in Requests : Carries(proc[r], code, proved)

\* A code is made once, and keeps its user and phone while it is open.
CodeKept(old, new) ==
    old.status # "ABSENT" =>
        /\ new.status # "ABSENT"
        /\ new.status = "OPEN" =>
              old.status = "OPEN" /\ new.user = old.user /\ new.phone = old.phone

-----------------------------------------------------------------------------

LEMMA InitIInv == Parameters /\ Init => IInv
  <1> SUFFICES ASSUME Parameters, Init PROVE IInv
    OBVIOUS
  <1> USE DEF Parameters, Init, Idle, NoRow, NoCode
  <1>1. TypeOK
    BY DEF TypeOK, Row, Code, Proc, Stages, Statuses, Purposes
  <1>2. Owned(code) /\ \A u \in Users : Listed(user[u])
    BY DEF Owned, OwnedCode, Listed
  <1>3. \A r \in Requests : Carries(proc[r], code, proved)
    BY DEF Carries, AtUser, AtPhone, Issuing
  <1> QED
    BY <1>1, <1>2, <1>3 DEF IInv

-----------------------------------------------------------------------------
(* Steps by what they write.                                               *)

\* A step of one request.
LEMMA RequestStep ==
    ASSUME IInv, NEW r \in Requests, NEW p \in Proc,
           proc' = [proc EXCEPT ![r] = p], Carries(p, code', proved'),
           user' \in [Users -> Row], \A u \in Users : Listed(user'[u]),
           code' \in [Codes -> Code], Owned(code'),
           \A k \in Codes : CodeKept(code[k], code'[k]),
           lapsed' \subseteq Users, cooling' \subseteq Users \X Purposes,
           proved' \subseteq Users \X Phones, proved \subseteq proved'
    PROVE  IInv'
  <1> USE DEF IInv
  <1>1. /\ proc'[r] = p /\ proc' \in [Requests -> Proc]
        /\ \A q \in Requests \ {r} : proc'[q] = proc[q]
    BY DEF TypeOK
  <1>2. TypeOK'
    BY <1>1 DEF TypeOK
  <1>3. ASSUME NEW q \in Requests \ {r} PROVE Carries(proc'[q], code', proved')
    BY <1>1 DEF Carries, CodeKept
  <1> QED
    BY <1>1, <1>2, <1>3 DEF Owned, Listed

\* A step of no request.
LEMMA OutsideStep ==
    ASSUME IInv, UNCHANGED <<proc, proved>>,
           user' \in [Users -> Row], \A u \in Users : Listed(user'[u]),
           code' \in [Codes -> Code], Owned(code'),
           \A k \in Codes : CodeKept(code[k], code'[k]),
           lapsed' \subseteq Users, cooling' \subseteq Users \X Purposes
    PROVE  IInv'
  <1> USE DEF IInv
  <1>1. TypeOK'
    BY DEF TypeOK
  <1>2. ASSUME NEW q \in Requests PROVE Carries(proc'[q], code', proved')
    BY DEF Carries, CodeKept
  <1> QED
    BY <1>1, <1>2 DEF Owned, Listed

\* A step of one request that writes neither users nor codes.
LEMMA QuietStep ==
    ASSUME IInv, NEW r \in Requests, NEW p \in Proc,
           proc' = [proc EXCEPT ![r] = p], Carries(p, code, proved),
           UNCHANGED <<user, code, proved>>,
           lapsed' \subseteq Users, cooling' \subseteq Users \X Purposes
    PROVE  IInv'
  <1>1. \A k \in Codes : CodeKept(code[k], code'[k])
    BY DEF CodeKept
  <1> QED
    BY <1>1, RequestStep DEF IInv, TypeOK

LEMMA IdleCarries ==
    ASSUME Parameters, NEW codes, NEW known
    PROVE  Idle \in Proc /\ Carries(Idle, codes, known)
  BY DEF Parameters, Idle, Proc, Stages, Row, NoRow, Statuses, Purposes, Carries, AtUser,
         AtPhone, Issuing

LEMMA GoneCode ==
    ASSUME Parameters PROVE NoCode \in Code /\ Gone \in Code /\ Gone.status = "DELETED"
  <1>1. NoCode \in Code
    BY DEF Parameters, NoCode, Code, Purposes
  <1> QED
    BY <1>1 DEF Gone, Code

\* Deleting users with their codes.
LEMMA DeleteKeeps ==
    ASSUME Parameters, IInv, NEW us \in SUBSET Users, Delete(us)
    PROVE  /\ user' \in [Users -> Row] /\ \A u \in Users : Listed(user'[u])
           /\ code' \in [Codes -> Code] /\ Owned(code')
           /\ \A k \in Codes : CodeKept(code[k], code'[k])
  <1> USE DEF IInv, TypeOK, Delete, Parameters
  <1>1. [NoRow EXCEPT !.status = "DELETED"] \in Row
    BY DEF NoRow, Row, Statuses
  <1>2. Gone \in Code /\ Gone.status = "DELETED"
    BY GoneCode
  <1>3. user' \in [Users -> Row] /\ code' \in [Codes -> Code]
    BY <1>1, <1>2
  <1>4. \A u \in Users : Listed(user'[u])
    BY DEF Listed, NoRow
  <1>5. ASSUME NEW k \in Codes PROVE OwnedCode(code'[k]) /\ CodeKept(code[k], code'[k])
    <2>1. CASE code[k].user \in us
      BY <2>1, <1>2 DEF OwnedCode, CodeKept
    <2>2. CASE code[k].user \notin us
      BY <2>2 DEF Owned, CodeKept
    <2> QED
      BY <2>1, <2>2
  <1> QED
    BY <1>3, <1>4, <1>5 DEF Owned

\* Closing a user's open codes.
LEMMA ClosedKeeps ==
    ASSUME IInv, NEW u, NEW purposes
    PROVE  /\ Closed(u, purposes) \in [Codes -> Code]
           /\ Owned(Closed(u, purposes))
           /\ \A k \in Codes : CodeKept(code[k], Closed(u, purposes)[k])
           /\ \A k \in Codes : Closed(u, purposes)[k].status = "ABSENT" <=> code[k].status = "ABSENT"
  <1> USE DEF IInv, TypeOK
  <1>1. ASSUME NEW k \in Codes
        PROVE  /\ Closed(u, purposes)[k] \in Code
               /\ OwnedCode(Closed(u, purposes)[k])
               /\ CodeKept(code[k], Closed(u, purposes)[k])
               /\ Closed(u, purposes)[k].status = "ABSENT" <=> code[k].status = "ABSENT"
    <2>1. CASE Closed(u, purposes)[k] = code[k]
      BY <2>1 DEF Owned, CodeKept
    <2>2. CASE /\ Closed(u, purposes)[k] = [code[k] EXCEPT !.status = "CONSUMED"]
               /\ code[k].status = "OPEN"
      BY <2>2 DEF Owned, OwnedCode, CodeKept, Code
    <2> QED
      BY <2>1, <2>2 DEF Closed
  <1> QED
    BY <1>1 DEF Closed, Owned

\* Starting to issue a code.
LEMMA IssueStarts ==
    ASSUME Parameters, IInv, NEW r \in Requests, NEW u \in Users, NEW row \in Row,
           NEW purpose \in Purposes, NEW phone \in Phones,
           NEW for \in {"register", "profile", "other"}, NEW codes, NEW known,
           StartIssue(r, u, row, purpose, phone, for)
    PROVE  \E p \in Proc : proc' = [proc EXCEPT ![r] = p] /\ Carries(p, codes, known)
  <1> DEFINE p == [Idle EXCEPT !.stage = "cooling", !.for = for, !.user = u, !.row = row,
                               !.purpose = purpose, !.phone = phone]
  <1>1. p \in Proc
    BY IdleCarries DEF Proc, Stages, Issuing
  <1>2. Carries(p, codes, known)
    BY DEF Idle, Carries, AtUser, AtPhone, Issuing
  <1>3. proc' = [proc EXCEPT ![r] = p]
    BY DEF StartIssue, Become
  <1> HIDE DEF p
  <1> QED
    BY <1>1, <1>2, <1>3

-----------------------------------------------------------------------------
(* ChallengeService.issue.                                                 *)

LEMMA IssueCooldownStep ==
    ASSUME Parameters, IInv, NEW r \in Requests, IssueCooldown(r) PROVE IInv'
  <1> USE DEF IssueCooldown, Records
  <1>1. /\ proc[r] \in Proc /\ proc[r].user \in Users /\ proc[r].phone \in Phones
        /\ proc[r].stage = "cooling"
    BY DEF IInv, TypeOK, Carries, AtUser, AtPhone, Issuing
  <1>2. lapsed' \subseteq Users /\ cooling' \subseteq Users \X Purposes
    BY <1>1 DEF IInv, TypeOK, Proc
  <1>3. CASE Done(r)
    BY <1>2, <1>3, IdleCarries, QuietStep DEF Done, Become
  <1>4. CASE Go(r, "discarding")
    <2>1. [proc[r] EXCEPT !.stage = "discarding"] \in Proc
      BY <1>1 DEF Proc, Stages
    <2>2. Carries([proc[r] EXCEPT !.stage = "discarding"], code, proved)
      BY <1>1 DEF Carries, Proc, AtUser, AtPhone, Issuing
    <2> QED
      BY <1>2, <1>4, <2>1, <2>2, QuietStep DEF Go, Become
  <1>5. CASE Become(r, Proceeding(r))
    <2>1. NoRow \in Row /\ OfPhone(proc[r].row) \in Row
      BY <1>1 DEF NoRow, OfPhone, Row, Statuses, Proc
    <2>2. Proceeding(r) \in Proc
      BY <1>1, <2>1 DEF Proceeding, Proc, Stages, Issuing
    <2>3. Carries(Proceeding(r), code, proved)
      BY <1>1 DEF Carries, Proceeding, Proc, AtUser, AtPhone, Issuing
    <2> QED
      BY <1>2, <1>5, <2>2, <2>3, QuietStep DEF Become
  <1> QED
    BY <1>3, <1>4, <1>5

LEMMA IssueCreateStep ==
    ASSUME Parameters, IInv, NEW r \in Requests, NEW k \in Codes, IssueCreate(r, k) PROVE IInv'
  <1> USE DEF IssueCreate, Records, Surroundings
  <1>1. /\ proc[r] \in Proc /\ proc[r].user \in Users /\ proc[r].phone \in Phones
        /\ proc[r].stage = "creating"
    BY DEF IInv, TypeOK, Carries, AtUser, AtPhone, Issuing
  <1>2. lapsed' \subseteq Users /\ cooling' \subseteq Users \X Purposes
    BY DEF IInv, TypeOK
  <1>3. CASE UNCHANGED code /\ Done(r)
    BY <1>2, <1>3, IdleCarries, QuietStep DEF Done, Become
  <1>4. CASE UNCHANGED code /\ Go(r, "discarding")
    <2>1. [proc[r] EXCEPT !.stage = "discarding"] \in Proc
      BY <1>1 DEF Proc, Stages
    <2>2. Carries([proc[r] EXCEPT !.stage = "discarding"], code, proved)
      BY <1>1 DEF Carries, Proc, AtUser, AtPhone, Issuing
    <2> QED
      BY <1>2, <1>4, <2>1, <2>2, QuietStep DEF Go, Become
  <1>5. CASE Exists(proc[r].user)
    <2> DEFINE new == [NoCode EXCEPT !.status = "OPEN", !.user = proc[r].user,
                                     !.purpose = proc[r].purpose, !.phone = proc[r].phone]
               old == Closed(proc[r].user, {proc[r].purpose})
               p == [proc[r] EXCEPT !.stage = "sending", !.code = k]
    <2>1. code' = [old EXCEPT ![k] = new] /\ proc' = [proc EXCEPT ![r] = p]
      BY <1>5 DEF Become
    <2>2. new \in Code /\ OwnedCode(new)
      BY <1>1, GoneCode DEF Code, Proc, OwnedCode
    <2>3. old \in [Codes -> Code] /\ Owned(old) /\ \A j \in Codes : CodeKept(code[j], old[j])
      BY ClosedKeeps
    <2>4. p \in Proc /\ Carries(p, code', proved')
      BY <1>1 DEF Proc, Stages, Issuing, Carries, AtUser, AtPhone
    <2> HIDE DEF new, old, p
    <2>5. code' \in [Codes -> Code] /\ Owned(code')
      BY <2>1, <2>2, <2>3 DEF Owned
    <2>6. \A j \in Codes : CodeKept(code[j], code'[j])
      BY <2>1, <2>3 DEF CodeKept
    <2> QED
      BY <1>2, <2>1, <2>4, <2>5, <2>6, RequestStep DEF IInv, TypeOK
  <1> QED
    BY <1>3, <1>4, <1>5

LEMMA IssueSentStep ==
    ASSUME Parameters, IInv, NEW r \in Requests, IssueSent(r) PROVE IInv'
  <1> USE DEF IssueSent, Records, Surroundings
  <1>1. /\ proc[r] \in Proc /\ proc[r].user \in Users /\ proc[r].phone \in Phones
        /\ proc[r].stage = "sending"
    BY DEF IInv, TypeOK, Carries, AtUser, AtPhone, Issuing
  <1>2. lapsed' \subseteq Users /\ cooling' \subseteq Users \X Purposes
    BY DEF IInv, TypeOK
  <1>3. CASE Done(r)
    BY <1>2, <1>3, IdleCarries, QuietStep DEF Done, Become
  <1>4. CASE Go(r, "saving")
    <2>1. [proc[r] EXCEPT !.stage = "saving"] \in Proc
      BY <1>1 DEF Proc, Stages
    <2>2. Carries([proc[r] EXCEPT !.stage = "saving"], code, proved)
      BY <1>1 DEF Carries, Proc, AtUser, AtPhone, Issuing
    <2> QED
      BY <1>2, <1>4, <2>1, <2>2, QuietStep DEF Go, Become
  <1> QED
    BY <1>3, <1>4

LEMMA IssueFailsStep ==
    ASSUME Parameters, IInv, NEW r \in Requests, IssueFails(r) PROVE IInv'
  <1> USE DEF IssueFails, Records
  <1>1. /\ proc[r] \in Proc /\ proc[r].user \in Users /\ proc[r].phone \in Phones
        /\ proc[r].stage = "sending" /\ proc[r].code \in Codes
    BY DEF IInv, TypeOK, Carries, AtUser, AtPhone, Issuing
  <1>2. lapsed' \subseteq Users /\ cooling' \subseteq Users \X Purposes
    BY DEF IInv, TypeOK
  <1>3. code' \in [Codes -> Code] /\ Owned(code')
    BY <1>1, GoneCode DEF IInv, TypeOK, Owned, OwnedCode
  <1>4. \A k \in Codes : CodeKept(code[k], code'[k])
    BY <1>1, GoneCode DEF IInv, TypeOK, CodeKept
  <1>5. CASE Done(r)
    BY <1>2, <1>3, <1>4, <1>5, IdleCarries, RequestStep DEF Done, Become, IInv, TypeOK
  <1>6. CASE Go(r, "discarding")
    <2>1. [proc[r] EXCEPT !.stage = "discarding"] \in Proc
      BY <1>1 DEF Proc, Stages
    <2>2. Carries([proc[r] EXCEPT !.stage = "discarding"], code', proved')
      BY <1>1 DEF Carries, Proc, AtUser, AtPhone, Issuing
    <2> QED
      BY <1>2, <1>3, <1>4, <1>6, <2>1, <2>2, RequestStep DEF Go, Become, IInv, TypeOK
  <1> QED
    BY <1>5, <1>6

-----------------------------------------------------------------------------
(* AuthService: registration and verification.                             *)

LEMMA RegisterStep ==
    ASSUME Parameters, IInv, NEW r \in Requests, NEW p \in Phones, Register(r, p) PROVE IInv'
  <1> DEFINE late == {u \in Lapsed : user[u].phone = p}
             q == [Idle EXCEPT !.stage = "inserting", !.phone = p]
  <1>1. /\ Delete(late) /\ UNCHANGED <<lapsed, cooling, proved>>
        /\ proc' = [proc EXCEPT ![r] = q] \/ proc' = proc
    BY DEF Register, Surroundings, Records, Become
  <1>2. late \in SUBSET Users
    BY DEF Lapsed
  <1>3. q \in Proc /\ Carries(q, code', proved')
    BY IdleCarries DEF Proc, Stages, Carries, AtUser, AtPhone, Issuing
  <1>4. lapsed' \subseteq Users /\ cooling' \subseteq Users \X Purposes
        /\ proved' \subseteq Users \X Phones
    BY <1>1 DEF IInv, TypeOK
  <1> HIDE DEF late, q
  <1> QED
    BY <1>1, <1>2, <1>3, <1>4, DeleteKeeps, RequestStep, OutsideStep

LEMMA RegisterInsertStep ==
    ASSUME Parameters, IInv, NEW r \in Requests, NEW u \in Users, RegisterInsert(r, u) PROVE IInv'
  <1> DEFINE row == [NoRow EXCEPT !.status = "PENDING_VERIFICATION", !.phone = proc[r].phone,
                                  !.temporary = TRUE]
  <1> USE DEF RegisterInsert, Records, Surroundings
  <1>1. proc[r] \in Proc /\ proc[r].phone \in Phones
    BY DEF IInv, TypeOK, Carries, AtPhone
  <1>2. lapsed' \subseteq Users /\ cooling' \subseteq Users \X Purposes
    BY DEF IInv, TypeOK
  <1>3. row \in Row /\ Listed(row)
    BY <1>1 DEF NoRow, Row, Statuses, Listed
  <1>4. CASE Done(r) /\ UNCHANGED user
    BY <1>2, <1>4, IdleCarries, QuietStep DEF Done, Become
  <1>5. CASE /\ user' = [user EXCEPT ![u] = row]
             /\ StartIssue(r, u, row, "VERIFY_PHONE", proc[r].phone, "register")
    <2> HIDE DEF row
    <2>1. user' \in [Users -> Row] /\ \A v \in Users : Listed(user'[v])
      BY <1>3, <1>5 DEF IInv, TypeOK
    <2>2. \E p \in Proc : proc' = [proc EXCEPT ![r] = p] /\ Carries(p, code', proved')
      BY <1>1, <1>3, <1>5, IssueStarts DEF Purposes
    <2>3. \A k \in Codes : CodeKept(code[k], code'[k])
      BY DEF CodeKept
    <2> QED
      BY <1>2, <2>1, <2>2, <2>3, RequestStep DEF IInv, TypeOK
  <1> QED
    BY <1>4, <1>5

LEMMA DiscardStep ==
    ASSUME Parameters, IInv, NEW r \in Requests, Discard(r) PROVE IInv'
  <1> DEFINE us == {u \in {proc[r].user} : Discards(u)}
  <1>1. Delete(us) /\ UNCHANGED <<lapsed, cooling, proved>> /\ proc' = [proc EXCEPT ![r] = Idle]
    BY DEF Discard, Surroundings, Records, Done, Become
  <1>2. us \in SUBSET Users
    BY DEF Discard, IInv, Carries, AtUser
  <1>3. lapsed' \subseteq Users /\ cooling' \subseteq Users \X Purposes
        /\ proved' \subseteq Users \X Phones
    BY <1>1 DEF IInv, TypeOK
  <1> HIDE DEF us
  <1> QED
    BY <1>1, <1>2, <1>3, DeleteKeeps, RequestStep, IdleCarries

\* The three handlers that issue a code to an account unless its registration
\* is over.
LEMMA IssueOrDelete ==
    ASSUME Parameters, IInv, NEW r \in Requests, NEW u \in Users, NEW purpose \in Purposes,
           UNCHANGED <<lapsed, cooling, proved>>, Exists(u),
           \/ Delete({u}) /\ UNCHANGED proc
           \/ DeleteNone /\ StartIssue(r, u, user[u], purpose, user[u].phone, "other")
    PROVE  IInv'
  <1>1. lapsed' \subseteq Users /\ cooling' \subseteq Users \X Purposes
        /\ proved' \subseteq Users \X Phones
    BY DEF IInv, TypeOK
  <1>2. CASE Delete({u}) /\ UNCHANGED proc
    BY <1>1, <1>2, DeleteKeeps, OutsideStep
  <1>3. CASE DeleteNone /\ StartIssue(r, u, user[u], purpose, user[u].phone, "other")
    <2>1. user[u] \in Row /\ user[u].phone \in Phones
      BY DEF IInv, TypeOK, Exists, Listed
    <2>2. \E p \in Proc : proc' = [proc EXCEPT ![r] = p] /\ Carries(p, code, proved)
      BY <1>3, <2>1, IssueStarts
    <2> QED
      BY <1>1, <1>3, <2>2, QuietStep DEF DeleteNone
  <1> QED
    BY <1>2, <1>3

LEMMA ResendStep ==
    ASSUME Parameters, IInv, NEW r \in Requests, NEW k \in Codes, Resend(r, k) PROVE IInv'
  <1>1. code[k].user \in Users
    BY DEF Resend, IInv, Owned, OwnedCode
  <1> QED
    BY <1>1, IssueOrDelete DEF Resend, Surroundings, Records, Exists, Purposes

LEMMA LoginPendingStep ==
    ASSUME Parameters, IInv, NEW r \in Requests, NEW u \in Users, LoginPending(r, u) PROVE IInv'
  BY IssueOrDelete DEF LoginPending, Surroundings, Records, Exists, Purposes

LEMMA ForgotPasswordStep ==
    ASSUME Parameters, IInv, NEW r \in Requests, NEW u \in Users, ForgotPassword(r, u) PROVE IInv'
  BY IssueOrDelete DEF ForgotPassword, Surroundings, Records, Exists, Purposes

LEMMA SendPasswordResetStep ==
    ASSUME Parameters, IInv, NEW r \in Requests, NEW u \in Users, SendPasswordReset(r, u)
    PROVE  IInv'
  BY IssueOrDelete DEF SendPasswordReset, Surroundings, Records, Purposes, DeleteNone

-----------------------------------------------------------------------------
(* ChallengeService.consume, and what follows it.                          *)

LEMMA ReadingCarries ==
    ASSUME Parameters, IInv, NEW k \in Codes, NEW right \in BOOLEAN, Usable(k)
    PROVE  Reading(k, right) \in Proc /\ Carries(Reading(k, right), code, proved)
  <1>1. /\ code[k] \in Code /\ code[k].user \in Users /\ code[k].phone \in Phones
        /\ code[k].attempts < MaxAttempts
    BY DEF Usable, IInv, TypeOK, Owned, OwnedCode
  <1>2. user[code[k].user] \in Row
    BY <1>1 DEF IInv, TypeOK
  <1>3. Reading(k, right) \in Proc
    BY <1>1, <1>2, IdleCarries DEF Reading, Proc, Stages, Code
  <1>4. Carries(Reading(k, right), code, proved)
    BY <1>1 DEF Reading, Idle, Carries, AtUser, AtPhone, Issuing, Usable
  <1> QED
    BY <1>3, <1>4

LEMMA AnswerStep ==
    ASSUME Parameters, IInv, NEW r \in Requests, NEW k \in Codes, NEW right \in BOOLEAN,
           Answer(r, k, right)
    PROVE  IInv'
  BY ReadingCarries, QuietStep DEF Answer, Become, Surroundings, Records, IInv, TypeOK

\* What a request that compares a code knows of it.
LEMMA Consuming ==
    ASSUME Parameters, IInv, NEW r \in Requests, proc[r].stage = "consuming"
    PROVE  /\ proc[r] \in Proc /\ proc[r].code \in Codes /\ code[proc[r].code] \in Code
           /\ proc[r].attempts < MaxAttempts
           /\ proc[r].user \in Users /\ proc[r].phone \in Phones
           /\ code[proc[r].code].status = "OPEN" =>
                 /\ code[proc[r].code].user = proc[r].user
                 /\ code[proc[r].code].phone = proc[r].phone
  BY DEF IInv, TypeOK, Carries, AtUser, AtPhone

LEMMA ConsumeAgainStep ==
    ASSUME Parameters, IInv, NEW r \in Requests, ConsumeAgain(r) PROVE IInv'
  <1> USE DEF ConsumeAgain, Surroundings, Records, Become
  <1>1. proc[r].code \in Codes /\ proc[r].right \in BOOLEAN
    BY Consuming DEF Proc
  <1>2. lapsed' \subseteq Users /\ cooling' \subseteq Users \X Purposes
    BY DEF IInv, TypeOK
  <1>3. CASE Usable(proc[r].code)
    BY <1>1, <1>2, <1>3, ReadingCarries, QuietStep
  <1>4. CASE ~Usable(proc[r].code)
    BY <1>2, <1>4, IdleCarries, QuietStep DEF Done
  <1> QED
    BY <1>3, <1>4

LEMMA CodeFields ==
    ASSUME NEW c \in Code, NEW n \in 0..MaxAttempts, NEW s \in {"OPEN", "CONSUMED"}
    PROVE  [c EXCEPT !.attempts = n, !.status = s] \in Code
  BY DEF Code

LEMMA AcceptedProc ==
    ASSUME Parameters, NEW p \in Proc
    PROVE  [p EXCEPT !.stage = "accepted", !.code = None, !.attempts = 0] \in Proc
  <1>1. 0 \in 0..MaxAttempts
    BY DEF Parameters
  <1> QED
    BY <1>1 DEF Proc, Stages

LEMMA ConsumeWrongStep ==
    ASSUME Parameters, IInv, NEW r \in Requests, ConsumeWrong(r) PROVE IInv'
  <1> DEFINE k == proc[r].code
             new == [code[k] EXCEPT !.attempts = code[k].attempts + 1,
                        !.status = IF proc[r].attempts + 1 >= MaxAttempts THEN "CONSUMED" ELSE "OPEN"]
  <1> USE DEF ConsumeWrong, Surroundings, Records, Matches
  <1>1. /\ k \in Codes /\ code[k] \in Code /\ code[k].status = "OPEN"
        /\ code[k].attempts < MaxAttempts /\ proc' = [proc EXCEPT ![r] = Idle]
    BY Consuming DEF Done, Become
  <1>2. lapsed' \subseteq Users /\ cooling' \subseteq Users \X Purposes
    BY DEF IInv, TypeOK
  <1>3. code' = [code EXCEPT ![k] = new]
    BY <1>1 DEF IInv, TypeOK, Code
  <1>4. new \in Code
    <2>1. code[k].attempts + 1 \in 0..MaxAttempts
      BY <1>1 DEF Code, Parameters
    <2> QED
      BY <1>1, <2>1, CodeFields
  <1>5. OwnedCode(new) /\ CodeKept(code[k], new)
    <2>1. OwnedCode(code[k])
      BY <1>1 DEF IInv, Owned
    <2> QED
      BY <1>1, <2>1 DEF Code, OwnedCode, CodeKept
  <1> HIDE DEF k, new
  <1>6. code' \in [Codes -> Code] /\ Owned(code') /\ \A j \in Codes : CodeKept(code[j], code'[j])
    BY <1>1, <1>3, <1>4, <1>5 DEF IInv, TypeOK, Owned, CodeKept
  <1> QED
    BY <1>1, <1>2, <1>6, IdleCarries, RequestStep DEF IInv, TypeOK

LEMMA ConsumeRightStep ==
    ASSUME Parameters, IInv, NEW r \in Requests, ConsumeRight(r) PROVE IInv'
  <1> DEFINE k == proc[r].code
             new == [code[k] EXCEPT !.status = "CONSUMED"]
             p == [proc[r] EXCEPT !.stage = "accepted", !.code = None, !.attempts = 0]
  <1> USE DEF ConsumeRight, Surroundings, Records, Matches
  <1>1. /\ k \in Codes /\ code[k] \in Code /\ code[k].status = "OPEN"
        /\ code[k].user \in Users /\ code[k].phone \in Phones
        /\ code[k].user = proc[r].user /\ code[k].phone = proc[r].phone
        /\ proc[r] \in Proc /\ proc' = [proc EXCEPT ![r] = p]
    BY Consuming DEF Become
  <1>2. /\ lapsed' \subseteq Users /\ cooling' \subseteq Users \X Purposes
        /\ proved' = proved \union {<<proc[r].user, proc[r].phone>>}
        /\ proved' \subseteq Users \X Phones
    BY <1>1 DEF IInv, TypeOK
  <1>3. code' = [code EXCEPT ![k] = new]
    BY <1>1 DEF IInv, TypeOK
  <1>4. new \in Code /\ OwnedCode(new) /\ CodeKept(code[k], new)
    BY <1>1 DEF Code, OwnedCode, CodeKept
  <1>5. p \in Proc /\ Carries(p, code', proved')
    <2>1. p \in Proc
      BY <1>1, AcceptedProc
    <2>2. p.stage = "accepted" /\ p.user = proc[r].user /\ p.phone = proc[r].phone
      BY <1>1 DEF Proc
    <2> HIDE DEF k, p
    <2> QED
      BY <1>1, <1>2, <2>1, <2>2 DEF Carries, AtUser, AtPhone
  <1> HIDE DEF k, new, p
  <1>6. code' \in [Codes -> Code] /\ Owned(code') /\ \A j \in Codes : CodeKept(code[j], code'[j])
    BY <1>1, <1>3, <1>4 DEF IInv, TypeOK, Owned, CodeKept
  <1> QED
    BY <1>1, <1>2, <1>5, <1>6, RequestStep DEF IInv, TypeOK

\* A handler that ends with one user's row written.
LEMMA WriteStep ==
    ASSUME Parameters, IInv, NEW r \in Requests, NEW u \in Users, NEW row \in Row, Listed(row),
           user' = [user EXCEPT ![u] = row], proc' = [proc EXCEPT ![r] = Idle],
           code' = code \/ \E purposes : code' = Closed(u, purposes),
           UNCHANGED <<lapsed, cooling, proved>>
    PROVE  IInv'
  <1>1. user' \in [Users -> Row] /\ \A v \in Users : Listed(user'[v])
    BY DEF IInv, TypeOK
  <1>2. code' \in [Codes -> Code] /\ Owned(code') /\ \A k \in Codes : CodeKept(code[k], code'[k])
    BY ClosedKeeps DEF IInv, TypeOK, CodeKept
  <1> QED
    BY <1>1, <1>2, IdleCarries, RequestStep DEF IInv, TypeOK

\* A handler that ends with its user deleted, or with nothing written.
LEMMA EndStep ==
    ASSUME Parameters, IInv, NEW r \in Requests, NEW us \in SUBSET Users,
           Delete(us) \/ DeleteNone, proc' = [proc EXCEPT ![r] = Idle],
           UNCHANGED <<lapsed, cooling, proved>>
    PROVE  IInv'
  <1>1. CASE Delete(us)
    BY <1>1, DeleteKeeps, IdleCarries, RequestStep DEF IInv, TypeOK
  <1>2. CASE DeleteNone
    BY <1>2, IdleCarries, QuietStep DEF IInv, TypeOK, DeleteNone
  <1> QED
    BY <1>1, <1>2

\* Activating an account that has a phone.
LEMMA ActivateStep ==
    ASSUME Parameters, IInv, NEW r \in Requests, NEW u \in Users, Exists(u),
           user' = Activated(u), UNCHANGED code, proc' = [proc EXCEPT ![r] = Idle],
           UNCHANGED <<lapsed, cooling, proved>>
    PROVE  IInv'
  <1> DEFINE row == [user[u] EXCEPT !.status = "ACTIVE", !.verified = TRUE, !.temporary = FALSE]
  <1>1. user[u] \in Row /\ user[u].phone \in Phones
    BY DEF IInv, TypeOK, Exists, Listed
  <1>2. row \in Row /\ Listed(row) /\ user' = [user EXCEPT ![u] = row]
    BY <1>1 DEF Row, Statuses, Listed, Activated, IInv, TypeOK
  <1> HIDE DEF row
  <1> QED
    BY <1>2, WriteStep

LEMMA VerifyWriteStep ==
    ASSUME Parameters, IInv, NEW r \in Requests, VerifyWrite(r) PROVE IInv'
  <1>1. proc[r].user \in Users
    BY DEF VerifyWrite, IInv, Carries, AtUser
  <1>2. {proc[r].user} \intersect Lapsed \in SUBSET Users
    BY DEF Lapsed
  <1> QED
    BY <1>1, <1>2, ActivateStep, EndStep
    DEF VerifyWrite, VerifyMatches, Exists, Done, Become, Surroundings, Records

LEMMA ResetWriteStep ==
    ASSUME Parameters, IInv, NEW r \in Requests, ResetWrite(r) PROVE IInv'
  <1>1. proc[r].user \in Users
    BY DEF ResetWrite, IInv, Carries, AtUser
  <1>2. {proc[r].user} \intersect Lapsed \in SUBSET Users
    BY DEF Lapsed
  <1> QED
    BY <1>1, <1>2, ActivateStep, EndStep
    DEF ResetWrite, ResetMatches, Resettable, Exists, Done, Become, Surroundings, Records

-----------------------------------------------------------------------------
(* updateProfile and AdminUsersService.                                    *)

LEMMA OfPhoneRow == ASSUME NEW row \in Row PROVE OfPhone(row) \in Row
  BY DEF OfPhone, NoRow, Row, Statuses

LEMMA WithPhoneRow ==
    ASSUME IInv, NEW u \in Users, NEW old, NEW p \in Phones
    PROVE  WithPhone(u, old, p) \in Row /\ Listed(WithPhone(u, old, p))
  <1>1. user[u] \in Row
    BY DEF IInv, TypeOK
  <1>2. CASE p = old.phone
    BY <1>1, <1>2 DEF WithPhone, Row, Listed
  <1>3. CASE p # old.phone
    <2>1. [user[u] EXCEPT !.phone = p, !.verified = FALSE, !.temporary = FALSE,
                          !.status = "PENDING_VERIFICATION"] \in Row
      BY <1>1 DEF Row, Statuses
    <2> QED
      BY <1>1, <1>3, <2>1 DEF WithPhone, Row, Listed
  <1> QED
    BY <1>2, <1>3

LEMMA SignInStep ==
    ASSUME Parameters, IInv, NEW r \in Requests, NEW u \in Users, SignIn(r, u) PROVE IInv'
  <1> DEFINE p == [Idle EXCEPT !.stage = "signed", !.user = u]
  <1>1. p \in Proc /\ Carries(p, code, proved)
    BY IdleCarries DEF Proc, Stages, Carries, AtUser, AtPhone, Issuing
  <1> QED
    BY <1>1, QuietStep DEF SignIn, Become, Surroundings, Records, IInv, TypeOK

LEMMA ProfileReadStep ==
    ASSUME Parameters, IInv, NEW r \in Requests, NEW p \in Phones, ProfileRead(r, p) PROVE IInv'
  <1> DEFINE u == proc[r].user
             q == [proc[r] EXCEPT !.stage = "saving", !.row = OfPhone(user[u]), !.phone = p]
  <1> USE DEF ProfileRead, Surroundings, Records
  <1>1. u \in Users /\ proc[r] \in Proc
    BY DEF IInv, TypeOK, Carries, AtUser
  <1>2. user[u] \in Row /\ lapsed' \subseteq Users /\ cooling' \subseteq Users \X Purposes
    BY <1>1 DEF IInv, TypeOK
  <1>3. CASE Done(r)
    BY <1>2, <1>3, IdleCarries, QuietStep DEF Done, Become
  <1>4. CASE StartIssue(r, u, user[u], "VERIFY_PHONE", p, "profile")
    <2>1. \E x \in Proc : proc' = [proc EXCEPT ![r] = x] /\ Carries(x, code, proved)
      BY <1>1, <1>2, <1>4, IssueStarts DEF Purposes
    <2> QED
      BY <1>2, <2>1, QuietStep
  <1>5. CASE Become(r, q)
    <2>1. q \in Proc
      BY <1>1, <1>2, OfPhoneRow DEF Proc, Stages
    <2>2. q.stage = "saving" /\ q.user = u /\ q.phone = p
      BY <1>1 DEF Proc
    <2> HIDE DEF u, q
    <2>3. Carries(q, code, proved)
      BY <1>1, <2>2 DEF Carries, AtUser, AtPhone, Issuing
    <2> QED
      BY <1>2, <1>5, <2>1, <2>3, QuietStep DEF Become
  <1> QED
    BY <1>3, <1>4, <1>5

LEMMA ProfileSaveStep ==
    ASSUME Parameters, IInv, NEW r \in Requests, ProfileSave(r) PROVE IInv'
  <1> USE DEF ProfileSave, Surroundings, Records, Done, Become
  <1>1. proc[r].user \in Users /\ proc[r].phone \in Phones
    BY DEF IInv, Carries, AtUser, AtPhone
  <1>2. CASE UNCHANGED user
    BY <1>2, EndStep DEF DeleteNone
  <1>3. CASE user' = [user EXCEPT ![proc[r].user] =
                        WithPhone(proc[r].user, proc[r].row, proc[r].phone)]
    <2> DEFINE row == WithPhone(proc[r].user, proc[r].row, proc[r].phone)
    <2>1. row \in Row /\ Listed(row)
      BY <1>1, WithPhoneRow
    <2>2. /\ proc' = [proc EXCEPT ![r] = Idle] /\ UNCHANGED <<code, lapsed, cooling, proved>>
          /\ user' = [user EXCEPT ![proc[r].user] = row]
      BY <1>3
    <2> HIDE DEF row
    <2> QED
      BY <1>1, <2>1, <2>2, WriteStep
  <1> QED
    BY <1>2, <1>3

LEMMA AdminCreateStep ==
    ASSUME Parameters, IInv, NEW r \in Requests, NEW u \in Users, NEW p \in Phones,
           NEW s \in Statuses, AdminCreate(r, u, p, s)
    PROVE  IInv'
  <1> DEFINE row == [NoRow EXCEPT !.status = s, !.phone = p]
  <1>1. user' = [user EXCEPT ![u] = row] /\ UNCHANGED <<code, proc, lapsed, cooling, proved>>
    BY DEF AdminCreate, Surroundings, Records
  <1>2. row \in Row /\ Listed(row)
    BY DEF NoRow, Row, Listed
  <1> HIDE DEF row
  <1> QED
    BY <1>1, <1>2, OutsideStep DEF IInv, TypeOK, CodeKept

LEMMA AdminReadStep ==
    ASSUME Parameters, IInv, NEW r \in Requests, NEW u \in Users, AdminRead(r, u) PROVE IInv'
  <1> USE DEF AdminRead, Surroundings, Records, Become
  <1>1. user[u] \in Row /\ lapsed' \subseteq Users /\ cooling' \subseteq Users \X Purposes
    BY DEF IInv, TypeOK
  <1>2. ASSUME NEW p \in Phones,
               proc' = [proc EXCEPT ![r] = [Idle EXCEPT !.stage = "editing", !.user = u,
                                               !.row = OfPhone(user[u]), !.phone = p]]
        PROVE  IInv'
    <2> DEFINE q == [Idle EXCEPT !.stage = "editing", !.user = u,
                                 !.row = OfPhone(user[u]), !.phone = p]
    <2>1. q \in Proc
      BY <1>1, OfPhoneRow, IdleCarries DEF Proc, Stages
    <2>2. Carries(q, code, proved)
      BY DEF Idle, Carries, AtUser, AtPhone, Issuing
    <2> QED
      BY <1>1, <1>2, <2>1, <2>2, QuietStep
  <1>3. ASSUME NEW s \in Targets,
               proc' = [proc EXCEPT ![r] = [Idle EXCEPT !.stage = "ruling", !.user = u, !.target = s]]
        PROVE  IInv'
    <2> DEFINE q == [Idle EXCEPT !.stage = "ruling", !.user = u, !.target = s]
    <2>1. q \in Proc
      BY IdleCarries DEF Parameters, Proc, Stages
    <2>2. Carries(q, code, proved)
      BY DEF Idle, Carries, AtUser, AtPhone, Issuing
    <2> QED
      BY <1>1, <1>3, <2>1, <2>2, QuietStep
  <1> QED
    BY <1>2, <1>3

LEMMA AdminUpdateStep ==
    ASSUME Parameters, IInv, NEW r \in Requests, AdminUpdate(r) PROVE IInv'
  <1> USE DEF AdminUpdate, Surroundings, Records, Done, Become
  <1>1. proc[r].user \in Users /\ proc[r].phone \in Phones
    BY DEF IInv, Carries, AtUser, AtPhone
  <1>2. CASE DeleteNone
    BY <1>2, EndStep
  <1>3. CASE /\ user' = [user EXCEPT ![proc[r].user] =
                           WithPhone(proc[r].user, proc[r].row, proc[r].phone)]
             /\ code' = code \/ code' = Closed(proc[r].user, Purposes)
    BY <1>1, <1>3, WithPhoneRow, WriteStep
  <1> QED
    BY <1>2, <1>3

LEMMA AdminStatusStep ==
    ASSUME Parameters, IInv, NEW r \in Requests, AdminStatus(r) PROVE IInv'
  <1> DEFINE u == proc[r].user
             s == proc[r].target
             row == [user[u] EXCEPT !.status = s, !.archived = (s = "ARCHIVED"),
                        !.temporary = (s = "PENDING_VERIFICATION" /\ user[u].temporary)]
  <1> USE DEF AdminStatus, Surroundings, Records, Done, Become
  <1>1. u \in Users /\ s \in Statuses /\ user[u] \in Row
    BY DEF IInv, TypeOK, Carries, AtUser, Proc
  <1>2. CASE DeleteNone
    BY <1>2, EndStep
  <1>3. CASE Exists(u)
    <2>1. user' = [user EXCEPT ![u] = row]
      BY <1>1, <1>3 DEF IInv, TypeOK, Row
    <2>2. row \in Row
      BY <1>1 DEF Row
    <2>3. user[u].phone \in Phones /\ row.phone = user[u].phone
      BY <1>1, <1>3 DEF Exists, IInv, Listed, Row
    <2>4. code' = code \/ code' = Closed(u, Purposes)
      BY <1>3
    <2>5. proc' = [proc EXCEPT ![r] = Idle] /\ UNCHANGED <<lapsed, cooling, proved>>
      OBVIOUS
    <2> HIDE DEF u, row
    <2> QED
      BY <1>1, <2>1, <2>2, <2>3, <2>4, <2>5, WriteStep DEF Listed
  <1> QED
    BY <1>2, <1>3

-----------------------------------------------------------------------------
(* The worker's purge, the clock and a request that dies.                  *)

LEMMA PurgeExpiredStep ==
    ASSUME Parameters, IInv, PurgeExpired PROVE IInv'
  <1>1. Lapsed \in SUBSET Users
    BY DEF Lapsed
  <1> QED
    BY <1>1, DeleteKeeps, OutsideStep DEF PurgeExpired, Surroundings, Records, IInv, TypeOK

LEMMA ExpiringKeeps ==
    ASSUME IInv, NEW ks \in SUBSET Codes, UNCHANGED <<user, proc, proved>>,
           code' = [k \in Codes |-> IF k \in ks THEN [code[k] EXCEPT !.expired = TRUE] ELSE code[k]],
           lapsed' \subseteq Users, cooling' \subseteq Users \X Purposes
    PROVE  IInv'
  <1>1. ASSUME NEW k \in Codes
        PROVE  code'[k] \in Code /\ OwnedCode(code'[k]) /\ CodeKept(code[k], code'[k])
    <2>1. code[k] \in Code /\ OwnedCode(code[k])
      BY DEF IInv, TypeOK, Owned
    <2>2. CASE k \in ks
      BY <2>1, <2>2 DEF Code, OwnedCode, CodeKept
    <2>3. CASE k \notin ks
      BY <2>1, <2>3 DEF CodeKept
    <2> QED
      BY <2>2, <2>3
  <1>2. code' \in [Codes -> Code] /\ Owned(code')
    BY <1>1 DEF Owned
  <1> QED
    BY <1>1, <1>2, OutsideStep DEF IInv, TypeOK

LEMMA LapseStep ==
    ASSUME Parameters, IInv, NEW u \in Users, Lapse(u) PROVE IInv'
  <1> DEFINE ks == {k \in Codes : code[k].user = u}
  <1>1. ks \in SUBSET Codes
    OBVIOUS
  <1>2. code' = [k \in Codes |-> IF k \in ks THEN [code[k] EXCEPT !.expired = TRUE] ELSE code[k]]
    BY DEF Lapse
  <1> HIDE DEF ks
  <1> QED
    BY <1>1, <1>2, ExpiringKeeps DEF Lapse, Records, IInv, TypeOK

LEMMA ExpireStep ==
    ASSUME Parameters, IInv, NEW k \in Codes, Expire(k) PROVE IInv'
  <1>1. code' = [j \in Codes |-> IF j \in {k} THEN [code[j] EXCEPT !.expired = TRUE] ELSE code[j]]
    BY DEF Expire, IInv, TypeOK
  <1> QED
    BY <1>1, ExpiringKeeps DEF Expire, Surroundings, Records, IInv, TypeOK

LEMMA CoolDownStep ==
    ASSUME Parameters, IInv, NEW key, CoolDown(key) PROVE IInv'
  BY OutsideStep DEF CoolDown, Records, IInv, TypeOK, CodeKept

LEMMA AbandonStep ==
    ASSUME Parameters, IInv, NEW r \in Requests, Abandon(r) PROVE IInv'
  BY EndStep DEF Abandon, Surroundings, Records, Done, Become, DeleteNone

-----------------------------------------------------------------------------
LEMMA NextIInv == Parameters /\ IInv /\ [Next]_vars => IInv'
  <1> SUFFICES ASSUME Parameters, IInv, [Next]_vars PROVE IInv'
    OBVIOUS
  <1>1. ASSUME NEW r \in Requests, Handles(r) PROVE IInv'
    <2>1. CASE \E p \in Phones : Register(r, p) \/ ProfileRead(r, p)
      BY <2>1, RegisterStep, ProfileReadStep
    <2>2. CASE \E u \in Users :
                 \/ RegisterInsert(r, u) \/ LoginPending(r, u) \/ ForgotPassword(r, u)
                 \/ SignIn(r, u) \/ AdminRead(r, u) \/ SendPasswordReset(r, u)
                 \/ \E p \in Phones, s \in Statuses : AdminCreate(r, u, p, s)
      BY <2>2, RegisterInsertStep, LoginPendingStep, ForgotPasswordStep, SignInStep,
         AdminReadStep, SendPasswordResetStep, AdminCreateStep
    <2>3. CASE \E k \in Codes : \/ IssueCreate(r, k) \/ Resend(r, k)
                                \/ \E right \in BOOLEAN : Answer(r, k, right)
      BY <2>3, IssueCreateStep, ResendStep, AnswerStep
    <2>4. CASE IssueCooldown(r) \/ IssueSent(r) \/ IssueFails(r) \/ Discard(r)
      BY <2>4, IssueCooldownStep, IssueSentStep, IssueFailsStep, DiscardStep
    <2>5. CASE ConsumeAgain(r) \/ ConsumeWrong(r) \/ ConsumeRight(r)
      BY <2>5, ConsumeAgainStep, ConsumeWrongStep, ConsumeRightStep
    <2>6. CASE VerifyWrite(r) \/ ResetWrite(r) \/ ProfileSave(r)
      BY <2>6, VerifyWriteStep, ResetWriteStep, ProfileSaveStep
    <2>7. CASE AdminUpdate(r) \/ AdminStatus(r) \/ Abandon(r)
      BY <2>7, AdminUpdateStep, AdminStatusStep, AbandonStep
    <2> QED
      BY <1>1, <2>1, <2>2, <2>3, <2>4, <2>5, <2>6, <2>7 DEF Handles
  <1>2. CASE PurgeExpired
    BY <1>2, PurgeExpiredStep
  <1>3. CASE \E u \in Users : Lapse(u)
    BY <1>3, LapseStep
  <1>4. CASE \E k \in Codes : Expire(k)
    BY <1>4, ExpireStep
  <1>5. CASE \E key \in cooling : CoolDown(key)
    BY <1>5, CoolDownStep
  <1>6. CASE UNCHANGED vars
    BY <1>6 DEF vars, IInv, TypeOK, Owned, Listed
  <1> QED
    BY <1>1, <1>2, <1>3, <1>4, <1>5, <1>6 DEF Next

LEMMA Invariant == ASSUME Parameters PROVE Spec => []IInv
  <1>1. Init => IInv
    BY InitIInv
  <1>2. IInv /\ [Next]_vars => IInv'
    BY NextIInv
  <1> QED
    BY <1>1, <1>2, PTL DEF Spec

\* Users, codes, requests and records keep their types: no code has more than
\* MaxAttempts answers counted, however many requests answer it at once.
THEOREM AccountsTypeCorrect == ASSUME Parameters PROVE Spec => []TypeOK
  <1>1. IInv => TypeOK
    BY DEF IInv
  <1> QED
    BY <1>1, Invariant, PTL

-----------------------------------------------------------------------------
(* Action properties.                                                      *)

\* A step of one request leaves the others where they are.
LEMMA OthersStay ==
    ASSUME IInv, NEW r \in Requests, Handles(r), NEW q \in Requests \ {r}
    PROVE  proc'[q] = proc[q]
  <1> SUFFICES \/ UNCHANGED proc \/ \E p : proc' = [proc EXCEPT ![r] = p]
    BY DEF IInv, TypeOK
  <1> USE DEF Become, Done, Go, StartIssue
  <1>1. CASE \E p \in Phones : Register(r, p) \/ ProfileRead(r, p)
    BY <1>1 DEF Register, ProfileRead
  <1>2. CASE \E u \in Users :
               \/ RegisterInsert(r, u) \/ LoginPending(r, u) \/ ForgotPassword(r, u)
               \/ SignIn(r, u) \/ AdminRead(r, u) \/ SendPasswordReset(r, u)
               \/ \E p \in Phones, s \in Statuses : AdminCreate(r, u, p, s)
    BY <1>2 DEF RegisterInsert, LoginPending, ForgotPassword, SignIn, AdminRead,
                SendPasswordReset, AdminCreate
  <1>3. CASE \E k \in Codes : \/ IssueCreate(r, k) \/ Resend(r, k)
                              \/ \E right \in BOOLEAN : Answer(r, k, right)
    BY <1>3 DEF IssueCreate, Resend, Answer
  <1>4. CASE IssueCooldown(r) \/ IssueSent(r) \/ IssueFails(r) \/ Discard(r)
    BY <1>4 DEF IssueCooldown, IssueSent, IssueFails, Discard
  <1>5. CASE \/ ConsumeAgain(r) \/ ConsumeWrong(r) \/ ConsumeRight(r)
             \/ VerifyWrite(r) \/ ResetWrite(r) \/ ProfileSave(r)
             \/ AdminUpdate(r) \/ AdminStatus(r) \/ Abandon(r)
    BY <1>5 DEF ConsumeAgain, ConsumeWrong, ConsumeRight, VerifyWrite, ResetWrite,
                ProfileSave, AdminUpdate, AdminStatus, Abandon
  <1> QED
    BY <1>1, <1>2, <1>3, <1>4, <1>5 DEF Handles

\* What a request that compares a code, or has it accepted, does next.
LEMMA Answering ==
    ASSUME NEW r \in Requests, Handles(r), proc[r].stage \in {"consuming", "accepted"}
    PROVE  \/ proc[r].stage = "consuming"
              /\ (ConsumeAgain(r) \/ ConsumeWrong(r) \/ ConsumeRight(r))
           \/ proc[r].stage = "accepted" /\ (VerifyWrite(r) \/ ResetWrite(r))
           \/ Abandon(r)
  <1>1. ~\E p \in Phones : Register(r, p) \/ ProfileRead(r, p)
    BY DEF Register, ProfileRead
  <1>2. ~\E u \in Users :
               \/ RegisterInsert(r, u) \/ LoginPending(r, u) \/ ForgotPassword(r, u)
               \/ SignIn(r, u) \/ AdminRead(r, u) \/ SendPasswordReset(r, u)
               \/ \E p \in Phones, s \in Statuses : AdminCreate(r, u, p, s)
    BY DEF RegisterInsert, LoginPending, ForgotPassword, SignIn, AdminRead,
           SendPasswordReset, AdminCreate
  <1>3. ~\E k \in Codes : \/ IssueCreate(r, k) \/ Resend(r, k)
                          \/ \E right \in BOOLEAN : Answer(r, k, right)
    BY DEF IssueCreate, Resend, Answer
  <1>4. ~(IssueCooldown(r) \/ IssueSent(r) \/ IssueFails(r) \/ Discard(r))
    BY DEF IssueCooldown, IssueSent, IssueFails, Discard
  <1>5. ~(ProfileSave(r) \/ AdminUpdate(r) \/ AdminStatus(r))
    BY DEF ProfileSave, AdminUpdate, AdminStatus
  <1>6. ConsumeAgain(r) \/ ConsumeWrong(r) \/ ConsumeRight(r) => proc[r].stage = "consuming"
    BY DEF ConsumeAgain, ConsumeWrong, ConsumeRight
  <1>7. VerifyWrite(r) \/ ResetWrite(r) => proc[r].stage = "accepted"
    BY DEF VerifyWrite, ResetWrite
  <1> QED
    BY <1>1, <1>2, <1>3, <1>4, <1>5, <1>6, <1>7 DEF Handles

\* Whose stage moves when a code is being answered.
LEMMA Mover ==
    ASSUME IInv, [Next]_vars, NEW r \in Requests, proc'[r] # proc[r]
    PROVE  Handles(r)
  <1>1. UNCHANGED vars => UNCHANGED proc
    BY DEF vars
  <1>2. PurgeExpired => UNCHANGED proc
    BY DEF PurgeExpired
  <1>3. \A u \in Users : Lapse(u) => UNCHANGED proc
    BY DEF Lapse
  <1>4. \A k \in Codes : Expire(k) => UNCHANGED proc
    BY DEF Expire
  <1>5. \A key \in cooling : CoolDown(key) => UNCHANGED proc
    BY DEF CoolDown
  <1> QED
    BY <1>1, <1>2, <1>3, <1>4, <1>5, OthersStay DEF Next

LEMMA AcceptedOnce == Parameters /\ IInv /\ [Next]_vars => AnswersOnce
  <1> SUFFICES ASSUME Parameters, IInv, [Next]_vars, NEW r \in Requests, Accepts(r)
               PROVE  /\ code[proc[r].code].status = "OPEN"
                      /\ code'[proc[r].code].status = "CONSUMED"
                      /\ code[proc[r].code].attempts < MaxAttempts
    BY DEF AnswersOnce
  <1>1. Handles(r) /\ proc[r].stage = "consuming" /\ proc'[r].stage = "accepted"
    BY Mover DEF Accepts
  <1>2. ~Abandon(r)
    BY <1>1 DEF Abandon, Done, Become, Idle, IInv, TypeOK
  <1>3. ~ConsumeWrong(r)
    BY <1>1 DEF ConsumeWrong, Done, Become, Idle, IInv, TypeOK
  <1>4. ASSUME ConsumeAgain(r) PROVE FALSE
    <2>1. Idle.stage = "idle" /\ Reading(proc[r].code, proc[r].right).stage = "consuming"
      BY DEF Reading, Idle
    <2>2. \/ proc' = [proc EXCEPT ![r] = Idle]
          \/ proc' = [proc EXCEPT ![r] = Reading(proc[r].code, proc[r].right)]
      BY <1>4 DEF ConsumeAgain, Done, Become
    <2> QED
      BY <1>1, <2>1, <2>2 DEF IInv, TypeOK
  <1>5. ConsumeRight(r)
    BY <1>1, <1>2, <1>3, <1>4, Answering
  <1> QED
    BY <1>1, <1>5, Consuming DEF ConsumeRight, Matches, IInv, TypeOK, Code

LEMMA ActivatedProven == Parameters /\ IInv /\ [Next]_vars => ActivatesProven
  <1> SUFFICES ASSUME Parameters, IInv, [Next]_vars, NEW u \in Users, NEW r \in Requests,
                      Confirms(r), user'[u] # user[u], user'[u].status = "ACTIVE"
               PROVE  <<u, user'[u].phone>> \in proved
    BY DEF ActivatesProven
  <1>1. Handles(r) /\ proc[r].stage = "accepted"
    BY Mover DEF Confirms
  <1>2. ~Abandon(r)
    BY DEF Abandon
  <1>3. VerifyWrite(r) \/ ResetWrite(r)
    BY <1>1, <1>2, Answering
  <1>4. <<proc[r].user, proc[r].phone>> \in proved
    BY <1>1 DEF IInv, Carries
  <1>5. ASSUME NEW us, Delete(us) PROVE FALSE
    BY <1>5 DEF Delete, NoRow
  <1>6. /\ user' = Activated(proc[r].user)
        /\ user[proc[r].user].phone = proc[r].phone
    BY <1>3, <1>5 DEF VerifyWrite, VerifyMatches, ResetWrite, ResetMatches, DeleteNone
  <1>7. u = proc[r].user /\ user'[u].phone = user[u].phone
    BY <1>6 DEF Activated, IInv, TypeOK, Row
  <1> QED
    BY <1>4, <1>6, <1>7

LEMMA PausedStays == Parameters /\ IInv /\ [Next]_vars => PauseStays
  <1> SUFFICES ASSUME Parameters, IInv, [Next]_vars, NEW u \in Users,
                      user[u].status \in {"PAUSED", "ARCHIVED"}, user'[u] # user[u]
               PROVE  \E r \in Requests : Overwriting(r) /\ proc[r].user = u
    BY DEF PauseStays
  <1>1. ASSUME NEW us, Delete(us), \A v \in us : user[v].status = "PENDING_VERIFICATION"
        PROVE  FALSE
    BY <1>1 DEF Delete
  <1>2. \A v \in Lapsed : user[v].status = "PENDING_VERIFICATION"
    BY DEF Lapsed, IsExpired, Unfinished
  <1>3. ASSUME NEW v, user[v].status = "PENDING_VERIFICATION", Delete({v}) PROVE FALSE
    BY <1>1, <1>3
  <1>4. ASSUME NEW v, user' = Activated(v) PROVE v = u
    BY <1>4 DEF Activated, IInv, TypeOK
  <1>5. ASSUME NEW v, NEW row, user' = [user EXCEPT ![v] = row] PROVE v = u
    BY <1>5 DEF IInv, TypeOK
  <1>6. PICK r \in Requests : Handles(r)
    BY <1>1, <1>2 DEF Next, vars, PurgeExpired, Lapse, Expire, CoolDown, Records, Surroundings
  <1>7. ~\E p \in Phones : Register(r, p) \/ ProfileRead(r, p)
    BY <1>1, <1>2 DEF Register, ProfileRead
  <1>8. ~\E v \in Users : LoginPending(r, v) \/ ForgotPassword(r, v) \/ SignIn(r, v)
                          \/ AdminRead(r, v) \/ SendPasswordReset(r, v)
    BY <1>3 DEF LoginPending, ForgotPassword, SignIn, AdminRead, SendPasswordReset,
                IsExpired, Unfinished, DeleteNone
  <1>9. ~\E v \in Users : RegisterInsert(r, v)
                          \/ \E p \in Phones, s \in Statuses : AdminCreate(r, v, p, s)
    BY <1>5 DEF RegisterInsert, AdminCreate
  <1>10. ~\E k \in Codes : \/ IssueCreate(r, k) \/ Resend(r, k)
                           \/ \E right \in BOOLEAN : Answer(r, k, right)
    BY <1>3 DEF IssueCreate, Resend, Answer, DeleteNone
  <1>11. ~(IssueCooldown(r) \/ IssueSent(r) \/ IssueFails(r))
    BY DEF IssueCooldown, IssueSent, IssueFails
  <1>12. ~Discard(r)
    BY <1>1 DEF Discard, Discards, Unfinished
  <1>13. ~(ConsumeAgain(r) \/ ConsumeWrong(r) \/ ConsumeRight(r) \/ Abandon(r))
    BY DEF ConsumeAgain, ConsumeWrong, ConsumeRight, Abandon
  <1>14. ~VerifyWrite(r)
    BY <1>1, <1>2, <1>4 DEF VerifyWrite, VerifyMatches, DeleteNone
  <1>15. ~ResetWrite(r)
    BY <1>1, <1>2, <1>4 DEF ResetWrite, ResetMatches, Resettable, DeleteNone
  <1>16. CASE ProfileSave(r)
    <2>1. proc[r].user = u
      BY <1>5, <1>16 DEF ProfileSave
    <2> QED
      BY <1>16, <2>1 DEF ProfileSave, Overwriting, Done, Become, Idle, IInv, TypeOK
  <1>17. CASE AdminUpdate(r)
    <2>1. proc[r].user = u
      BY <1>5, <1>17 DEF AdminUpdate, DeleteNone
    <2> QED
      BY <1>17, <2>1 DEF AdminUpdate, Overwriting, Done, Become, Idle, IInv, TypeOK
  <1>18. CASE AdminStatus(r)
    <2>1. proc[r].user = u
      BY <1>18 DEF AdminStatus, DeleteNone, IInv, TypeOK
    <2> QED
      BY <1>18, <2>1 DEF AdminStatus, Overwriting, Done, Become, Idle, IInv, TypeOK
  <1> QED
    BY <1>6, <1>7, <1>8, <1>9, <1>10, <1>11, <1>12, <1>13, <1>14, <1>15, <1>16, <1>17, <1>18
    DEF Handles

\* ChallengeService.consume accepts a code once, while it is open and has an
\* attempt left, for any number of requests that answer it together.
THEOREM CodeAcceptedOnce == ASSUME Parameters PROVE Spec => [][AnswersOnce]_vars
  <1>1. IInv /\ [Next]_vars => AnswersOnce
    BY AcceptedOnce
  <1> QED
    BY <1>1, Invariant, PTL DEF Spec

\* verifyPhone and resetPassword activate an account only with a phone from
\* which its client answered, whatever was written in between.
THEOREM ActivationProven == ASSUME Parameters PROVE Spec => [][ActivatesProven]_vars
  <1>1. IInv /\ [Next]_vars => ActivatesProven
    BY ActivatedProven
  <1> QED
    BY <1>1, Invariant, PTL DEF Spec

\* An answered code ends no pause and no archive.
THEOREM PauseSurvives == ASSUME Parameters PROVE Spec => [][PauseStays]_vars
  <1>1. IInv /\ [Next]_vars => PauseStays
    BY PausedStays
  <1> QED
    BY <1>1, Invariant, PTL DEF Spec

=============================================================================
