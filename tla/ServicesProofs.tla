--------------------------- MODULE ServicesProofs ---------------------------
(***************************************************************************)
(* What deliveries, calendars, images and the worker's health each keep,   *)
(* for any requests, designs, jobs and faults.  Each part has an inductive *)
(* invariant of its own; the steps of the others leave it be.              *)
(***************************************************************************)
EXTENDS MCServices, FiniteSetTheorems, SequenceTheorems, TLAPS

-----------------------------------------------------------------------------
(* Deliveries.  A run works on its message alone, and what a provider took *)
(* is written or about to be.                                              *)

Working(r) == run[r].stage \in {"sending", "confirming", "failing"}

At == \A r \in Runs : IF Working(r) THEN run[r].at \in Messages ELSE run[r].at = None

\* A run works on a message alone, and before its lock is taken for abandoned.
Solo ==
    \A r \in Runs : Working(r) =>
        /\ msg[run[r].at].status = "PROCESSING"
        /\ msg[run[r].at].locked <= LockTime
        /\ msg[run[r].at].attempts > 0
        /\ \A q \in Runs \ {r} : run[q].at # run[r].at

\* An acceptance that is not lost is written in the row or about to be.
Accounted ==
    \A m \in Messages :
        /\ accepted[m] <= 1 + lost[m]
        /\ accepted[m] > lost[m] =>
              \/ msg[m].status = "SENT"
              \/ \E r \in Runs : run[r].stage = "confirming" /\ run[r].at = m

Untried ==
    \A m \in Messages : msg[m].status \in {"ABSENT", "PENDING"} => msg[m].attempts = 0

\* A message that used up its attempts is in no list from which its run may
\* still claim it: whatever used the last one came after the run's now.
Exhausted(r, m) ==
    \/ msg[m].status = "SENT"
    \/ msg[m].status = "PROCESSING" /\ msg[m].locked <= run[r].age
    \/ msg[m].status = "FAILED" /\ msg[m].next > -run[r].age

Listed ==
    \A r \in Runs : \A m \in run[r].list :
        msg[m].attempts = MaxAttempts => Exhausted(r, m)

IInv == TypeOK /\ At /\ Solo /\ Accounted /\ Untried /\ AttemptsBounded /\ Listed

-----------------------------------------------------------------------------

LEMMA InitIInv == Init => IInv
  <1> SUFFICES ASSUME Init PROVE IInv
    OBVIOUS
  <1> USE DeliveriesAssumption DEF Init, Idle, NoMessage
  <1>1. TypeOK
    BY DEF TypeOK, Message, Run, Stages
  <1>2. At /\ Solo /\ Listed
    BY DEF At, Solo, Listed, Working
  <1>3. Accounted /\ Untried /\ AttemptsBounded
    BY DEF Accounted, Untried, AttemptsBounded
  <1> QED
    BY <1>1, <1>2, <1>3 DEF IInv

-----------------------------------------------------------------------------
(* Steps that change what one run does, and no row.                        *)

\* A run that starts, reads its list, skips a message or ends.
LEMMA QuietStep ==
    ASSUME IInv, NEW r \in Runs, NEW x \in Run, ~Working(r),
           run' = [run EXCEPT ![r] = x], x.at = None,
           x.stage \notin {"sending", "confirming", "failing"},
           \A m \in x.list : \/ msg[m].attempts < MaxAttempts
                             \/ m \in run[r].list /\ x.age = run[r].age,
           UNCHANGED <<msg, accepted, lost>>, faults' \in 0..MaxFaults
    PROVE  IInv'
  <1> USE DeliveriesAssumption DEF IInv
  <1>1. run'[r] = x /\ \A q \in Runs \ {r} : run'[q] = run[q]
    BY DEF TypeOK
  <1>2. TypeOK'
    BY DEF TypeOK
  <1>3. At' /\ Solo'
    BY <1>1 DEF At, Solo, Working
  <1>4. Accounted'
    BY <1>1 DEF Accounted, Working
  <1>5. Untried' /\ AttemptsBounded'
    BY DEF Untried, AttemptsBounded
  <1>6. Listed'
    <2> SUFFICES ASSUME NEW q \in Runs, NEW m \in run'[q].list, msg[m].attempts = MaxAttempts
                 PROVE  Exhausted(q, m)'
      BY DEF Listed
    <2>1. CASE q # r
      BY <2>1, <1>1 DEF Listed, Exhausted
    <2>2. CASE q = r
      <3>1. m \in run[r].list /\ x.age = run[r].age
        BY <2>2, <1>1
      <3> QED
        BY <3>1, <2>2, <1>1 DEF Listed, Exhausted
    <2> QED
      BY <2>1, <2>2
  <1> QED
    BY <1>2, <1>3, <1>4, <1>5, <1>6

LEMMA StartStep == ASSUME IInv, NEW r \in Runs, StartRun(r) PROVE IInv'
  <1> DEFINE x == [Idle EXCEPT !.stage = "recovering"]
  <1>1. x \in Run /\ x.at = None /\ x.list = {} /\ x.stage = "recovering"
    BY DeliveriesAssumption DEF Run, Stages, Idle
  <1>2. ~Working(r)
    BY DEF StartRun, Working
  <1>3. run' = [run EXCEPT ![r] = x] /\ UNCHANGED <<msg, accepted, lost>> /\ faults' \in 0..MaxFaults
    BY DEF StartRun, IInv, TypeOK
  <1> HIDE DEF x
  <1> QED
    BY <1>1, <1>2, <1>3, QuietStep

LEMMA ReadStep == ASSUME IInv, NEW r \in Runs, ReadCandidates(r) PROVE IInv'
  <1>1. PICK list \in SUBSET Candidates(run[r].age) :
            run' = [run EXCEPT ![r].list = list, ![r].stage = "claiming"]
    BY DEF ReadCandidates
  <1> DEFINE x == [run[r] EXCEPT !.list = list, !.stage = "claiming"]
  <1>2. run[r] \in Run /\ run[r].stage = "reading"
    BY DEF ReadCandidates, IInv, TypeOK
  <1>3. list \in SUBSET Messages /\ \A m \in list : msg[m].attempts < MaxAttempts
    BY DEF Candidates
  <1>4. x \in Run /\ x.list = list /\ x.stage = "claiming" /\ x.at = run[r].at
    BY <1>2, <1>3 DEF Run, Stages
  <1>5. ~Working(r) /\ run[r].at = None
    BY <1>2 DEF IInv, At, Working
  <1>6. run' = [run EXCEPT ![r] = x] /\ UNCHANGED <<msg, accepted, lost>> /\ faults' \in 0..MaxFaults
    BY <1>1 DEF ReadCandidates, IInv, TypeOK
  <1> HIDE DEF x
  <1> QED
    BY <1>3, <1>4, <1>5, <1>6, QuietStep

LEMMA EndStep == ASSUME IInv, NEW r \in Runs, EndRun(r) PROVE IInv'
  <1>1. Idle \in Run /\ Idle.at = None /\ Idle.list = {} /\ Idle.stage = "idle"
    BY DeliveriesAssumption DEF Run, Stages, Idle
  <1>2. ~Working(r)
    BY DEF EndRun, Working
  <1>3. run' = [run EXCEPT ![r] = Idle] /\ UNCHANGED <<msg, accepted, lost>> /\ faults' \in 0..MaxFaults
    BY DEF EndRun, IInv, TypeOK
  <1> QED
    BY <1>1, <1>2, <1>3, QuietStep

-----------------------------------------------------------------------------
(* Steps that write rows before a message is claimed.                      *)

LEMMA NotifyStep == ASSUME IInv, NEW m \in Messages, Notify(m) PROVE IInv'
  <1> DEFINE row == [NoMessage EXCEPT !.status = "PENDING"]
  <1> USE DeliveriesAssumption DEF IInv
  <1>1. row \in Message /\ row.status = "PENDING" /\ row.attempts = 0
    BY DEF Message, NoMessage
  <1>2. /\ msg' = [msg EXCEPT ![m] = row] /\ msg[m].status = "ABSENT"
        /\ UNCHANGED <<run, faults, accepted, lost>>
    BY DEF Notify
  <1> HIDE DEF row
  <1>3. msg'[m] = row /\ \A n \in Messages \ {m} : msg'[n] = msg[n]
    BY <1>2 DEF TypeOK
  <1>4. TypeOK'
    BY <1>1, <1>2 DEF TypeOK
  <1>5. \A r \in Runs : Working(r) => run[r].at # m
    BY <1>2 DEF Solo
  <1>6. At' /\ Solo'
    BY <1>2, <1>3, <1>5 DEF At, Solo, Working
  <1>7. Accounted'
    BY <1>2, <1>3 DEF Accounted
  <1>8. Untried' /\ AttemptsBounded'
    BY <1>1, <1>2, <1>3 DEF Untried, AttemptsBounded
  <1>9. Listed'
    <2> SUFFICES ASSUME NEW q \in Runs, NEW n \in run[q].list, msg'[n].attempts = MaxAttempts
                 PROVE  Exhausted(q, n)'
      BY <1>2 DEF Listed
    <2>1. n \in Messages /\ n # m
      BY <1>1, <1>3 DEF TypeOK, Run
    <2> QED
      BY <2>1, <1>2, <1>3 DEF Listed, Exhausted
  <1> QED
    BY <1>4, <1>6, <1>7, <1>8, <1>9

\* A message is taken for abandoned only when no run works on it any more, and
\* the run that does so started after those that have it in a list.
LEMMA RecoverStep == ASSUME IInv, NEW r \in Runs, Recover(r) PROVE IInv'
  <1> USE DEF IInv
  <1> DEFINE age == run[r].age
             x == [run[r] EXCEPT !.stage = "reading"]
  <1>1. age \in 0..RunTime /\ age \in Nat /\ run[r] \in Run /\ run[r].stage = "recovering"
    <2>1. run[r] \in Run
      BY DEF TypeOK
    <2>2. age \in 0..RunTime /\ age \in Nat
      BY <2>1, DeliveriesAssumption DEF Run
    <2>3. run[r].stage = "recovering"
      BY DEF Recover
    <2> QED
      BY <2>1, <2>2, <2>3
  <1> DEFINE Failed(m) == [msg[m] EXCEPT !.status = "FAILED", !.locked = 0, !.next = -age]
  <1>2. msg' = [m \in Messages |-> IF Abandoned(m, age) THEN Failed(m) ELSE msg[m]]
    BY DEF Recover
  <1>16. \A m \in Messages : msg[m] \in Message
    BY DEF TypeOK
  <1>17. ASSUME NEW m \in Messages
         PROVE  /\ Failed(m) \in Message /\ Failed(m).status = "FAILED" /\ Failed(m).next = -age
                /\ Failed(m).attempts = msg[m].attempts
    <2>1. -age \in Int /\ 0 \in 0..LockTime + RunTime + 1
      BY <1>1, DeliveriesAssumption
    <2> HIDE DEF age
    <2> QED
      BY <1>16, <2>1 DEF Message
  <1> HIDE DEF Failed
  <1>18. ASSUME NEW m \in Messages, Abandoned(m, age)
         PROVE  msg[m].status = "PROCESSING" /\ msg[m].locked \in Nat /\ msg[m].locked > LockTime + age
    <2>1. msg[m].locked \in Nat
      BY <1>16, DeliveriesAssumption DEF Message
    <2> QED
      BY <2>1, <1>1, <1>18, DeliveriesAssumption DEF Abandoned
  <1>3. /\ run' = [run EXCEPT ![r] = x] /\ x \in Run /\ x.stage = "reading"
        /\ x.at = run[r].at /\ x.list = run[r].list /\ x.age = age
        /\ UNCHANGED <<faults, accepted, lost>>
    <2>1. x \in Run /\ x.stage = "reading" /\ x.at = run[r].at /\ x.list = run[r].list /\ x.age = age
      BY <1>1 DEF Run, Stages
    <2> QED
      BY <2>1 DEF Recover
  <1> HIDE DEF x
  <1>4. run'[r] = x /\ \A q \in Runs \ {r} : run'[q] = run[q]
    BY <1>3 DEF TypeOK
  <1>5. \A m \in Messages : msg'[m] = IF Abandoned(m, age) THEN Failed(m) ELSE msg[m]
    BY <1>2
  <1>6. TypeOK'
    BY <1>2, <1>3, <1>16, <1>17 DEF TypeOK
  <1>7. \A m \in Messages : /\ msg'[m].attempts = msg[m].attempts
                            /\ msg'[m].status = "SENT" <=> msg[m].status = "SENT"
                            /\ msg[m].status \in {"ABSENT", "PENDING"} <=> msg'[m].status \in {"ABSENT", "PENDING"}
    <2> TAKE m \in Messages
    <2>1. CASE Abandoned(m, age)
      BY <2>1, <1>5, <1>17, <1>18
    <2>2. CASE ~Abandoned(m, age)
      BY <2>2, <1>5
    <2> QED
      BY <2>1, <2>2
  <1>8. \A q \in Runs : Working(q) => ~Abandoned(run[q].at, age)
    <2> SUFFICES ASSUME NEW q \in Runs, Working(q), Abandoned(run[q].at, age) PROVE FALSE
      OBVIOUS
    <2>1. run[q].at \in Messages /\ msg[run[q].at].locked <= LockTime
      BY DEF At, Solo
    <2> QED
      BY <2>1, <1>1, <1>18, DeliveriesAssumption
  <1>9. \A q \in Runs : Working(q)' <=> Working(q)
    BY <1>1, <1>3, <1>4 DEF Working
  <1>10. \A q \in Runs : run'[q].at = run[q].at /\ run'[q].list = run[q].list /\ run'[q].age = run[q].age
    BY <1>3, <1>4
  <1>11. At' /\ Solo'
    BY <1>5, <1>8, <1>9, <1>10 DEF At, Solo
  <1>12. \A q \in Runs : run[q].stage = "confirming" => run'[q].stage = "confirming"
    BY <1>1, <1>4
  <1>13. Accounted'
    BY <1>3, <1>7, <1>10, <1>12 DEF Accounted
  <1>14. Untried' /\ AttemptsBounded'
    BY <1>7 DEF Untried, AttemptsBounded
  <1>15. Listed'
    <2> SUFFICES ASSUME NEW q \in Runs, NEW m \in run[q].list, msg[m].attempts = MaxAttempts
                 PROVE  Exhausted(q, m)'
      BY <1>7, <1>10 DEF Listed, TypeOK, Run
    <2>1. m \in Messages /\ Exhausted(q, m) /\ run[q].age \in Nat
      BY DeliveriesAssumption DEF Listed, TypeOK, Run
    <2>2. CASE ~Abandoned(m, age)
      BY <2>1, <2>2, <1>5, <1>10 DEF Exhausted
    <2>3. CASE Abandoned(m, age)
      <3>1. run[q].age > age
        BY <2>1, <2>3, <1>1, <1>18, DeliveriesAssumption DEF Exhausted
      <3>2. msg'[m].status = "FAILED" /\ msg'[m].next = -age
        BY <2>1, <2>3, <1>5, <1>17
      <3> QED
        BY <3>1, <3>2, <2>1, <1>1, <1>10 DEF Exhausted
    <2> QED
      BY <2>2, <2>3
  <1> QED
    BY <1>6, <1>11, <1>13, <1>14, <1>15

-----------------------------------------------------------------------------
(* A run claims a message.                                                 *)

LEMMA ClaimStep == ASSUME IInv, NEW r \in Runs, NEW m \in Messages, Claim(r, m) PROVE IInv'
  <1> USE DEF IInv
  <1>1. /\ run[r] \in Run /\ run[r].stage = "claiming" /\ m \in run[r].list
        /\ ~Working(r) /\ run[r].at = None
    BY DEF Claim, TypeOK, At, Working
  <1>2. CASE ~Claimable(m, run[r].age)
    <2> DEFINE x == [run[r] EXCEPT !.list = run[r].list \ {m}]
    <2>1. /\ x \in Run /\ x.at = None /\ x.stage = "claiming" /\ x.age = run[r].age
          /\ x.list = run[r].list \ {m}
      BY <1>1 DEF Run
    <2>2. run' = [run EXCEPT ![r] = x] /\ UNCHANGED <<msg, accepted, lost>> /\ faults' \in 0..MaxFaults
      BY <1>2 DEF Claim, TypeOK
    <2> HIDE DEF x
    <2> QED
      BY <1>1, <2>1, <2>2, QuietStep
  <1>3. CASE Claimable(m, run[r].age)
    <2> DEFINE row == [msg[m] EXCEPT !.status = "PROCESSING", !.locked = 0,
                                     !.attempts = msg[m].attempts + 1]
               x == [run[r] EXCEPT !.at = m, !.stage = "sending"]
    <2>1. msg[m] \in Message /\ msg[m].attempts \in Nat /\ msg[m].next \in Int /\ run[r].age \in Nat
      <3>1. msg[m] \in Message
        BY DEF TypeOK
      <3> QED
        BY <1>1, <3>1, DeliveriesAssumption DEF Message, Run
    <2>2. msg[m].attempts < MaxAttempts
      <3>1. msg[m].status \in {"PENDING", "FAILED"} /\ msg[m].next <= -run[r].age
        BY <1>3 DEF Claimable
      <3>2. msg[m].attempts # MaxAttempts
        BY <3>1, <2>1, <1>1 DEF Listed, Exhausted
      <3> QED
        BY <3>2, <2>1, DeliveriesAssumption DEF AttemptsBounded
    <2>3. /\ row \in Message /\ row.status = "PROCESSING" /\ row.locked = 0
          /\ row.attempts = msg[m].attempts + 1 /\ row.attempts > 0
      <3>1. msg[m].attempts + 1 \in Nat /\ 0 \in 0..LockTime + RunTime + 1 /\ msg[m].attempts + 1 > 0
        BY <2>1, DeliveriesAssumption
      <3> DEFINE n == msg[m].attempts + 1
      <3> HIDE DEF n
      <3>2. [msg[m] EXCEPT !.status = "PROCESSING", !.locked = 0, !.attempts = n] \in Message
        BY <2>1, <3>1 DEF n, Message
      <3> QED
        BY <2>1, <3>1, <3>2 DEF n, Message
    <2>4. /\ x \in Run /\ x.at = m /\ x.stage = "sending" /\ x.list = run[r].list
          /\ x.age = run[r].age
      BY <1>1 DEF Run, Stages
    <2>5. /\ run' = [run EXCEPT ![r] = x] /\ msg' = [msg EXCEPT ![m] = row]
          /\ UNCHANGED <<faults, accepted, lost>>
      BY <1>3 DEF Claim
    <2> HIDE DEF row, x
    <2>6. /\ run'[r] = x /\ \A q \in Runs \ {r} : run'[q] = run[q]
          /\ msg'[m] = row /\ \A n \in Messages \ {m} : msg'[n] = msg[n]
      BY <2>5 DEF TypeOK
    <2>7. TypeOK'
      BY <2>3, <2>4, <2>5 DEF TypeOK
    <2>8. \A q \in Runs : run[q].at # m
      BY <1>3, DeliveriesAssumption DEF Solo, At, Claimable
    <2>9. At'
      BY <2>4, <2>6 DEF At, Working
    <2>10. Solo'
      <3> SUFFICES ASSUME NEW q \in Runs, Working(q)'
                   PROVE  /\ msg'[run'[q].at].status = "PROCESSING"
                          /\ msg'[run'[q].at].locked <= LockTime
                          /\ msg'[run'[q].at].attempts > 0
                          /\ \A s \in Runs \ {q} : run'[s].at # run'[q].at
        BY DEF Solo
      <3>1. CASE q = r
        BY <3>1, <2>3, <2>4, <2>6, <2>8, DeliveriesAssumption
      <3>2. CASE q # r
        <4>1. Working(q) /\ run'[q] = run[q] /\ run[q].at \in Messages \ {m}
          BY <3>2, <2>6, <2>8 DEF Working, At
        <4> QED
          BY <4>1, <3>2, <2>4, <2>6 DEF Solo
      <3> QED
        BY <3>1, <3>2
    <2>11. Accounted'
      <3> SUFFICES ASSUME NEW n \in Messages
                   PROVE  /\ accepted[n] <= 1 + lost[n]
                          /\ accepted[n] > lost[n] =>
                               \/ msg'[n].status = "SENT"
                               \/ \E q \in Runs : run'[q].stage = "confirming" /\ run'[q].at = n
        BY <2>5 DEF Accounted
      <3>1. CASE n = m
        BY <3>1, <2>8, <1>3 DEF Accounted, Claimable
      <3>2. CASE n # m
        BY <3>2, <2>6, <1>1 DEF Accounted
      <3> QED
        BY <3>1, <3>2
    <2>12. Untried' /\ AttemptsBounded'
      BY <2>1, <2>2, <2>3, <2>6, DeliveriesAssumption DEF Untried, AttemptsBounded
    <2>13. Listed'
      <3> SUFFICES ASSUME NEW q \in Runs, NEW n \in run'[q].list, msg'[n].attempts = MaxAttempts
                   PROVE  Exhausted(q, n)'
        BY DEF Listed
      <3>1. n \in Messages /\ n \in run[q].list /\ run'[q].age = run[q].age /\ run[q].age \in Nat
        BY <2>4, <2>6 DEF TypeOK, Run
      <3>2. CASE n = m
        BY <3>1, <3>2, <2>3, <2>6 DEF Exhausted
      <3>3. CASE n # m
        BY <3>1, <3>3, <2>6 DEF Listed, Exhausted
      <3> QED
        BY <3>2, <3>3
    <2> QED
      BY <2>7, <2>9, <2>10, <2>11, <2>12, <2>13
  <1> QED
    BY <1>2, <1>3

-----------------------------------------------------------------------------
(* A run sends the message it claimed.                                     *)

\* What such a step leaves of the invariant: one run goes on to another stage,
\* and the message it works on stays its own.
LEMMA SameWork ==
    ASSUME IInv, NEW r \in Runs, NEW s \in {"sending", "confirming", "failing"}, Working(r),
           run' = [run EXCEPT ![r].stage = s], UNCHANGED msg,
           faults' \in 0..MaxFaults, accepted' \in [Messages -> Nat], lost' \in [Messages -> Nat]
    PROVE  TypeOK' /\ At' /\ Solo' /\ Untried' /\ AttemptsBounded' /\ Listed'
  <1> USE DEF IInv
  <1> DEFINE x == [run[r] EXCEPT !.stage = s]
  <1>1. /\ x \in Run /\ x.stage = s /\ x.at = run[r].at /\ x.list = run[r].list
        /\ x.age = run[r].age
    BY DEF TypeOK, Run, Stages
  <1>2. run' = [run EXCEPT ![r] = x]
    OBVIOUS
  <1> HIDE DEF x
  <1>3. run'[r] = x /\ \A q \in Runs \ {r} : run'[q] = run[q]
    BY <1>2 DEF TypeOK
  <1>4. TypeOK'
    BY <1>1, <1>2 DEF TypeOK
  <1>5. \A q \in Runs : /\ run'[q].at = run[q].at /\ run'[q].list = run[q].list
                         /\ run'[q].age = run[q].age /\ (Working(q)' <=> Working(q))
    BY <1>1, <1>3 DEF Working
  <1>6. At' /\ Solo'
    BY <1>5 DEF At, Solo
  <1>7. Untried' /\ AttemptsBounded'
    BY DEF Untried, AttemptsBounded
  <1>8. Listed'
    BY <1>5 DEF Listed, Exhausted
  <1> QED
    BY <1>4, <1>6, <1>7, <1>8

LEMMA SendStep ==
    ASSUME IInv, NEW r \in Runs, NEW taken \in BOOLEAN, NEW answered \in BOOLEAN,
           Send(r, taken, answered)
    PROVE  IInv'
  <1> DEFINE m == run[r].at
             s == IF answered THEN "confirming" ELSE "failing"
  <1>1. Working(r) /\ run[r].stage = "sending" /\ m \in Messages
    BY DEF Send, Working, IInv, At
  <1>2. /\ run' = [run EXCEPT ![r].stage = s] /\ UNCHANGED <<msg, faults>>
        /\ accepted' = IF taken THEN [accepted EXCEPT ![m] = accepted[m] + 1] ELSE accepted
        /\ lost' = IF taken /\ ~answered THEN [lost EXCEPT ![m] = lost[m] + 1] ELSE lost
        /\ answered => taken
    BY DEF Send
  <1>3. accepted \in [Messages -> Nat] /\ lost \in [Messages -> Nat] /\ faults \in 0..MaxFaults
        /\ run \in [Runs -> Run]
    BY DEF IInv, TypeOK
  <1>4. accepted' \in [Messages -> Nat] /\ lost' \in [Messages -> Nat]
    BY <1>1, <1>2, <1>3
  <1>5. s \in {"sending", "confirming", "failing"}
    OBVIOUS
  <1>6. TypeOK' /\ At' /\ Solo' /\ Untried' /\ AttemptsBounded' /\ Listed'
    BY <1>1, <1>2, <1>3, <1>4, <1>5, SameWork
  <1>7. /\ run'[r].stage = s /\ run'[r].at = m
        /\ \A q \in Runs \ {r} : run'[q] = run[q]
    BY <1>2, <1>3 DEF Run
  <1>8. accepted[m] <= lost[m]
    <2>1. msg[m].status = "PROCESSING" /\ \A q \in Runs \ {r} : run[q].at # m
      BY <1>1 DEF IInv, Solo
    <2>2. accepted[m] \in Nat /\ lost[m] \in Nat
      BY <1>1, <1>3
    <2> QED
      BY <1>1, <2>1, <2>2 DEF IInv, Accounted
  <1>9. Accounted'
    <2> SUFFICES ASSUME NEW n \in Messages
                 PROVE  /\ accepted'[n] <= 1 + lost'[n]
                        /\ accepted'[n] > lost'[n] =>
                             \/ msg[n].status = "SENT"
                             \/ \E q \in Runs : run'[q].stage = "confirming" /\ run'[q].at = n
      BY <1>2 DEF Accounted
    <2>1. accepted[n] \in Nat /\ lost[n] \in Nat
      BY <1>3
    <2>2. CASE n = m
      <3>1. accepted'[n] = IF taken THEN accepted[n] + 1 ELSE accepted[n]
        BY <1>1, <1>2, <1>3, <2>2
      <3>2. lost'[n] = IF taken /\ ~answered THEN lost[n] + 1 ELSE lost[n]
        BY <1>1, <1>2, <1>3, <2>2
      <3>3. answered => run'[r].stage = "confirming" /\ run'[r].at = n
        BY <1>7, <2>2
      <3> QED
        BY <1>2, <1>8, <2>1, <2>2, <3>1, <3>2, <3>3
    <2>3. CASE n # m
      <3>1. accepted'[n] = accepted[n] /\ lost'[n] = lost[n]
        BY <1>2, <1>3, <2>3
      <3>2. \A q \in Runs : run[q].stage = "confirming" /\ run[q].at = n =>
                run'[q].stage = "confirming" /\ run'[q].at = n
        BY <1>7, <2>3
      <3> QED
        BY <3>1, <3>2 DEF IInv, Accounted
    <2> QED
      BY <2>2, <2>3
  <1> QED
    BY <1>6, <1>9 DEF IInv

LEMMA SentFailsStep == ASSUME IInv, NEW r \in Runs, SentFails(r) PROVE IInv'
  <1> DEFINE m == run[r].at
  <1>1. Working(r) /\ run[r].stage = "confirming" /\ m \in Messages
    BY DEF SentFails, Working, IInv, At
  <1>2. /\ run' = [run EXCEPT ![r].stage = "failing"] /\ UNCHANGED <<msg, accepted>>
        /\ faults' = faults + 1 /\ faults < MaxFaults
        /\ lost' = [lost EXCEPT ![m] = lost[m] + 1]
    BY DEF SentFails, Unwritten
  <1>3. accepted \in [Messages -> Nat] /\ lost \in [Messages -> Nat] /\ faults \in 0..MaxFaults
        /\ run \in [Runs -> Run]
    BY DEF IInv, TypeOK
  <1>4. lost' \in [Messages -> Nat] /\ faults' \in 0..MaxFaults
    BY <1>1, <1>2, <1>3, DeliveriesAssumption
  <1>5. TypeOK' /\ At' /\ Solo' /\ Untried' /\ AttemptsBounded' /\ Listed'
    BY <1>1, <1>2, <1>3, <1>4, SameWork
  <1>6. \A q \in Runs \ {r} : run'[q] = run[q]
    BY <1>2, <1>3
  <1>7. Accounted'
    <2> SUFFICES ASSUME NEW n \in Messages
                 PROVE  /\ accepted[n] <= 1 + lost'[n]
                        /\ accepted[n] > lost'[n] =>
                             \/ msg[n].status = "SENT"
                             \/ \E q \in Runs : run'[q].stage = "confirming" /\ run'[q].at = n
      BY <1>2 DEF Accounted
    <2>1. accepted[n] \in Nat /\ lost[n] \in Nat /\ accepted[n] <= 1 + lost[n]
      BY <1>3 DEF IInv, Accounted
    <2>2. CASE n = m
      <3>1. lost'[n] = lost[n] + 1
        BY <1>1, <1>2, <1>3, <2>2
      <3> QED
        BY <2>1, <3>1
    <2>3. CASE n # m
      <3>1. lost'[n] = lost[n]
        BY <1>2, <1>3, <2>3
      <3>2. \A q \in Runs : run[q].stage = "confirming" /\ run[q].at = n =>
                run'[q].stage = "confirming" /\ run'[q].at = n
        BY <1>6, <2>3
      <3> QED
        BY <3>1, <3>2 DEF IInv, Accounted
    <2> QED
      BY <2>2, <2>3
  <1> QED
    BY <1>5, <1>7 DEF IInv

\* A run writes SENT or FAILED and goes on with its list.
LEMMA SettleStep ==
    ASSUME IInv, NEW r \in Runs, NEW row \in Message, Working(r),
           run' = [run EXCEPT ![r] = Done(r)], msg' = [msg EXCEPT ![run[r].at] = row],
           UNCHANGED <<faults, accepted, lost>>,
           row.attempts = msg[run[r].at].attempts,
           \/ row.status = "SENT"
           \/ row.status = "FAILED" /\ row.next > 0 /\ run[r].stage # "confirming"
    PROVE  IInv'
  <1> USE DEF IInv
  <1> DEFINE m == run[r].at
             x == Done(r)
  <1>1. run[r] \in Run /\ m \in Messages
    BY DEF TypeOK, At
  <1>2. /\ x \in Run /\ x.stage = "claiming" /\ x.at = None /\ x.list = run[r].list \ {m}
        /\ x.age = run[r].age
    BY <1>1 DEF Run, Stages, Done
  <1> HIDE DEF x
  <1>3. /\ run'[r] = x /\ \A q \in Runs \ {r} : run'[q] = run[q]
        /\ msg'[m] = row /\ \A n \in Messages \ {m} : msg'[n] = msg[n]
    BY <1>1 DEF TypeOK, x
  <1>4. run' = [run EXCEPT ![r] = x]
    BY DEF x
  <1>5. TypeOK'
    BY <1>1, <1>2, <1>4 DEF TypeOK
  <1>6. \A q \in Runs \ {r} : run[q].at # m
    BY DEF Solo
  <1>7. At'
    BY <1>2, <1>3 DEF At, Working
  <1>8. Solo'
    <2> SUFFICES ASSUME NEW q \in Runs, Working(q)'
                 PROVE  /\ msg'[run'[q].at].status = "PROCESSING"
                        /\ msg'[run'[q].at].locked <= LockTime
                        /\ msg'[run'[q].at].attempts > 0
                        /\ \A s \in Runs \ {q} : run'[s].at # run'[q].at
      BY DEF Solo
    <2>1. q # r /\ Working(q) /\ run'[q] = run[q] /\ run[q].at \in Messages \ {m}
      BY <1>2, <1>3, <1>6 DEF Working, At
    <2>2. run[q].at # None
      BY <2>1, DeliveriesAssumption
    <2> QED
      BY <2>1, <2>2, <1>2, <1>3 DEF Solo
  <1>9. Accounted'
    <2> SUFFICES ASSUME NEW n \in Messages
                 PROVE  /\ accepted[n] <= 1 + lost[n]
                        /\ accepted[n] > lost[n] =>
                             \/ msg'[n].status = "SENT"
                             \/ \E q \in Runs : run'[q].stage = "confirming" /\ run'[q].at = n
      BY DEF Accounted
    <2>1. CASE n = m
      BY <2>1, <1>3, <1>6 DEF Accounted, Solo
    <2>2. CASE n # m
      BY <2>2, <1>3 DEF Accounted
    <2> QED
      BY <2>1, <2>2
  <1>10. Untried' /\ AttemptsBounded'
    BY <1>1, <1>3 DEF Untried, AttemptsBounded
  <1>11. Listed'
    <2> SUFFICES ASSUME NEW q \in Runs, NEW n \in run'[q].list, msg'[n].attempts = MaxAttempts
                 PROVE  Exhausted(q, n)'
      BY DEF Listed
    <2>1. n \in Messages /\ n \in run[q].list /\ run'[q].age = run[q].age /\ run[q].age \in Nat
      <3>1. run[q] \in Run
        BY DEF TypeOK
      <3> QED
        BY <3>1, <1>2, <1>3, DeliveriesAssumption DEF Run
    <2>2. CASE n = m
      <3>1. row.next \in Int
        BY DEF Message
      <3> QED
        BY <3>1, <2>1, <2>2, <1>3 DEF Exhausted
    <2>3. CASE n # m
      BY <2>1, <2>3, <1>1, <1>3 DEF Listed, Exhausted
    <2> QED
      BY <2>2, <2>3
  <1> QED
    BY <1>5, <1>7, <1>8, <1>9, <1>10, <1>11

LEMMA MarkSentStep == ASSUME IInv, NEW r \in Runs, MarkSent(r) PROVE IInv'
  <1> DEFINE m == run[r].at
             row == [msg[m] EXCEPT !.status = "SENT", !.locked = 0]
  <1>1. Working(r) /\ m \in Messages
    BY DEF MarkSent, Working, IInv, At
  <1>2. msg[m] \in Message /\ 0 \in 0..LockTime + RunTime + 1
    BY <1>1, DeliveriesAssumption DEF IInv, TypeOK
  <1>3. row \in Message /\ row.status = "SENT" /\ row.attempts = msg[m].attempts
    BY <1>2 DEF Message
  <1>4. /\ run' = [run EXCEPT ![r] = Done(r)] /\ msg' = [msg EXCEPT ![m] = row]
        /\ UNCHANGED <<faults, accepted, lost>>
    BY DEF MarkSent
  <1> HIDE DEF row
  <1> QED
    BY <1>1, <1>3, <1>4, SettleStep

LEMMA MarkFailedStep == ASSUME IInv, NEW r \in Runs, MarkFailed(r) PROVE IInv'
  <1> DEFINE m == run[r].at
             wait == Delay[msg[m].attempts]
             row == [msg[m] EXCEPT !.status = "FAILED", !.locked = 0, !.next = wait]
  <1>1. Working(r) /\ m \in Messages /\ run[r].stage = "failing"
    BY DEF MarkFailed, Working, IInv, At
  <1>2. msg[m] \in Message /\ 0 \in 0..LockTime + RunTime + 1
    BY <1>1, DeliveriesAssumption DEF IInv, TypeOK
  <1>3. wait \in Nat \ {0}
    <2>1. msg[m].attempts \in Nat
      BY <1>2 DEF Message
    <2>2. msg[m].attempts \in 1..MaxAttempts
      BY <1>1, <2>1, DeliveriesAssumption DEF IInv, Solo, AttemptsBounded
    <2> QED
      BY <2>2, DeliveriesAssumption
  <1>4. /\ run' = [run EXCEPT ![r] = Done(r)] /\ msg' = [msg EXCEPT ![m] = row]
        /\ UNCHANGED <<faults, accepted, lost>>
    BY DEF MarkFailed
  <1>5. wait \in Int /\ wait > 0
    BY <1>3
  <1> HIDE DEF wait
  <1>6. row \in Message /\ row.status = "FAILED" /\ row.attempts = msg[m].attempts /\ row.next > 0
    BY <1>2, <1>5 DEF Message
  <1> HIDE DEF row
  <1> QED
    BY <1>1, <1>4, <1>6, SettleStep

-----------------------------------------------------------------------------
(* A run that dies, and the clock.                                         *)

LEMMA CrashStep == ASSUME IInv, NEW r \in Runs, Crash(r) PROVE IInv'
  <1> USE DEF IInv
  <1>1. /\ run' = [run EXCEPT ![r] = Idle] /\ lost' = Unwritten(r) /\ UNCHANGED <<msg, accepted>>
        /\ faults' = faults + 1 /\ faults < MaxFaults
    BY DEF Crash
  <1>2. faults' \in 0..MaxFaults
    BY <1>1, DeliveriesAssumption DEF TypeOK
  <1>3. Idle \in Run /\ Idle.at = None /\ Idle.list = {} /\ Idle.stage = "idle"
    BY DeliveriesAssumption DEF Run, Stages, Idle
  <1>4. CASE ~Working(r)
    <2>1. lost' = lost
      BY <1>1, <1>4 DEF Unwritten, Working
    <2> QED
      BY <1>1, <1>2, <1>3, <1>4, <2>1, QuietStep
  <1>5. CASE Working(r)
    <2> DEFINE m == run[r].at
    <2>1. run'[r] = Idle /\ \A q \in Runs \ {r} : run'[q] = run[q]
      BY <1>1 DEF TypeOK
    <2>2. m \in Messages /\ \A q \in Runs \ {r} : run[q].at # m
      BY <1>5 DEF At, Solo
    <2>3. accepted \in [Messages -> Nat] /\ lost \in [Messages -> Nat]
      BY DEF TypeOK
    <2>4. \A n \in Messages : lost'[n] =
              IF run[r].stage = "confirming" /\ n = m THEN lost[n] + 1 ELSE lost[n]
      BY <1>1, <2>2, <2>3 DEF Unwritten
    <2>5. lost' \in [Messages -> Nat]
      BY <1>1, <2>2, <2>3 DEF Unwritten
    <2>6. TypeOK'
      BY <1>1, <1>2, <1>3, <2>5 DEF TypeOK
    <2>7. At' /\ Solo'
      <3>1. At'
        BY <1>3, <2>1 DEF At, Working
      <3>2. Solo'
        <4> SUFFICES ASSUME NEW q \in Runs, Working(q)'
                     PROVE  /\ msg[run'[q].at].status = "PROCESSING"
                            /\ msg[run'[q].at].locked <= LockTime
                            /\ msg[run'[q].at].attempts > 0
                            /\ \A s \in Runs \ {q} : run'[s].at # run'[q].at
          BY <1>1 DEF Solo
        <4>1. q # r /\ Working(q) /\ run'[q] = run[q] /\ run[q].at \in Messages
          BY <1>3, <2>1 DEF Working, At
        <4>2. run[q].at # None
          BY <4>1, DeliveriesAssumption
        <4> QED
          BY <4>1, <4>2, <1>3, <2>1 DEF Solo
      <3> QED
        BY <3>1, <3>2
    <2>8. Accounted'
      <3> SUFFICES ASSUME NEW n \in Messages
                   PROVE  /\ accepted[n] <= 1 + lost'[n]
                          /\ accepted[n] > lost'[n] =>
                               \/ msg[n].status = "SENT"
                               \/ \E q \in Runs : run'[q].stage = "confirming" /\ run'[q].at = n
        BY <1>1 DEF Accounted
      <3>1. accepted[n] \in Nat /\ lost[n] \in Nat /\ accepted[n] <= 1 + lost[n]
        BY <2>3 DEF Accounted
      <3>2. CASE run[r].stage = "confirming" /\ n = m
        BY <3>1, <3>2, <2>4
      <3>3. CASE ~(run[r].stage = "confirming" /\ n = m)
        <4>1. lost'[n] = lost[n]
          BY <3>3, <2>4
        <4>2. \A q \in Runs : run[q].stage = "confirming" /\ run[q].at = n =>
                  run'[q].stage = "confirming" /\ run'[q].at = n
          BY <3>3, <2>1
        <4> QED
          BY <3>1, <4>1, <4>2 DEF Accounted
      <3> QED
        BY <3>2, <3>3
    <2>9. Untried' /\ AttemptsBounded'
      BY <1>1 DEF Untried, AttemptsBounded
    <2>10. Listed'
      <3> SUFFICES ASSUME NEW q \in Runs, NEW n \in run'[q].list, msg[n].attempts = MaxAttempts
                   PROVE  Exhausted(q, n)'
        BY <1>1 DEF Listed
      <3>1. q # r /\ run'[q] = run[q]
        BY <1>3, <2>1
      <3> QED
        BY <3>1, <1>1 DEF Listed, Exhausted
    <2> QED
      BY <2>6, <2>7, <2>8, <2>9, <2>10
  <1> QED
    BY <1>4, <1>5

\* Time passes for the rows and the runs alike, and never so much that a
\* lock is taken for abandoned while its run is at work.
LEMMA TickStep == ASSUME IInv, Tick PROVE IInv'
  <1> USE DEF IInv
  <1> DEFINE Later(r) == [run[r] EXCEPT !.age = run[r].age + 1]
             Sooner(m) == IF msg[m].next = -RunTime THEN -RunTime ELSE msg[m].next - 1
             Held(m) == IF msg[m].status # "PROCESSING" THEN 0
                        ELSE IF msg[m].locked > LockTime + RunTime THEN msg[m].locked
                        ELSE msg[m].locked + 1
             Row(m) == [msg[m] EXCEPT !.next = Sooner(m), !.locked = Held(m)]
  <1>1. /\ \A r \in Runs : run[r].stage # "idle" => run[r].age < RunTime
        /\ \A r \in Runs : run[r].at # None => msg[run[r].at].locked < LockTime
        /\ run' = [r \in Runs |-> IF run[r].stage = "idle" THEN Idle ELSE Later(r)]
        /\ UNCHANGED <<faults, accepted, lost>>
    BY DEF Tick
  <1>2. msg' = [m \in Messages |-> Row(m)]
    BY DEF Tick
  <1>3. ASSUME NEW m \in Messages
        PROVE  /\ Sooner(m) \in Int /\ Held(m) \in 0..LockTime + RunTime + 1
               /\ msg[m].locked \in Nat /\ msg[m].next \in Int /\ msg[m] \in Message
               /\ Held(m) <= msg[m].locked + 1
    <2>1. msg[m] \in Message
      BY DEF TypeOK
    <2>2. msg[m].next \in Int /\ msg[m].locked \in 0..LockTime + RunTime + 1
      BY <2>1 DEF Message
    <2>3. LockTime \in Nat /\ RunTime \in Nat
      BY DeliveriesAssumption
    <2> QED
      BY <2>1, <2>2, <2>3
  <1>4. ASSUME NEW m \in Messages
        PROVE  /\ Row(m) \in Message /\ Row(m).status = msg[m].status
               /\ Row(m).attempts = msg[m].attempts
               /\ Row(m).next = Sooner(m) /\ Row(m).locked = Held(m)
    <2>1. msg[m] \in Message /\ Sooner(m) \in Int /\ Held(m) \in 0..LockTime + RunTime + 1
      BY <1>3
    <2> HIDE DEF Sooner, Held
    <2> QED
      BY <2>1 DEF Message
  <1> HIDE DEF Row
  <1>5. \A m \in Messages : /\ msg'[m] = Row(m)
                            /\ msg'[m].status = msg[m].status /\ msg'[m].attempts = msg[m].attempts
                            /\ msg'[m].next = Sooner(m) /\ msg'[m].locked = Held(m)
    BY <1>2, <1>4
  <1>6. ASSUME NEW r \in Runs, run[r].stage # "idle"
        PROVE  /\ run'[r] \in Run /\ run'[r].stage = run[r].stage /\ run'[r].at = run[r].at
               /\ run'[r].list = run[r].list
               /\ run'[r].age = run[r].age + 1 /\ run[r].age \in Nat /\ run[r].age < RunTime
    <2>1. run[r] \in Run
      BY DEF TypeOK
    <2>2. run[r].age \in Nat /\ run[r].age < RunTime
      BY <2>1, <1>1, <1>6, DeliveriesAssumption DEF Run
    <2>3. run[r].age + 1 \in 0..RunTime
      BY <2>2, DeliveriesAssumption
    <2> QED
      BY <2>1, <2>2, <2>3, <1>1, <1>6 DEF Run
  <1>7. ASSUME NEW r \in Runs, run[r].stage = "idle" PROVE run'[r] = Idle
    BY <1>1, <1>7
  <1>8. Idle \in Run /\ Idle.at = None /\ Idle.list = {} /\ Idle.stage = "idle"
    BY DeliveriesAssumption DEF Run, Stages, Idle
  <1>9. TypeOK'
    <2>1. run' \in [Runs -> Run]
      <3>1. \A r \in Runs : run'[r] \in Run
        BY <1>6, <1>7, <1>8
      <3> QED
        BY <3>1, <1>1
    <2>2. msg' \in [Messages -> Message]
      BY <1>2, <1>4
    <2> QED
      BY <1>1, <2>1, <2>2 DEF TypeOK
  <1>10. \A r \in Runs : run'[r].stage = run[r].stage /\ (Working(r)' <=> Working(r))
    BY <1>6, <1>7, <1>8 DEF Working
  <1>11. \A r \in Runs : run[r].at \in Messages => Working(r)
    BY DeliveriesAssumption DEF At
  <1>12. \A r \in Runs : run'[r].at = run[r].at
    BY <1>6, <1>7, <1>8 DEF At, Working
  <1>13. At'
    BY <1>10, <1>12 DEF At
  <1>14. Solo'
    <2> SUFFICES ASSUME NEW r \in Runs, Working(r)
                 PROVE  /\ msg'[run[r].at].status = "PROCESSING"
                        /\ msg'[run[r].at].locked <= LockTime
                        /\ msg'[run[r].at].attempts > 0
                        /\ \A q \in Runs \ {r} : run[q].at # run[r].at
      BY <1>10, <1>12 DEF Solo
    <2>1. run[r].at \in Messages /\ run[r].at # None
      BY DeliveriesAssumption DEF At
    <2>2. msg[run[r].at].locked < LockTime
      BY <1>1, <2>1
    <2>3. msg'[run[r].at].locked <= LockTime
      <3> DEFINE m == run[r].at
      <3>1. Held(m) <= msg[m].locked + 1 /\ msg[m].locked \in Nat
            /\ Held(m) \in 0..LockTime + RunTime + 1
        BY <1>3, <2>1
      <3>2. msg'[m].locked = Held(m)
        BY <1>5, <2>1
      <3> HIDE DEF Held
      <3> QED
        BY <3>1, <3>2, <2>2, DeliveriesAssumption
    <2> QED
      BY <2>1, <2>3, <1>5 DEF Solo
  <1>15. Accounted'
    BY <1>1, <1>5, <1>10, <1>12 DEF Accounted
  <1>16. Untried' /\ AttemptsBounded'
    BY <1>5 DEF Untried, AttemptsBounded
  <1>17. Listed'
    <2> SUFFICES ASSUME NEW r \in Runs, NEW m \in run'[r].list, msg'[m].attempts = MaxAttempts
                 PROVE  Exhausted(r, m)'
      BY DEF Listed
    <2>1. run[r].stage # "idle"
      BY <1>7, <1>8
    <2>2. m \in Messages /\ m \in run[r].list
      BY <1>6, <2>1 DEF TypeOK, Run
    <2>3. Exhausted(r, m)
      BY <1>5, <2>2 DEF Listed
    <2>4. CASE msg[m].status = "SENT"
      BY <2>2, <2>4, <1>5 DEF Exhausted
    <2>5. CASE msg[m].status = "PROCESSING" /\ msg[m].locked <= run[r].age
      <3>1. Held(m) <= msg[m].locked + 1 /\ msg[m].locked \in Nat
            /\ Held(m) \in 0..LockTime + RunTime + 1
        BY <1>3, <2>2
      <3>2. msg'[m].locked = Held(m) /\ msg'[m].status = "PROCESSING"
        BY <1>5, <2>2, <2>5
      <3>3. run'[r].age = run[r].age + 1 /\ run[r].age \in Nat
        BY <1>6, <2>1
      <3> HIDE DEF Held
      <3> QED
        BY <3>1, <3>2, <3>3, <2>5, DeliveriesAssumption DEF Exhausted
    <2>6. CASE msg[m].status = "FAILED" /\ msg[m].next > -run[r].age
      <3>1. run'[r].age = run[r].age + 1 /\ run[r].age \in Nat /\ run[r].age < RunTime
        BY <1>6, <2>1
      <3>2. msg[m].next \in Int
        BY <1>3, <2>2
      <3>3. Sooner(m) > -(run[r].age + 1)
        BY <3>1, <3>2, <2>6, DeliveriesAssumption
      <3>4. msg'[m].next = Sooner(m) /\ msg'[m].status = "FAILED"
        BY <1>5, <2>2, <2>6
      <3> QED
        BY <3>1, <3>3, <3>4 DEF Exhausted
    <2> QED
      BY <2>3, <2>4, <2>5, <2>6 DEF Exhausted
  <1> QED
    BY <1>9, <1>13, <1>14, <1>15, <1>16, <1>17

-----------------------------------------------------------------------------

LEMMA NextIInv == IInv /\ [Next]_vars => IInv'
  <1> SUFFICES ASSUME IInv, [Next]_vars PROVE IInv'
    OBVIOUS
  <1>1. ASSUME NEW m \in Messages, Notify(m) PROVE IInv'
    BY <1>1, NotifyStep
  <1>2. ASSUME NEW r \in Runs, StartRun(r) PROVE IInv'
    BY <1>2, StartStep
  <1>3. ASSUME NEW r \in Runs, Step(r) PROVE IInv'
    <2>1. CASE Recover(r) \/ ReadCandidates(r) \/ EndRun(r)
      BY <2>1, RecoverStep, ReadStep, EndStep
    <2>2. CASE \E m \in Messages : Claim(r, m)
      BY <2>2, ClaimStep
    <2>3. CASE \E taken, answered \in BOOLEAN : Send(r, taken, answered)
      BY <2>3, SendStep
    <2>4. CASE MarkSent(r) \/ MarkFailed(r)
      BY <2>4, MarkSentStep, MarkFailedStep
    <2> QED
      BY <1>3, <2>1, <2>2, <2>3, <2>4 DEF Step
  <1>4. ASSUME NEW r \in Runs, SentFails(r) \/ Crash(r) PROVE IInv'
    BY <1>4, SentFailsStep, CrashStep
  <1>5. CASE Tick
    BY <1>5, TickStep
  <1>6. CASE UNCHANGED vars
    BY <1>6 DEF vars, IInv, TypeOK, At, Working, Solo, Accounted, Untried, AttemptsBounded,
                Listed, Exhausted
  <1> QED
    BY <1>1, <1>2, <1>3, <1>4, <1>5, <1>6 DEF Next

LEMMA Invariant == Spec => []IInv
  <1> QED
    BY InitIInv, NextIInv, PTL DEF Spec

\* The rows, the runs and the counts keep their types: the lock and the next
\* attempt of processPending stay within the times of one run.
THEOREM DeliveriesTypeCorrect == Spec => []TypeOK
  <1>1. IInv => TypeOK
    BY DEF IInv
  <1> QED
    BY <1>1, Invariant, PTL

\* Overlapping runs of processPending never send one delivery twice: a second
\* acceptance follows one that was lost; and none claims a delivery more than
\* five times, however old the list it works through.
THEOREM NeverSentTwice == Spec => []DuplicatesExplained
  <1>1. IInv => DuplicatesExplained
    BY DEF IInv, Accounted, DuplicatesExplained
  <1> QED
    BY <1>1, Invariant, PTL

-----------------------------------------------------------------------------

\* Cardinality, under the name the instances give it.
LEMMA SameCardinality ==
  ASSUME NEW S PROVE C!Cardinality(S) = Cardinality(S) /\ A!Cardinality(S) = Cardinality(S)
  BY DEF C!Cardinality, A!Cardinality, Cardinality

-----------------------------------------------------------------------------
(* JobHealth.  What Redis has and what is on its way to it together know   *)
(* the last failure of a job, unless its write was lost; so does the       *)
(* memory, until a restart, and again once it is hydrated.                 *)

FailureOf(j, i) == queued[i].kind = "failure" /\ queued[i].job = j

Sending(j) == \E i \in DOMAIN queued : FailureOf(j, i)

LastSent(j, i) == FailureOf(j, i) /\ \A k \in DOMAIN queued : k > i => ~FailureOf(j, k)

OnItsWay(j) ==
    /\ ~Sending(j) => stored[j]["failure"] = happened[j]["failure"]
    /\ \A i \in DOMAIN queued : LastSent(j, i) => queued[i].at = happened[j]["failure"]

Remembered(j) ==
    \/ memory[j]["failure"] = happened[j]["failure"]
    \/ ~hydrated /\ ~Sending(j)

FailuresKnown == \A j \in Jobs \ unstored : OnItsWay(j) /\ Remembered(j)

\* Nothing is remembered, stored or sent that did not happen.
TimesTrue ==
    \A j \in Jobs, k \in H!Kinds :
        /\ memory[j][k] <= happened[j][k]
        /\ stored[j][k] <= happened[j][k]
        /\ happened[j][k] <= now

SentTrue ==
    \A i \in DOMAIN queued :
        /\ queued[i].op = "write" => queued[i].at <= happened[queued[i].job][queued[i].kind]
        /\ queued[i].op = "read" => queued[i].kind = "success"

HealthIInv == H!TypeOK /\ TimesTrue /\ SentTrue /\ FailuresKnown

LEMMA HydrationType ==
  /\ H!Hydration \in H!Command
  /\ H!Hydration.op = "read" /\ H!Hydration.kind = "success"
  BY ServicesAssumption DEF H!Hydration, H!Command, H!Kinds, H!Instants, H!Never

LEMMA EmptyType ==
  /\ H!Empty \in H!Table
  /\ \A j \in Jobs, k \in H!Kinds : H!Empty[j][k] = -1
  BY ServicesAssumption DEF H!Empty, H!Table, H!Instants, H!Never

\* A queue with one command, the hydration.
LEMMA Hydrating ==
  ASSUME queued' = <<H!Hydration>>
  PROVE  /\ queued' \in Seq(H!Command) /\ Len(queued') <= MaxQueued
         /\ DOMAIN queued' = {1} /\ queued'[1] = H!Hydration
         /\ \A j \in Jobs : ~Sending(j)' /\ \A i \in DOMAIN queued' : ~LastSent(j, i)'
  <1>1. queued' \in Seq(H!Command) /\ Len(queued') <= MaxQueued
    BY HydrationType, ServicesAssumption
  <1>2. DOMAIN queued' = {1} /\ queued'[1] = H!Hydration
    OBVIOUS
  <1>3. \A j \in Jobs : ~Sending(j)' /\ \A i \in DOMAIN queued' : ~LastSent(j, i)'
    BY <1>2, HydrationType DEF Sending, LastSent, FailureOf
  <1> QED
    BY <1>1, <1>2, <1>3

LEMMA HealthInit == H!Init => HealthIInv
  <1> SUFFICES ASSUME H!Init PROVE HealthIInv
    OBVIOUS
  <1> USE DEF H!Init
  <1>1. queued \in Seq(H!Command) /\ Len(queued) <= MaxQueued
        /\ DOMAIN queued = {1} /\ queued[1] = H!Hydration
    BY HydrationType, ServicesAssumption
  <1>2. H!TypeOK
    <2>1. now \in 0..MaxTime /\ unstored \subseteq Jobs
      BY ServicesAssumption
    <2>2. memory \in H!Table /\ stored \in H!Table /\ happened \in H!Table
      BY EmptyType
    <2> QED
      BY <1>1, <2>1, <2>2 DEF H!TypeOK
  <1>3. TimesTrue
    BY EmptyType DEF TimesTrue
  <1>4. SentTrue
    BY <1>1, HydrationType DEF SentTrue
  <1>5. FailuresKnown
    BY <1>1, HydrationType, EmptyType
    DEF FailuresKnown, OnItsWay, Remembered, Sending, LastSent, FailureOf
  <1> QED
    BY <1>2, <1>3, <1>4, <1>5 DEF HealthIInv

\* The queue gains a command that is no failure.
LEMMA Appended ==
  ASSUME HealthIInv, NEW c \in H!Command, Len(queued) < MaxQueued,
         queued' = Append(queued, c)
  PROVE  /\ queued' \in Seq(H!Command) /\ Len(queued') <= MaxQueued
         /\ DOMAIN queued' = DOMAIN queued \union {Len(queued) + 1}
         /\ \A i \in DOMAIN queued : queued'[i] = queued[i] /\ i < Len(queued) + 1
         /\ queued'[Len(queued) + 1] = c
         /\ Len(queued) + 1 \notin DOMAIN queued
  <1>1. queued \in Seq(H!Command)
    BY DEF HealthIInv, H!TypeOK
  <1>2. queued' \in Seq(H!Command) /\ Len(queued') = Len(queued) + 1
    BY <1>1
  <1>3. DOMAIN queued = 1..Len(queued) /\ DOMAIN queued' = 1..Len(queued') /\ Len(queued) \in Nat
    BY <1>1, <1>2, LenProperties
  <1>4. \A i \in DOMAIN queued : queued'[i] = queued[i]
    BY <1>1, <1>3
  <1>5. queued'[Len(queued) + 1] = c
    BY <1>1
  <1> QED
    BY <1>2, <1>3, <1>4, <1>5, ServicesAssumption

\* The queue loses its first command.
LEMMA Dequeued ==
  ASSUME HealthIInv, queued # <<>>, queued' = Tail(queued)
  PROVE  /\ queued' \in Seq(H!Command) /\ Len(queued') <= MaxQueued
         /\ Head(queued) \in H!Command /\ Head(queued) = queued[1] /\ 1 \in DOMAIN queued
         /\ \A i \in DOMAIN queued' : i + 1 \in DOMAIN queued /\ queued'[i] = queued[i + 1]
                                      /\ i \in Nat \ {0}
         /\ \A i \in DOMAIN queued : i = 1 \/ (i \in Nat /\ i > 1 /\ i - 1 \in DOMAIN queued')
  <1>1. queued \in Seq(H!Command) /\ Len(queued) <= MaxQueued
    BY DEF HealthIInv, H!TypeOK
  <1>2. /\ queued' \in Seq(H!Command) /\ Len(queued') = Len(queued) - 1
        /\ Head(queued) \in H!Command
        /\ \A i \in 1..Len(queued') : queued'[i] = queued[i + 1]
    BY <1>1, HeadTailProperties
  <1>3. DOMAIN queued = 1..Len(queued) /\ DOMAIN queued' = 1..Len(queued') /\ Len(queued) \in Nat
    BY <1>1, <1>2, LenProperties
  <1>4. Len(queued) > 0
    BY <1>1, <1>3, EmptySeq
  <1>5. Head(queued) = queued[1]
    BY <1>1
  <1> QED
    BY <1>1, <1>2, <1>3, <1>4, <1>5, ServicesAssumption

\* What is left of the queue, by job.
LEMMA StillSending ==
  ASSUME HealthIInv, queued # <<>>, queued' = Tail(queued), NEW j \in Jobs
  PROVE  /\ Sending(j) <=> FailureOf(j, 1) \/ Sending(j)'
         /\ \A i \in DOMAIN queued' : LastSent(j, i)' => LastSent(j, i + 1)
         /\ FailureOf(j, 1) /\ ~Sending(j)' => LastSent(j, 1)
  <1>1. \A i \in DOMAIN queued' : FailureOf(j, i)' <=> FailureOf(j, i + 1)
    BY Dequeued DEF FailureOf
  <1>2. Sending(j) <=> FailureOf(j, 1) \/ Sending(j)'
    <2>1. ASSUME NEW i \in DOMAIN queued, FailureOf(j, i), i # 1 PROVE Sending(j)'
      <3>1. i - 1 \in DOMAIN queued' /\ (i - 1) + 1 = i
        BY <2>1, Dequeued
      <3> QED
        BY <3>1, <2>1, <1>1 DEF Sending
    <2> QED
      BY <2>1, <1>1, Dequeued DEF Sending
  <1>3. ASSUME NEW i \in DOMAIN queued', LastSent(j, i)' PROVE LastSent(j, i + 1)
    <2>1. FailureOf(j, i + 1)
      BY <1>1, <1>3 DEF LastSent
    <2>2. ASSUME NEW k \in DOMAIN queued, k > i + 1 PROVE ~FailureOf(j, k)
      <3>1. k - 1 \in DOMAIN queued' /\ k - 1 > i /\ (k - 1) + 1 = k
        BY <2>2, Dequeued
      <3> QED
        BY <3>1, <1>1, <1>3 DEF LastSent
    <2> QED
      BY <2>1, <2>2 DEF LastSent
  <1>4. ASSUME FailureOf(j, 1), ~Sending(j)' PROVE LastSent(j, 1)
    <2>1. ASSUME NEW k \in DOMAIN queued, k > 1 PROVE ~FailureOf(j, k)
      <3>1. k - 1 \in DOMAIN queued' /\ (k - 1) + 1 = k
        BY <2>1, Dequeued
      <3> QED
        BY <3>1, <1>1, <1>4 DEF Sending
    <2> QED
      BY <2>1, <1>4 DEF LastSent
  <1> QED
    BY <1>2, <1>3, <1>4

LEMMA RecordStep ==
  ASSUME HealthIInv, NEW j \in Jobs, NEW kind \in H!Kinds, H!Record(j, kind) PROVE HealthIInv'
  <1> DEFINE c == [op |-> "write", job |-> j, kind |-> kind, at |-> now]
  <1> USE DEF HealthIInv
  <1>0. PICK n : n = Len(queued) + 1
    OBVIOUS
  <1>1. now \in H!Instants /\ now \in Nat /\ now >= -1
    BY ServicesAssumption DEF H!TypeOK, H!Instants, H!Never
  <1>2. c \in H!Command /\ c.op = "write" /\ c.job = j /\ c.kind = kind /\ c.at = now
    BY <1>1 DEF H!Command
  <1>3. Len(queued) < MaxQueued /\ queued' = Append(queued, c)
    BY DEF H!Record
  <1> HIDE DEF c
  <1>4. /\ queued' \in Seq(H!Command) /\ Len(queued') <= MaxQueued
        /\ DOMAIN queued' = DOMAIN queued \union {n}
        /\ \A i \in DOMAIN queued : queued'[i] = queued[i] /\ i < n
        /\ queued'[n] = c
        /\ n \notin DOMAIN queued
    BY <1>0, <1>2, <1>3, Appended
  <1>5. memory \in H!Table /\ happened \in H!Table /\ stored \in H!Table
    BY DEF H!TypeOK
  <1>6. memory[j][kind] <= now /\ memory[j][kind] \in Int
    BY <1>1, <1>5, ServicesAssumption DEF H!Table, H!Instants, H!Never, TimesTrue
  <1>7. H!Latest(memory[j][kind], now) = now
    BY <1>1, <1>6 DEF H!Latest
  <1>8. /\ memory' = [memory EXCEPT ![j][kind] = now]
        /\ happened' = [happened EXCEPT ![j][kind] = now]
        /\ UNCHANGED <<now, stored, hydrated, schedulers, redis, unstored>>
    BY <1>7 DEF H!Record
  <1>9. /\ memory' \in H!Table /\ happened' \in H!Table
        /\ \A i \in Jobs, k \in H!Kinds :
             /\ memory'[i][k] = IF i = j /\ k = kind THEN now ELSE memory[i][k]
             /\ happened'[i][k] = IF i = j /\ k = kind THEN now ELSE happened[i][k]
    BY <1>1, <1>5, <1>8 DEF H!Table
  <1>10. H!TypeOK'
    BY <1>4, <1>8, <1>9 DEF H!TypeOK
  <1>11. TimesTrue'
    BY <1>1, <1>5, <1>8, <1>9, ServicesAssumption DEF TimesTrue, H!Table, H!Instants, H!Never
  <1>12. SentTrue'
    <2> SUFFICES ASSUME NEW i \in DOMAIN queued'
                 PROVE  /\ queued'[i].op = "write"
                           => queued'[i].at <= happened'[queued'[i].job][queued'[i].kind]
                        /\ queued'[i].op = "read" => queued'[i].kind = "success"
      BY DEF SentTrue
    <2>1. CASE i = n
      BY <2>1, <1>1, <1>2, <1>4, <1>9
    <2>2. CASE i \in DOMAIN queued
      <3>1. queued'[i] = queued[i] /\ queued[i] \in H!Command
        BY <2>2, <1>4, ElementOfSeq, LenProperties DEF H!TypeOK
      <3>2. queued[i].job \in Jobs /\ queued[i].kind \in H!Kinds /\ queued[i].at \in Int
        BY <3>1, ServicesAssumption DEF H!Command, H!Instants, H!Never
      <3>3. \A g \in Jobs, k \in H!Kinds :
                happened[g][k] \in Int /\ happened[g][k] <= happened'[g][k]
        BY <1>1, <1>5, <1>9, ServicesAssumption DEF TimesTrue, H!Table, H!Instants, H!Never
      <3>4. /\ queued[i].op = "write" => queued[i].at <= happened[queued[i].job][queued[i].kind]
            /\ queued[i].op = "read" => queued[i].kind = "success"
        BY <2>2 DEF SentTrue
      <3>5. happened'[queued[i].job][queued[i].kind] \in Int
        BY <3>2, <1>9, <1>1, <3>3
      <3> QED
        BY <3>1, <3>2, <3>3, <3>4, <3>5
    <2> QED
      BY <2>1, <2>2, <1>4
  <1>13. FailuresKnown'
    <2> SUFFICES ASSUME NEW i \in Jobs \ unstored PROVE OnItsWay(i)' /\ Remembered(i)'
      BY <1>8 DEF FailuresKnown
    <2>1. OnItsWay(i) /\ Remembered(i)
      BY DEF FailuresKnown
    <2>2. \A k \in DOMAIN queued : FailureOf(i, k)' <=> FailureOf(i, k)
      BY <1>4 DEF FailureOf
    <2>3. FailureOf(i, n)' <=> i = j /\ kind = "failure"
      BY <1>2, <1>4 DEF FailureOf
    <2>4. "failure" \in H!Kinds
      BY DEF H!Kinds
    <2>5. CASE i = j /\ kind = "failure"
      <3>1. Sending(i)' /\ \A k \in DOMAIN queued : ~LastSent(i, k)'
        BY <2>3, <2>5, <1>4 DEF Sending, LastSent
      <3>2. queued'[n].at = happened'[i]["failure"] /\ memory'[i]["failure"] = happened'[i]["failure"]
        BY <2>5, <1>2, <1>4, <1>9
      <3> QED
        BY <3>1, <3>2, <1>4 DEF OnItsWay, Remembered
    <2>6. CASE ~(i = j /\ kind = "failure")
      <3>1. memory'[i]["failure"] = memory[i]["failure"] /\ happened'[i]["failure"] = happened[i]["failure"]
        BY <2>4, <2>6, <1>9
      <3>2. Sending(i)' <=> Sending(i)
        BY <2>2, <2>3, <2>6, <1>4 DEF Sending
      <3>3. \A k \in DOMAIN queued' : LastSent(i, k)' => k \in DOMAIN queued /\ LastSent(i, k)
        BY <2>2, <2>3, <2>6, <1>4 DEF LastSent
      <3> QED
        BY <2>1, <3>1, <3>2, <3>3, <1>4, <1>8 DEF OnItsWay, Remembered
    <2> QED
      BY <2>5, <2>6
  <1> QED
    BY <1>10, <1>11, <1>12, <1>13

\* The first command is answered or fails.
LEMMA FirstAnswered ==
  ASSUME HealthIInv, queued # <<>>, queued' = Tail(queued), UNCHANGED happened
  PROVE  SentTrue'
  <1>1. \A i \in DOMAIN queued' : i + 1 \in DOMAIN queued /\ queued'[i] = queued[i + 1]
    BY Dequeued
  <1> QED
    BY <1>1 DEF SentTrue, HealthIInv

LEMMA AnswerWriteStep ==
  ASSUME HealthIInv, H!Answer, Head(queued).op = "write" PROVE HealthIInv'
  <1> DEFINE c == Head(queued)
  <1> USE DEF HealthIInv
  <1>1. /\ queued # <<>> /\ queued' = Tail(queued)
        /\ stored' = [stored EXCEPT ![c.job][c.kind] = c.at]
        /\ UNCHANGED <<memory, hydrated, now, schedulers, redis, happened, unstored>>
    BY DEF H!Answer
  <1>2. c \in H!Command /\ c = queued[1] /\ 1 \in DOMAIN queued
        /\ queued' \in Seq(H!Command) /\ Len(queued') <= MaxQueued
    BY <1>1, Dequeued
  <1>3. c.job \in Jobs /\ c.kind \in H!Kinds /\ c.at \in H!Instants
    BY <1>2 DEF H!Command
  <1>4. c.at <= happened[c.job][c.kind]
    BY <1>2 DEF SentTrue
  <1> HIDE DEF c
  <1>5. /\ stored' \in H!Table
        /\ \A i \in Jobs, k \in H!Kinds :
             stored'[i][k] = IF i = c.job /\ k = c.kind THEN c.at ELSE stored[i][k]
    BY <1>1, <1>3 DEF H!Table, H!TypeOK
  <1>6. H!TypeOK'
    BY <1>1, <1>2, <1>5 DEF H!TypeOK
  <1>7. TimesTrue'
    BY <1>1, <1>4, <1>5 DEF TimesTrue
  <1>8. SentTrue'
    BY <1>1, FirstAnswered
  <1>9. FailuresKnown'
    <2> SUFFICES ASSUME NEW j \in Jobs \ unstored PROVE OnItsWay(j)' /\ Remembered(j)'
      BY <1>1 DEF FailuresKnown
    <2>1. OnItsWay(j) /\ Remembered(j)
      BY DEF FailuresKnown
    <2>2. /\ Sending(j) <=> FailureOf(j, 1) \/ Sending(j)'
          /\ \A i \in DOMAIN queued' : LastSent(j, i)' => LastSent(j, i + 1)
          /\ FailureOf(j, 1) /\ ~Sending(j)' => LastSent(j, 1)
      BY <1>1, StillSending
    <2>3. \A i \in DOMAIN queued' : i + 1 \in DOMAIN queued /\ queued'[i] = queued[i + 1]
      BY <1>1, Dequeued
    <2>4. FailureOf(j, 1) <=> c.job = j /\ c.kind = "failure"
      BY <1>2 DEF FailureOf
    <2>5. "failure" \in H!Kinds
      BY DEF H!Kinds
    <2>6. ~Sending(j)' => stored'[j]["failure"] = happened[j]["failure"]
      <3>1. CASE FailureOf(j, 1)
        BY <3>1, <2>1, <2>2, <2>4, <2>5, <1>2, <1>5 DEF OnItsWay
      <3>2. CASE ~FailureOf(j, 1)
        BY <3>2, <2>1, <2>2, <2>4, <2>5, <1>5 DEF OnItsWay
      <3> QED
        BY <3>1, <3>2
    <2>7. OnItsWay(j)'
      BY <2>1, <2>2, <2>3, <2>6, <1>1 DEF OnItsWay
    <2>8. Remembered(j)'
      BY <2>1, <2>2, <1>1 DEF Remembered
    <2> QED
      BY <2>7, <2>8
  <1> QED
    BY <1>6, <1>7, <1>8, <1>9

LEMMA AnswerReadStep ==
  ASSUME HealthIInv, H!Answer, Head(queued).op # "write" PROVE HealthIInv'
  <1> USE DEF HealthIInv
  <1>1. /\ queued # <<>> /\ queued' = Tail(queued)
        /\ memory' = H!Merged(memory, stored) /\ hydrated' = TRUE
        /\ UNCHANGED <<stored, now, schedulers, redis, happened, unstored>>
    BY DEF H!Answer
  <1>2. /\ Head(queued) \in H!Command /\ Head(queued) = queued[1] /\ 1 \in DOMAIN queued
        /\ queued' \in Seq(H!Command) /\ Len(queued') <= MaxQueued
    BY <1>1, Dequeued
  <1>3. queued[1].op = "read"
    BY <1>2 DEF H!Command
  <1>4. queued[1].kind # "failure"
    BY <1>2, <1>3 DEF SentTrue
  <1>5. memory \in H!Table /\ stored \in H!Table /\ happened \in H!Table
    BY DEF H!TypeOK
  <1>6. \A j \in Jobs, k \in H!Kinds :
          /\ memory[j][k] \in H!Instants /\ stored[j][k] \in H!Instants /\ happened[j][k] \in H!Instants
          /\ memory'[j][k] = H!Latest(memory[j][k], stored[j][k])
    BY <1>1, <1>5 DEF H!Table, H!Merged
  <1>7. memory' \in H!Table
    BY <1>1, <1>6 DEF H!Table, H!Merged, H!Latest
  <1>8. H!TypeOK'
    BY <1>1, <1>2, <1>7 DEF H!TypeOK
  <1>9. TimesTrue'
    BY <1>1, <1>6 DEF TimesTrue, H!Latest
  <1>10. SentTrue'
    BY <1>1, FirstAnswered
  <1>11. FailuresKnown'
    <2> SUFFICES ASSUME NEW j \in Jobs \ unstored PROVE OnItsWay(j)' /\ Remembered(j)'
      BY <1>1 DEF FailuresKnown
    <2>1. OnItsWay(j) /\ Remembered(j)
      BY DEF FailuresKnown
    <2>2. /\ Sending(j) <=> Sending(j)'
          /\ \A i \in DOMAIN queued' : LastSent(j, i)' => LastSent(j, i + 1)
      BY <1>1, <1>4, StillSending DEF FailureOf
    <2>3. \A i \in DOMAIN queued' : i + 1 \in DOMAIN queued /\ queued'[i] = queued[i + 1]
      BY <1>1, Dequeued
    <2>4. OnItsWay(j)'
      BY <2>1, <2>2, <2>3, <1>1 DEF OnItsWay
    <2>5. "failure" \in H!Kinds
      BY DEF H!Kinds
    <2>6. \/ memory[j]["failure"] = happened[j]["failure"]
          \/ stored[j]["failure"] = happened[j]["failure"]
      BY <2>1 DEF Remembered, OnItsWay
    <2>7. memory'[j]["failure"] = happened[j]["failure"]
      BY <2>5, <2>6, <1>6, ServicesAssumption DEF H!Latest, TimesTrue, H!Instants, H!Never
    <2>8. Remembered(j)'
      BY <2>7, <1>1 DEF Remembered
    <2> QED
      BY <2>4, <2>8
  <1> QED
    BY <1>8, <1>9, <1>10, <1>11

LEMMA CommandFailsStep == ASSUME HealthIInv, H!CommandFails PROVE HealthIInv'
  <1> DEFINE c == Head(queued)
  <1> USE DEF HealthIInv
  <1>1. /\ queued # <<>> /\ queued' = Tail(queued)
        /\ hydrated' = (hydrated /\ c.op = "write")
        /\ unstored' = IF c.op = "write" /\ c.kind = "failure"
                       THEN unstored \union {c.job} ELSE unstored
        /\ UNCHANGED <<memory, stored, now, schedulers, redis, happened>>
    BY DEF H!CommandFails
  <1>2. c \in H!Command /\ c = queued[1] /\ 1 \in DOMAIN queued
        /\ queued' \in Seq(H!Command) /\ Len(queued') <= MaxQueued
    BY <1>1, Dequeued
  <1>3. c.job \in Jobs /\ (c.kind = "failure" => c.op = "write")
    BY <1>2 DEF H!Command, SentTrue
  <1> HIDE DEF c
  <1>4. H!TypeOK'
    <2>1. hydrated' \in BOOLEAN /\ unstored' \subseteq Jobs
      BY <1>1, <1>3 DEF H!TypeOK
    <2> QED
      BY <1>1, <1>2, <2>1 DEF H!TypeOK
  <1>5. TimesTrue' /\ SentTrue'
    BY <1>1, FirstAnswered DEF TimesTrue
  <1>6. FailuresKnown'
    <2> SUFFICES ASSUME NEW j \in Jobs, j \notin unstored' PROVE OnItsWay(j)' /\ Remembered(j)'
      BY DEF FailuresKnown
    <2>1. j \notin unstored /\ ~(c.job = j /\ c.kind = "failure")
      BY <1>1, <1>3
    <2>2. OnItsWay(j) /\ Remembered(j) /\ ~FailureOf(j, 1)
      BY <1>2, <2>1 DEF FailuresKnown, FailureOf
    <2>3. /\ Sending(j) <=> Sending(j)'
          /\ \A i \in DOMAIN queued' : LastSent(j, i)' => LastSent(j, i + 1)
      BY <1>1, <2>2, StillSending
    <2>4. \A i \in DOMAIN queued' : i + 1 \in DOMAIN queued /\ queued'[i] = queued[i + 1]
      BY <1>1, Dequeued
    <2>5. OnItsWay(j)'
      BY <2>2, <2>3, <2>4, <1>1 DEF OnItsWay
    <2>6. Remembered(j)'
      BY <2>2, <2>3, <1>1 DEF Remembered
    <2> QED
      BY <2>5, <2>6
  <1> QED
    BY <1>4, <1>5, <1>6

LEMMA RedisReadyStep == ASSUME HealthIInv, H!RedisReady PROVE HealthIInv'
  <1> USE DEF HealthIInv
  <1>1. CASE queued' = queued
    BY <1>1 DEF H!RedisReady, H!TypeOK, TimesTrue, SentTrue, FailuresKnown, OnItsWay, Remembered,
                Sending, LastSent, FailureOf
  <1>2. CASE Len(queued) < MaxQueued /\ queued' = Append(queued, H!Hydration)
    <2>0. PICK n : n = Len(queued) + 1
      OBVIOUS
    <2>1. /\ queued' \in Seq(H!Command) /\ Len(queued') <= MaxQueued
          /\ DOMAIN queued' = DOMAIN queued \union {n}
          /\ \A i \in DOMAIN queued : queued'[i] = queued[i] /\ i < n
          /\ queued'[n] = H!Hydration
          /\ n \notin DOMAIN queued
      BY <1>2, <2>0, Appended, HydrationType
    <2>2. redis' = TRUE
          /\ UNCHANGED <<now, memory, stored, hydrated, schedulers, happened, unstored>>
      BY DEF H!RedisReady
    <2>3. H!TypeOK'
      BY <2>1, <2>2 DEF H!TypeOK
    <2>4. TimesTrue' /\ SentTrue'
      BY <2>1, <2>2, HydrationType DEF TimesTrue, SentTrue
    <2>5. FailuresKnown'
      <3> SUFFICES ASSUME NEW j \in Jobs \ unstored PROVE OnItsWay(j)' /\ Remembered(j)'
        BY <2>2 DEF FailuresKnown
      <3>1. ~FailureOf(j, n)' /\ \A k \in DOMAIN queued : FailureOf(j, k)' <=> FailureOf(j, k)
        BY <2>1, HydrationType DEF FailureOf
      <3>2. /\ Sending(j)' <=> Sending(j)
            /\ \A k \in DOMAIN queued' : LastSent(j, k)' => k \in DOMAIN queued /\ LastSent(j, k)
        BY <3>1, <2>1 DEF Sending, LastSent
      <3> QED
        BY <3>2, <2>1, <2>2 DEF FailuresKnown, OnItsWay, Remembered
    <2> QED
      BY <2>3, <2>4, <2>5
  <1> QED
    BY <1>1, <1>2 DEF H!RedisReady

LEMMA RestartStep == ASSUME HealthIInv, H!Restart PROVE HealthIInv'
  <1> USE DEF HealthIInv
  <1>1. /\ memory' = H!Empty /\ queued' = <<H!Hydration>>
        /\ unstored' = unstored \union H!Unstored
        /\ hydrated' = FALSE /\ schedulers' = FALSE /\ redis' = FALSE
        /\ UNCHANGED <<now, stored, happened>>
    BY DEF H!Restart
  <1>2. /\ queued' \in Seq(H!Command) /\ Len(queued') <= MaxQueued
        /\ DOMAIN queued' = {1} /\ queued'[1] = H!Hydration
        /\ \A j \in Jobs : ~Sending(j)' /\ \A i \in DOMAIN queued' : ~LastSent(j, i)'
    BY <1>1, Hydrating
  <1>3. \A i \in DOMAIN queued : queued[i] \in H!Command
    BY ElementOfSeq, LenProperties DEF H!TypeOK
  <1>4. H!Unstored \subseteq Jobs
    BY <1>3 DEF H!Unstored, H!Command
  <1>5. H!TypeOK'
    BY <1>1, <1>2, <1>4, EmptyType DEF H!TypeOK
  <1>6. TimesTrue'
    <2>1. \A j \in Jobs, k \in H!Kinds : happened[j][k] \in H!Instants
      BY DEF H!TypeOK, H!Table
    <2> QED
      BY <2>1, <1>1, EmptyType, ServicesAssumption DEF TimesTrue, H!Instants, H!Never
  <1>7. SentTrue'
    BY <1>2, HydrationType DEF SentTrue
  <1>8. FailuresKnown'
    <2> SUFFICES ASSUME NEW j \in Jobs, j \notin unstored' PROVE OnItsWay(j)' /\ Remembered(j)'
      BY DEF FailuresKnown
    <2>1. j \notin unstored /\ ~Sending(j)
      BY <1>1 DEF H!Unstored, Sending, FailureOf
    <2> QED
      BY <2>1, <1>1, <1>2 DEF FailuresKnown, OnItsWay, Remembered
  <1> QED
    BY <1>5, <1>6, <1>7, <1>8

LEMMA HealthTickStep == ASSUME HealthIInv, H!Tick PROVE HealthIInv'
  <1> USE DEF HealthIInv
  <1>1. now \in 0..MaxTime /\ now < MaxTime /\ now' = now + 1
        /\ UNCHANGED <<memory, stored, queued, hydrated, schedulers, redis, happened, unstored>>
    BY DEF H!Tick, H!TypeOK
  <1>2. now' \in 0..MaxTime
    BY <1>1, ServicesAssumption
  <1>3. H!TypeOK'
    BY <1>1, <1>2 DEF H!TypeOK
  <1>4. TimesTrue'
    <2>1. \A j \in Jobs, k \in H!Kinds : happened[j][k] \in H!Instants
      BY DEF H!TypeOK, H!Table
    <2> QED
      BY <2>1, <1>1, ServicesAssumption DEF TimesTrue, H!Instants, H!Never
  <1>5. SentTrue' /\ FailuresKnown'
    BY <1>1 DEF SentTrue, FailuresKnown, OnItsWay, Remembered, Sending, LastSent, FailureOf
  <1> QED
    BY <1>3, <1>4, <1>5

LEMMA HealthNextStep == HealthIInv /\ [H!Next]_hvars => HealthIInv'
  <1> SUFFICES ASSUME HealthIInv, [H!Next]_hvars PROVE HealthIInv'
    OBVIOUS
  <1>1. ASSUME NEW j \in Jobs, NEW kind \in H!Kinds, H!Record(j, kind) PROVE HealthIInv'
    BY <1>1, RecordStep
  <1>2. CASE H!Answer
    BY <1>2, AnswerWriteStep, AnswerReadStep
  <1>3. CASE H!CommandFails
    BY <1>3, CommandFailsStep
  <1>4. CASE H!RedisReady
    BY <1>4, RedisReadyStep
  <1>5. CASE H!RedisClosed \/ (\E ok \in BOOLEAN : H!SynchronizeSchedulers(ok)) \/ UNCHANGED hvars
    <2>1. /\ UNCHANGED <<now, memory, stored, queued, hydrated, happened, unstored>>
          /\ redis' \in BOOLEAN /\ schedulers' \in BOOLEAN
      BY <1>5 DEF H!RedisClosed, H!SynchronizeSchedulers, hvars, HealthIInv, H!TypeOK
    <2>2. H!TypeOK'
      BY <2>1 DEF HealthIInv, H!TypeOK
    <2>3. TimesTrue' /\ SentTrue' /\ FailuresKnown'
      BY <2>1 DEF HealthIInv, TimesTrue, SentTrue, FailuresKnown, OnItsWay, Remembered,
                  Sending, LastSent, FailureOf
    <2> QED
      BY <2>2, <2>3 DEF HealthIInv
  <1>6. CASE H!Restart
    BY <1>6, RestartStep
  <1>7. CASE H!Tick
    BY <1>7, HealthTickStep
  <1> QED
    BY <1>1, <1>2, <1>3, <1>4, <1>5, <1>6, <1>7 DEF H!Next

LEMMA HealthSafe == HealthIInv => H!TypeOK /\ H!HealthRemembersFailures
  <1> SUFFICES ASSUME HealthIInv, H!Healthy, NEW j \in Jobs \ unstored
               PROVE  happened[j]["failure"] < happened[j]["success"]
    BY DEF HealthIInv, H!HealthRemembersFailures
  <1>1. hydrated /\ memory[j]["success"] > memory[j]["failure"]
    BY DEF H!Healthy, H!Fresh
  <1>2. memory[j]["failure"] = happened[j]["failure"]
    BY <1>1 DEF HealthIInv, FailuresKnown, Remembered
  <1>3. memory[j]["success"] <= happened[j]["success"]
    BY DEF HealthIInv, TimesTrue, H!Kinds
  <1>4. \A k \in H!Kinds : memory[j][k] \in H!Instants /\ happened[j][k] \in H!Instants
    BY DEF HealthIInv, H!TypeOK, H!Table
  <1>5. /\ memory[j]["success"] \in Int /\ happened[j]["success"] \in Int
        /\ happened[j]["failure"] \in Int
    BY <1>4, ServicesAssumption DEF H!Kinds, H!Instants, H!Never
  <1> QED
    BY <1>1, <1>2, <1>3, <1>5

-----------------------------------------------------------------------------
(* CalendarSync.  While handlers come one after the other and no call      *)
(* fails, what the one at work has still to do is all the calendars lack.  *)

SeenPlaced(x) ==
    x.stage \in {"linking", "deleting", "deleted", "pushing", "storing"} =>
        x.seen.tech \in Techs /\ x.seen.start \in Starts

ApptPlaced(row) ==
    IF row.status = "ABSENT" THEN row.tech = None ELSE row.tech \in Techs /\ row.start \in Starts

CalendarTyped ==
    /\ C!TypeOK
    /\ ApptPlaced(appt)
    /\ \A r \in Requests : SeenPlaced(sync[r])

Calm == ~disturbed /\ ~unlinked

\* No link and no event; a link without event; a link with the one event there is.
NoTrace == link = C!NoLink /\ events = {}

Bare(t) ==
    /\ link.status # "ABSENT" /\ link.tech = t /\ link.event = None
    /\ t \in connected /\ events = {}

KeptAt(t, s) ==
    /\ link.status # "ABSENT" /\ link.tech = t /\ link.event # None
    /\ t \in connected
    /\ events = {[id |-> link.event, tech |-> t, start |-> s]}

Kept(t) == \E s \in Starts : KeptAt(t, s)

\* The link and the events once every handler has ended.
Rested ==
    \/ NoTrace /\ ~(appt.status = "CONFIRMED" /\ appt.tech \in connected)
    \/ Bare(appt.tech) /\ appt.status # "CONFIRMED"
    \/ KeptAt(appt.tech, appt.start) /\ appt.status = "CONFIRMED"
    \/ appt.status \in C!Gone /\ events = {}

\* The link and the events before they are brought up to date.
Stale ==
    \/ NoTrace
    \/ Bare(appt.tech)
    \/ Kept(appt.tech) /\ appt.status \in C!Gone \union {"CONFIRMED"}

\* Only the receipt may have come after the appointment was read.
SeenSo(r) ==
    LET seen == sync[r].seen IN
    /\ seen.tech = appt.tech /\ seen.start = appt.start
    /\ appt.tech \in connected
    /\ \/ seen.status = appt.status
       \/ seen.status = "HELD" /\ appt.status = "PENDING_PAYMENT"

\* The same while the handler of r is at work.
Copying(r) ==
    LET x == sync[r] IN
    /\ appt.status # "ABSENT"
    /\ x.stage = "moving" => NoTrace \/ Kept(x.previous)
    /\ x.stage = "removing" => Kept(x.previous) /\ x.event = link.event
    /\ x.stage = "unlinking" => events = {}
    /\ x.stage = "reading" => Stale
    /\ x.stage = "linking" => Stale /\ SeenSo(r)
    /\ x.stage = "deleting" =>
          Kept(appt.tech) /\ x.event = link.event /\ SeenSo(r) /\ appt.status \in C!Gone
    /\ x.stage = "deleted" => link.status # "ABSENT" /\ events = {} /\ appt.status \in C!Gone
    /\ x.stage = "pushing" =>
          /\ Bare(appt.tech) \/ Kept(appt.tech)
          /\ x.event = link.event /\ SeenSo(r) /\ appt.status = "CONFIRMED"
    /\ x.stage = "storing" =>
          /\ link.status # "ABSENT" /\ link.tech = appt.tech
          /\ x.event # None /\ SeenSo(r) /\ appt.status = "CONFIRMED"
          /\ events = {[id |-> x.event, tech |-> appt.tech, start |-> appt.start]}
    /\ x.stage \notin {"keeping", "failing"}

OneAtWork ==
    \A r, q \in Requests : sync[r].stage # "idle" /\ sync[q].stage # "idle" => r = q

Following ==
    /\ OneAtWork
    /\ C!AtRest => Rested
    /\ \A r \in Requests : sync[r].stage # "idle" => Copying(r)

CalendarIInv == CalendarTyped /\ (Calm => Following)

CalendarEvent == [id : 1..MaxEvents, tech : Techs, start : Starts]

LEMMA CalendarInit == C!Init => CalendarIInv
  <1> SUFFICES ASSUME C!Init PROVE CalendarIInv
    OBVIOUS
  <1> USE ServicesAssumption DEF C!Init, C!Idle, C!NoAppt, C!NoLink
  <1>1. C!TypeOK
    <2>1. appt \in C!Appt /\ link \in C!Link /\ made \in 0..MaxEvents
      BY DEF C!Appt, C!Link
    <2>2. C!Idle \in C!Sync
      BY <2>1 DEF C!Sync, C!Stages
    <2> QED
      BY <2>1, <2>2 DEF C!TypeOK
  <1>2. ApptPlaced(appt) /\ \A r \in Requests : SeenPlaced(sync[r])
    BY DEF ApptPlaced, SeenPlaced
  <1>3. Following
    BY DEF Following, OneAtWork, Rested, NoTrace
  <1> QED
    BY <1>1, <1>2, <1>3 DEF CalendarIInv, CalendarTyped

\* A step of the handler of r.
LEMMA CalendarTypes ==
  ASSUME CalendarTyped, NEW r \in Requests, NEW x \in C!Sync, SeenPlaced(x),
         sync' = [sync EXCEPT ![r] = x],
         appt' \in C!Appt, ApptPlaced(appt'), connected' \subseteq Techs, link' \in C!Link,
         events' \subseteq CalendarEvent, made' \in 0..MaxEvents,
         disturbed' \in BOOLEAN, unlinked' \in BOOLEAN
  PROVE  CalendarTyped'
  <1>1. sync' \in [Requests -> C!Sync] /\ \A q \in Requests : SeenPlaced(sync'[q])
    BY DEF CalendarTyped, C!TypeOK
  <1>2. C!TypeOK'
    BY <1>1 DEF C!TypeOK, CalendarEvent
  <1> QED
    BY <1>1, <1>2 DEF CalendarTyped

LEMMA LoneHandler ==
  ASSUME CalendarTyped, NEW r \in Requests, NEW x \in C!Sync,
         sync' = [sync EXCEPT ![r] = x],
         \/ C!Alone(r)
         \/ OneAtWork /\ sync[r].stage # "idle",
         x.stage = "idle" => Rested', x.stage # "idle" => Copying(r)'
  PROVE  Following'
  <1>1. C!Alone(r)
    BY DEF C!Alone, OneAtWork
  <1>2. sync'[r] = x /\ \A q \in Requests \ {r} : sync'[q] = sync[q] /\ sync[q].stage = "idle"
    BY <1>1 DEF CalendarTyped, C!TypeOK, C!Alone
  <1>3. OneAtWork'
    BY <1>2 DEF OneAtWork
  <1>4. C!AtRest' => Rested'
    BY <1>2 DEF C!AtRest
  <1> QED
    BY <1>2, <1>3, <1>4 DEF Following

\* What the typed tables say of one request and of the link.
LEMMA CalendarFields ==
  ASSUME CalendarTyped, NEW r \in Requests
  PROVE  /\ appt \in C!Appt /\ link \in C!Link /\ sync[r] \in C!Sync /\ connected \subseteq Techs
         /\ events \subseteq CalendarEvent /\ made \in 0..MaxEvents
         /\ disturbed \in BOOLEAN /\ unlinked \in BOOLEAN
         /\ sync \in [Requests -> C!Sync]
         /\ SeenPlaced(sync[r]) /\ ApptPlaced(appt)
  BY DEF CalendarTyped, C!TypeOK, CalendarEvent

\* A handler that starts.
LEMMA StartedBy ==
  ASSUME NEW r \in Requests, CalendarTyped, NEW stage \in {"moving", "reading"},
         NEW previous \in Techs \union {None}, C!Start(r, stage, previous)
  PROVE  \E x \in C!Sync :
            /\ sync' = [sync EXCEPT ![r] = x] /\ SeenPlaced(x)
            /\ x.stage = stage /\ x.previous = previous /\ sync'[r] = x
            /\ disturbed' \in BOOLEAN
            /\ ~disturbed' => ~disturbed /\ C!Alone(r)
  <1> DEFINE x == [C!Idle EXCEPT !.stage = stage, !.previous = previous]
  <1>1. x \in C!Sync /\ x.stage = stage /\ x.previous = previous
    BY ServicesAssumption DEF C!Idle, C!NoAppt, C!Sync, C!Stages, C!Appt
  <1>2. SeenPlaced(x)
    BY <1>1 DEF SeenPlaced
  <1>3. sync' = [sync EXCEPT ![r] = x] /\ disturbed' = (disturbed \/ ~C!Alone(r))
    BY DEF C!Start
  <1> HIDE DEF x
  <1>4. sync'[r] = x
    BY <1>3, CalendarFields
  <1>5. disturbed' \in BOOLEAN
    BY <1>3, CalendarFields DEF C!Alone
  <1> QED
    BY <1>1, <1>2, <1>3, <1>4, <1>5

\* While no handler is at work.
LEMMA AloneRested ==
  ASSUME CalendarIInv, Calm, NEW r \in Requests, C!Alone(r), sync[r].stage = "idle"
  PROVE  Rested
  BY DEF CalendarIInv, Following, C!Alone, C!AtRest

-----------------------------------------------------------------------------
(* The handlers that change the appointment.                               *)

LEMMA CreateHoldStep ==
  ASSUME CalendarIInv, NEW t \in Techs, NEW s \in Starts, C!CreateHold(t, s) PROVE CalendarIInv'
  <1> USE DEF CalendarIInv
  <1>1. /\ appt.status = "ABSENT" /\ appt' = [status |-> "HELD", tech |-> t, start |-> s]
        /\ UNCHANGED <<connected, link, events, made, sync, disturbed, unlinked>>
    BY DEF C!CreateHold
  <1>2. appt' \in C!Appt /\ ApptPlaced(appt')
    BY <1>1 DEF C!Appt, C!Blocking, ApptPlaced
  <1>3. CalendarTyped'
    BY <1>1, <1>2 DEF CalendarTyped, C!TypeOK
  <1>4. ASSUME Calm PROVE Following'
    <2>1. Following /\ C!AtRest
      BY <1>1, <1>4 DEF Following, Copying, C!AtRest
    <2>2. NoTrace
      <3>1. appt.tech = None /\ None \notin connected
        BY <1>1, ServicesAssumption DEF CalendarTyped, ApptPlaced, C!TypeOK
      <3> QED
        BY <1>1, <2>1, <3>1 DEF Following, Rested, Bare, KeptAt, C!Gone
    <2> QED
      BY <1>1, <2>1, <2>2 DEF Following, OneAtWork, C!AtRest, Rested, NoTrace
  <1> QED
    BY <1>1, <1>3, <1>4 DEF Calm

LEMMA UploadReceiptStep == ASSUME CalendarIInv, C!UploadReceipt PROVE CalendarIInv'
  <1> USE DEF CalendarIInv
  <1>1. /\ appt.status = "HELD" /\ appt' = [appt EXCEPT !.status = "PENDING_PAYMENT"]
        /\ UNCHANGED <<connected, link, events, made, sync, disturbed, unlinked>>
    BY DEF C!UploadReceipt
  <1>2. /\ appt' \in C!Appt /\ ApptPlaced(appt')
        /\ appt'.status = "PENDING_PAYMENT" /\ appt'.tech = appt.tech /\ appt'.start = appt.start
    BY <1>1 DEF C!Appt, C!Blocking, ApptPlaced, CalendarTyped, C!TypeOK
  <1>3. CalendarTyped'
    BY <1>1, <1>2 DEF CalendarTyped, C!TypeOK
  <1>4. ASSUME Calm PROVE Following'
    <2>1. Following
      BY <1>4
    <2>2. OneAtWork' /\ (C!AtRest' <=> C!AtRest)
      BY <1>1, <2>1 DEF Following, OneAtWork, C!AtRest
    <2>3. Rested => Rested'
      BY <1>1, <1>2 DEF Rested, NoTrace, Bare, KeptAt, C!Gone
    <2>4. ASSUME NEW r \in Requests, Copying(r) PROVE Copying(r)'
      <3>1. (Stale => Stale') /\ \A t \in Techs \union {None} :
                 (Kept(t) <=> Kept(t)') /\ (Bare(t) <=> Bare(t)') /\ (NoTrace <=> NoTrace')
        BY <1>1, <1>2 DEF Stale, NoTrace, Bare, Kept, KeptAt, C!Gone
      <3>2. SeenSo(r) => SeenSo(r)'
        BY <1>1, <1>2 DEF SeenSo
      <3>3. sync[r].previous \in Techs \union {None} /\ appt.tech \in Techs \union {None}
        BY DEF CalendarTyped, C!TypeOK, C!Sync, C!Appt
      <3> QED
        BY <1>1, <1>2, <2>4, <3>1, <3>2, <3>3 DEF Copying, C!Gone
    <2> QED
      BY <2>1, <2>2, <2>3, <2>4, <1>1 DEF Following
  <1> QED
    BY <1>1, <1>3, <1>4 DEF Calm

LEMMA CreateManualStep ==
  ASSUME CalendarIInv, NEW r \in Requests, NEW t \in Techs, NEW s \in Starts,
         C!CreateManual(r, t, s)
  PROVE  CalendarIInv'
  <1> USE DEF CalendarIInv
  <1>1. /\ appt.status = "ABSENT" /\ appt' = [status |-> "CONFIRMED", tech |-> t, start |-> s]
        /\ C!Start(r, "reading", None) /\ sync[r].stage = "idle"
        /\ UNCHANGED <<connected, link, events, made, unlinked>>
    BY DEF C!CreateManual, C!Start
  <1>2. appt' \in C!Appt /\ ApptPlaced(appt')
    BY <1>1 DEF C!Appt, C!Blocking, ApptPlaced
  <1>3. PICK x \in C!Sync :
            /\ sync' = [sync EXCEPT ![r] = x] /\ SeenPlaced(x)
            /\ x.stage = "reading" /\ sync'[r] = x /\ disturbed' \in BOOLEAN
            /\ ~disturbed' => ~disturbed /\ C!Alone(r)
    BY <1>1, StartedBy
  <1>4. CalendarTyped'
    BY <1>1, <1>2, <1>3, CalendarTypes, CalendarFields
  <1>5. ASSUME Calm' PROVE Following'
    <2>1. C!Alone(r) /\ Rested
      BY <1>1, <1>3, <1>5, AloneRested DEF Calm
    <2>2. appt.tech = None /\ None \notin connected
      BY <1>1, CalendarFields, ServicesAssumption DEF ApptPlaced
    <2>3. NoTrace
      BY <1>1, <2>1, <2>2 DEF Rested, Bare, KeptAt, C!Gone
    <2>4. Copying(r)'
      BY <1>1, <1>3, <2>3 DEF Copying, Stale, NoTrace
    <2> QED
      BY <1>3, <2>1, <2>4, LoneHandler
  <1> QED
    BY <1>4, <1>5

\* A handler that leaves the appointment with its technician.
LEMMA SameTechnician ==
  ASSUME CalendarIInv, NEW r \in Requests, sync[r].stage = "idle",
         C!Start(r, "reading", None), appt.status \in C!Blocking,
         appt' \in C!Appt, appt'.tech = appt.tech, appt'.start \in Starts,
         appt.status = "CONFIRMED" => appt'.status \in {"CONFIRMED", "CANCELLED"},
         appt'.status # "ABSENT",
         UNCHANGED <<connected, link, events, made, unlinked>>
  PROVE  CalendarIInv'
  <1> USE DEF CalendarIInv
  <1>1. appt.status \notin C!Gone \union {"ABSENT"} /\ appt.tech \in Techs /\ appt.start \in Starts
    BY CalendarFields DEF C!Blocking, C!Gone, ApptPlaced
  <1>2. ApptPlaced(appt')
    BY <1>1 DEF ApptPlaced
  <1>3. PICK x \in C!Sync :
            /\ sync' = [sync EXCEPT ![r] = x] /\ SeenPlaced(x)
            /\ x.stage = "reading" /\ sync'[r] = x /\ disturbed' \in BOOLEAN
            /\ ~disturbed' => ~disturbed /\ C!Alone(r)
    BY StartedBy
  <1>4. CalendarTyped'
    BY <1>2, <1>3, CalendarTypes, CalendarFields
  <1>5. ASSUME Calm' PROVE Following'
    <2>1. C!Alone(r) /\ Rested
      BY <1>3, <1>5, AloneRested DEF Calm
    <2>2. Stale'
      <3>1. CASE NoTrace
        BY <3>1 DEF Stale, NoTrace
      <3>2. CASE Bare(appt.tech)
        BY <3>2 DEF Stale, Bare
      <3>3. CASE KeptAt(appt.tech, appt.start) /\ appt.status = "CONFIRMED"
        BY <3>3, <1>1 DEF Stale, Kept, KeptAt, C!Gone
      <3> QED
        BY <2>1, <1>1, <3>1, <3>2, <3>3 DEF Rested
    <2>3. Copying(r)'
      BY <1>3, <2>2 DEF Copying
    <2> QED
      BY <1>3, <2>1, <2>3, LoneHandler
  <1> QED
    BY <1>4, <1>5

LEMMA ReviewDepositStep ==
  ASSUME CalendarIInv, NEW r \in Requests, NEW outcome \in {"CONFIRMED", "CANCELLED"},
         C!ReviewDeposit(r, outcome)
  PROVE  CalendarIInv'
  <1>1. /\ appt.status = "PENDING_PAYMENT" /\ appt' = [appt EXCEPT !.status = outcome]
        /\ C!Start(r, "reading", None) /\ sync[r].stage = "idle"
        /\ UNCHANGED <<connected, link, events, made, unlinked>>
    BY DEF C!ReviewDeposit, C!Start
  <1>2. appt \in C!Appt /\ ApptPlaced(appt)
    BY CalendarFields DEF CalendarIInv
  <1>3. /\ appt' \in C!Appt /\ appt'.tech = appt.tech /\ appt'.start = appt.start
        /\ appt'.status = outcome
    BY <1>1, <1>2 DEF C!Appt, C!Blocking, C!Gone
  <1>4. appt.start \in Starts /\ appt.status \in C!Blocking
    BY <1>1, <1>2 DEF ApptPlaced, C!Blocking
  <1> QED
    BY <1>1, <1>3, <1>4, SameTechnician

LEMMA CancelStep ==
  ASSUME CalendarIInv, NEW r \in Requests, C!CancelAppointment(r) PROVE CalendarIInv'
  <1>1. /\ appt.status \in C!Blocking /\ appt' = [appt EXCEPT !.status = "CANCELLED"]
        /\ C!Start(r, "reading", None) /\ sync[r].stage = "idle"
        /\ UNCHANGED <<connected, link, events, made, unlinked>>
    BY DEF C!CancelAppointment, C!Start
  <1>2. appt \in C!Appt /\ ApptPlaced(appt)
    BY CalendarFields DEF CalendarIInv
  <1>3. /\ appt' \in C!Appt /\ appt'.tech = appt.tech /\ appt'.start = appt.start
        /\ appt'.status = "CANCELLED"
    BY <1>1, <1>2 DEF C!Appt, C!Gone
  <1>4. appt.start \in Starts
    BY <1>1, <1>2 DEF ApptPlaced, C!Blocking
  <1> QED
    BY <1>1, <1>3, <1>4, SameTechnician

LEMMA RescheduleStep ==
  ASSUME CalendarIInv, NEW r \in Requests, NEW t \in Techs, NEW s \in Starts,
         C!Reschedule(r, t, s)
  PROVE  CalendarIInv'
  <1> USE DEF CalendarIInv
  <1>1. /\ appt.status \in C!Blocking /\ appt' = [appt EXCEPT !.tech = t, !.start = s]
        /\ unlinked' = (unlinked \/ (t # appt.tech /\ link.status # "ABSENT" /\ link.event = None))
        /\ UNCHANGED <<connected, link, events, made>>
    BY DEF C!Reschedule
  <1>2. appt \in C!Appt /\ ApptPlaced(appt)
    BY CalendarFields
  <1>3. /\ appt' \in C!Appt /\ appt'.tech = t /\ appt'.start = s
        /\ appt'.status = appt.status /\ appt.status \notin C!Gone \union {"ABSENT"}
    BY <1>1, <1>2 DEF C!Appt, C!Blocking, C!Gone
  <1>4. CASE t = appt.tech
    <2>1. C!Start(r, "reading", None) /\ sync[r].stage = "idle"
      BY <1>4 DEF C!Reschedule, C!Start
    <2>2. unlinked' = unlinked
      BY <1>1, <1>4, CalendarFields
    <2> QED
      BY <1>1, <1>3, <1>4, <2>1, <2>2, SameTechnician
  <1>5. CASE t # appt.tech
    <2>1. C!Start(r, "moving", appt.tech) /\ sync[r].stage = "idle"
      BY <1>5 DEF C!Reschedule, C!Start
    <2>2. appt.tech \in Techs /\ appt.start \in Starts /\ ApptPlaced(appt')
      BY <1>2, <1>3 DEF ApptPlaced
    <2>3. PICK x \in C!Sync :
            /\ sync' = [sync EXCEPT ![r] = x] /\ SeenPlaced(x)
            /\ x.stage = "moving" /\ x.previous = appt.tech /\ sync'[r] = x
            /\ disturbed' \in BOOLEAN
            /\ ~disturbed' => ~disturbed /\ C!Alone(r)
      BY <2>1, <2>2, StartedBy
    <2>4. unlinked' \in BOOLEAN
      BY <1>1, CalendarFields
    <2>5. CalendarTyped'
      BY <1>1, <1>3, <2>2, <2>3, <2>4, CalendarTypes, CalendarFields
    <2>6. ASSUME Calm' PROVE Following'
      <3>1. Calm /\ C!Alone(r) /\ ~(link.status # "ABSENT" /\ link.event = None)
        BY <1>1, <1>5, <2>3, <2>6, CalendarFields DEF Calm
      <3>2. Rested
        BY <2>1, <3>1, AloneRested
      <3>3. NoTrace \/ Kept(appt.tech)
        BY <3>1, <3>2, <1>3, <2>2 DEF Rested, Bare, Kept
      <3>4. NoTrace' \/ Kept(x.previous)'
        BY <3>3, <2>3, <1>1 DEF NoTrace, Kept, KeptAt
      <3>5. Copying(r)'
        BY <1>3, <2>3, <3>4 DEF Copying
      <3> QED
        BY <2>3, <3>1, <3>5, LoneHandler
    <2> QED
      BY <2>5, <2>6
  <1> QED
    BY <1>4, <1>5

LEMMA ConnectStep ==
  ASSUME CalendarIInv, NEW r \in Requests, NEW t \in Techs, C!Connect(r, t)
  PROVE  CalendarIInv'
  <1> USE DEF CalendarIInv
  <1>1. /\ t \notin connected /\ connected' = connected \union {t} /\ connected' \subseteq Techs
        /\ UNCHANGED <<appt, link, events, made, unlinked>>
    BY CalendarFields DEF C!Connect
  <1>2. (NoTrace => NoTrace') /\ (Bare(appt.tech) => Bare(appt.tech)')
        /\ (KeptAt(appt.tech, appt.start) => KeptAt(appt.tech, appt.start)')
    BY <1>1 DEF NoTrace, Bare, KeptAt
  <1>3. (Kept(appt.tech) => Kept(appt.tech)')
        /\ \A u \in Techs \union {None} : Kept(u) => Kept(u)'
    BY <1>1 DEF Kept, KeptAt
  <1>4. Stale => Stale'
    <2> HIDE DEF CalendarIInv
    <2> QED
      BY <1>1, <1>2, <1>3 DEF Stale
  <1>5. CASE appt.status = "CONFIRMED" /\ appt.tech = t
    <2>1. C!Start(r, "reading", None) /\ sync[r].stage = "idle"
      BY <1>5 DEF C!Connect, C!Start
    <2>2. PICK x \in C!Sync :
            /\ sync' = [sync EXCEPT ![r] = x] /\ SeenPlaced(x)
            /\ x.stage = "reading" /\ sync'[r] = x /\ disturbed' \in BOOLEAN
            /\ ~disturbed' => ~disturbed /\ C!Alone(r)
      BY <2>1, StartedBy
    <2>3. CalendarTyped'
      BY <1>1, <2>2, CalendarTypes, CalendarFields
    <2>4. ASSUME Calm' PROVE Following'
      <3>1. C!Alone(r) /\ Rested
        BY <1>1, <2>1, <2>2, <2>4, AloneRested DEF Calm
      <3>2. NoTrace
        BY <3>1, <1>1, <1>5 DEF Rested, Bare, KeptAt, C!Gone
      <3>3. Copying(r)'
        BY <3>2, <1>1, <1>5, <2>2 DEF Copying, Stale, NoTrace
      <3> QED
        BY <2>2, <3>1, <3>3, LoneHandler
    <2> QED
      BY <2>3, <2>4
  <1>6. CASE ~(appt.status = "CONFIRMED" /\ appt.tech = t)
    <2>1. UNCHANGED <<sync, disturbed>>
      BY <1>6 DEF C!Connect
    <2>2. CalendarTyped'
      BY <1>1, <2>1 DEF CalendarTyped, C!TypeOK
    <2>3. ASSUME Calm PROVE Following'
      <3>1. Following
        BY <2>3
      <3>2. OneAtWork' /\ (C!AtRest' <=> C!AtRest)
        BY <2>1, <3>1 DEF Following, OneAtWork, C!AtRest
      <3>3. Rested => Rested'
        BY <1>1, <1>2, <1>6 DEF Rested
      <3>4. ASSUME NEW q \in Requests, Copying(q) PROVE Copying(q)'
        <4>1. SeenSo(q) => SeenSo(q)'
          BY <1>1, <2>1 DEF SeenSo
        <4>2. sync[q].previous \in Techs \union {None}
          BY CalendarFields DEF C!Sync
        <4>3. Kept(sync[q].previous) => Kept(sync[q].previous)'
          BY <1>3, <2>1, <4>2 DEF Kept
        <4> QED
          BY <1>1, <1>2, <1>3, <1>4, <2>1, <3>4, <4>1, <4>3 DEF Copying
      <3> QED
        BY <3>1, <3>2, <3>3, <3>4, <2>1 DEF Following
    <2> QED
      BY <1>1, <2>1, <2>2, <2>3 DEF Calm
  <1> QED
    BY <1>5, <1>6

LEMMA DisconnectStep ==
  ASSUME CalendarIInv, NEW t \in Techs, C!Disconnect(t) PROVE CalendarIInv'
  <1>1. /\ connected' \subseteq Techs /\ disturbed' = TRUE
        /\ UNCHANGED <<appt, link, events, made, sync, unlinked>>
    BY DEF C!Disconnect, CalendarIInv, CalendarTyped, C!TypeOK
  <1> QED
    BY <1>1 DEF CalendarIInv, CalendarTyped, C!TypeOK, Calm

-----------------------------------------------------------------------------
(* moveAppointment and syncAppointment.                                    *)

\* What is known of the handler at work.
LEMMA AtWork ==
  ASSUME CalendarIInv, NEW r \in Requests, sync[r].stage # "idle", Calm
  PROVE  OneAtWork /\ Copying(r)
  BY DEF CalendarIInv, Following

LEMMA IdleSync == C!Idle \in C!Sync /\ C!Idle.stage = "idle" /\ SeenPlaced(C!Idle)
  BY ServicesAssumption DEF C!Idle, C!NoAppt, C!Sync, C!Stages, C!Appt, SeenPlaced

LEMMA MoveReadStep ==
  ASSUME CalendarIInv, NEW r \in Requests, C!MoveRead(r) PROVE CalendarIInv'
  <1> USE DEF CalendarIInv
  <1> DEFINE st == IF ~C!ToRemove(r) THEN "reading"
                   ELSE IF sync[r].previous \in connected THEN "removing" ELSE "unlinking"
             x == [sync[r] EXCEPT !.event = link.event, !.stage = st]
  <1>1. /\ sync[r].stage = "moving" /\ sync' = [sync EXCEPT ![r] = x]
        /\ UNCHANGED <<appt, connected, link, events, made, disturbed, unlinked>>
    BY CalendarFields DEF C!MoveRead
  <1>0. PICK t : t = sync[r].previous
    OBVIOUS
  <1>2. link.event \in 1..MaxEvents \union {None} /\ st \in {"reading", "removing", "unlinking"}
    BY CalendarFields DEF C!Link
  <1>3. /\ x \in C!Sync /\ x.stage = st /\ x.event = link.event /\ x.previous = sync[r].previous
    BY <1>2, CalendarFields DEF C!Sync, C!Stages
  <1>4. sync'[r] = x /\ SeenPlaced(x)
    BY <1>1, <1>2, <1>3, CalendarFields DEF SeenPlaced
  <1> HIDE DEF x
  <1>5. CalendarTyped'
    BY <1>1, <1>3, <1>4, CalendarTypes, CalendarFields
  <1>6. ASSUME Calm' PROVE Following'
    <2>1. OneAtWork /\ Copying(r)
      BY <1>1, <1>6, AtWork DEF Calm
    <2>2. NoTrace \/ Kept(t)
      BY <2>1, <1>0, <1>1 DEF Copying
    <2>3. NoTrace => st = "reading"
      BY DEF NoTrace, C!NoLink, C!ToRemove
    <2>4. Kept(t) => st = "removing"
      BY <1>0 DEF Kept, KeptAt, C!ToRemove
    <2> HIDE DEF st
    <2>5. (NoTrace => Stale') /\ (Kept(t) => Kept(t)')
      BY <1>1 DEF Stale, NoTrace, Kept, KeptAt
    <2>6. sync'[r].stage = st /\ sync'[r].event = link'.event /\ sync'[r].previous = t
      BY <1>0, <1>1, <1>3, <1>4
    <2>7. Copying(r)'
      BY <1>1, <2>1, <2>2, <2>3, <2>4, <2>5, <2>6 DEF Copying
    <2> QED
      BY <1>1, <1>2, <1>3, <2>1, <2>7, LoneHandler
  <1> QED
    BY <1>5, <1>6

LEMMA WithoutKept ==
  ASSUME NEW t, Kept(t) PROVE C!Without(link.event, t) = {}
  BY DEF C!Without, Kept, KeptAt

LEMMA MoveRemoveStep ==
  ASSUME CalendarIInv, NEW r \in Requests, C!MoveRemove(r) PROVE CalendarIInv'
  <1> USE DEF CalendarIInv
  <1> DEFINE x == [sync[r] EXCEPT !.stage = "unlinking"]
  <1>1. /\ sync[r].stage = "removing" /\ sync' = [sync EXCEPT ![r] = x]
        /\ events' = C!Without(sync[r].event, sync[r].previous)
        /\ UNCHANGED <<appt, connected, link, made, disturbed, unlinked>>
    BY CalendarFields DEF C!MoveRemove, C!Goto
  <1>2. x \in C!Sync /\ x.stage = "unlinking" /\ SeenPlaced(x)
    BY CalendarFields DEF C!Sync, C!Stages, SeenPlaced
  <1>3. sync'[r] = x /\ events' \subseteq CalendarEvent
    BY <1>1, CalendarFields DEF C!Without
  <1> HIDE DEF x
  <1>4. CalendarTyped'
    BY <1>1, <1>2, <1>3, CalendarTypes, CalendarFields
  <1>5. ASSUME Calm' PROVE Following'
    <2>1. OneAtWork /\ Copying(r)
      BY <1>1, <1>5, AtWork DEF Calm
    <2>2. events' = {}
      BY <2>1, <1>1, WithoutKept DEF Copying
    <2>3. Copying(r)'
      BY <1>1, <1>2, <1>3, <2>1, <2>2 DEF Copying
    <2> QED
      BY <1>1, <1>2, <2>1, <2>3, LoneHandler
  <1> QED
    BY <1>4, <1>5

LEMMA MoveUnlinkStep ==
  ASSUME CalendarIInv, NEW r \in Requests, C!MoveUnlink(r) PROVE CalendarIInv'
  <1> USE DEF CalendarIInv
  <1> DEFINE x == [C!Idle EXCEPT !.stage = "reading"]
  <1>1. /\ sync[r].stage = "unlinking" /\ sync' = [sync EXCEPT ![r] = x] /\ link' = C!NoLink
        /\ UNCHANGED <<appt, connected, events, made, disturbed, unlinked>>
    BY DEF C!MoveUnlink
  <1>2. x \in C!Sync /\ x.stage = "reading" /\ SeenPlaced(x)
    BY IdleSync DEF C!Sync, C!Stages, SeenPlaced
  <1>3. sync'[r] = x /\ link' \in C!Link
    BY <1>1, CalendarFields DEF C!NoLink, C!Link
  <1> HIDE DEF x
  <1>4. CalendarTyped'
    BY <1>1, <1>2, <1>3, CalendarTypes, CalendarFields
  <1>5. ASSUME Calm' PROVE Following'
    <2>1. OneAtWork /\ Copying(r)
      BY <1>1, <1>5, AtWork DEF Calm
    <2>2. NoTrace'
      BY <2>1, <1>1 DEF Copying, NoTrace
    <2>3. Copying(r)'
      BY <1>1, <1>2, <1>3, <2>1, <2>2 DEF Copying, Stale
    <2> QED
      BY <1>1, <1>2, <2>1, <2>3, LoneHandler
  <1> QED
    BY <1>4, <1>5

LEMMA SyncReadStep ==
  ASSUME CalendarIInv, NEW r \in Requests, C!SyncRead(r) PROVE CalendarIInv'
  <1> USE DEF CalendarIInv
  <1>1. /\ sync[r].stage = "reading"
        /\ UNCHANGED <<appt, connected, link, events, made, disturbed, unlinked>>
    BY DEF C!SyncRead
  <1>2. CASE appt.tech \in connected
    <2> DEFINE x == [C!Idle EXCEPT !.stage = "linking", !.seen = appt]
    <2>1. sync' = [sync EXCEPT ![r] = x]
      BY <1>2 DEF C!SyncRead
    <2>2. x \in C!Sync /\ x.stage = "linking" /\ x.seen = appt
      BY IdleSync, CalendarFields DEF C!Sync, C!Stages, C!Idle
    <2>3. appt.tech \in Techs /\ appt.start \in Starts
      BY <1>2, CalendarFields, ServicesAssumption DEF ApptPlaced
    <2>4. sync'[r] = x /\ SeenPlaced(x)
      BY <2>1, <2>2, <2>3, CalendarFields DEF SeenPlaced
    <2> HIDE DEF x
    <2>5. CalendarTyped'
      BY <1>1, <2>1, <2>2, <2>4, CalendarTypes, CalendarFields
    <2>6. ASSUME Calm' PROVE Following'
      <3>1. OneAtWork /\ Copying(r)
        BY <1>1, <2>6, AtWork DEF Calm
      <3>2. Stale'
        BY <3>1, <1>1 DEF Copying, Stale, NoTrace, Bare, Kept, KeptAt
      <3>3. Copying(r)'
        BY <1>1, <1>2, <2>2, <2>4, <3>1, <3>2 DEF Copying, SeenSo
      <3> QED
        BY <1>1, <2>1, <2>2, <3>1, <3>3, LoneHandler
    <2> QED
      BY <2>5, <2>6
  <1>3. CASE appt.tech \notin connected
    <2>1. sync' = [sync EXCEPT ![r] = C!Idle]
      BY <1>3 DEF C!SyncRead
    <2>2. CalendarTyped'
      BY <1>1, <2>1, IdleSync, CalendarTypes, CalendarFields
    <2>3. ASSUME Calm' PROVE Following'
      <3>1. OneAtWork /\ Copying(r)
        BY <1>1, <2>3, AtWork DEF Calm
      <3>2. NoTrace
        BY <3>1, <1>1, <1>3 DEF Copying, Stale, Bare, Kept, KeptAt
      <3>3. Rested'
        BY <3>2, <1>1, <1>3 DEF Rested, NoTrace
      <3> QED
        BY <1>1, <2>1, <3>1, <3>3, IdleSync, LoneHandler
    <2> QED
      BY <2>2, <2>3
  <1> QED
    BY <1>2, <1>3

LEMMA SyncLinkStep ==
  ASSUME CalendarIInv, NEW r \in Requests, C!SyncLink(r) PROVE CalendarIInv'
  <1> USE DEF CalendarIInv
  <1> DEFINE seen == sync[r].seen
             base == IF link.status = "ABSENT" THEN [C!NoLink EXCEPT !.tech = seen.tech] ELSE link
             x == IF seen.status \in C!Gone
                  THEN [sync[r] EXCEPT !.event = base.event,
                           !.stage = IF base.event = None THEN "deleted" ELSE "deleting"]
                  ELSE IF seen.status = "CONFIRMED"
                  THEN [sync[r] EXCEPT !.event = base.event, !.stage = "pushing"]
                  ELSE C!Idle
  <1>1. /\ sync[r].stage = "linking" /\ sync' = [sync EXCEPT ![r] = x]
        /\ link' = [base EXCEPT !.status = "PENDING"]
        /\ UNCHANGED <<appt, connected, events, made, disturbed, unlinked>>
    BY DEF C!SyncLink
  <1>2. seen.tech \in Techs /\ seen.start \in Starts /\ seen \in C!Appt
    BY <1>1, CalendarFields DEF SeenPlaced, C!Sync
  <1>3. /\ base \in C!Link
        /\ link.status = "ABSENT" => base.tech = seen.tech /\ base.event = None
        /\ link.status # "ABSENT" => base = link
    BY <1>2, CalendarFields DEF C!Link, C!NoLink
  <1>4. /\ link' \in C!Link /\ link'.status = "PENDING"
        /\ link'.tech = base.tech /\ link'.event = base.event
        /\ base.event \in 1..MaxEvents \union {None}
    BY <1>1, <1>3 DEF C!Link
  <1> HIDE DEF base
  <1>5. /\ x \in C!Sync
        /\ seen.status \in C!Gone =>
              /\ x.stage = IF base.event = None THEN "deleted" ELSE "deleting"
              /\ x.event = base.event /\ x.seen = seen
        /\ seen.status = "CONFIRMED" =>
              x.stage = "pushing" /\ x.event = base.event /\ x.seen = seen
        /\ seen.status \notin C!Gone \union {"CONFIRMED"} => x = C!Idle
    <2>1. CASE seen.status \in C!Gone
      <3>1. "CONFIRMED" \notin C!Gone
        BY DEF C!Gone
      <3> QED
        BY <1>4, <2>1, <3>1, CalendarFields DEF C!Sync, C!Stages
    <2>2. CASE seen.status = "CONFIRMED"
      BY <1>4, <2>2, CalendarFields DEF C!Sync, C!Stages, C!Gone
    <2>3. CASE seen.status \notin C!Gone \union {"CONFIRMED"}
      BY <2>3, IdleSync
    <2> QED
      BY <2>1, <2>2, <2>3
  <1>6. sync'[r] = x /\ SeenPlaced(x)
    BY <1>1, <1>2, <1>5, IdleSync, CalendarFields DEF SeenPlaced
  <1> HIDE DEF x
  <1>7. CalendarTyped'
    BY <1>1, <1>4, <1>5, <1>6, CalendarTypes, CalendarFields
  <1>8. ASSUME Calm' PROVE Following'
    <2>1. OneAtWork /\ Copying(r)
      BY <1>1, <1>8, AtWork DEF Calm
    <2>2. Stale /\ SeenSo(r) /\ appt.status # "ABSENT"
      BY <2>1, <1>1 DEF Copying
    <2>3. PICK t : t = appt.tech
      OBVIOUS
    <2>4. t \in connected /\ seen.tech = t
      BY <2>2, <2>3 DEF SeenSo
    <2>5. Bare(t)' \/ (Kept(t)' /\ appt.status \in C!Gone \union {"CONFIRMED"})
      <3>1. CASE NoTrace
        BY <3>1, <1>1, <1>3, <1>4, <2>4 DEF NoTrace, Bare, C!NoLink
      <3>2. CASE Bare(t)
        BY <3>2, <1>1, <1>3, <1>4 DEF Bare
      <3>3. CASE Kept(t) /\ appt.status \in C!Gone \union {"CONFIRMED"}
        BY <3>3, <1>1, <1>3, <1>4 DEF Kept, KeptAt
      <3> QED
        BY <2>2, <2>3, <3>1, <3>2, <3>3 DEF Stale
    <2>6. CASE seen.status \in C!Gone
      <3>1. appt.status \in C!Gone /\ appt.status # "CONFIRMED"
        BY <2>2, <2>6 DEF SeenSo, C!Gone
      <3>2. SeenSo(r)'
        BY <1>1, <1>5, <1>6, <2>2, <2>6 DEF SeenSo
      <3>3. x.event = link'.event /\ x.stage = IF link'.event = None THEN "deleted" ELSE "deleting"
        BY <1>4, <1>5, <2>6
      <3>4. x.stage = "deleted" => events' = {}
        BY <2>5, <3>3 DEF Bare, Kept, KeptAt
      <3>5. x.stage = "deleting" => Kept(t)'
        BY <2>5, <3>3 DEF Bare
      <3>6. Copying(r)'
        BY <3>1, <3>2, <3>3, <3>4, <3>5, <1>1, <1>4, <1>6, <2>2, <2>3 DEF Copying
      <3> QED
        BY <1>1, <1>5, <2>1, <3>3, <3>6, LoneHandler
    <2>7. CASE seen.status = "CONFIRMED"
      <3>1. appt.status = "CONFIRMED"
        BY <2>2, <2>7 DEF SeenSo
      <3>2. SeenSo(r)'
        BY <1>1, <1>5, <1>6, <2>2, <2>7 DEF SeenSo
      <3>3. Copying(r)'
        BY <3>1, <3>2, <2>3, <2>5, <2>7, <1>1, <1>4, <1>5, <1>6 DEF Copying
      <3> QED
        BY <1>1, <1>5, <2>1, <2>7, <3>3, LoneHandler
    <2>8. CASE seen.status \notin C!Gone \union {"CONFIRMED"}
      <3>1. appt.status \notin C!Gone \union {"CONFIRMED"}
        BY <2>2, <2>8 DEF SeenSo, C!Gone
      <3>2. Rested'
        BY <3>1, <2>3, <2>5, <1>1 DEF Rested
      <3> QED
        BY <1>1, <1>5, <2>1, <2>8, <3>2, IdleSync, LoneHandler
    <2> QED
      BY <2>6, <2>7, <2>8
  <1> QED
    BY <1>7, <1>8

LEMMA SyncDeleteStep ==
  ASSUME CalendarIInv, NEW r \in Requests, C!SyncDelete(r) PROVE CalendarIInv'
  <1> USE DEF CalendarIInv
  <1> DEFINE x == [sync[r] EXCEPT !.stage = "deleted"]
  <1>1. /\ sync[r].stage = "deleting" /\ sync' = [sync EXCEPT ![r] = x]
        /\ events' = C!Without(sync[r].event, sync[r].seen.tech)
        /\ UNCHANGED <<appt, connected, link, made, disturbed, unlinked>>
    BY CalendarFields DEF C!SyncDelete, C!Goto
  <1>2. x \in C!Sync /\ x.stage = "deleted" /\ SeenPlaced(x)
    BY <1>1, CalendarFields DEF C!Sync, C!Stages, SeenPlaced
  <1>3. sync'[r] = x /\ events' \subseteq CalendarEvent
    BY <1>1, CalendarFields DEF C!Without
  <1> HIDE DEF x
  <1>4. CalendarTyped'
    BY <1>1, <1>2, <1>3, CalendarTypes, CalendarFields
  <1>5. ASSUME Calm' PROVE Following'
    <2>1. OneAtWork /\ Copying(r)
      BY <1>1, <1>5, AtWork DEF Calm
    <2>2. events' = {} /\ link.status # "ABSENT" /\ appt.status \in C!Gone
      <3>1. Kept(appt.tech) /\ sync[r].event = link.event /\ sync[r].seen.tech = appt.tech
            /\ appt.status \in C!Gone
        BY <2>1, <1>1 DEF Copying, SeenSo
      <3> QED
        BY <3>1, <1>1, WithoutKept DEF Kept, KeptAt
    <2>3. Copying(r)'
      BY <1>1, <1>2, <1>3, <2>1, <2>2 DEF Copying
    <2> QED
      BY <1>1, <1>2, <2>1, <2>3, LoneHandler
  <1> QED
    BY <1>4, <1>5

LEMMA MarkDeletedStep ==
  ASSUME CalendarIInv, NEW r \in Requests, C!MarkDeleted(r) PROVE CalendarIInv'
  <1> USE DEF CalendarIInv
  <1>1. /\ sync[r].stage = "deleted" /\ sync' = [sync EXCEPT ![r] = C!Idle]
        /\ link' = [link EXCEPT !.status = "DELETED"]
        /\ UNCHANGED <<appt, connected, events, made, disturbed, unlinked>>
    BY DEF C!MarkDeleted, C!End
  <1>2. link' \in C!Link
    BY <1>1, CalendarFields DEF C!Link
  <1>3. CalendarTyped'
    BY <1>1, <1>2, IdleSync, CalendarTypes, CalendarFields
  <1>4. ASSUME Calm' PROVE Following'
    <2>1. OneAtWork /\ Copying(r)
      BY <1>1, <1>4, AtWork DEF Calm
    <2>2. Rested'
      BY <2>1, <1>1 DEF Copying, Rested
    <2> QED
      BY <1>1, <2>1, <2>2, IdleSync, LoneHandler
  <1> QED
    BY <1>3, <1>4

LEMMA PostStep ==
  ASSUME CalendarIInv, NEW r \in Requests, C!Post(r) PROVE CalendarIInv'
  <1> USE DEF CalendarIInv
  <1> DEFINE seen == sync[r].seen
             e == [id |-> made + 1, tech |-> seen.tech, start |-> seen.start]
             x == [sync[r] EXCEPT !.event = made + 1, !.stage = "storing"]
  <1>1. /\ sync[r].stage = "pushing" /\ sync[r].event = None /\ made < MaxEvents
        /\ made' = made + 1 /\ events' = events \union {e}
        /\ sync' = [sync EXCEPT ![r] = x]
        /\ UNCHANGED <<appt, connected, link, disturbed, unlinked>>
    BY CalendarFields DEF C!Post
  <1>2. seen.tech \in Techs /\ seen.start \in Starts
    BY <1>1, CalendarFields DEF SeenPlaced
  <1>3. made + 1 \in 1..MaxEvents /\ made' \in 0..MaxEvents /\ None # made + 1
    BY <1>1, CalendarFields, ServicesAssumption
  <1>4. /\ x \in C!Sync /\ x.stage = "storing" /\ x.event = made + 1 /\ x.seen = seen
        /\ e \in CalendarEvent
    BY <1>2, <1>3, CalendarFields DEF C!Sync, C!Stages, CalendarEvent
  <1>5. sync'[r] = x /\ SeenPlaced(x)
    BY <1>1, <1>2, <1>4, CalendarFields DEF SeenPlaced
  <1> HIDE DEF x
  <1>6. events' \subseteq CalendarEvent
    BY <1>1, <1>4, CalendarFields
  <1>7. CalendarTyped'
    BY <1>1, <1>3, <1>4, <1>5, <1>6, CalendarTypes, CalendarFields
  <1>8. ASSUME Calm' PROVE Following'
    <2>1. OneAtWork /\ Copying(r)
      BY <1>1, <1>8, AtWork DEF Calm
    <2>2. /\ Bare(appt.tech) \/ Kept(appt.tech)
          /\ link.event = None /\ SeenSo(r) /\ appt.status = "CONFIRMED"
      BY <2>1, <1>1 DEF Copying
    <2>3. Bare(appt.tech)
      BY <2>2 DEF Kept, KeptAt
    <2>4. events' = {[id |-> made + 1, tech |-> appt.tech, start |-> appt.start]}
      BY <2>2, <2>3, <1>1, <1>4 DEF Bare, SeenSo
    <2>5. SeenSo(r)'
      BY <2>2, <1>1, <1>4, <1>5 DEF SeenSo
    <2>6. Copying(r)'
      BY <2>2, <2>3, <2>4, <2>5, <1>1, <1>3, <1>4, <1>5 DEF Copying, Bare
    <2> QED
      BY <1>1, <1>4, <2>1, <2>6, LoneHandler
  <1> QED
    BY <1>7, <1>8

LEMMA PatchStep ==
  ASSUME CalendarIInv, NEW r \in Requests, C!Patch(r) PROVE CalendarIInv'
  <1> USE DEF CalendarIInv
  <1> DEFINE seen == sync[r].seen
             st == IF C!OwnEvent(r) = {} THEN "failing" ELSE "storing"
             x == [sync[r] EXCEPT !.stage = st]
  <1>1. /\ sync[r].stage = "pushing" /\ sync[r].event # None
        /\ events' = (events \ C!OwnEvent(r)) \union
                        {[e EXCEPT !.start = seen.start] : e \in C!OwnEvent(r)}
        /\ sync' = [sync EXCEPT ![r] = x]
        /\ UNCHANGED <<appt, connected, link, made, disturbed, unlinked>>
    BY CalendarFields DEF C!Patch, C!Goto
  <1>2. seen.tech \in Techs /\ seen.start \in Starts
    BY <1>1, CalendarFields DEF SeenPlaced
  <1>3. /\ x \in C!Sync /\ x.stage = st /\ x.event = sync[r].event /\ x.seen = seen
        /\ st \in {"failing", "storing"}
    BY CalendarFields DEF C!Sync, C!Stages
  <1>4. sync'[r] = x /\ SeenPlaced(x)
    BY <1>1, <1>2, <1>3, CalendarFields DEF SeenPlaced
  <1> HIDE DEF x
  <1>5. events' \subseteq CalendarEvent
    <2>1. C!OwnEvent(r) \subseteq CalendarEvent /\ events \subseteq CalendarEvent
      BY CalendarFields DEF C!OwnEvent
    <2>2. \A e \in CalendarEvent : [e EXCEPT !.start = seen.start] \in CalendarEvent
      BY <1>2 DEF CalendarEvent
    <2> QED
      BY <1>1, <2>1, <2>2
  <1>6. CalendarTyped'
    BY <1>1, <1>3, <1>4, <1>5, CalendarTypes, CalendarFields
  <1>7. ASSUME Calm' PROVE Following'
    <2>1. OneAtWork /\ Copying(r)
      BY <1>1, <1>7, AtWork DEF Calm
    <2>2. /\ Bare(appt.tech) \/ Kept(appt.tech)
          /\ sync[r].event = link.event /\ SeenSo(r) /\ appt.status = "CONFIRMED"
      BY <2>1, <1>1 DEF Copying
    <2>3. PICK s \in Starts : KeptAt(appt.tech, s)
      BY <2>2, <1>1 DEF Bare, Kept
    <2> DEFINE e == [id |-> link.event, tech |-> appt.tech, start |-> s]
    <2>4. C!OwnEvent(r) = {e}
      BY <2>2, <2>3 DEF C!OwnEvent, KeptAt, SeenSo
    <2>5. events' = {[id |-> link.event, tech |-> appt.tech, start |-> appt.start]}
      <3>1. events \ C!OwnEvent(r) = {}
        BY <2>3, <2>4 DEF KeptAt
      <3>2. [e EXCEPT !.start = seen.start]
              = [id |-> link.event, tech |-> appt.tech, start |-> appt.start]
        BY <2>2 DEF SeenSo
      <3> QED
        BY <3>1, <3>2, <2>4, <1>1
    <2>6. st = "storing"
      BY <2>4
    <2>7. SeenSo(r)'
      BY <2>2, <1>1, <1>3, <1>4 DEF SeenSo
    <2>8. link.status # "ABSENT" /\ link.tech = appt.tech
      BY <2>3 DEF KeptAt
    <2> HIDE DEF st
    <2>9. Copying(r)'
      BY <2>2, <2>5, <2>6, <2>7, <2>8, <1>1, <1>3, <1>4 DEF Copying
    <2> QED
      BY <1>1, <1>3, <2>1, <2>6, <2>9, LoneHandler
  <1> QED
    BY <1>6, <1>7

LEMMA StoreStep ==
  ASSUME CalendarIInv, NEW r \in Requests, C!Store(r) PROVE CalendarIInv'
  <1> USE DEF CalendarIInv
  <1>1. /\ sync[r].stage = "storing"
        /\ UNCHANGED <<appt, connected, events, made, disturbed, unlinked>>
    BY DEF C!Store
  <1>2. CASE link.status # "ABSENT" /\ sync[r].seen.tech \in connected
    <2>1. /\ link' = [link EXCEPT !.event = sync[r].event, !.status = "SYNCED"]
          /\ sync' = [sync EXCEPT ![r] = C!Idle]
      BY <1>2 DEF C!Store, C!End
    <2>2. link' \in C!Link
      BY <2>1, CalendarFields DEF C!Link, C!Sync
    <2>3. CalendarTyped'
      BY <1>1, <2>1, <2>2, IdleSync, CalendarTypes, CalendarFields
    <2>4. ASSUME Calm' PROVE Following'
      <3>1. OneAtWork /\ Copying(r)
        BY <1>1, <2>4, AtWork DEF Calm
      <3>2. KeptAt(appt.tech, appt.start)'
        <4>1. /\ link.tech = appt.tech /\ sync[r].event # None /\ appt.tech \in connected
              /\ events = {[id |-> sync[r].event, tech |-> appt.tech, start |-> appt.start]}
          BY <3>1, <1>1 DEF Copying, SeenSo
        <4>2. /\ link'.status = "SYNCED" /\ link'.tech = link.tech
              /\ link'.event = sync[r].event
          BY <2>1, CalendarFields DEF C!Link
        <4> QED
          BY <4>1, <4>2, <1>1 DEF KeptAt
      <3>3. Rested'
        BY <3>1, <3>2, <1>1 DEF Rested, Copying
      <3> QED
        BY <1>1, <2>1, <3>1, <3>3, IdleSync, LoneHandler
    <2> QED
      BY <2>3, <2>4
  <1>3. CASE ~(link.status # "ABSENT" /\ sync[r].seen.tech \in connected)
    <2> DEFINE x == [sync[r] EXCEPT !.stage = "failing"]
    <2>1. link' = link /\ sync' = [sync EXCEPT ![r] = x]
      BY <1>3, CalendarFields DEF C!Store, C!Goto
    <2>2. x \in C!Sync /\ SeenPlaced(x)
      BY CalendarFields DEF C!Sync, C!Stages, SeenPlaced
    <2> HIDE DEF x
    <2>3. CalendarTyped'
      BY <1>1, <2>1, <2>2, CalendarTypes, CalendarFields
    <2>4. ~Calm
      BY <1>1, <1>3, AtWork DEF Copying, SeenSo
    <2> QED
      BY <1>1, <2>3, <2>4 DEF Calm
  <1> QED
    BY <1>2, <1>3

LEMMA CalendarMarkFailedStep ==
  ASSUME CalendarIInv, NEW r \in Requests, C!MarkFailed(r) PROVE CalendarIInv'
  <1> USE DEF CalendarIInv
  <1>1. /\ \/ sync[r].stage \in {"failing", "keeping"}
           \/ sync[r].stage = "deleted" /\ link.status = "ABSENT"
        /\ link' = IF link.status = "ABSENT" THEN C!NoLink ELSE [link EXCEPT !.status = "FAILED"]
        /\ sync' = [sync EXCEPT ![r] = C!Idle]
        /\ UNCHANGED <<appt, connected, events, made, disturbed, unlinked>>
    BY DEF C!MarkFailed, C!End
  <1>2. link' \in C!Link
    BY <1>1, CalendarFields DEF C!Link, C!NoLink
  <1>3. CalendarTyped'
    BY <1>1, <1>2, IdleSync, CalendarTypes, CalendarFields
  <1>4. ~Calm
    BY <1>1, AtWork DEF Copying
  <1> QED
    BY <1>1, <1>3, <1>4 DEF Calm

\* A call that fails, and the death of the process.
LEMMA CalendarFailsStep ==
  ASSUME CalendarIInv, NEW r \in Requests, C!CallFails(r) \/ C!Crash(r) PROVE CalendarIInv'
  <1> USE DEF CalendarIInv
  <1>1. disturbed' = TRUE /\ UNCHANGED <<appt, connected, link, events, made, unlinked>>
    BY DEF C!CallFails, C!Crash
  <1>2. PICK x \in C!Sync : SeenPlaced(x) /\ sync' = [sync EXCEPT ![r] = x]
    <2>1. CASE C!CallFails(r)
      <3> DEFINE st == IF sync[r].stage = "removing" THEN "keeping" ELSE "failing"
                 x == [sync[r] EXCEPT !.stage = st]
      <3>1. x \in C!Sync /\ x.stage \in {"keeping", "failing"}
        BY CalendarFields DEF C!Sync, C!Stages
      <3>2. SeenPlaced(x) /\ sync' = [sync EXCEPT ![r] = x]
        BY <2>1, <3>1, CalendarFields DEF SeenPlaced, C!CallFails, C!Goto
      <3> QED
        BY <3>1, <3>2
    <2>2. CASE C!Crash(r)
      BY <2>2, IdleSync DEF C!Crash, C!End
    <2> QED
      BY <2>1, <2>2
  <1>3. CalendarTyped'
    BY <1>1, <1>2, CalendarTypes, CalendarFields
  <1> QED
    BY <1>1, <1>3 DEF Calm

LEMMA CalendarNextStep == CalendarIInv /\ [C!Next]_cvars => CalendarIInv'
  <1> SUFFICES ASSUME CalendarIInv, [C!Next]_cvars PROVE CalendarIInv'
    OBVIOUS
  <1>1. CASE C!UploadReceipt
    BY <1>1, UploadReceiptStep
  <1>2. ASSUME NEW t \in Techs, NEW s \in Starts, C!CreateHold(t, s) PROVE CalendarIInv'
    BY <1>2, CreateHoldStep
  <1>3. ASSUME NEW t \in Techs, C!Disconnect(t) PROVE CalendarIInv'
    BY <1>3, DisconnectStep
  <1>4. ASSUME NEW r \in Requests, NEW t \in Techs, NEW s \in Starts,
               C!CreateManual(r, t, s) \/ C!Reschedule(r, t, s)
        PROVE  CalendarIInv'
    BY <1>4, CreateManualStep, RescheduleStep
  <1>5. ASSUME NEW r \in Requests, NEW outcome \in {"CONFIRMED", "CANCELLED"},
               C!ReviewDeposit(r, outcome)
        PROVE  CalendarIInv'
    BY <1>5, ReviewDepositStep
  <1>6. ASSUME NEW r \in Requests, NEW t \in Techs, C!Connect(r, t) PROVE CalendarIInv'
    BY <1>6, ConnectStep
  <1>7. ASSUME NEW r \in Requests,
               C!CancelAppointment(r) \/ C!MoveRead(r) \/ C!MoveRemove(r) \/ C!MoveUnlink(r)
        PROVE  CalendarIInv'
    BY <1>7, CancelStep, MoveReadStep, MoveRemoveStep, MoveUnlinkStep
  <1>8. ASSUME NEW r \in Requests,
               C!SyncRead(r) \/ C!SyncLink(r) \/ C!SyncDelete(r) \/ C!MarkDeleted(r)
        PROVE  CalendarIInv'
    BY <1>8, SyncReadStep, SyncLinkStep, SyncDeleteStep, MarkDeletedStep
  <1>9. ASSUME NEW r \in Requests, C!Post(r) \/ C!Patch(r) \/ C!Store(r) PROVE CalendarIInv'
    BY <1>9, PostStep, PatchStep, StoreStep
  <1>10. ASSUME NEW r \in Requests, C!MarkFailed(r) \/ C!CallFails(r) \/ C!Crash(r)
         PROVE  CalendarIInv'
    BY <1>10, CalendarMarkFailedStep, CalendarFailsStep
  <1>11. CASE UNCHANGED cvars
    BY <1>11 DEF cvars, CalendarIInv, CalendarTyped, C!TypeOK, Calm, Following, OneAtWork,
                 C!AtRest, Rested, NoTrace, Bare, KeptAt, Kept, Copying, Stale, SeenSo
  <1> QED
    BY <1>1, <1>2, <1>3, <1>4, <1>5, <1>6, <1>7, <1>8, <1>9, <1>10, <1>11 DEF C!Next

LEMMA CalendarSafe == CalendarIInv => C!TypeOK /\ C!CalendarFollows
  <1>0. CalendarIInv => C!TypeOK
    BY DEF CalendarIInv, CalendarTyped
  <1> SUFFICES ASSUME CalendarIInv, C!AtRest, ~disturbed, ~unlinked
               PROVE  C!Shown = C!Expected /\ Cardinality(events) <= 1
    BY <1>0, SameCardinality DEF C!CalendarFollows
  <1>1. Rested
    BY DEF CalendarIInv, Following, Calm
  <1>2. CASE events = {}
    <2>1. C!Shown = {} /\ Cardinality(events) = 0
      BY <1>2, FS_EmptySet DEF C!Shown
    <2>2. ~(appt.status = "CONFIRMED" /\ appt.tech \in connected)
      BY <1>1, <1>2 DEF Rested, Bare, KeptAt, C!Gone
    <2> QED
      BY <2>1, <2>2 DEF C!Expected
  <1>3. CASE KeptAt(appt.tech, appt.start) /\ appt.status = "CONFIRMED"
    <2> DEFINE e == [id |-> link.event, tech |-> appt.tech, start |-> appt.start]
    <2>1. events = {e} /\ appt.tech \in connected
      BY <1>3 DEF KeptAt
    <2>2. C!Shown = {[tech |-> e.tech, start |-> e.start]}
      BY <2>1 DEF C!Shown
    <2>3. Cardinality(events) = 1
      BY <2>1, FS_Singleton
    <2> QED
      BY <1>3, <2>1, <2>2, <2>3 DEF C!Expected
  <1> QED
    BY <1>1, <1>2, <1>3 DEF Rested, NoTrace, Bare

-----------------------------------------------------------------------------
(* CatalogAssets.  A key has one owner at a time: the request that made    *)
(* it, then the row that shows it, then the request that removes it.       *)

\* A request that still has the key it made; one that has yet to write it.
Holding(x) ==
    \/ x.stage \in {"inserting", "auditing", "discarding"}
    \/ x.stage = "replacing" /\ x.of \in A!Slots

Writing(x) == x.stage = "inserting" \/ (x.stage = "replacing" /\ x.of \in A!Slots)

\* A request for the one image there is room for.
Adding(x, d) == x.stage \in {"storing", "inserting"} /\ x.of = d

InRow(key) == \E i \in images : i.key = key

IsCurrent(key) == \E s \in A!Slots : current[s] = key

StagesFit(x) ==
    /\ x.stage \in {"storing", "replacing"} => x.of \in Designs \union A!Slots
    /\ x.stage \in {"inserting", "auditing"} => x.of \in Designs
    /\ x.stage = "storing" /\ x.of \in Designs => x.old = {}

\* The key a request holds is in no row that is shown with it.
HoldsOwn(x) ==
    /\ Holding(x) => x.key \in used /\ ~IsCurrent(x.key)
    /\ Writing(x) => x.key \in bucket /\ ~InRow(x.key)
    /\ x.stage = "discarding" => x.key \in unserved \/ ~InRow(x.key)

\* What a request will remove is in no row, or in the row it is about to write.
RemovesOld(x) ==
    /\ x.old \subseteq used
    /\ x.stage = "removing" => \A key \in x.old : ~InRow(key) /\ ~IsCurrent(key)
    /\ x.stage = "replacing" /\ x.of \in Designs =>
          \A key \in x.old : /\ ~IsCurrent(key)
                             /\ \A i \in images : i.key = key => i.of = x.of
    /\ x.stage \in {"storing", "replacing"} /\ x.of \in A!Slots =>
          \A key \in x.old : /\ ~InRow(key)
                             /\ \A s \in A!Slots : current[s] = key => s = x.of

Careful(r) == StagesFit(proc[r]) /\ HoldsOwn(proc[r]) /\ RemovesOld(proc[r])

HoldersApart ==
    \A r, q \in Uploads : Holding(proc[r]) /\ Holding(proc[q]) /\ r # q => proc[r].key # proc[q].key

NewIsNotOld ==
    \A r, q \in Uploads : Writing(proc[r]) => proc[r].key \notin proc[q].old

\* A key is in one row.
RowsApart ==
    /\ \A i, j \in images : i.key = j.key => i = j
    /\ \A i \in images : i.key \in used /\ ~IsCurrent(i.key)
    /\ \A s \in A!Slots : current[s] \in used \union {None}
    /\ \A s, t \in A!Slots : current[s] = current[t] /\ current[s] # None => s = t

\* Unless uploads for a design overlapped, one request at most adds to it.
RoomKept ==
    /\ IsFiniteSet(images)
    /\ \A d \in Designs \ crowded :
         /\ Cardinality(A!ImagesOf(d)) <= ImageLimit
         /\ \A r \in Uploads : Adding(proc[r], d) => Cardinality(A!ImagesOf(d)) < ImageLimit
         /\ \A r, q \in Uploads : Adding(proc[r], d) /\ Adding(proc[q], d) => r = q

KeysOwned ==
    /\ \A r \in Uploads : Careful(r)
    /\ HoldersApart /\ NewIsNotOld /\ RowsApart /\ A!Served

AssetIInv == A!TypeOK /\ KeysOwned /\ RoomKept

LEMMA AssetNames ==
  /\ Designs \intersect A!Slots = {} /\ None \notin Designs \union A!Slots \union Objects
  /\ ImageLimit \in Nat /\ MaxFaults \in Nat /\ Brand \subseteq A!Slots
  BY ServicesAssumption, DeliveriesAssumption DEF A!Slots, Slots

LEMMA AssetIdle == A!Idle \in A!Proc /\ ~Holding(A!Idle) /\ ~Writing(A!Idle) /\ A!Idle.old = {}
                   /\ A!Idle.stage = "idle" /\ A!Idle.of = None
  BY DEF A!Idle, A!Proc, A!Stages, Holding, Writing

LEMMA AssetFields ==
  ASSUME A!TypeOK, NEW r \in Uploads
  PROVE  /\ proc \in [Uploads -> A!Proc] /\ proc[r] \in A!Proc /\ proc[r].old \subseteq Objects
         /\ design \subseteq Designs /\ images \subseteq A!Image
         /\ current \in [A!Slots -> Objects \union {None}]
         /\ bucket \subseteq Objects /\ used \subseteq Objects /\ unserved \subseteq Objects
         /\ failed \in 0..MaxFaults /\ crowded \subseteq Designs
  BY DEF A!TypeOK, A!Proc

LEMMA AssetInit == A!Init => AssetIInv
  <1> SUFFICES ASSUME A!Init PROVE AssetIInv
    OBVIOUS
  <1> USE DEF A!Init
  <1>1. A!TypeOK
    BY AssetIdle, AssetNames DEF A!TypeOK
  <1>2. \A r \in Uploads : proc[r] = A!Idle
    OBVIOUS
  <1>3. \A r \in Uploads : Careful(r)
    <2>1. StagesFit(A!Idle) /\ HoldsOwn(A!Idle) /\ RemovesOld(A!Idle)
      BY AssetIdle DEF StagesFit, HoldsOwn, RemovesOld
    <2> QED
      BY <1>2, <2>1 DEF Careful
  <1>4. HoldersApart /\ NewIsNotOld
    BY <1>2, AssetIdle DEF HoldersApart, NewIsNotOld
  <1>5. RowsApart /\ A!Served
    BY DEF RowsApart, A!Served
  <1>6. RoomKept
    <2>1. \A d \in Designs : A!ImagesOf(d) = {}
      BY DEF A!ImagesOf
    <2>2. \A r \in Uploads, d \in Designs : ~Adding(proc[r], d)
      BY <1>2, AssetIdle DEF Adding
    <2> QED
      BY <2>1, <2>2, FS_EmptySet, AssetNames DEF RoomKept
  <1> QED
    BY <1>1, <1>3, <1>4, <1>5, <1>6 DEF AssetIInv, KeysOwned

-----------------------------------------------------------------------------
(* Steps of a request that write no row and no object.                     *)

LEMMA AssetTypes ==
  ASSUME A!TypeOK, NEW r \in Uploads, NEW x \in A!Proc, proc' = [proc EXCEPT ![r] = x],
         design' \subseteq Designs, images' \subseteq A!Image,
         current' \in [A!Slots -> Objects \union {None}],
         bucket' \subseteq Objects, used' \subseteq Objects,
         failed' \in 0..MaxFaults, unserved' \subseteq Objects, crowded' \subseteq Designs
  PROVE  A!TypeOK' /\ proc'[r] = x /\ \A q \in Uploads \ {r} : proc'[q] = proc[q]
  BY DEF A!TypeOK

LEMMA KeysQuiet ==
  ASSUME A!TypeOK, KeysOwned, NEW r \in Uploads, NEW x \in A!Proc,
         proc' = [proc EXCEPT ![r] = x],
         UNCHANGED <<images, current, bucket, used>>, unserved \subseteq unserved',
         StagesFit(x), RemovesOld(x),
         Holding(x) => Holding(proc[r]) /\ x.key = proc[r].key,
         Writing(x) => Writing(proc[r]),
         x.stage = "discarding" => x.key \in unserved' \/ ~InRow(x.key),
         \A q \in Uploads : Writing(proc[q]) => proc[q].key \notin x.old
  PROVE  KeysOwned'
  <1>1. proc'[r] = x /\ \A q \in Uploads \ {r} : proc'[q] = proc[q]
    BY DEF A!TypeOK
  <1>2. Writing(x) => Holding(x)
    BY DEF Writing, Holding
  <1>3. \A key : (InRow(key)' <=> InRow(key)) /\ (IsCurrent(key)' <=> IsCurrent(key))
    BY DEF InRow, IsCurrent
  <1>4. /\ Holding(x) => x.key \in used /\ ~IsCurrent(x.key)
        /\ Writing(x) => x.key \in bucket /\ ~InRow(x.key)
    BY <1>2 DEF KeysOwned, Careful, HoldsOwn
  <1>5. ASSUME NEW q \in Uploads PROVE Careful(q)'
    <2>1. CASE q = r
      BY <1>1, <1>3, <1>4, <2>1 DEF Careful, StagesFit, HoldsOwn, RemovesOld
    <2>2. CASE q # r
      <3>1. Careful(q) /\ proc'[q] = proc[q]
        BY <1>1, <2>2 DEF KeysOwned
      <3> QED
        BY <1>3, <3>1 DEF Careful, StagesFit, HoldsOwn, RemovesOld
    <2> QED
      BY <2>1, <2>2
  <1>6. HoldersApart'
    BY <1>1 DEF KeysOwned, HoldersApart
  <1>7. NewIsNotOld'
    BY <1>1, <1>2 DEF KeysOwned, NewIsNotOld
  <1>8. RowsApart'
    BY <1>3 DEF KeysOwned, RowsApart
  <1>9. A!Served'
    BY DEF KeysOwned, A!Served
  <1> QED
    BY <1>5, <1>6, <1>7, <1>8, <1>9 DEF KeysOwned

\* Nobody begins to add an image, and no design gets more images.
LEMMA RoomStays ==
  ASSUME RoomKept, A!TypeOK, NEW r \in Uploads, NEW x \in A!Proc, proc' = [proc EXCEPT ![r] = x],
         \A d \in Designs : Adding(x, d) => Adding(proc[r], d),
         crowded \subseteq crowded', images' \subseteq images
  PROVE  RoomKept'
  <1>1. \A q \in Uploads, d \in Designs : Adding(proc'[q], d) => Adding(proc[q], d)
    BY DEF A!TypeOK
  <1>2. IsFiniteSet(images')
    BY FS_Subset DEF RoomKept
  <1>3. \A d \in Designs : /\ Cardinality(A!ImagesOf(d))' <= Cardinality(A!ImagesOf(d))
                           /\ Cardinality(A!ImagesOf(d))' \in Nat
                           /\ Cardinality(A!ImagesOf(d)) \in Nat
    <2> TAKE d \in Designs
    <2>1. A!ImagesOf(d)' \subseteq A!ImagesOf(d) /\ A!ImagesOf(d) \subseteq images
      BY DEF A!ImagesOf
    <2>2. IsFiniteSet(A!ImagesOf(d))
      BY <2>1, FS_Subset DEF RoomKept
    <2>3. IsFiniteSet(A!ImagesOf(d)')
      BY <2>1, <2>2, FS_Subset
    <2> QED
      BY <2>1, <2>2, <2>3, FS_Subset, FS_CardinalityType
  <1> QED
    BY <1>1, <1>2, <1>3, AssetNames DEF RoomKept

\* A request that ends, or only goes on to another stage.
LEMMA AssetEndStep ==
  ASSUME AssetIInv, NEW r \in Uploads, proc' = [proc EXCEPT ![r] = A!Idle],
         UNCHANGED <<design, images, current, bucket, used, unserved, crowded>>,
         failed' \in 0..MaxFaults
  PROVE  AssetIInv'
  <1> USE DEF AssetIInv
  <1>1. A!TypeOK'
    BY AssetIdle, AssetFields, AssetTypes
  <1>2. StagesFit(A!Idle) /\ RemovesOld(A!Idle)
    BY AssetIdle DEF StagesFit, RemovesOld
  <1>3. KeysOwned'
    BY <1>2, AssetIdle, KeysQuiet
  <1>4. RoomKept'
    BY AssetIdle, RoomStays DEF Adding
  <1> QED
    BY <1>1, <1>3, <1>4

LEMMA UploadCheckStep ==
  ASSUME AssetIInv, NEW r \in Uploads, NEW d \in Designs, A!UploadImageCheck(r, d)
  PROVE  AssetIInv'
  <1> USE DEF AssetIInv
  <1> DEFINE x == [A!Idle EXCEPT !.stage = "storing", !.of = d, !.count = A!Cardinality(A!ImagesOf(d))]
  <1>1. /\ d \in design /\ A!HasRoom(d) /\ proc' = [proc EXCEPT ![r] = x]
        /\ crowded' = IF \E q \in Uploads : proc[q].of = d THEN crowded \union {d} ELSE crowded
        /\ UNCHANGED <<design, images, current, bucket, used, failed, unserved>>
    BY DEF A!UploadImageCheck
  <1>2. A!ImagesOf(d) \subseteq images /\ IsFiniteSet(A!ImagesOf(d))
    BY FS_Subset DEF A!ImagesOf, RoomKept
  <1>3. A!Cardinality(A!ImagesOf(d)) \in Nat /\ Cardinality(A!ImagesOf(d)) < ImageLimit
    BY <1>1, <1>2, SameCardinality, FS_CardinalityType DEF A!HasRoom
  <1>4. x \in A!Proc /\ x.stage = "storing" /\ x.of = d /\ x.old = {}
    BY <1>3, AssetIdle DEF A!Proc, A!Stages, A!Idle
  <1> HIDE DEF x
  <1>5. crowded' \subseteq Designs /\ crowded \subseteq crowded'
    BY <1>1, AssetFields
  <1>6. A!TypeOK' /\ proc'[r] = x /\ \A q \in Uploads \ {r} : proc'[q] = proc[q]
    BY <1>1, <1>4, <1>5, AssetFields, AssetTypes
  <1>7. KeysOwned'
    <2>1. StagesFit(x) /\ RemovesOld(x) /\ ~Holding(x) /\ ~Writing(x)
      BY <1>4, AssetNames DEF StagesFit, RemovesOld, Holding, Writing
    <2> QED
      BY <1>1, <1>4, <2>1, KeysQuiet
  <1>8. RoomKept'
    <2>1. \A e \in Designs : Cardinality(A!ImagesOf(e))' = Cardinality(A!ImagesOf(e))
      BY <1>1 DEF A!ImagesOf
    <2>2. IsFiniteSet(images)'
      BY <1>1 DEF RoomKept
    <2> SUFFICES ASSUME NEW e \in Designs \ crowded'
                 PROVE  /\ Cardinality(A!ImagesOf(e)) <= ImageLimit
                        /\ \A q \in Uploads : Adding(proc'[q], e) =>
                              Cardinality(A!ImagesOf(e)) < ImageLimit
                        /\ \A p, q \in Uploads : Adding(proc'[p], e) /\ Adding(proc'[q], e) => p = q
      BY <2>1, <2>2 DEF RoomKept
    <2>3. e \in Designs \ crowded
      BY <1>5
    <2>4. CASE e # d
      <3>1. \A q \in Uploads : Adding(proc'[q], e) => Adding(proc[q], e)
        BY <1>4, <1>6, <2>4 DEF Adding
      <3> QED
        BY <2>3, <3>1 DEF RoomKept
    <2>5. CASE e = d
      <3>1. \A q \in Uploads : proc[q].of # d
        BY <1>1, <2>5
      <3>2. \A q \in Uploads \ {r} : ~Adding(proc'[q], e)
        BY <1>6, <2>5, <3>1 DEF Adding
      <3> QED
        BY <1>3, <2>3, <2>5, <3>2 DEF RoomKept
    <2> QED
      BY <2>4, <2>5
  <1> QED
    BY <1>6, <1>7, <1>8

LEMMA PutStep ==
  ASSUME AssetIInv, NEW r \in Uploads, NEW key \in Objects, A!Put(r, key) PROVE AssetIInv'
  <1> USE DEF AssetIInv
  <1> DEFINE st == IF proc[r].of \in Designs THEN "inserting" ELSE "replacing"
             x == [proc[r] EXCEPT !.key = key, !.stage = st]
  <1>1. /\ proc[r].stage = "storing" /\ key \notin used /\ proc' = [proc EXCEPT ![r] = x]
        /\ bucket' = bucket \union {key} /\ used' = used \union {key}
        /\ UNCHANGED <<design, images, current, failed, unserved, crowded>>
    BY AssetFields DEF A!Put
  <1>2. /\ x \in A!Proc /\ x.key = key /\ x.of = proc[r].of /\ x.old = proc[r].old
        /\ x.stage = st /\ st \in {"inserting", "replacing"}
    BY AssetFields DEF A!Proc, A!Stages
  <1>3. x.of \in Designs \union A!Slots /\ (x.of \in Designs <=> x.stage = "inserting")
        /\ Holding(x) /\ Writing(x)
    <2>1. Careful(r)
      BY DEF KeysOwned
    <2> QED
      BY <1>1, <1>2, <2>1, AssetNames DEF Careful, StagesFit, Holding, Writing
  <1> HIDE DEF x
  <1>4. A!TypeOK' /\ proc'[r] = x /\ \A q \in Uploads \ {r} : proc'[q] = proc[q]
    <2>1. bucket' \subseteq Objects /\ used' \subseteq Objects
      BY <1>1, AssetFields
    <2> QED
      BY <1>1, <1>2, <2>1, AssetFields, AssetTypes
  <1>5. ~InRow(key) /\ ~IsCurrent(key) /\ \A q \in Uploads : key \notin proc[q].old
    <2>1. key # None
      BY AssetNames
    <2>2. \A q \in Uploads : Careful(q)
      BY DEF KeysOwned
    <2> QED
      BY <1>1, <2>1, <2>2 DEF KeysOwned, RowsApart, InRow, IsCurrent, Careful, RemovesOld
  <1>6. \A k : (InRow(k)' <=> InRow(k)) /\ (IsCurrent(k)' <=> IsCurrent(k))
    BY <1>1 DEF InRow, IsCurrent
  <1>7. KeysOwned'
    <2>1. ASSUME NEW q \in Uploads PROVE Careful(q)'
      <3>1. Careful(q) /\ Careful(r)
        BY DEF KeysOwned
      <3>2. CASE q = r
        <4>1. StagesFit(x)
          BY <1>2, <1>3, AssetNames DEF StagesFit
        <4>2. HoldsOwn(proc[r])'
          BY <1>1, <1>2, <1>3, <1>4, <1>5, <1>6 DEF HoldsOwn
        <4>3. RemovesOld(proc[r])'
          BY <1>1, <1>2, <1>3, <1>4, <1>6, <3>1, AssetNames DEF Careful, RemovesOld, StagesFit
        <4> QED
          BY <1>4, <3>2, <4>1, <4>2, <4>3 DEF Careful
      <3>3. CASE q # r
        <4>1. proc'[q] = proc[q]
          BY <1>4, <3>3
        <4> QED
          BY <1>1, <1>6, <3>1, <4>1 DEF Careful, StagesFit, HoldsOwn, RemovesOld
      <3> QED
        BY <3>2, <3>3
    <2>2. HoldersApart'
      <3>1. \A q \in Uploads \ {r} : Holding(proc[q]) => proc[q].key \in used
        BY DEF KeysOwned, Careful, HoldsOwn
      <3> QED
        BY <1>1, <1>2, <1>4, <3>1 DEF KeysOwned, HoldersApart
    <2>3. NewIsNotOld'
      BY <1>2, <1>4, <1>5 DEF KeysOwned, NewIsNotOld
    <2>4. RowsApart' /\ A!Served'
      BY <1>1, <1>6 DEF KeysOwned, RowsApart, A!Served
    <2> QED
      BY <2>1, <2>2, <2>3, <2>4 DEF KeysOwned
  <1>8. RoomKept'
    <2>1. \A d \in Designs : Adding(x, d) => Adding(proc[r], d)
      BY <1>1, <1>2 DEF Adding
    <2> QED
      BY <1>1, <1>2, <2>1, RoomStays
  <1> QED
    BY <1>4, <1>7, <1>8

LEMMA InsertImageStep ==
  ASSUME AssetIInv, NEW r \in Uploads, A!InsertImage(r) PROVE AssetIInv'
  <1> USE DEF AssetIInv
  <1>1. /\ proc[r].stage = "inserting"
        /\ UNCHANGED <<design, current, bucket, used, failed, unserved, crowded>>
    BY DEF A!InsertImage
  <1>2. Careful(r) /\ proc[r].of \in Designs /\ Writing(proc[r]) /\ Holding(proc[r])
    BY <1>1 DEF KeysOwned, Careful, StagesFit, Writing, Holding
  <1>3. CASE proc[r].of \notin design
    <2> DEFINE x == [proc[r] EXCEPT !.stage = "discarding"]
    <2>1. proc' = [proc EXCEPT ![r] = x] /\ images' = images
      BY <1>3, AssetFields DEF A!InsertImage
    <2>2. /\ x \in A!Proc /\ x.stage = "discarding" /\ x.key = proc[r].key /\ x.old = proc[r].old
          /\ Holding(x) /\ ~Writing(x)
      BY AssetFields DEF A!Proc, A!Stages, Holding, Writing
    <2> HIDE DEF x
    <2>3. A!TypeOK'
      BY <1>1, <2>1, <2>2, AssetFields, AssetTypes
    <2>4. StagesFit(x) /\ RemovesOld(x)
      BY <1>2, <2>2 DEF StagesFit, RemovesOld, Careful
    <2>5. ~InRow(x.key) /\ \A q \in Uploads : Writing(proc[q]) => proc[q].key \notin x.old
      BY <1>2, <2>2 DEF Careful, HoldsOwn, KeysOwned, NewIsNotOld
    <2>6. KeysOwned'
      BY <1>1, <1>2, <2>1, <2>2, <2>4, <2>5, KeysQuiet
    <2>7. RoomKept'
      BY <1>1, <2>1, <2>2, RoomStays DEF Adding
    <2> QED
      BY <2>3, <2>6, <2>7
  <1>4. CASE proc[r].of \in design
    <2> DEFINE x == [proc[r] EXCEPT !.stage = "auditing"]
               new == [key |-> proc[r].key, of |-> proc[r].of, order |-> proc[r].count]
    <2>1. proc' = [proc EXCEPT ![r] = x] /\ images' = images \union {new}
      BY <1>4, AssetFields DEF A!InsertImage
    <2>2. /\ x \in A!Proc /\ x.stage = "auditing" /\ x.key = proc[r].key /\ x.old = proc[r].old
          /\ x.of = proc[r].of /\ Holding(x) /\ ~Writing(x)
      BY AssetFields DEF A!Proc, A!Stages, Holding, Writing
    <2>3. /\ proc[r].key \in used \intersect bucket
          /\ ~InRow(proc[r].key) /\ ~IsCurrent(proc[r].key)
          /\ \A q \in Uploads : proc[r].key \notin proc[q].old
      BY <1>2 DEF Careful, HoldsOwn, KeysOwned, NewIsNotOld
    <2>4. new \in A!Image /\ new.key = proc[r].key /\ new.of = proc[r].of
      BY <1>2, <2>3, AssetFields DEF A!Image, A!Proc
    <2> HIDE DEF x, new
    <2>5. A!TypeOK' /\ proc'[r] = x /\ \A q \in Uploads \ {r} : proc'[q] = proc[q]
      <3>1. images' \subseteq A!Image
        BY <2>1, <2>4, AssetFields
      <3> QED
        BY <1>1, <2>1, <2>2, <3>1, AssetFields, AssetTypes
    <2>6. \A k : /\ InRow(k)' <=> InRow(k) \/ k = proc[r].key
                 /\ IsCurrent(k)' <=> IsCurrent(k)
      BY <1>1, <2>1, <2>4 DEF InRow, IsCurrent
    <2>7. KeysOwned'
      <3>1. ASSUME NEW q \in Uploads PROVE Careful(q)'
        <4>1. CASE q = r
          BY <1>1, <1>2, <2>2, <2>5, <2>6, <4>1
             DEF Careful, StagesFit, HoldsOwn, RemovesOld
        <4>2. CASE q # r
          <5>1. Careful(q) /\ proc'[q] = proc[q] /\ proc[r].key \notin proc[q].old
            BY <2>3, <2>5, <4>2 DEF KeysOwned
          <5>2. Holding(proc[q]) => proc[q].key # proc[r].key
            BY <1>2, <4>2 DEF KeysOwned, HoldersApart
          <5>3. StagesFit(proc[q])' /\ HoldsOwn(proc[q])'
            BY <1>1, <2>6, <5>1, <5>2 DEF Careful, StagesFit, HoldsOwn, Holding, Writing
          <5>4. RemovesOld(proc[q])'
            BY <1>1, <2>1, <2>4, <2>6, <5>1 DEF Careful, RemovesOld
          <5> QED
            BY <5>3, <5>4 DEF Careful
        <4> QED
          BY <4>1, <4>2
      <3>2. HoldersApart'
        BY <1>2, <2>2, <2>5 DEF KeysOwned, HoldersApart
      <3>3. NewIsNotOld'
        BY <2>2, <2>5 DEF KeysOwned, NewIsNotOld
      <3>4. RowsApart'
        BY <1>1, <2>1, <2>3, <2>4, <2>6 DEF KeysOwned, RowsApart, InRow
      <3>5. A!Served'
        BY <1>1, <2>1, <2>3, <2>4 DEF KeysOwned, A!Served
      <3> QED
        BY <3>1, <3>2, <3>3, <3>4, <3>5 DEF KeysOwned
    <2>8. RoomKept'
      <3>1. IsFiniteSet(images)'
        BY <2>1, FS_AddElement DEF RoomKept
      <3>2. \A q \in Uploads, d \in Designs : Adding(proc'[q], d) => Adding(proc[q], d) /\ q # r
        BY <2>2, <2>5 DEF Adding
      <3>3. ASSUME NEW d \in Designs \ crowded
            PROVE  /\ Cardinality(A!ImagesOf(d))' <= ImageLimit
                   /\ \A q \in Uploads : Adding(proc'[q], d) =>
                          Cardinality(A!ImagesOf(d))' < ImageLimit
                   /\ \A p, q \in Uploads : Adding(proc'[p], d) /\ Adding(proc'[q], d) => p = q
        <4>1. CASE d # proc[r].of
          <5>1. A!ImagesOf(d)' = A!ImagesOf(d)
            BY <2>1, <2>4, <4>1 DEF A!ImagesOf
          <5> QED
            BY <3>2, <5>1 DEF RoomKept
        <4>2. CASE d = proc[r].of
          <5>1. Adding(proc[r], d)
            BY <1>1, <4>2 DEF Adding
          <5>2. Cardinality(A!ImagesOf(d)) < ImageLimit /\ \A q \in Uploads : ~Adding(proc'[q], d)
            BY <3>2, <5>1 DEF RoomKept
          <5>3. A!ImagesOf(d) \subseteq images /\ A!ImagesOf(d)' = A!ImagesOf(d) \union {new}
            BY <2>1, <2>4, <4>2 DEF A!ImagesOf
          <5>4. IsFiniteSet(A!ImagesOf(d))
            BY <5>3, FS_Subset DEF RoomKept
          <5>5. /\ Cardinality(A!ImagesOf(d)) \in Nat
                /\ Cardinality(A!ImagesOf(d))' \in {Cardinality(A!ImagesOf(d)),
                                                    Cardinality(A!ImagesOf(d)) + 1}
            BY <5>3, <5>4, FS_AddElement, FS_CardinalityType
          <5> QED
            BY <5>2, <5>5, AssetNames
        <4> QED
          BY <4>1, <4>2
      <3> QED
        BY <1>1, <3>1, <3>3 DEF RoomKept
    <2> QED
      BY <2>5, <2>7, <2>8
  <1> QED
    BY <1>3, <1>4

LEMMA DiscardObjectStep ==
  ASSUME AssetIInv, NEW r \in Uploads, A!Discard(r) PROVE AssetIInv'
  <1> USE DEF AssetIInv
  <1>1. /\ proc[r].stage = "discarding" /\ proc' = [proc EXCEPT ![r] = A!Idle]
        /\ bucket' \in {bucket, bucket \ {proc[r].key}}
        /\ UNCHANGED <<design, images, current, used, failed, unserved, crowded>>
    BY DEF A!Discard, A!End
  <1>2. CASE bucket' = bucket
    BY <1>1, <1>2, AssetEndStep, AssetFields
  <1>3. CASE bucket' = bucket \ {proc[r].key}
    <2>1. A!TypeOK' /\ proc'[r] = A!Idle /\ \A q \in Uploads \ {r} : proc'[q] = proc[q]
      BY <1>1, <1>3, AssetIdle, AssetFields, AssetTypes
    <2>2. Careful(r) /\ Holding(proc[r])
      BY <1>1 DEF KeysOwned, Holding
    <2>3. \A k : (InRow(k)' <=> InRow(k)) /\ (IsCurrent(k)' <=> IsCurrent(k))
      BY <1>1 DEF InRow, IsCurrent
    <2>4. ASSUME NEW q \in Uploads PROVE Careful(q)'
      <3>1. CASE q = r
        BY <3>1, <2>1, AssetIdle DEF Careful, StagesFit, HoldsOwn, RemovesOld
      <3>2. CASE q # r
        <4>1. Careful(q) /\ proc'[q] = proc[q]
          BY <2>1, <3>2 DEF KeysOwned
        <4>2. Holding(proc[q]) => proc[q].key # proc[r].key
          BY <2>2, <3>2 DEF KeysOwned, HoldersApart
        <4>3. HoldsOwn(proc[q])'
          BY <1>1, <1>3, <2>3, <4>1, <4>2 DEF Careful, HoldsOwn, Holding, Writing
        <4> QED
          BY <1>1, <2>3, <4>1, <4>3 DEF Careful, StagesFit, RemovesOld
      <3> QED
        BY <3>1, <3>2
    <2>5. HoldersApart' /\ NewIsNotOld'
      BY <2>1, AssetIdle DEF KeysOwned, HoldersApart, NewIsNotOld
    <2>6. RowsApart'
      BY <1>1, <2>3 DEF KeysOwned, RowsApart
    <2>7. A!Served'
      BY <1>1, <1>3, <2>2 DEF KeysOwned, A!Served, Careful, HoldsOwn, InRow, IsCurrent
    <2>8. RoomKept'
      BY <1>1, AssetIdle, RoomStays DEF Adding
    <2> QED
      BY <2>1, <2>4, <2>5, <2>6, <2>7, <2>8 DEF KeysOwned
  <1> QED
    BY <1>1, <1>2, <1>3

-----------------------------------------------------------------------------
(* Steps that remove rows, or only change their order.                     *)

LEMMA FewerRows ==
  ASSUME KeysOwned,
         \A j \in images' : \E i \in images : i.key = j.key /\ i.of = j.of,
         \A i, j \in images' : i.key = j.key => i = j,
         UNCHANGED <<current, bucket, used, unserved>>
  PROVE  /\ RowsApart' /\ A!Served'
         /\ \A q \in Uploads : proc'[q] = proc[q] => Careful(q)'
         /\ \A key : InRow(key)' => InRow(key)
  <1>1. \A key : (InRow(key)' => InRow(key)) /\ (IsCurrent(key)' <=> IsCurrent(key))
    BY DEF InRow, IsCurrent
  <1>2. RowsApart'
    BY <1>1 DEF KeysOwned, RowsApart
  <1>3. A!Served'
    BY DEF KeysOwned, A!Served
  <1>4. ASSUME NEW q \in Uploads, proc'[q] = proc[q] PROVE Careful(q)'
    <2>1. Careful(q)
      BY DEF KeysOwned
    <2> QED
      BY <1>1, <1>4, <2>1 DEF Careful, StagesFit, HoldsOwn, RemovesOld
  <1> QED
    BY <1>1, <1>2, <1>3, <1>4

\* A request that takes keys out of rows.
LEMMA TakesOut ==
  ASSUME AssetIInv, NEW r \in Uploads, NEW x \in A!Proc, proc' = [proc EXCEPT ![r] = x],
         images' \subseteq images, design' \subseteq Designs,
         UNCHANGED <<current, bucket, used, failed, unserved, crowded>>,
         x.stage = "removing", x.old \subseteq used,
         \A key \in x.old : ~InRow(key)' /\ ~IsCurrent(key),
         \A q \in Uploads : Writing(proc[q]) => proc[q].key \notin x.old
  PROVE  AssetIInv'
  <1> USE DEF AssetIInv
  <1>1. A!TypeOK' /\ proc'[r] = x /\ \A q \in Uploads \ {r} : proc'[q] = proc[q]
    <2>1. images' \subseteq A!Image
      BY AssetFields
    <2> QED
      BY <2>1, AssetFields, AssetTypes
  <1>2. /\ RowsApart' /\ A!Served'
        /\ \A q \in Uploads : proc'[q] = proc[q] => Careful(q)'
    BY FewerRows DEF KeysOwned, RowsApart
  <1>3. ~Holding(x) /\ ~Writing(x)
    BY DEF Holding, Writing
  <1>4. \A key : IsCurrent(key)' <=> IsCurrent(key)
    BY DEF IsCurrent
  <1>5. Careful(r)'
    BY <1>1, <1>3, <1>4 DEF Careful, StagesFit, HoldsOwn, RemovesOld
  <1>6. HoldersApart' /\ NewIsNotOld'
    BY <1>1, <1>3 DEF KeysOwned, HoldersApart, NewIsNotOld
  <1>7. RoomKept'
    BY RoomStays DEF Adding
  <1> QED
    BY <1>1, <1>2, <1>5, <1>6, <1>7 DEF KeysOwned

LEMMA DeleteImageStep ==
  ASSUME AssetIInv, NEW r \in Uploads, NEW i \in images, A!DeleteImage(r, i) PROVE AssetIInv'
  <1> USE DEF AssetIInv
  <1> DEFINE x == [A!Idle EXCEPT !.stage = "removing", !.old = {i.key}]
  <1>1. /\ images' = images \ {i} /\ proc' = [proc EXCEPT ![r] = x]
        /\ UNCHANGED <<design, current, bucket, used, failed, unserved, crowded>>
    BY DEF A!DeleteImage
  <1>2. i.key \in Objects
    BY AssetFields DEF A!Image
  <1>3. x \in A!Proc /\ x.stage = "removing" /\ x.old = {i.key}
    BY <1>2, AssetIdle DEF A!Proc, A!Stages
  <1> HIDE DEF x
  <1>4. i.key \in used /\ ~IsCurrent(i.key) /\ ~InRow(i.key)'
    BY <1>1 DEF KeysOwned, RowsApart, InRow
  <1>5. \A q \in Uploads : Writing(proc[q]) => proc[q].key # i.key
    BY DEF KeysOwned, Careful, HoldsOwn, InRow
  <1>6. design' \subseteq Designs /\ images' \subseteq images
    BY <1>1, AssetFields
  <1> QED
    BY <1>1, <1>3, <1>4, <1>5, <1>6, TakesOut

LEMMA DeleteDesignReadStep ==
  ASSUME AssetIInv, NEW r \in Uploads, NEW d \in Designs, A!DeleteDesignRead(r, d)
  PROVE  AssetIInv'
  <1> USE DEF AssetIInv
  <1> DEFINE old == {i.key : i \in A!ImagesOf(d)}
             x == [A!Idle EXCEPT !.stage = "replacing", !.of = d, !.old = old]
  <1>1. /\ proc' = [proc EXCEPT ![r] = x]
        /\ UNCHANGED <<design, images, current, bucket, used, failed, unserved, crowded>>
    BY DEF A!DeleteDesignRead
  <1>2. old \subseteq Objects
    BY AssetFields DEF A!ImagesOf, A!Image
  <1>3. \A key \in old : /\ key \in used /\ ~IsCurrent(key) /\ InRow(key)
                         /\ \A i \in images : i.key = key => i.of = d
    BY DEF KeysOwned, RowsApart, A!ImagesOf, InRow
  <1>4. x \in A!Proc /\ x.stage = "replacing" /\ x.of = d /\ x.old = old
    BY <1>2, AssetIdle DEF A!Proc, A!Stages
  <1> HIDE DEF x, old
  <1>5. ~Holding(x) /\ ~Writing(x)
    BY <1>4, AssetNames DEF Holding, Writing
  <1>6. StagesFit(x) /\ RemovesOld(x)
    BY <1>3, <1>4, AssetNames DEF StagesFit, RemovesOld
  <1>7. \A q \in Uploads : Writing(proc[q]) => proc[q].key \notin x.old
    BY <1>3, <1>4 DEF KeysOwned, Careful, HoldsOwn
  <1>8. KeysOwned'
    BY <1>1, <1>4, <1>5, <1>6, <1>7, KeysQuiet
  <1>9. A!TypeOK'
    BY <1>1, <1>4, AssetFields, AssetTypes
  <1>10. RoomKept'
    BY <1>1, <1>4, RoomStays DEF Adding
  <1> QED
    BY <1>8, <1>9, <1>10

LEMMA DeleteDesignStep ==
  ASSUME AssetIInv, NEW r \in Uploads, NEW d \in Designs, A!DeleteDesign(r, d)
  PROVE  AssetIInv'
  <1> USE DEF AssetIInv
  <1>1. /\ proc[r].stage = "replacing" /\ proc[r].of = d
        /\ design' = design \ {d} /\ images' = images \ A!ImagesOf(d)
        /\ UNCHANGED <<current, bucket, used, failed, unserved, crowded>>
    BY DEF A!DeleteDesign
  <1>2. Careful(r) /\ d \notin A!Slots
    BY AssetNames DEF KeysOwned
  <1>3. design' \subseteq Designs /\ images' \subseteq images
    BY <1>1, AssetFields
  <1>4. CASE d \in design
    <2> DEFINE x == [proc[r] EXCEPT !.stage = "removing", !.of = None]
    <2>1. proc' = [proc EXCEPT ![r] = x]
      BY <1>4 DEF A!DeleteDesign
    <2>2. x \in A!Proc /\ x.stage = "removing" /\ x.old = proc[r].old
      BY AssetFields DEF A!Proc, A!Stages
    <2> HIDE DEF x
    <2>3. x.old \subseteq used /\ \A key \in x.old : ~InRow(key)' /\ ~IsCurrent(key)
      BY <1>1, <1>2, <2>2 DEF Careful, RemovesOld, InRow, A!ImagesOf
    <2>4. \A q \in Uploads : Writing(proc[q]) => proc[q].key \notin x.old
      BY <2>2 DEF KeysOwned, NewIsNotOld
    <2> QED
      BY <1>1, <1>3, <2>1, <2>2, <2>3, <2>4, TakesOut
  <1>5. CASE d \notin design
    <2>1. proc' = [proc EXCEPT ![r] = A!Idle]
      BY <1>5 DEF A!DeleteDesign
    <2>2. A!TypeOK' /\ proc'[r] = A!Idle /\ \A q \in Uploads \ {r} : proc'[q] = proc[q]
      <3>1. images' \subseteq A!Image
        BY <1>3, AssetFields
      <3> QED
        BY <1>1, <1>3, <2>1, <3>1, AssetIdle, AssetFields, AssetTypes
    <2>3. /\ RowsApart' /\ A!Served'
          /\ \A q \in Uploads : proc'[q] = proc[q] => Careful(q)'
      BY <1>1, <1>3, FewerRows DEF KeysOwned, RowsApart
    <2>4. Careful(r)'
      BY <2>2, AssetIdle DEF Careful, StagesFit, HoldsOwn, RemovesOld
    <2>5. HoldersApart' /\ NewIsNotOld'
      BY <2>2, AssetIdle DEF KeysOwned, HoldersApart, NewIsNotOld
    <2>6. RoomKept'
      BY <1>1, <1>3, <2>1, AssetIdle, RoomStays DEF Adding
    <2> QED
      BY <2>2, <2>3, <2>4, <2>5, <2>6 DEF KeysOwned
  <1> QED
    BY <1>4, <1>5

LEMMA SetDesignCoverStep ==
  ASSUME AssetIInv, NEW i \in images, A!SetDesignCover(i) PROVE AssetIInv'
  <1> USE DEF AssetIInv
  <1> DEFINE O(j) == IF j = i THEN 0 ELSE j.order + 1
             N(j) == [j EXCEPT !.order = O(j)]
             Mine == A!ImagesOf(i.of)
             moved == {N(j) : j \in Mine}
  <1>1. /\ images' = (images \ Mine) \union moved
        /\ UNCHANGED <<design, current, bucket, used, proc, failed, unserved, crowded>>
    BY DEF A!SetDesignCover
  <1>2. images \subseteq A!Image /\ Mine \subseteq images
    BY DEF A!ImagesOf, A!TypeOK
  <1>3. \A j \in Mine : /\ N(j) \in A!Image /\ N(j).key = j.key /\ N(j).of = j.of /\ j.of = i.of
    BY <1>2 DEF A!Image, A!ImagesOf
  <1> HIDE DEF N
  <1>4. \A j \in images' : \E k \in images : k.key = j.key /\ k.of = j.of
    BY <1>1, <1>2, <1>3
  <1>5. \A j, k \in images' : j.key = k.key => j = k
    <2>1. \A j, k \in images : j.key = k.key => j = k
      BY DEF KeysOwned, RowsApart
    <2> QED
      BY <1>1, <1>2, <1>3, <2>1
  <1>6. A!TypeOK'
    <2>1. images' \subseteq A!Image
      BY <1>1, <1>2, <1>3
    <2> QED
      BY <1>1, <2>1 DEF A!TypeOK
  <1>7. KeysOwned'
    <2>1. RowsApart' /\ A!Served' /\ \A q \in Uploads : Careful(q)'
      BY <1>1, <1>4, <1>5, FewerRows
    <2>2. HoldersApart' /\ NewIsNotOld'
      BY <1>1 DEF KeysOwned, HoldersApart, NewIsNotOld
    <2> QED
      BY <2>1, <2>2 DEF KeysOwned
  <1>8. IsFiniteSet(Mine) /\ IsFiniteSet(moved) /\ Cardinality(moved) <= Cardinality(Mine)
        /\ Cardinality(moved) \in Nat /\ Cardinality(Mine) \in Nat
    <2>1. IsFiniteSet(Mine)
      BY <1>2, FS_Subset DEF RoomKept
    <2> DEFINE f == [j \in Mine |-> N(j)]
    <2>2. f \in Surjection(Mine, moved)
      BY DEF Surjection
    <2>3. IsFiniteSet(moved) /\ Cardinality(moved) <= Cardinality(Mine)
      BY <2>1, <2>2, FS_Surjection
    <2> QED
      BY <2>1, <2>3, FS_CardinalityType
  <1>9. RoomKept'
    <2>1. IsFiniteSet(images)'
      <3>1. IsFiniteSet(images \ Mine)
        BY FS_Subset DEF RoomKept
      <3> QED
        BY <1>1, <1>8, <3>1, FS_Union
    <2>2. \A d \in Designs \ {i.of} : A!ImagesOf(d)' = A!ImagesOf(d)
      BY <1>1, <1>3 DEF A!ImagesOf
    <2>3. A!ImagesOf(i.of)' = moved
      BY <1>1, <1>3 DEF A!ImagesOf
    <2> QED
      BY <1>1, <1>8, <2>1, <2>2, <2>3, AssetNames DEF RoomKept
  <1> QED
    BY <1>6, <1>7, <1>9

-----------------------------------------------------------------------------
(* Replacements, removals and failures.                                    *)

LEMMA CreateDesignStep ==
  ASSUME AssetIInv, NEW d \in Designs, A!CreateDesign(d) PROVE AssetIInv'
  <1> USE DEF AssetIInv
  <1>1. /\ design' = design \union {d}
        /\ UNCHANGED <<images, current, bucket, used, proc, failed, unserved, crowded>>
    BY DEF A!CreateDesign
  <1>2. A!TypeOK'
    BY <1>1 DEF A!TypeOK
  <1>3. KeysOwned'
    BY <1>1 DEF KeysOwned, Careful, StagesFit, HoldsOwn, RemovesOld, HoldersApart, NewIsNotOld,
                RowsApart, A!Served, InRow, IsCurrent
  <1>4. RoomKept'
    BY <1>1 DEF RoomKept, A!ImagesOf
  <1> QED
    BY <1>2, <1>3, <1>4

LEMMA ReplaceCheckStep ==
  ASSUME AssetIInv, NEW r \in Uploads, NEW s \in A!Slots, A!ReplaceCheck(r, s) PROVE AssetIInv'
  <1> USE DEF AssetIInv
  <1> DEFINE x == [A!Idle EXCEPT !.stage = "storing", !.of = s, !.old = A!Previous(s)]
  <1>1. /\ proc' = [proc EXCEPT ![r] = x]
        /\ UNCHANGED <<design, images, current, bucket, used, failed, unserved, crowded>>
    BY DEF A!ReplaceCheck
  <1>2. A!Previous(s) \subseteq Objects /\ s \notin Designs
    BY AssetFields, AssetNames DEF A!Previous
  <1>3. x \in A!Proc /\ x.stage = "storing" /\ x.of = s /\ x.old = A!Previous(s)
    BY <1>2, AssetIdle DEF A!Proc, A!Stages
  <1> HIDE DEF x
  <1>4. \A key \in A!Previous(s) :
           /\ key \in used /\ ~InRow(key) /\ IsCurrent(key)
           /\ \A t \in A!Slots : current[t] = key => t = s
    BY DEF A!Previous, KeysOwned, RowsApart, InRow, IsCurrent
  <1>5. StagesFit(x) /\ RemovesOld(x) /\ ~Holding(x) /\ ~Writing(x)
    BY <1>2, <1>3, <1>4 DEF StagesFit, RemovesOld, Holding, Writing
  <1>6. \A q \in Uploads : Writing(proc[q]) => proc[q].key \notin x.old
    BY <1>3, <1>4 DEF KeysOwned, Careful, HoldsOwn, Writing, Holding
  <1>7. KeysOwned'
    BY <1>1, <1>3, <1>5, <1>6, KeysQuiet
  <1>8. A!TypeOK'
    BY <1>1, <1>3, AssetFields, AssetTypes
  <1>9. RoomKept'
    BY <1>1, <1>2, <1>3, RoomStays DEF Adding
  <1> QED
    BY <1>7, <1>8, <1>9

LEMMA ReplaceStep ==
  ASSUME AssetIInv, NEW r \in Uploads, A!Replace(r) PROVE AssetIInv'
  <1> USE DEF AssetIInv
  <1> DEFINE s == proc[r].of
             key == proc[r].key
             x == [A!Idle EXCEPT !.stage = "removing", !.old = A!Superseded(r)]
  <1>1. /\ proc[r].stage = "replacing" /\ s \in A!Slots
        /\ current' = [current EXCEPT ![s] = key] /\ proc' = [proc EXCEPT ![r] = x]
        /\ UNCHANGED <<design, images, bucket, used, failed, unserved, crowded>>
    BY DEF A!Replace
  <1>2. x \in A!Proc /\ x.stage = "removing" /\ x.old = proc[r].old
        /\ ~Holding(x) /\ ~Writing(x)
    BY AssetFields, AssetIdle DEF A!Proc, A!Stages, A!Superseded, Holding, Writing
  <1>3. Careful(r) /\ Holding(proc[r]) /\ Writing(proc[r]) /\ s \notin Designs
    BY <1>1, AssetNames DEF KeysOwned, Holding, Writing
  <1>4. /\ key \in Objects /\ key \in used /\ key \in bucket /\ ~InRow(key) /\ ~IsCurrent(key)
        /\ \A q \in Uploads : key \notin proc[q].old
    BY <1>3, AssetFields DEF KeysOwned, NewIsNotOld, Careful, HoldsOwn
  <1> HIDE DEF x
  <1>5. /\ current' \in [A!Slots -> Objects \union {None}]
        /\ current'[s] = key /\ \A t \in A!Slots \ {s} : current'[t] = current[t]
    BY <1>1, <1>4, AssetFields
  <1>6. A!TypeOK' /\ proc'[r] = x /\ \A q \in Uploads \ {r} : proc'[q] = proc[q]
    BY <1>1, <1>2, <1>5, AssetFields, AssetTypes
  <1> HIDE DEF s, key
  <1>7. \A k : (InRow(k)' <=> InRow(k)) /\ (IsCurrent(k)' => IsCurrent(k) \/ k = key)
    BY <1>1, <1>5 DEF InRow, IsCurrent
  <1>8. ASSUME NEW q \in Uploads PROVE Careful(q)'
    <2>1. CASE q = r
      <3>1. \A k \in x.old : ~InRow(k)' /\ ~IsCurrent(k)'
        <4>1. \A k \in x.old : k # key /\ ~InRow(k) /\ \A t \in A!Slots : current[t] = k => t = s
          BY <1>1, <1>2, <1>3, <1>4 DEF Careful, RemovesOld, s
        <4> QED
          BY <4>1, <1>5, <1>7 DEF IsCurrent
      <3> QED
        BY <2>1, <3>1, <1>1, <1>2, <1>3, <1>6 DEF Careful, StagesFit, HoldsOwn, RemovesOld
    <2>2. CASE q # r
      <3>1. Careful(q) /\ proc'[q] = proc[q] /\ key \notin proc[q].old
        BY <1>4, <1>6, <2>2 DEF KeysOwned
      <3>2. Holding(proc[q]) => proc[q].key # key
        BY <1>3, <2>2 DEF KeysOwned, HoldersApart, key
      <3>3. StagesFit(proc[q])' /\ HoldsOwn(proc[q])'
        BY <1>1, <1>7, <3>1, <3>2 DEF Careful, StagesFit, HoldsOwn
      <3>4. \A k \in proc[q].old : k # key
        BY <3>1
      <3>5. RemovesOld(proc[q])'
        BY <1>1, <1>5, <1>7, <3>1, <3>4 DEF Careful, RemovesOld
      <3> QED
        BY <3>3, <3>5 DEF Careful
    <2> QED
      BY <2>1, <2>2
  <1>9. HoldersApart' /\ NewIsNotOld'
    BY <1>2, <1>6 DEF KeysOwned, HoldersApart, NewIsNotOld
  <1>10. RowsApart'
    <2>1. \A i \in images' : i.key \in used' /\ ~IsCurrent(i.key)'
      BY <1>1, <1>4, <1>7 DEF KeysOwned, RowsApart, InRow
    <2>2. \A t \in A!Slots : current'[t] \in used' \union {None}
      BY <1>1, <1>4, <1>5 DEF KeysOwned, RowsApart
    <2>3. \A t, u \in A!Slots : current'[t] = current'[u] /\ current'[t] # None => t = u
      BY <1>4, <1>5 DEF KeysOwned, RowsApart, IsCurrent
    <2> QED
      BY <2>1, <2>2, <2>3, <1>1 DEF KeysOwned, RowsApart
  <1>11. A!Served'
    BY <1>1, <1>4, <1>5 DEF KeysOwned, A!Served
  <1>12. RoomKept'
    BY <1>1, <1>2, RoomStays DEF Adding
  <1> QED
    BY <1>6, <1>8, <1>9, <1>10, <1>11, <1>12 DEF KeysOwned

LEMMA RemoveOldStep ==
  ASSUME AssetIInv, NEW r \in Uploads, A!RemoveOld(r) PROVE AssetIInv'
  <1> USE DEF AssetIInv
  <1>1. /\ proc[r].stage = "removing" /\ proc' = [proc EXCEPT ![r] = A!Idle]
        /\ bucket' \subseteq bucket /\ bucket \ proc[r].old \subseteq bucket'
        /\ UNCHANGED <<design, images, current, used, failed, unserved, crowded>>
    BY DEF A!RemoveOld, A!End
  <1>2. A!TypeOK' /\ proc'[r] = A!Idle /\ \A q \in Uploads \ {r} : proc'[q] = proc[q]
    <2>1. bucket' \subseteq Objects
      BY <1>1, AssetFields
    <2> QED
      BY <1>1, <2>1, AssetIdle, AssetFields, AssetTypes
  <1>3. \A k : (InRow(k)' <=> InRow(k)) /\ (IsCurrent(k)' <=> IsCurrent(k))
    BY <1>1 DEF InRow, IsCurrent
  <1>4. Careful(r)
    BY DEF KeysOwned
  <1>5. ASSUME NEW q \in Uploads PROVE Careful(q)'
    <2>1. CASE q = r
      BY <2>1, <1>2, AssetIdle DEF Careful, StagesFit, HoldsOwn, RemovesOld
    <2>2. CASE q # r
      <3>1. Careful(q) /\ proc'[q] = proc[q]
        BY <1>2, <2>2 DEF KeysOwned
      <3>2. Writing(proc[q]) => proc[q].key \in bucket'
        BY <3>1, <1>1 DEF Careful, HoldsOwn, KeysOwned, NewIsNotOld
      <3>3. HoldsOwn(proc[q])'
        BY <1>1, <1>3, <3>1, <3>2 DEF Careful, HoldsOwn
      <3> QED
        BY <1>1, <1>3, <3>1, <3>3 DEF Careful, StagesFit, RemovesOld
    <2> QED
      BY <2>1, <2>2
  <1>6. HoldersApart' /\ NewIsNotOld'
    BY <1>2, AssetIdle DEF KeysOwned, HoldersApart, NewIsNotOld
  <1>7. RowsApart'
    BY <1>1, <1>3 DEF KeysOwned, RowsApart
  <1>8. A!Served'
    BY <1>1, <1>4 DEF KeysOwned, A!Served, Careful, RemovesOld, InRow, IsCurrent
  <1>9. RoomKept'
    BY <1>1, AssetIdle, RoomStays DEF Adding
  <1> QED
    BY <1>2, <1>5, <1>6, <1>7, <1>8, <1>9 DEF KeysOwned

LEMMA AssetStatementFailsStep ==
  ASSUME AssetIInv, NEW r \in Uploads, A!StatementFails(r) PROVE AssetIInv'
  <1> USE DEF AssetIInv
  <1>1. /\ proc[r].stage \in {"inserting", "auditing", "replacing"}
        /\ failed < MaxFaults /\ failed' = failed + 1
        /\ unserved' = IF proc[r].stage = "auditing" THEN unserved \union {proc[r].key} ELSE unserved
        /\ UNCHANGED <<design, images, current, bucket, used, crowded>>
    BY DEF A!StatementFails
  <1>2. Careful(r)
    BY DEF KeysOwned
  <1>3. failed' \in 0..MaxFaults /\ unserved' \subseteq Objects /\ unserved \subseteq unserved'
    <2>1. proc[r].stage = "auditing" => proc[r].key \in Objects
      BY <1>2, AssetFields DEF Careful, HoldsOwn, Holding
    <2> QED
      BY <1>1, <2>1, AssetFields, AssetNames
  <1>4. CASE A!Cleans(r)
    <2> DEFINE x == [proc[r] EXCEPT !.stage = "discarding"]
    <2>1. proc' = [proc EXCEPT ![r] = x]
      BY <1>4 DEF A!StatementFails
    <2>2. /\ x \in A!Proc /\ x.stage = "discarding" /\ x.key = proc[r].key /\ x.old = proc[r].old
          /\ ~Writing(x)
      BY AssetFields DEF A!Proc, A!Stages, Writing
    <2> HIDE DEF x
    <2>3. Holding(proc[r]) /\ (proc[r].stage # "auditing" => Writing(proc[r]))
      BY <1>4, AssetNames DEF A!Cleans, Holding, Writing
    <2>4. StagesFit(x) /\ RemovesOld(x)
      BY <1>2, <2>2 DEF Careful, StagesFit, RemovesOld
    <2>5. x.key \in unserved' \/ ~InRow(x.key)
      BY <1>1, <1>2, <2>2, <2>3 DEF Careful, HoldsOwn
    <2>6. \A q \in Uploads : Writing(proc[q]) => proc[q].key \notin x.old
      BY <2>2 DEF KeysOwned, NewIsNotOld
    <2>7. KeysOwned'
      BY <1>1, <1>3, <2>1, <2>2, <2>3, <2>4, <2>5, <2>6, KeysQuiet
    <2>8. A!TypeOK'
      BY <1>1, <1>3, <2>1, <2>2, AssetFields, AssetTypes
    <2>9. RoomKept'
      BY <1>1, <2>1, <2>2, RoomStays DEF Adding
    <2> QED
      BY <2>7, <2>8, <2>9
  <1>5. CASE ~A!Cleans(r)
    <2>1. proc' = [proc EXCEPT ![r] = A!Idle]
      BY <1>5 DEF A!StatementFails
    <2>2. unserved' = unserved
      BY <1>1, <1>5 DEF A!Cleans
    <2> QED
      BY <1>1, <1>3, <2>1, <2>2, AssetEndStep
  <1> QED
    BY <1>4, <1>5

LEMMA AuditCrashStep ==
  ASSUME AssetIInv, NEW r \in Uploads, A!Audit(r) \/ A!Crash(r) PROVE AssetIInv'
  <1>1. /\ proc' = [proc EXCEPT ![r] = A!Idle]
        /\ UNCHANGED <<design, images, current, bucket, used, unserved, crowded>>
    BY DEF A!Audit, A!Crash, A!End
  <1>2. failed' \in 0..MaxFaults
    BY AssetNames DEF A!Audit, A!Crash, AssetIInv, A!TypeOK
  <1> QED
    BY <1>1, <1>2, AssetEndStep

LEMMA AssetNextStep == AssetIInv /\ [A!Next]_avars => AssetIInv'
  <1> SUFFICES ASSUME AssetIInv, [A!Next]_avars PROVE AssetIInv'
    OBVIOUS
  <1>1. ASSUME NEW d \in Designs, A!CreateDesign(d) PROVE AssetIInv'
    BY <1>1, CreateDesignStep
  <1>2. ASSUME NEW i \in images, A!SetDesignCover(i) PROVE AssetIInv'
    BY <1>2, SetDesignCoverStep
  <1>3. ASSUME NEW r \in Uploads, NEW d \in Designs,
               A!UploadImageCheck(r, d) \/ A!DeleteDesignRead(r, d) \/ A!DeleteDesign(r, d)
        PROVE  AssetIInv'
    BY <1>3, UploadCheckStep, DeleteDesignReadStep, DeleteDesignStep
  <1>4. ASSUME NEW r \in Uploads, NEW key \in Objects, A!Put(r, key) PROVE AssetIInv'
    BY <1>4, PutStep
  <1>5. ASSUME NEW r \in Uploads, A!InsertImage(r) \/ A!Audit(r) \/ A!Discard(r) PROVE AssetIInv'
    BY <1>5, InsertImageStep, AuditCrashStep, DiscardObjectStep
  <1>6. ASSUME NEW r \in Uploads, NEW i \in images, A!DeleteImage(r, i) PROVE AssetIInv'
    BY <1>6, DeleteImageStep
  <1>7. ASSUME NEW r \in Uploads, NEW s \in A!Slots, A!ReplaceCheck(r, s) PROVE AssetIInv'
    BY <1>7, ReplaceCheckStep
  <1>8. ASSUME NEW r \in Uploads, A!Replace(r) \/ A!RemoveOld(r) PROVE AssetIInv'
    BY <1>8, ReplaceStep, RemoveOldStep
  <1>9. ASSUME NEW r \in Uploads, A!StatementFails(r) \/ A!Crash(r) PROVE AssetIInv'
    BY <1>9, AssetStatementFailsStep, AuditCrashStep
  <1>10. CASE UNCHANGED avars
    <2>1. A!TypeOK'
      BY <1>10 DEF AssetIInv, avars, A!TypeOK
    <2>2. KeysOwned'
      BY <1>10 DEF AssetIInv, avars, KeysOwned, Careful, StagesFit, HoldsOwn, RemovesOld,
                   HoldersApart, NewIsNotOld, RowsApart, A!Served, InRow, IsCurrent
    <2>3. RoomKept'
      BY <1>10 DEF AssetIInv, avars, RoomKept, A!ImagesOf
    <2> QED
      BY <2>1, <2>2, <2>3 DEF AssetIInv
  <1> QED
    BY <1>1, <1>2, <1>3, <1>4, <1>5, <1>6, <1>7, <1>8, <1>9, <1>10 DEF A!Next

LEMMA AssetSafe == AssetIInv => A!TypeOK /\ A!Served /\ A!ImagesLimited
  BY SameCardinality DEF AssetIInv, KeysOwned, RoomKept, A!ImagesLimited

-----------------------------------------------------------------------------

ServicesIInv == IInv /\ CalendarIInv /\ AssetIInv /\ HealthIInv

LEMMA ServicesInitIInv == ServicesInit => ServicesIInv
  BY InitIInv, CalendarInit, AssetInit, HealthInit DEF ServicesInit, ServicesIInv

LEMMA ServicesNextIInv == ServicesIInv /\ [ServicesNext]_allvars => ServicesIInv'
  <1> SUFFICES ASSUME ServicesIInv, [ServicesNext]_allvars PROVE ServicesIInv'
    OBVIOUS
  <1>1. /\ [Next]_vars /\ [C!Next]_cvars
        /\ [A!Next]_avars /\ [H!Next]_hvars
    BY DEF ServicesNext, DeliveriesNext, CalendarNext, AssetsNext, HealthNext, allvars
  <1> QED
    BY <1>1, NextIInv, CalendarNextStep, AssetNextStep, HealthNextStep DEF ServicesIInv

LEMMA ServicesInvariant == ServicesSpec => []ServicesIInv
  <1> QED
    BY ServicesInitIInv, ServicesNextIInv, PTL DEF ServicesSpec

\* The rows, events, images and health records keep their types, whatever part
\* a behaviour is of: the times the worker remembers are times that were.
THEOREM ServicesTypeCorrect == ServicesSpec => []ServicesTypeOK
  <1>1. ServicesIInv => ServicesTypeOK
    BY CalendarSafe, AssetSafe, HealthSafe DEF ServicesIInv, IInv, ServicesTypeOK
  <1> QED
    BY <1>1, ServicesInvariant, PTL

\* However requests overlap, once they rest an appointment that no failure and
\* no overlap has disturbed has one event, in its manicurist's calendar and at
\* its time, if it is confirmed and that calendar connected, and else none.
THEOREM EventsFollowAppointment == ServicesSpec => []CalendarFollows
  <1>1. ServicesIInv => CalendarFollows
    BY CalendarSafe DEF ServicesIInv, CalendarFollows
  <1> QED
    BY <1>1, ServicesInvariant, PTL

\* No row is left with a key whose object was removed, whichever statement or
\* request to the store fails; uploads that do not overlap keep to the limit.
THEOREM RowsHaveObjects == ServicesSpec => []AssetsInOrder
  <1>1. ServicesIInv => AssetsInOrder
    BY AssetSafe DEF ServicesIInv, AssetsInOrder
  <1> QED
    BY <1>1, ServicesInvariant, PTL

\* However often the worker restarts and Redis goes away, it calls no job
\* healthy whose last outcome was a failure that reached what it persists.
THEOREM FailuresStay == ServicesSpec => []HealthRemembersFailures
  <1>1. ServicesIInv => HealthRemembersFailures
    BY HealthSafe DEF ServicesIInv, HealthRemembersFailures
  <1> QED
    BY <1>1, ServicesInvariant, PTL

=============================================================================
