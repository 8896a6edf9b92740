----------------------------- MODULE Deliveries -----------------------------
(***************************************************************************)
(* Outgoing messages of NotificationsService: notify queues a delivery,    *)
(* the job processPending recovers abandoned ones, claims those that are   *)
(* due and sends them.  The worker gives a call up after two minutes and   *)
(* starts the job again while the API goes on, so runs overlap.            *)
(*                                                                         *)
(* Instants are kept relative to the clock: `next` is the time left until  *)
(* nextAttemptAt, `locked` the time since lockedAt, `age` the time since a *)
(* run took its `now`.                                                     *)
(***************************************************************************)
EXTENDS Integers, FiniteSets

CONSTANTS
    Messages,      \* rows of notification_deliveries
    Runs,          \* calls of processPending
    MaxAttempts,   \* five
    Batch,         \* one hundred
    LockTime,      \* ten minutes
    Delay,         \* time to wait after each attempt
    RunTime,       \* bound: a run lasts at most this long
    MaxFaults,     \* bound: crashes and failures of the database
    None

ASSUME DeliveriesAssumption ==
    /\ MaxAttempts \in Nat \ {0} /\ LockTime \in Nat /\ RunTime \in Nat /\ MaxFaults \in Nat
    /\ Delay \in [1..MaxAttempts -> Nat \ {0}]
    /\ None \notin Messages

VARIABLES
    msg,        \* table notification_deliveries
    run,        \* what each run is doing
    faults,
    accepted,   \* history: times the provider took the message
    lost        \* history: times it took it and the run never learned or wrote so

vars == <<msg, run, faults, accepted, lost>>

Message == [status : {"ABSENT", "PENDING", "PROCESSING", "FAILED", "SENT"},
            attempts : Nat, next : Int, locked : 0..LockTime + RunTime + 1]

NoMessage == [status |-> "ABSENT", attempts |-> 0, next |-> 0, locked |-> 0]

Stages == {"idle", "recovering", "reading", "claiming", "sending", "confirming", "failing"}
Run == [stage : Stages, age : 0..RunTime, list : SUBSET Messages, at : Messages \union {None}]
Idle == [stage |-> "idle", age |-> 0, list |-> {}, at |-> None]

TypeOK ==
    /\ msg \in [Messages -> Message]
    /\ run \in [Runs -> Run]
    /\ faults \in 0..MaxFaults
    /\ accepted \in [Messages -> Nat] /\ lost \in [Messages -> Nat]

Init ==
    /\ msg = [m \in Messages |-> NoMessage]
    /\ run = [r \in Runs |-> Idle]
    /\ faults = 0
    /\ accepted = [m \in Messages |-> 0] /\ lost = [m \in Messages |-> 0]

-----------------------------------------------------------------------------
(* notify: a second call with the same dedupeKey finds the first row.      *)

Notify(m) ==
    /\ msg[m].status = "ABSENT"
    /\ msg' = [msg EXCEPT ![m] = [NoMessage EXCEPT !.status = "PENDING"]]
    /\ UNCHANGED <<run, faults, accepted, lost>>

-----------------------------------------------------------------------------
(* processPending.                                                         *)

StartRun(r) ==
    /\ run[r].stage = "idle"
    /\ run' = [run EXCEPT ![r] = [Idle EXCEPT !.stage = "recovering"]]
    /\ UNCHANGED <<msg, faults, accepted, lost>>

AbandonedNever(m, age) == FALSE

\* Against the run's now, not the clock.
Abandoned(m, age) == msg[m].status = "PROCESSING" /\ msg[m].locked - age > LockTime

Recover(r) ==
    /\ run[r].stage = "recovering"
    /\ msg' = [m \in Messages |->
          IF Abandoned(m, run[r].age)
          THEN [msg[m] EXCEPT !.status = "FAILED", !.locked = 0, !.next = -run[r].age]
          ELSE msg[m]]
    /\ run' = [run EXCEPT ![r].stage = "reading"]
    /\ UNCHANGED <<faults, accepted, lost>>

ClaimableByDate(m, age) == msg[m].status # "ABSENT" /\ msg[m].next <= -age

Claimable(m, age) ==
    /\ msg[m].status \in {"PENDING", "FAILED"}
    /\ msg[m].next <= -age

CandidatesOnceMore(age) ==
    {m \in Messages : Claimable(m, age) /\ msg[m].attempts <= MaxAttempts}

Candidates(age) == {m \in Messages : Claimable(m, age) /\ msg[m].attempts < MaxAttempts}

ReadCandidates(r) ==
    LET due == Candidates(run[r].age) IN
    /\ run[r].stage = "reading"
    /\ \E list \in SUBSET due :
        /\ Cardinality(list) = Batch \/ (Cardinality(list) < Batch /\ list = due)
        /\ \A m \in list, o \in due \ list : msg[m].next <= msg[o].next
        /\ run' = [run EXCEPT ![r].list = list, ![r].stage = "claiming"]
    /\ UNCHANGED <<msg, faults, accepted, lost>>

Claim(r, m) ==
    /\ run[r].stage = "claiming" /\ m \in run[r].list
    /\ IF Claimable(m, run[r].age)
       THEN /\ msg' = [msg EXCEPT ![m].status = "PROCESSING", ![m].locked = 0,
                                  ![m].attempts = msg[m].attempts + 1]
            /\ run' = [run EXCEPT ![r].at = m, ![r].stage = "sending"]
       ELSE /\ run' = [run EXCEPT ![r].list = run[r].list \ {m}]
            /\ UNCHANGED msg
    /\ UNCHANGED <<faults, accepted, lost>>

EndRun(r) ==
    /\ run[r].stage = "claiming" /\ run[r].list = {}
    /\ run' = [run EXCEPT ![r] = Idle]
    /\ UNCHANGED <<msg, faults, accepted, lost>>

\* The provider takes the message or not; its answer arrives or the call
\* times out.
Send(r, taken, answered) ==
    LET m == run[r].at IN
    /\ run[r].stage = "sending"
    /\ answered => taken
    /\ accepted' = IF taken THEN [accepted EXCEPT ![m] = accepted[m] + 1] ELSE accepted
    /\ lost' = IF taken /\ ~answered THEN [lost EXCEPT ![m] = lost[m] + 1] ELSE lost
    /\ run' = [run EXCEPT ![r].stage = IF answered THEN "confirming" ELSE "failing"]
    /\ UNCHANGED <<msg, faults>>

Done(r) == [run[r] EXCEPT !.stage = "claiming", !.at = None,
                          !.list = run[r].list \ {run[r].at}]

MarkSent(r) ==
    /\ run[r].stage = "confirming"
    /\ msg' = [msg EXCEPT ![run[r].at].status = "SENT", ![run[r].at].locked = 0]
    /\ run' = [run EXCEPT ![r] = Done(r)]
    /\ UNCHANGED <<faults, accepted, lost>>

MarkFailed(r) ==
    LET m == run[r].at IN
    /\ run[r].stage = "failing"
    /\ msg' = [msg EXCEPT ![m].status = "FAILED", ![m].locked = 0,
                          ![m].next = Delay[msg[m].attempts]]
    /\ run' = [run EXCEPT ![r] = Done(r)]
    /\ UNCHANGED <<faults, accepted, lost>>

Unwritten(r) ==
    IF run[r].stage = "confirming" THEN [lost EXCEPT ![run[r].at] = lost[run[r].at] + 1]
    ELSE lost

\* The write of SENT fails inside the try.
SentFails(r) ==
    /\ run[r].stage = "confirming" /\ faults < MaxFaults
    /\ faults' = faults + 1
    /\ lost' = Unwritten(r)
    /\ run' = [run EXCEPT ![r].stage = "failing"]
    /\ UNCHANGED <<msg, accepted>>

\* The process dies, or a statement outside the try fails.
Crash(r) ==
    /\ run[r].stage # "idle" /\ faults < MaxFaults
    /\ faults' = faults + 1
    /\ lost' = Unwritten(r)
    /\ run' = [run EXCEPT ![r] = Idle]
    /\ UNCHANGED <<msg, accepted>>

-----------------------------------------------------------------------------
(* The clock.  A call of the provider ends within its timeout of fifteen   *)
(* seconds, long before its lock is taken for abandoned.                   *)

Tick ==
    /\ \A r \in Runs : run[r].stage # "idle" => run[r].age < RunTime
    /\ \A r \in Runs : run[r].at # None => msg[run[r].at].locked < LockTime
    /\ run' = [r \in Runs |->
          IF run[r].stage = "idle" THEN Idle ELSE [run[r] EXCEPT !.age = run[r].age + 1]]
    /\ msg' = [m \in Messages |-> [msg[m] EXCEPT
          !.next = IF msg[m].next = -RunTime THEN -RunTime ELSE msg[m].next - 1,
          !.locked = IF msg[m].status # "PROCESSING" THEN 0
                     ELSE IF msg[m].locked > LockTime + RunTime THEN msg[m].locked
                     ELSE msg[m].locked + 1]]
    /\ UNCHANGED <<faults, accepted, lost>>

Step(r) ==
    \/ Recover(r) \/ ReadCandidates(r) \/ EndRun(r)
    \/ \E m \in Messages : Claim(r, m)
    \/ \E taken, answered \in BOOLEAN : Send(r, taken, answered)
    \/ MarkSent(r) \/ MarkFailed(r)

Next ==
    \/ \E m \in Messages : Notify(m)
    \/ \E r \in Runs : StartRun(r) \/ Step(r) \/ SentFails(r) \/ Crash(r)
    \/ Tick

Spec == Init /\ [][Next]_vars

\* The worker starts the job every thirty seconds, a call that goes on ends, and
\* time passes.
Fairness ==
    /\ \A r \in Runs : WF_vars(StartRun(r)) /\ WF_vars(Step(r))
    /\ WF_vars(Tick)

-----------------------------------------------------------------------------
(* Properties.                                                             *)

Settled(m) == msg[m].status = "SENT" \/ (msg[m].status = "FAILED"
                                         /\ msg[m].attempts = MaxAttempts)

\* No delivery is claimed more than five times, although the claim does not
\* look at attempts and the list it comes from may be stale.
AttemptsBounded ==
    \A m \in Messages : msg[m].attempts <= MaxAttempts

\* Within its attempts, the provider takes a message again only if an earlier
\* acceptance was lost: overlapping runs never send one delivery twice by
\* themselves.
DuplicatesExplained ==
    /\ AttemptsBounded
    /\ \A m \in Messages : accepted[m] <= 1 + lost[m]

\* Every queued delivery ends sent, or failed with all its attempts made,
\* through crashes of its runs: none stays in PROCESSING.
EventuallySettled ==
    \A m \in Messages : (msg[m].status = "PENDING") ~> []Settled(m)

=============================================================================
