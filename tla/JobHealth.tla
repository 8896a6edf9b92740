----------------------------- MODULE JobHealth -----------------------------
(***************************************************************************)
(* The worker's health check.  The tracker keeps the last success and the  *)
(* last failure of each job in memory and in Redis, and reads them back    *)
(* when the process starts or Redis comes back.                            *)
(***************************************************************************)
EXTENDS Integers, Sequences

CONSTANTS
    Jobs,
    Window,     \* max(15 minutes, three periods)
    MaxTime,    \* bound of the clock
    MaxQueued   \* bound: writes on their way to Redis

Never == -1
Instants == Never..MaxTime
Kinds == {"success", "failure"}

VARIABLES
    now,
    memory,      \* lastSuccessAt and lastFailureAt
    stored,      \* the keys in Redis
    queued,      \* commands sent to Redis and not yet answered, in order
    hydrated,    \* jobHealthHydrated
    schedulers,  \* schedulersReady
    redis,       \* redisReady
    happened,    \* history: when each job last succeeded and last failed
    lost         \* history: jobs with a failure that Redis never stored

vars == <<now, memory, stored, queued, hydrated, schedulers, redis, happened, lost>>

Table == [Jobs -> [Kinds -> Instants]]
Empty == [j \in Jobs |-> [k \in Kinds |-> Never]]

\* A write of one key, or the read of all of them.
Command == [op : {"write", "read"}, job : Jobs, kind : Kinds, at : Instants]

TypeOK ==
    /\ now \in 0..MaxTime
    /\ memory \in Table /\ stored \in Table /\ happened \in Table
    /\ queued \in Seq(Command) /\ Len(queued) <= MaxQueued
    /\ hydrated \in BOOLEAN /\ schedulers \in BOOLEAN /\ redis \in BOOLEAN
    /\ lost \subseteq Jobs

Hydration == [op |-> "read", job |-> CHOOSE j \in Jobs : TRUE, kind |-> "success", at |-> Never]

Init ==
    /\ now = 0
    /\ memory = Empty /\ stored = Empty /\ happened = Empty
    /\ queued = <<Hydration>>
    /\ hydrated = FALSE /\ schedulers = FALSE /\ redis = FALSE
    /\ lost = {}

-----------------------------------------------------------------------------
(* JobHealthTracker.                                                       *)

Newest(a, b) == b

Latest(a, b) == IF b > a THEN b ELSE a

\* recordSuccess and recordFailure.
Record(j, kind) ==
    /\ Len(queued) < MaxQueued
    /\ happened' = [happened EXCEPT ![j][kind] = now]
    /\ memory' = [memory EXCEPT ![j][kind] = Latest(memory[j][kind], now)]
    /\ queued' = Append(queued, [op |-> "write", job |-> j, kind |-> kind, at |-> now])
    /\ UNCHANGED <<now, stored, hydrated, schedulers, redis, lost>>

Merged(old, read) == [j \in Jobs |-> [k \in Kinds |-> Latest(old[j][k], read[j][k])]]

Answer ==
    LET c == Head(queued) IN
    /\ queued # <<>>
    /\ queued' = Tail(queued)
    /\ IF c.op = "write"
       THEN /\ stored' = [stored EXCEPT ![c.job][c.kind] = c.at]
            /\ UNCHANGED <<memory, hydrated>>
       ELSE /\ memory' = Merged(memory, stored)
            /\ hydrated' = TRUE
            /\ UNCHANGED stored
    /\ UNCHANGED <<now, schedulers, redis, happened, lost>>

Unstored == {queued[i].job : i \in {i \in DOMAIN queued : queued[i].kind = "failure"}}

\* A command of a broken connection fails.
CommandFails ==
    LET c == Head(queued) IN
    /\ queued # <<>>
    /\ queued' = Tail(queued)
    /\ hydrated' = (hydrated /\ c.op = "write")
    /\ lost' = IF c.op = "write" /\ c.kind = "failure" THEN lost \union {c.job} ELSE lost
    /\ UNCHANGED <<now, memory, stored, schedulers, redis, happened>>

-----------------------------------------------------------------------------
(* The process.                                                            *)

\* Both connections break and come back together; 'ready' hydrates again.
RedisReady ==
    /\ ~redis
    /\ redis' = TRUE
    /\ queued' = IF Len(queued) < MaxQueued THEN Append(queued, Hydration) ELSE queued
    /\ UNCHANGED <<now, memory, stored, hydrated, schedulers, happened, lost>>

RedisClosed ==
    /\ redis
    /\ redis' = FALSE
    /\ UNCHANGED <<now, memory, stored, queued, hydrated, schedulers, happened, lost>>

\* synchronizeSchedulers, retried by its own timer.
SynchronizeSchedulers(ok) ==
    /\ schedulers' = ok
    /\ UNCHANGED <<now, memory, stored, queued, hydrated, redis, happened, lost>>

Restart ==
    /\ memory' = Empty
    /\ lost' = lost \union Unstored
    /\ queued' = <<Hydration>>
    /\ hydrated' = FALSE /\ schedulers' = FALSE /\ redis' = FALSE
    /\ UNCHANGED <<now, stored, happened>>

Tick ==
    /\ now < MaxTime
    /\ now' = now + 1
    /\ UNCHANGED <<memory, stored, queued, hydrated, schedulers, redis, happened, lost>>

Next ==
    \/ \E j \in Jobs, kind \in Kinds : Record(j, kind)
    \/ Answer \/ CommandFails
    \/ RedisReady \/ RedisClosed
    \/ \E ok \in BOOLEAN : SynchronizeSchedulers(ok)
    \/ Restart \/ Tick

Spec == Init /\ [][Next]_vars

-----------------------------------------------------------------------------
(* Properties.                                                             *)

Fresh(j) ==
    LET m == memory[j] IN
    m["success"] # Never /\ now - m["success"] <= Window /\ m["success"] > m["failure"]

Healthy == redis /\ schedulers /\ hydrated /\ \A j \in Jobs : Fresh(j)

\* The check never answers 200 while the last thing a job did was to fail,
\* across restarts of the worker and losses of Redis: it forgets a failure
\* only if Redis never stored it.
HealthRemembersFailures ==
    Healthy => \A j \in Jobs \ lost : happened[j]["failure"] < happened[j]["success"]

=============================================================================
