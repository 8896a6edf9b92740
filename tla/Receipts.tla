------------------------------ MODULE Receipts ------------------------------
(***************************************************************************)
(* The files of receipts: what uploadReceipt stores in MinIO, the column   *)
(* of deposit_payments that refers to it, and the retention job that       *)
(* removes both after a year.  The bucket and PostgreSQL share no          *)
(* transaction, so a handler that stops between two calls leaves them      *)
(* apart.  Booking follows the appointment; here it is only held or not.   *)
(***************************************************************************)
EXTENDS Integers, FiniteSets

CONSTANTS
    Deposits,   \* deposits of held appointments
    Uploads,    \* upload requests; each stores an object under a key of its own
    Runs,       \* runs of receipt-retention that may overlap
    None,       \* null
    Retention,  \* addYears(now, 1)
    BatchSize,  \* take: 100
    MaxTime     \* bound: the clock stops here

ASSUME ReceiptsAssumption ==
    /\ Retention \in Nat /\ BatchSize \in Nat \ {0} /\ MaxTime \in Nat
    /\ None \notin Uploads \union Deposits

VARIABLES
    now,
    held,    \* deposits whose appointment is still HELD
    row,     \* objectKey and retentionUntil of each deposit
    bucket,  \* objects in MinIO, by the upload that stored them
    upload,  \* what each upload request is doing
    run      \* what each run of the job is doing

vars == <<now, held, row, bucket, upload, run>>

Receipt == [key : Uploads \union {None}, until : Nat]
NoReceipt == [key |-> None, until |-> 0]

\* An entry of the list the job selected.
Entry == [deposit : Deposits, key : Uploads, until : Nat]

Stages == {"new", "putting", "stored", "committed", "failing",
           "answered", "refused", "cleaned", "crashed"}

TypeOK ==
    /\ now \in Nat
    /\ held \subseteq Deposits
    /\ row \in [Deposits -> Receipt]
    /\ bucket \subseteq Uploads
    /\ upload \in [Uploads -> [stage : Stages, deposit : Deposits \union {None},
                               stamp : Nat]]
    /\ run \in [Runs -> [stage : {"idle", "removing", "clearing"},
                         found : SUBSET Entry, entry : Entry \union {None}]]
    /\ \A j \in Runs : run[j].stage = "clearing" => run[j].entry \in run[j].found

Init ==
    /\ now = 0
    /\ held = Deposits
    /\ row = [d \in Deposits |-> NoReceipt]
    /\ bucket = {}
    /\ upload = [u \in Uploads |-> [stage |-> "new", deposit |-> None, stamp |-> 0]]
    /\ run = [j \in Runs |-> [stage |-> "idle", found |-> {}, entry |-> None]]

-----------------------------------------------------------------------------
(* uploadReceipt.                                                          *)

Goes(u, stage) == upload' = [upload EXCEPT ![u] = [upload[u] EXCEPT !.stage = stage]]

UploadCheck(u, d) ==
    /\ upload[u].stage = "new"
    /\ d \in held
    /\ upload' = [upload EXCEPT ![u] = [upload[u] EXCEPT !.stage = "putting", !.deposit = d]]
    /\ UNCHANGED <<now, held, row, bucket, run>>

PutObject(u) ==
    /\ upload[u].stage = "putting"
    /\ bucket' = bucket \union {u}
    /\ upload' = [upload EXCEPT ![u] = [upload[u] EXCEPT !.stage = "stored", !.stamp = now]]
    /\ UNCHANGED <<now, held, row, run>>

\* putObject is called outside the try: when it rejects nothing is cleaned up,
\* whether or not MinIO kept the object.
PutFails(u) ==
    /\ upload[u].stage = "putting"
    /\ bucket' \in {bucket, bucket \union {u}}
    /\ Goes(u, "refused")
    /\ UNCHANGED <<now, held, row, run>>

ExpiryIsStamp(stamp) == stamp

RetentionUntil(stamp) == stamp + Retention

CommitsAnyway(d) == TRUE

\* where: { id, status: HELD, ... }
StillOpen(d) == d \in held

Commit(u) ==
    LET d == upload[u].deposit IN
    /\ upload[u].stage = "stored"
    /\ RetentionUntil(upload[u].stamp) <= MaxTime  \* bound: retention ends within the clock
    /\ StillOpen(d)
    /\ held' = held \ {d}
    /\ row' = [row EXCEPT ![d] = [key |-> u,
                                  until |-> RetentionUntil(upload[u].stamp)]]
    /\ Goes(u, "committed")
    /\ UNCHANGED <<now, bucket, run>>

\* The transaction matches no row, or fails.
CommitFails(u) ==
    /\ upload[u].stage = "stored"
    /\ Goes(u, "failing")
    /\ UNCHANGED <<now, held, row, bucket, run>>

\* The audit record or the search for administrators fails inside the same try.
FailsAfterCommit(u) ==
    /\ upload[u].stage = "committed"
    /\ Goes(u, "failing")
    /\ UNCHANGED <<now, held, row, bucket, run>>

Answer(u) ==
    /\ upload[u].stage = "committed"
    /\ Goes(u, "answered")
    /\ UNCHANGED <<now, held, row, bucket, run>>

\* catch: remove the object; an error of the removal is swallowed.
CleanUp(u) ==
    /\ upload[u].stage = "failing"
    /\ bucket' \in {bucket, bucket \ {u}}
    /\ Goes(u, "cleaned")
    /\ UNCHANGED <<now, held, row, run>>

\* The API process dies in the middle of the handler.
Crash(u) ==
    /\ upload[u].stage \in {"putting", "stored", "committed", "failing"}
    /\ Goes(u, "crashed")
    /\ UNCHANGED <<now, held, row, bucket, run>>

\* The hold lapses or the appointment is cancelled.
EndHold(d) ==
    /\ d \in held
    /\ held' = held \ {d}
    /\ UNCHANGED <<now, row, bucket, upload, run>>

-----------------------------------------------------------------------------
(* purgeExpiredReceiptFiles.                                               *)

EntryOf(d) == [deposit |-> d, key |-> row[d].key, until |-> row[d].until]

DueWithoutKey == {EntryOf(d) : d \in {e \in Deposits : row[e].until <= now}}

DueToday == {EntryOf(d) : d \in {e \in Deposits : row[e].key # None /\ row[e].until = now}}

Due == {EntryOf(d) : d \in {e \in Deposits : row[e].key # None /\ row[e].until <= now}}

\* orderBy retentionUntil, take BatchSize; ties in any order.
Batches(due) ==
    {b \in SUBSET due :
        /\ Cardinality(b) = IF Cardinality(due) < BatchSize THEN Cardinality(due)
                            ELSE BatchSize
        /\ \A e \in b, f \in due \ b : e.until <= f.until}

PurgeSelect(j) ==
    /\ run[j].stage = "idle"
    /\ Due # {}
    /\ \E batch \in Batches(Due) :
          run' = [run EXCEPT ![j] = [stage |-> "removing", found |-> batch,
                                     entry |-> None]]
    /\ UNCHANGED <<now, held, row, bucket, upload>>

RemovedOrNot(key) == {bucket, bucket \ {key}}

\* removeObject succeeds, also when the object is gone already.
Removed(key) == {bucket \ {key}}

PurgeRemove(j) ==
    /\ run[j].stage = "removing"
    /\ \E e \in run[j].found :
          /\ \A f \in run[j].found : e.until <= f.until
          /\ bucket' \in Removed(e.key)
          /\ run' = [run EXCEPT ![j] = [run[j] EXCEPT !.stage = "clearing", !.entry = e]]
    /\ UNCHANGED <<now, held, row, upload>>

\* where: { id, objectKey }, data: nulls.
Cleared(d, key) == IF row[d].key = key THEN [row EXCEPT ![d] = NoReceipt] ELSE row

PurgeClear(j) ==
    LET e == run[j].entry
        left == run[j].found \ {e}
    IN  /\ run[j].stage = "clearing"
        /\ row' = Cleared(e.deposit, e.key)
        /\ run' = [run EXCEPT ![j] = [stage |-> IF left = {} THEN "idle" ELSE "removing",
                                      found |-> left, entry |-> None]]
        /\ UNCHANGED <<now, held, bucket, upload>>

\* MinIO or PostgreSQL fails, or the API dies: the loop ends there.
PurgeStops(j) ==
    /\ run[j].stage # "idle"
    /\ run' = [run EXCEPT ![j] = [stage |-> "idle", found |-> {}, entry |-> None]]
    /\ UNCHANGED <<now, held, row, bucket, upload>>

Tick ==
    /\ now < MaxTime
    /\ now' = now + 1
    /\ UNCHANGED <<held, row, bucket, upload, run>>

Next ==
    \/ Tick
    \/ \E d \in Deposits : EndHold(d)
    \/ \E u \in Uploads :
          \/ \E d \in Deposits : UploadCheck(u, d)
          \/ PutObject(u) \/ PutFails(u)
          \/ Commit(u) \/ CommitFails(u)
          \/ FailsAfterCommit(u) \/ Answer(u)
          \/ CleanUp(u) \/ Crash(u)
    \/ \E j \in Runs :
          PurgeSelect(j) \/ PurgeRemove(j) \/ PurgeClear(j) \/ PurgeStops(j)

Spec == Init /\ [][Next]_vars

(* The worker starts the job every six hours and retries it; MinIO and      *)
(* PostgreSQL do not refuse every removal for ever.                         *)
FairSpec ==
    /\ Spec
    /\ WF_vars(Tick)
    /\ \A j \in Runs : /\ WF_vars(PurgeSelect(j))
                       /\ SF_vars(PurgeRemove(j)) /\ SF_vars(PurgeClear(j))

-----------------------------------------------------------------------------
(* Properties.                                                             *)

\* A receipt the deposit accepted keeps its file and its row for Retention from the
\* instant it was stored, whatever other uploads and runs of the job do, unless its
\* own handler fails after the commit (uploadReceipt, purgeExpiredReceiptFiles).
KeptUntilDue ==
    \A u \in Uploads :
        /\ upload[u].stage \in {"committed", "answered"}
        /\ now < upload[u].stamp + Retention
        => u \in bucket /\ row[upload[u].deposit].key = u

\* docs/DECISIONES.md:139: receipts are kept for one year.
ReceiptsKept ==
    \A d \in Deposits :
        row[d].key # None /\ now < row[d].until => row[d].key \in bucket

\* Of several uploads for one deposit at most one is accepted: the others, which
\* also read a held appointment, end with an error (uploadReceipt).
OneReceiptAccepted ==
    \A u, v \in Uploads :
        /\ u # v
        /\ {upload[u].stage, upload[v].stage} \subseteq {"committed", "answered"}
        => upload[u].deposit # upload[v].deposit

\* Once a client was told her receipt is in, its file is never in the bucket
\* without a row that refers to it and from which a later run can find it,
\* although runs stop half-way and overlap (purgeExpiredReceiptFiles).
NeverForgotten ==
    \A u \in bucket :
        upload[u].stage = "answered" => row[upload[u].deposit].key = u

\* Every receipt is removed once its year is over, file and row (the job's
\* batches, oldest first, under its schedule).
EventuallyPurged ==
    \A d \in Deposits :
        \A u \in Uploads : row[d].key = u ~> row[d].key = None /\ u \notin bucket
=============================================================================
