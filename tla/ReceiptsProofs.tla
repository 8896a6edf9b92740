--------------------------- MODULE ReceiptsProofs ---------------------------
(***************************************************************************)
(* What Receipts keeps of the bucket and the rows, for any deposits,       *)
(* uploads and overlapping runs of the retention job.                      *)
(***************************************************************************)
EXTENDS Receipts, TLAPS

Accepted == {"committed", "answered"}

\* The transaction of the upload is over, whatever came of it.
Past == Stages \ {"new", "putting", "stored"}

RetentionOver(u) == upload[u].stamp + Retention <= now

\* A row refers to an upload of its own deposit, with that upload's retention.
RowsMatch ==
    \A d \in Deposits, u \in Uploads :
        row[d].key = u => /\ upload[u].stage \in Past
                          /\ row[d].until = upload[u].stamp + Retention

\* The job's lists name only receipts whose retention is over, and an entry
\* waiting for its row to be cleared has lost its object.
ListsMatch ==
    /\ \A j \in Runs : \A e \in run[j].found :
           upload[e.key].stage \in Past /\ RetentionOver(e.key)
    /\ \A j \in Runs : run[j].stage = "clearing" => run[j].entry.key \notin bucket

\* An object is there from the upload until cleaned or purged, and the accepted
\* ones are those their rows refer to.
ObjectsMatch ==
    \A u \in Uploads :
        /\ upload[u].stage = "stored" => u \in bucket
        /\ upload[u].stage \in Accepted /\ u \in bucket => row[upload[u].deposit].key = u
        /\ upload[u].stage \in Accepted /\ ~RetentionOver(u) => u \in bucket

\* A hold is consumed by the upload that is accepted.
HoldsConsumed ==
    \A u \in Uploads :
        upload[u].stage \in Accepted => upload[u].deposit \in Deposits \ held

IInv == TypeOK /\ RowsMatch /\ ListsMatch /\ ObjectsMatch /\ HoldsConsumed /\ OneReceiptAccepted

-----------------------------------------------------------------------------

LEMMA InitIInv == Init => IInv
  <1> SUFFICES ASSUME Init PROVE IInv
    OBVIOUS
  <1> USE ReceiptsAssumption DEF Init
  <1>1. TypeOK
    BY DEF TypeOK, Receipt, NoReceipt, Stages
  <1>2. RowsMatch /\ ListsMatch
    BY DEF RowsMatch, ListsMatch, NoReceipt
  <1>3. ObjectsMatch /\ HoldsConsumed /\ OneReceiptAccepted
    BY DEF ObjectsMatch, HoldsConsumed, OneReceiptAccepted, Accepted
  <1> QED
    BY <1>1, <1>2, <1>3 DEF IInv

-----------------------------------------------------------------------------
(* Steps of uploadReceipt.                                                 *)

(* Every step of a handler that only ends it, or ends its transaction, moves *)
(* it to a stage of the past, accepts nothing new, and at most adds or       *)
(* removes its own object when nothing refers to it.                         *)
LEMMA HandlerEnds ==
    ASSUME IInv, NEW u \in Uploads, NEW stage \in Past,
           Goes(u, stage), UNCHANGED <<now, held, row, run>>,
           bucket' \in {bucket, bucket \union {u}, bucket \ {u}},
           stage \in Accepted => upload[u].stage \in Accepted /\ bucket' = bucket,
           u \in bucket' => u \in bucket \/ upload[u].stage = "putting"
    PROVE  IInv'
  <1> USE ReceiptsAssumption
  <1>0. Past \subseteq Stages
    BY DEF Past
  <1>1. upload' = [upload EXCEPT ![u] = [upload[u] EXCEPT !.stage = stage]]
    BY DEF Goes
  <1>2. TypeOK'
    BY <1>0, <1>1 DEF IInv, TypeOK
  <1>3. /\ \A v \in Uploads : v # u => upload'[v] = upload[v]
        /\ upload'[u].stage = stage
        /\ upload'[u].deposit = upload[u].deposit
        /\ upload'[u].stamp = upload[u].stamp
    BY <1>1 DEF IInv, TypeOK
  <1>4. RowsMatch'
    BY <1>3 DEF IInv, RowsMatch
  <1>5. ListsMatch'
    <2>1. \A j \in Runs : \A e \in run[j].found : e.key \in Uploads
      BY DEF IInv, TypeOK, Entry
    <2>2. \A j \in Runs : \A e \in run[j].found :
              upload'[e.key].stage \in Past /\ RetentionOver(e.key)'
      BY <1>3, <2>1 DEF IInv, ListsMatch, RetentionOver
    <2>3. ASSUME NEW j \in Runs, run[j].stage = "clearing"
          PROVE  run[j].entry.key \notin bucket'
      <3>1. run[j].entry.key \notin bucket /\ upload[run[j].entry.key].stage \in Past
        BY <2>3 DEF IInv, TypeOK, ListsMatch
      <3> QED
        BY <3>1 DEF Past
    <2> QED
      BY <2>2, <2>3 DEF ListsMatch
  <1>6. ObjectsMatch'
    <2> SUFFICES ASSUME NEW v \in Uploads
                 PROVE  /\ upload'[v].stage = "stored" => v \in bucket'
                        /\ upload'[v].stage \in Accepted /\ v \in bucket'
                               => row[upload'[v].deposit].key = v
                        /\ upload'[v].stage \in Accepted /\ ~RetentionOver(v)'
                               => v \in bucket'
      BY DEF ObjectsMatch
    <2>1. CASE v = u
      BY <2>1, <1>3 DEF IInv, ObjectsMatch, Past, RetentionOver
    <2>2. CASE v # u
      BY <2>2, <1>3 DEF IInv, ObjectsMatch, RetentionOver
    <2> QED
      BY <2>1, <2>2
  <1>7. HoldsConsumed'
    BY <1>3 DEF IInv, HoldsConsumed
  <1>8. OneReceiptAccepted'
    BY <1>3 DEF IInv, OneReceiptAccepted, Accepted
  <1> QED
    BY <1>2, <1>4, <1>5, <1>6, <1>7, <1>8 DEF IInv

LEMMA CheckStep == ASSUME IInv, NEW u \in Uploads, NEW d \in Deposits, UploadCheck(u, d)
                   PROVE  IInv'
  <1> USE ReceiptsAssumption DEF UploadCheck
  <1>1. /\ upload[u].stage = "new"
        /\ upload' = [upload EXCEPT ![u] = [upload[u] EXCEPT !.stage = "putting",
                                                             !.deposit = d]]
    OBVIOUS
  <1>2. TypeOK'
    <2> DEFINE Upload == [stage : Stages, deposit : Deposits \union {None}, stamp : Nat]
    <2>1. upload \in [Uploads -> Upload] /\ now \in Nat
      BY DEF IInv, TypeOK
    <2>2. [upload[u] EXCEPT !.stage = "putting", !.deposit = d] \in Upload
      BY <2>1 DEF Stages
    <2>3. upload' \in [Uploads -> Upload]
      BY <1>1, <2>1, <2>2
    <2> QED
      BY <2>3 DEF IInv, TypeOK
  <1>3. /\ \A v \in Uploads : v # u => upload'[v] = upload[v]
        /\ upload'[u].stage = "putting"
    BY <1>1 DEF IInv, TypeOK
  <1>4. RowsMatch'
    BY <1>1, <1>3 DEF IInv, RowsMatch, Past
  <1>5. ListsMatch'
    <2>1. \A j \in Runs : \A e \in run[j].found : e.key \in Uploads /\ e.key # u
      BY <1>1 DEF IInv, TypeOK, Entry, ListsMatch, Past
    <2> QED
      BY <1>3, <2>1 DEF IInv, ListsMatch, RetentionOver
  <1>6. ObjectsMatch' /\ HoldsConsumed' /\ OneReceiptAccepted'
    BY <1>3 DEF IInv, ObjectsMatch, HoldsConsumed, OneReceiptAccepted, Accepted, RetentionOver
  <1> QED
    BY <1>2, <1>4, <1>5, <1>6 DEF IInv

LEMMA PutStep == ASSUME IInv, NEW u \in Uploads, PutObject(u) PROVE IInv'
  <1> USE ReceiptsAssumption DEF PutObject
  <1>1. /\ upload[u].stage = "putting"
        /\ upload' = [upload EXCEPT ![u] = [upload[u] EXCEPT !.stage = "stored",
                                                             !.stamp = now]]
    OBVIOUS
  <1>2. TypeOK'
    <2> DEFINE Upload == [stage : Stages, deposit : Deposits \union {None}, stamp : Nat]
    <2>1. upload \in [Uploads -> Upload] /\ now \in Nat
      BY DEF IInv, TypeOK
    <2>2. [upload[u] EXCEPT !.stage = "stored", !.stamp = now] \in Upload
      BY <2>1 DEF Stages
    <2>3. upload' \in [Uploads -> Upload]
      BY <1>1, <2>1, <2>2
    <2> QED
      BY <2>3 DEF IInv, TypeOK
  <1>3. /\ \A v \in Uploads : v # u => upload'[v] = upload[v]
        /\ upload'[u].stage = "stored"
    BY <1>1 DEF IInv, TypeOK
  <1>4. RowsMatch'
    BY <1>1, <1>3 DEF IInv, RowsMatch, Past
  <1>5. ListsMatch'
    <2>1. \A j \in Runs : \A e \in run[j].found : e.key \in Uploads /\ e.key # u
      BY <1>1 DEF IInv, TypeOK, Entry, ListsMatch, Past
    <2>2. \A j \in Runs : run[j].stage = "clearing" => run[j].entry.key # u
      BY <2>1 DEF IInv, TypeOK
    <2> QED
      BY <1>3, <2>1, <2>2 DEF IInv, ListsMatch, RetentionOver
  <1>6. ObjectsMatch' /\ HoldsConsumed' /\ OneReceiptAccepted'
    BY <1>3 DEF IInv, ObjectsMatch, HoldsConsumed, OneReceiptAccepted, Accepted, RetentionOver
  <1> QED
    BY <1>2, <1>4, <1>5, <1>6 DEF IInv

(* No accepted upload has the deposit yet, since its hold is still there: the *)
(* commit overwrites nothing.                                                 *)
LEMMA CommitStep == ASSUME IInv, NEW u \in Uploads, Commit(u) PROVE IInv'
  <1> USE ReceiptsAssumption
  <1> DEFINE d == upload[u].deposit
             entry == [key |-> u, until |-> upload[u].stamp + Retention]
  <1>1. /\ upload[u].stage = "stored" /\ d \in held
        /\ held' = held \ {d}
        /\ row' = [row EXCEPT ![d] = entry]
        /\ upload' = [upload EXCEPT ![u] = [upload[u] EXCEPT !.stage = "committed"]]
        /\ UNCHANGED <<now, bucket, run>>
    BY DEF Commit, StillOpen, RetentionUntil, Goes
  <1>2. d \in Deposits
    BY <1>1 DEF IInv, TypeOK
  <1>3. TypeOK'
    <2>1. row' \in [Deposits -> Receipt]
      BY <1>1 DEF IInv, TypeOK, Receipt
    <2> QED
      BY <1>1, <2>1 DEF IInv, TypeOK, Stages
  <1>4. /\ \A v \in Uploads : v # u => upload'[v] = upload[v]
        /\ upload'[u].stage = "committed"
        /\ upload'[u].deposit = d
        /\ upload'[u].stamp = upload[u].stamp
    BY <1>1 DEF IInv, TypeOK
  <1>5. \A c \in Deposits : row'[c] = IF c = d THEN entry ELSE row[c]
    BY <1>1 DEF IInv, TypeOK
  <1>6. u \in bucket
    BY <1>1 DEF IInv, ObjectsMatch
  <1>7. \A v \in Uploads : upload[v].stage \in Accepted =>
            v # u /\ upload[v].deposit \in Deposits /\ upload[v].deposit # d
    BY <1>1 DEF IInv, HoldsConsumed, Accepted
  <1>8. RowsMatch'
    BY <1>4, <1>5 DEF IInv, RowsMatch, Past, Stages
  <1>9. ListsMatch'
    <2>1. \A j \in Runs : \A e \in run[j].found : e.key \in Uploads /\ e.key # u
      BY <1>1 DEF IInv, TypeOK, Entry, ListsMatch, Past
    <2> QED
      BY <1>1, <1>4, <2>1 DEF IInv, ListsMatch, RetentionOver
  <1>10. ObjectsMatch'
    <2> SUFFICES ASSUME NEW v \in Uploads
                 PROVE  /\ upload'[v].stage = "stored" => v \in bucket'
                        /\ upload'[v].stage \in Accepted /\ v \in bucket'
                               => row'[upload'[v].deposit].key = v
                        /\ upload'[v].stage \in Accepted /\ ~RetentionOver(v)'
                               => v \in bucket'
      BY DEF ObjectsMatch
    <2>1. CASE v = u
      BY <2>1, <1>1, <1>2, <1>4, <1>5, <1>6
    <2>2. CASE v # u
      BY <2>2, <1>1, <1>4, <1>5, <1>7 DEF IInv, ObjectsMatch, RetentionOver
    <2> QED
      BY <2>1, <2>2
  <1>11. HoldsConsumed'
    BY <1>1, <1>2, <1>4 DEF IInv, HoldsConsumed
  <1>12. OneReceiptAccepted'
    BY <1>4, <1>7 DEF IInv, OneReceiptAccepted, Accepted
  <1> QED
    BY <1>3, <1>8, <1>9, <1>10, <1>11, <1>12 DEF IInv

-----------------------------------------------------------------------------
(* Steps of the retention job.                                             *)

(* Whatever the job selects is due: its retention, as its row says it, is    *)
(* over, and the row says it as the upload does.                             *)
LEMMA SelectStep == ASSUME IInv, NEW j \in Runs, PurgeSelect(j) PROVE IInv'
  <1> USE ReceiptsAssumption
  <1>1. PICK batch \in Batches(Due) :
            run' = [run EXCEPT ![j] = [stage |-> "removing", found |-> batch,
                                       entry |-> None]]
    BY DEF PurgeSelect
  <1>2. UNCHANGED <<now, held, row, bucket, upload>>
    BY DEF PurgeSelect
  <1>3. batch \subseteq Due
    BY DEF Batches
  <1>4. ASSUME NEW e \in Due
        PROVE  e \in Entry /\ upload[e.key].stage \in Past /\ RetentionOver(e.key)
    <2>1. PICK d \in Deposits : row[d].key # None /\ row[d].until <= now /\ e = EntryOf(d)
      BY <1>4 DEF Due
    <2>2. row[d].key \in Uploads /\ row[d].until \in Nat
      BY <2>1 DEF IInv, TypeOK, Receipt
    <2>3. e = [deposit |-> d, key |-> row[d].key, until |-> row[d].until]
      BY <2>1 DEF EntryOf
    <2>4. e \in Entry /\ e.key = row[d].key
      BY <2>2, <2>3 DEF Entry
    <2> QED
      BY <2>1, <2>2, <2>4 DEF IInv, RowsMatch, RetentionOver
  <1>5. batch \subseteq Entry
    BY <1>3, <1>4
  <1>6. /\ \A k \in Runs : k # j => run'[k] = run[k]
        /\ run'[j].stage = "removing" /\ run'[j].found = batch
    BY <1>1 DEF IInv, TypeOK
  <1>7. TypeOK'
    BY <1>1, <1>2, <1>5, <1>6 DEF IInv, TypeOK
  <1>8. ListsMatch'
    BY <1>2, <1>3, <1>4, <1>6 DEF IInv, ListsMatch, RetentionOver
  <1>9. RowsMatch' /\ ObjectsMatch' /\ HoldsConsumed' /\ OneReceiptAccepted'
    BY <1>2 DEF IInv, RowsMatch, ObjectsMatch, HoldsConsumed, OneReceiptAccepted,
                RetentionOver
  <1> QED
    BY <1>7, <1>8, <1>9 DEF IInv

LEMMA RemoveStep == ASSUME IInv, NEW j \in Runs, PurgeRemove(j) PROVE IInv'
  <1> USE ReceiptsAssumption
  <1>1. PICK e \in run[j].found :
            /\ bucket' = bucket \ {e.key}
            /\ run' = [run EXCEPT ![j] = [run[j] EXCEPT !.stage = "clearing", !.entry = e]]
    BY DEF PurgeRemove, Removed
  <1>2. UNCHANGED <<now, held, row, upload>>
    BY DEF PurgeRemove
  <1>3. e \in Entry /\ e.key \in Uploads
    BY DEF IInv, TypeOK, Entry
  <1>4. upload[e.key].stage \in Past /\ RetentionOver(e.key)
    BY DEF IInv, ListsMatch
  <1>5. /\ \A k \in Runs : k # j => run'[k] = run[k]
        /\ run'[j].stage = "clearing" /\ run'[j].found = run[j].found
        /\ run'[j].entry = e
    BY <1>1 DEF IInv, TypeOK
  <1>6. TypeOK'
    BY <1>1, <1>2, <1>3, <1>5 DEF IInv, TypeOK
  <1>7. ListsMatch'
    BY <1>1, <1>2, <1>5 DEF IInv, ListsMatch, RetentionOver
  <1>8. ObjectsMatch'
    BY <1>1, <1>2, <1>4 DEF IInv, ObjectsMatch, RetentionOver, Past
  <1>9. RowsMatch' /\ HoldsConsumed' /\ OneReceiptAccepted'
    BY <1>2 DEF IInv, RowsMatch, HoldsConsumed, OneReceiptAccepted
  <1> QED
    BY <1>6, <1>7, <1>8, <1>9 DEF IInv

LEMMA ClearStep == ASSUME IInv, NEW j \in Runs, PurgeClear(j) PROVE IInv'
  <1> USE ReceiptsAssumption
  <1> DEFINE e == run[j].entry
             left == run[j].found \ {e}
  <1>1. /\ run[j].stage = "clearing"
        /\ row' = Cleared(e.deposit, e.key)
        /\ run' = [run EXCEPT ![j] = [stage |-> IF left = {} THEN "idle" ELSE "removing",
                                      found |-> left, entry |-> None]]
        /\ UNCHANGED <<now, held, bucket, upload>>
    BY DEF PurgeClear
  <1>2. e \in run[j].found /\ run[j].found \subseteq Entry
    BY <1>1 DEF IInv, TypeOK
  <1>3. e.deposit \in Deposits /\ e.key \in Uploads
    BY <1>2 DEF Entry
  <1>4. e.key \notin bucket /\ RetentionOver(e.key)
    BY <1>1, <1>2 DEF IInv, ListsMatch
  <1>5. \A d \in Deposits : row'[d] = row[d] \/ (row[d].key = e.key /\ row'[d] = NoReceipt)
    BY <1>1, <1>3 DEF Cleared, IInv, TypeOK
  <1>6. row' \in [Deposits -> Receipt]
    BY <1>1, <1>3 DEF Cleared, NoReceipt, Receipt, IInv, TypeOK
  <1>7. /\ \A k \in Runs : k # j => run'[k] = run[k]
        /\ run'[j].stage # "clearing" /\ run'[j].found = left
    BY <1>1 DEF IInv, TypeOK
  <1>8. TypeOK'
    BY <1>1, <1>2, <1>6, <1>7 DEF IInv, TypeOK
  <1>9. RowsMatch'
    BY <1>1, <1>5 DEF IInv, RowsMatch, NoReceipt
  <1>10. ListsMatch'
    BY <1>1, <1>7 DEF IInv, ListsMatch, RetentionOver
  <1>11. ObjectsMatch'
    <2>1. \A v \in Uploads : v \in bucket => v # e.key
      BY <1>4
    <2>2. \A v \in Uploads : upload[v].stage \in Accepted => upload[v].deposit \in Deposits
      BY DEF IInv, HoldsConsumed
    <2> QED
      BY <1>1, <1>5, <2>1, <2>2 DEF IInv, ObjectsMatch, RetentionOver
  <1>12. HoldsConsumed' /\ OneReceiptAccepted'
    BY <1>1 DEF IInv, HoldsConsumed, OneReceiptAccepted
  <1> QED
    BY <1>8, <1>9, <1>10, <1>11, <1>12 DEF IInv

LEMMA StopStep == ASSUME IInv, NEW j \in Runs, PurgeStops(j) PROVE IInv'
  <1> USE ReceiptsAssumption DEF PurgeStops
  <1>1. /\ \A k \in Runs : k # j => run'[k] = run[k]
        /\ run'[j].stage = "idle" /\ run'[j].found = {}
    BY DEF IInv, TypeOK
  <1>2. TypeOK'
    BY <1>1 DEF IInv, TypeOK
  <1>3. ListsMatch'
    BY <1>1 DEF IInv, ListsMatch, RetentionOver
  <1>4. RowsMatch' /\ ObjectsMatch' /\ HoldsConsumed' /\ OneReceiptAccepted'
    BY DEF IInv, RowsMatch, ObjectsMatch, HoldsConsumed, OneReceiptAccepted, RetentionOver
  <1> QED
    BY <1>2, <1>3, <1>4 DEF IInv

-----------------------------------------------------------------------------

LEMMA StepIInv == IInv /\ [Next]_vars => IInv'
  <1> SUFFICES ASSUME IInv, [Next]_vars PROVE IInv'
    OBVIOUS
  <1> USE ReceiptsAssumption
  <1>1. CASE UNCHANGED vars
    BY <1>1 DEF vars, IInv, TypeOK, RowsMatch, ListsMatch, ObjectsMatch, HoldsConsumed,
                OneReceiptAccepted, RetentionOver
  <1>2. CASE Tick
    <2>1. now \in Nat /\ now' = now + 1 /\ UNCHANGED <<held, row, bucket, upload, run>>
      BY <1>2 DEF Tick, IInv, TypeOK
    <2>2. \A u \in Uploads : upload[u].stamp \in Nat
      BY DEF IInv, TypeOK
    <2>3. \A u \in Uploads : RetentionOver(u) => RetentionOver(u)'
      BY <2>1, <2>2 DEF RetentionOver
    <2>4. \A j \in Runs : \A e \in run[j].found : e.key \in Uploads
      BY DEF IInv, TypeOK, Entry
    <2>5. TypeOK'
      BY <2>1 DEF IInv, TypeOK
    <2>6. ListsMatch'
      BY <2>1, <2>3, <2>4 DEF IInv, ListsMatch
    <2>7. ObjectsMatch'
      BY <2>1, <2>3 DEF IInv, ObjectsMatch
    <2>8. RowsMatch' /\ HoldsConsumed' /\ OneReceiptAccepted'
      BY <2>1 DEF IInv, RowsMatch, HoldsConsumed, OneReceiptAccepted
    <2> QED
      BY <2>5, <2>6, <2>7, <2>8 DEF IInv
  <1>3. ASSUME NEW d \in Deposits, EndHold(d) PROVE IInv'
    BY <1>3 DEF EndHold, IInv, TypeOK, RowsMatch, ListsMatch, ObjectsMatch, HoldsConsumed,
                OneReceiptAccepted, RetentionOver
  <1>4. ASSUME NEW u \in Uploads,
               PutFails(u) \/ CommitFails(u) \/ FailsAfterCommit(u) \/ Answer(u)
                   \/ CleanUp(u) \/ Crash(u)
        PROVE  IInv'
    <2>1. CASE PutFails(u)
      <3>1. "refused" \in Past /\ "refused" \notin Accepted
        BY DEF Past, Stages, Accepted
      <3> QED
        BY <2>1, <3>1, HandlerEnds DEF PutFails
    <2>2. CASE CommitFails(u) \/ FailsAfterCommit(u)
      <3>1. "failing" \in Past /\ "failing" \notin Accepted
        BY DEF Past, Stages, Accepted
      <3> QED
        BY <2>2, <3>1, HandlerEnds DEF CommitFails, FailsAfterCommit
    <2>3. CASE Answer(u)
      <3>1. "answered" \in Past /\ "committed" \in Accepted
        BY DEF Past, Stages, Accepted
      <3> QED
        BY <2>3, <3>1, HandlerEnds DEF Answer
    <2>4. CASE CleanUp(u)
      <3>1. "cleaned" \in Past /\ "cleaned" \notin Accepted
        BY DEF Past, Stages, Accepted
      <3> QED
        BY <2>4, <3>1, HandlerEnds DEF CleanUp
    <2>5. CASE Crash(u)
      <3>1. "crashed" \in Past /\ "crashed" \notin Accepted
        BY DEF Past, Stages, Accepted
      <3> QED
        BY <2>5, <3>1, HandlerEnds DEF Crash
    <2> QED
      BY <1>4, <2>1, <2>2, <2>3, <2>4, <2>5
  <1> QED
    BY <1>1, <1>2, <1>3, <1>4, CheckStep, PutStep, CommitStep, SelectStep, RemoveStep,
       ClearStep, StopStep DEF Next

LEMMA AlwaysIInv == Spec => []IInv
  BY InitIInv, StepIInv, PTL DEF Spec

\* The tables, the bucket, the requests and the job's lists keep their types.
THEOREM ReceiptsTypeCorrect == Spec => []TypeOK
  <1>1. IInv => TypeOK
    BY DEF IInv
  <1> QED
    BY <1>1, AlwaysIInv, PTL

\* An accepted receipt keeps file and row for Retention from its upload: another
\* upload of the deposit finds the hold consumed, and every list of the job was
\* made of receipts whose retention was over already.
THEOREM AcceptedReceiptsKept == Spec => []KeptUntilDue
  <1>1. IInv => KeptUntilDue
    <2> SUFFICES ASSUME IInv, NEW u \in Uploads, upload[u].stage \in Accepted,
                        now < upload[u].stamp + Retention
                 PROVE  u \in bucket /\ row[upload[u].deposit].key = u
      BY DEF KeptUntilDue, Accepted
    <2>1. now \in Nat /\ upload[u].stamp \in Nat
      BY DEF IInv, TypeOK
    <2>2. ~RetentionOver(u)
      BY <2>1, ReceiptsAssumption DEF RetentionOver
    <2> QED
      BY <2>2 DEF IInv, ObjectsMatch
  <1> QED
    BY <1>1, AlwaysIInv, PTL

\* However many uploads of one deposit race, at most one is accepted.
THEOREM AtMostOneAccepted == Spec => []OneReceiptAccepted
  <1>1. IInv => OneReceiptAccepted
    BY DEF IInv
  <1> QED
    BY <1>1, AlwaysIInv, PTL

\* After a client was told her receipt is in, no stop or overlap of the job leaves
\* its file in the bucket without the row that leads to it.
THEOREM AnsweredNeverForgotten == Spec => []NeverForgotten
  <1>1. IInv => NeverForgotten
    BY DEF IInv, TypeOK, ObjectsMatch, NeverForgotten, Accepted
  <1> QED
    BY <1>1, AlwaysIInv, PTL
=============================================================================
