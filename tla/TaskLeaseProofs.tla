-------------------------- MODULE TaskLeaseProofs --------------------------
(***************************************************************************)
(* Theorems about TaskLease, for any sets of tasks, documents and workers  *)
(* and any limits on attempts, retries and active tasks.                   *)
(*                                                                         *)
(* First the rows: a step changes a row of the tasks table in one of ten   *)
(* ways (RowStep).  Lemma StepsRows reduces Next to them once; the         *)
(* invariants about single rows are then proved against RowStep, not       *)
(* against every action.  Then what the tasks do to the documents: the     *)
(* active generation only grows, a SUCCEEDED task has its generation       *)
(* published, and TaskLease implements DocumentVersions.  At last what     *)
(* single steps may do to rows they are no longer entitled to: stale       *)
(* workers are harmless, a running lease is respected, the FSM's table is  *)
(* bypassed in two known places only; and what an active generation owes   *)
(* its visibility to.                                                      *)
(***************************************************************************)
EXTENDS TaskLease, TLAPS

LEMMA StatusesOfRows ==
  /\ "PENDING" \in RowStatus /\ "RUNNING" \in RowStatus
  /\ "RETRY_WAITING" \in RowStatus /\ "SUCCEEDED" \in RowStatus
  /\ "PARTIAL_SUCCEEDED" \in RowStatus /\ "FAILED" \in RowStatus
  /\ "DEAD_LETTER" \in RowStatus /\ "ABSENT" \in RowStatus /\ "DELETED" \in RowStatus
  BY DEF RowStatus, TaskState

(***************************************************************************)
(* The rows the operations write are rows of the table                     *)
(***************************************************************************)

LEMMA NewRowType == NewRow \in TaskRow
  BY StatusesOfRows DEF NewRow, TaskRow, Timestamp

\* Assigning one column keeps a row a row.
LEMMA RowColumns ==
  ASSUME NEW row \in TaskRow
  PROVE  /\ \A s \in RowStatus : [row EXCEPT !.status = s] \in TaskRow
         /\ \A d \in Docs : [row EXCEPT !.doc_id = d] \in TaskRow
         /\ \A w \in Workers \cup {None} : [row EXCEPT !.worker_id = w] \in TaskRow
         /\ \A n \in Nat : /\ [row EXCEPT !.attempt = n] \in TaskRow
                           /\ [row EXCEPT !.retry_count = n] \in TaskRow
                           /\ [row EXCEPT !.fencing_token = n] \in TaskRow
                           /\ [row EXCEPT !.target_generation = n] \in TaskRow
         /\ \A x \in Timestamp : /\ [row EXCEPT !.lease_expires_at = x] \in TaskRow
                                 /\ [row EXCEPT !.next_attempt_at = x] \in TaskRow
  BY DEF TaskRow

\* The four assignments that end a hold on a row.
LEMMA ReleasedRowType ==
  ASSUME NEW row \in TaskRow, NEW s \in RowStatus, NEW x \in Timestamp
  PROVE  [row EXCEPT !.status = s, !.worker_id = None,
                     !.lease_expires_at = x, !.next_attempt_at = x] \in TaskRow
  <1> DEFINE a == [row EXCEPT !.status = s]
             b == [a EXCEPT !.worker_id = None]
             c == [b EXCEPT !.lease_expires_at = x]
  <1>1. a \in TaskRow
    BY RowColumns
  <1>2. b \in TaskRow
    <2> HIDE DEF a
    <2> QED BY <1>1, RowColumns
  <1>3. c \in TaskRow
    <2> HIDE DEF b
    <2> QED BY <1>2, RowColumns
  <1>4. [c EXCEPT !.next_attempt_at = x] \in TaskRow
    <2> HIDE DEF c
    <2> QED BY <1>3, RowColumns
  <1> QED
    BY <1>4

LEMMA CompletedRowType ==
  ASSUME NEW row \in TaskRow, NEW s \in { "SUCCEEDED", "PARTIAL_SUCCEEDED" }
  PROVE  CompletedRow(row, s) \in TaskRow
  BY ReleasedRowType, StatusesOfRows DEF CompletedRow, Timestamp

LEMMA RetriedRowType ==
  ASSUME NEW row \in TaskRow
  PROVE  RetriedRow(row) \in TaskRow
  <1> DEFINE a == [row EXCEPT !.retry_count = @ + 1]
             b == [a EXCEPT !.fencing_token = @ + 1]
             c == [b EXCEPT !.status = "PENDING", !.worker_id = None,
                            !.lease_expires_at = "null", !.next_attempt_at = "null"]
  <1>1. a \in TaskRow
    BY RowColumns DEF TaskRow
  <1>2. b \in TaskRow
    <2> HIDE DEF a
    <2> QED BY <1>1, RowColumns DEF TaskRow
  <1>3. c \in TaskRow
    <2> HIDE DEF b
    <2> QED BY <1>2, ReleasedRowType, StatusesOfRows DEF Timestamp
  <1>4. RetriedRow(row) = c
    BY DEF RetriedRow, TaskRow
  <1> QED
    BY <1>3, <1>4

LEMMA AcquiredRowType ==
  ASSUME NEW row \in TaskRow, NEW w \in Workers
  PROVE  AcquiredRow(w, row) \in TaskRow
  <1> DEFINE a == [row EXCEPT !.status = "RUNNING"]
             b == [a EXCEPT !.worker_id = w]
             c == [b EXCEPT !.attempt = @ + 1]
             e == [c EXCEPT !.fencing_token = @ + 1]
             f == [e EXCEPT !.lease_expires_at = "ahead"]
  <1>1. AcquiredRow(w, row) = [f EXCEPT !.next_attempt_at = "null"]
    BY DEF AcquiredRow
  <1>2. a \in TaskRow
    BY RowColumns, StatusesOfRows
  <1>3. b \in TaskRow
    <2> HIDE DEF a
    <2> QED BY <1>2, RowColumns
  <1>4. c \in TaskRow
    <2> HIDE DEF b
    <2> QED BY <1>3, RowColumns DEF TaskRow
  <1>5. e \in TaskRow
    <2> HIDE DEF c
    <2> QED BY <1>4, RowColumns DEF TaskRow
  <1>6. f \in TaskRow
    <2> HIDE DEF e
    <2> QED BY <1>5, RowColumns DEF Timestamp
  <1>7. [f EXCEPT !.next_attempt_at = "null"] \in TaskRow
    <2> HIDE DEF f
    <2> QED BY <1>6, RowColumns DEF Timestamp
  <1> QED
    BY <1>1, <1>7

LEMMA RecoveredRowType ==
  ASSUME NEW row \in TaskRow
  PROVE  RecoveredRow(row) \in TaskRow
  <1> DEFINE a == [row EXCEPT !.attempt = @ + 1]
             b == [a EXCEPT !.fencing_token = @ + 1]
             c(s, x) == [b EXCEPT !.status = s, !.worker_id = None,
                                  !.lease_expires_at = x, !.next_attempt_at = x]
  <1>1. a \in TaskRow
    BY RowColumns DEF TaskRow
  <1>2. b \in TaskRow
    <2> HIDE DEF a
    <2> QED BY <1>1, RowColumns DEF TaskRow
  <1>3. c("RETRY_WAITING", "ahead") \in TaskRow /\ c("DEAD_LETTER", "null") \in TaskRow
    <2> HIDE DEF b
    <2> QED BY <1>2, ReleasedRowType, StatusesOfRows DEF Timestamp
  <1>4. \/ RecoveredRow(row) = c("RETRY_WAITING", "ahead")
        \/ RecoveredRow(row) = c("DEAD_LETTER", "null")
    BY DEF RecoveredRow, TaskRow
  <1> QED
    BY <1>3, <1>4

LEMMA CreatedRowType ==
  ASSUME NEW d \in Docs, NEW g \in Nat
  PROVE  CreatedRow(d, g) \in TaskRow
  <1> DEFINE a == [NewRow EXCEPT !.status = "PENDING"]
             b == [a EXCEPT !.doc_id = d]
  <1>1. a \in TaskRow
    BY RowColumns, NewRowType, StatusesOfRows
  <1>2. b \in TaskRow
    <2> HIDE DEF a
    <2> QED BY <1>1, RowColumns
  <1>3. [b EXCEPT !.target_generation = g] \in TaskRow
    <2> HIDE DEF b
    <2> QED BY <1>2, RowColumns
  <1> QED
    BY <1>3 DEF CreatedRow

(***************************************************************************)
(* How one step changes one row                                            *)
(***************************************************************************)

Created(old, new) ==
  /\ old.status = "ABSENT"
  /\ \E d \in Docs, g \in Nat \ {0} : /\ new = CreatedRow(d, g)
                                      /\ g <= active_generation'[d] + 1
Retried(old, new) ==
  old.status \in { "FAILED", "DEAD_LETTER" } /\ new = RetriedRow(old)
Acquired(old, new) ==
  /\ old.status \in { "PENDING", "RETRY_WAITING" }
  /\ \E w \in Workers : new = AcquiredRow(w, old)
Failed(old, new) ==
  old.status = "RUNNING" /\ new = [old EXCEPT !.status = "FAILED"]
Completed(old, new) ==
  /\ old.status = "RUNNING"
  /\ \E s \in { "SUCCEEDED", "PARTIAL_SUCCEEDED" } :
       /\ new = CompletedRow(old, s)
       /\ s = "SUCCEEDED" /\ old.doc_id \in Docs
            => old.target_generation <= active_generation'[old.doc_id]
Recovered(old, new) ==
  old.status = "RUNNING" /\ new = RecoveredRow(old)
Deleted(old, new) ==
  old.doc_id # None /\ new = [old EXCEPT !.status = "DELETED"]
LeaseMoved(old, new) ==
  /\ old.status = "RUNNING"
  /\ \E x \in { "ahead", "past" } : new = [old EXCEPT !.lease_expires_at = x]
BackoffOver(old, new) ==
  /\ old.status = "RETRY_WAITING"
  /\ new = [old EXCEPT !.lease_expires_at = "past", !.next_attempt_at = "past"]

RowStep(old, new) ==
  \/ new = old
  \/ Created(old, new)
  \/ Retried(old, new)
  \/ Acquired(old, new)
  \/ Failed(old, new)
  \/ Completed(old, new)
  \/ Recovered(old, new)
  \/ Deleted(old, new)
  \/ LeaseMoved(old, new)
  \/ BackoffOver(old, new)

LEMMA RowStepType ==
  ASSUME NEW old \in TaskRow, NEW new, RowStep(old, new)
  PROVE  new \in TaskRow
  <1>1. CASE new = old
    BY <1>1
  <1>2. CASE Created(old, new)
    BY <1>2, CreatedRowType DEF Created
  <1>3. CASE Retried(old, new)
    BY <1>3, RetriedRowType DEF Retried
  <1>4. CASE Acquired(old, new)
    BY <1>4, AcquiredRowType DEF Acquired
  <1>5. CASE Failed(old, new)
    BY <1>5, RowColumns, StatusesOfRows DEF Failed
  <1>6. CASE Completed(old, new)
    BY <1>6, CompletedRowType DEF Completed
  <1>7. CASE Recovered(old, new)
    BY <1>7, RecoveredRowType DEF Recovered
  <1>8. CASE Deleted(old, new)
    BY <1>8, RowColumns, StatusesOfRows DEF Deleted
  <1>9. CASE LeaseMoved(old, new)
    BY <1>9, RowColumns DEF LeaseMoved, Timestamp
  <1>10. CASE BackoffOver(old, new)
    <2> DEFINE a == [old EXCEPT !.lease_expires_at = "past"]
    <2>1. a \in TaskRow
      BY RowColumns DEF Timestamp
    <2>2. [a EXCEPT !.next_attempt_at = "past"] \in TaskRow
      <3> HIDE DEF a
      <3> QED BY <2>1, RowColumns DEF Timestamp
    <2> QED
      BY <1>10, <2>2 DEF BackoffOver
  <1> QED
    BY <1>1, <1>2, <1>3, <1>4, <1>5, <1>6, <1>7, <1>8, <1>9, <1>10 DEF RowStep

\* The table is rewritten row by row.
RowsStep ==
  /\ task' = [u \in Tasks |-> task'[u]]
  /\ \A u \in Tasks : RowStep(task[u], task'[u])

\* A step that rewrites the row of one task.
LEMMA OneRowStep ==
  ASSUME NEW t \in Tasks, NEW row, task \in [Tasks -> TaskRow],
         task' = [task EXCEPT ![t] = row], RowStep(task[t], row)
  PROVE  RowsStep
  <1>1. ASSUME NEW u \in Tasks
        PROVE  RowStep(task[u], task'[u])
    <2>1. CASE u = t
      BY <2>1
    <2>2. CASE u # t
      BY <2>2 DEF RowStep
    <2> QED
      BY <2>1, <2>2
  <1> QED
    BY <1>1 DEF RowsStep

LEMMA SameRowsStep ==
  ASSUME task \in [Tasks -> TaskRow], task' = task
  PROVE  RowsStep
  BY DEF RowStep, RowsStep

LEMMA FailOwnRowStep ==
  ASSUME TypeOK, NEW w \in Workers, execution[w].pc # "idle", FailOwnRow(w)
  PROVE  RowsStep
  <1> DEFINE t == execution[w].task
             row == [task[t] EXCEPT !.status = "FAILED"]
  <1>1. t \in Tasks
    BY DEF TypeOK, Execution
  <1>2. CASE Owns(w)
    <2>1. task' = [task EXCEPT ![t] = row]
      BY <1>2 DEF FailOwnRow
    <2>2. RowStep(task[t], row)
      BY <1>2 DEF RowStep, Failed, Owns
    <2> HIDE DEF t, row
    <2> QED
      BY <1>1, <2>1, <2>2, OneRowStep DEF TypeOK
  <1>3. CASE ~Owns(w)
    BY <1>3, SameRowsStep DEF FailOwnRow, TypeOK
  <1> QED
    BY <1>2, <1>3

LEMMA CompletesStep ==
  ASSUME TypeOK, NEW w \in Workers, Completes(w)
  PROVE  RowsStep
  <1> DEFINE t == execution[w].task
  <1>1. t \in Tasks
    BY DEF TypeOK, Execution, Completes
  <1>2. PICK s \in { "SUCCEEDED", "PARTIAL_SUCCEEDED" } :
          /\ task' = [task EXCEPT ![t] = CompletedRow(task[t], s)]
          /\ s = "SUCCEEDED" =>
               active_generation' =
                 [active_generation EXCEPT ![task[t].doc_id] = task[t].target_generation]
    BY DEF Completes
  <1>3. s = "SUCCEEDED" /\ task[t].doc_id \in Docs
          => task[t].target_generation <= active_generation'[task[t].doc_id]
    BY <1>1, <1>2 DEF TypeOK, TaskRow
  <1>4. RowStep(task[t], CompletedRow(task[t], s))
    BY <1>3 DEF Completes, Owns, RowStep, Completed
  <1> HIDE DEF t
  <1> QED
    BY <1>1, <1>2, <1>4, OneRowStep DEF TypeOK

\* Every step of the specification changes every row by a RowStep.
LEMMA StepsRows ==
  ASSUME TypeOK, [Next]_vars
  PROVE  RowsStep
  <1> USE DEF TypeOK
  <1>1. ASSUME NEW d \in Docs, NEW t \in Tasks, Upload(d, t)
        PROVE  RowsStep
    <2>1. RowStep(task[t], CreatedRow(d, 1))
      BY <1>1 DEF Upload, RowStep, Created
    <2> QED
      BY <1>1, <2>1, OneRowStep DEF Upload
  <1>2. ASSUME NEW d \in Docs, NEW t \in Tasks, Reingest(d, t)
        PROVE  RowsStep
    <2>1. RowStep(task[t], CreatedRow(d, NextGeneration(d)))
      BY <1>2 DEF Reingest, RowStep, Created, NextGeneration
    <2> QED
      BY <1>2, <2>1, OneRowStep DEF Reingest
  <1>3. ASSUME NEW t \in Tasks, RetryTask(t)
        PROVE  RowsStep
    <2>1. RowStep(task[t], RetriedRow(task[t]))
      BY <1>3 DEF RetryTask, RowStep, Retried
    <2> QED
      BY <1>3, <2>1, OneRowStep DEF RetryTask
  <1>4. ASSUME NEW d \in Docs, DeleteDocument(d)
        PROVE  RowsStep
    BY <1>4, TaskLeaseAssumption DEF DeleteDocument, RowsStep, RowStep, Deleted
  <1>5. ASSUME NEW w \in Workers, NEW t \in Tasks, Acquire(w, t)
        PROVE  RowsStep
    <2>1. RowStep(task[t], AcquiredRow(w, task[t]))
      BY <1>5 DEF Acquire, Claimable, RowStep, Acquired
    <2> QED
      BY <1>5, <2>1, OneRowStep DEF Acquire
  <1>6. ASSUME NEW w \in Workers, WorkerStep(w)
        PROVE  RowsStep
    <2>1. CASE task' = task
      BY <2>1, SameRowsStep
    <2>2. CASE execution[w].pc # "idle" /\ FailOwnRow(w)
      BY <2>2, FailOwnRowStep
    <2>3. CASE Completes(w)
      BY <2>3, CompletesStep
    <2> QED
      BY <1>6, <2>1, <2>2, <2>3
      DEF WorkerStep, BeginProcessing, DocumentMissing, ProcessingRaises, ProcessingReturns,
          Complete, CompleteUnconfirmed, CompleteFails, ReportFailure, dbVars
  <1>7. ASSUME NEW w \in Workers, Heartbeat(w)
        PROVE  RowsStep
    <2> DEFINE t == execution[w].task
               row == [task[t] EXCEPT !.lease_expires_at = "ahead"]
    <2>1. t \in Tasks
      BY <1>7 DEF Heartbeat, Execution
    <2>2. CASE Owns(w)
      <3>1. task' = [task EXCEPT ![t] = row]
        BY <1>7, <2>2 DEF Heartbeat
      <3>2. RowStep(task[t], row)
        BY <2>2 DEF Owns, RowStep, LeaseMoved
      <3> HIDE DEF t, row
      <3> QED
        BY <2>1, <3>1, <3>2, OneRowStep
    <2>3. CASE ~Owns(w)
      BY <1>7, <2>3, SameRowsStep DEF Heartbeat
    <2> QED
      BY <2>2, <2>3
  <1>8. ASSUME NEW w \in Workers, Abandon(w)
        PROVE  RowsStep
    BY <1>8, SameRowsStep DEF Abandon, dbVars
  <1>9. ASSUME NEW t \in Tasks, LeaseLapses(t)
        PROVE  RowsStep
    <2> DEFINE row == [task[t] EXCEPT !.lease_expires_at = "past"]
    <2>1. task' = [task EXCEPT ![t] = row]
      BY <1>9 DEF LeaseLapses
    <2>2. RowStep(task[t], row)
      BY <1>9 DEF LeaseLapses, RowStep, LeaseMoved
    <2> HIDE DEF row
    <2> QED
      BY <2>1, <2>2, OneRowStep
  <1>10. ASSUME NEW t \in Tasks, BackoffElapses(t)
         PROVE  RowsStep
    <2> DEFINE row == [task[t] EXCEPT !.lease_expires_at = "past", !.next_attempt_at = "past"]
    <2>1. task' = [task EXCEPT ![t] = row]
      BY <1>10 DEF BackoffElapses
    <2>2. RowStep(task[t], row)
      BY <1>10 DEF BackoffElapses, RowStep, BackoffOver
    <2> HIDE DEF row
    <2> QED
      BY <2>1, <2>2, OneRowStep
  <1>11. ASSUME NEW S \in SUBSET Tasks, ScanAndRecover(S)
         PROVE  RowsStep
    BY <1>11 DEF ScanAndRecover, Orphans, RowsStep, RowStep, Recovered
  <1>12. ASSUME UNCHANGED vars
         PROVE  RowsStep
    BY <1>12, SameRowsStep DEF vars
  <1> QED
    BY <1>1, <1>2, <1>3, <1>4, <1>5, <1>6, <1>7, <1>8, <1>9, <1>10, <1>11, <1>12 DEF Next

(***************************************************************************)
(* Type correctness                                                        *)
(***************************************************************************)

ExecutionOK ==
  /\ execution \in [Workers -> Execution]
  /\ \A w \in Workers : execution[w].pc = "idle" <=> execution[w].task = None

\* A worker's record is replaced by one that keeps pc and task in step.
LEMMA OneExecution ==
  ASSUME ExecutionOK, NEW w \in Workers, NEW e \in Execution,
         e.pc = "idle" <=> e.task = None,
         execution' = [execution EXCEPT ![w] = e]
  PROVE  ExecutionOK'
  BY DEF ExecutionOK

LEMMA IdleType == Idle \in Execution /\ Idle.pc = "idle" /\ Idle.task = None
  BY DEF Idle, Execution, WorkerPC

LEMMA ExecutionColumns ==
  ASSUME NEW e \in Execution
  PROVE  /\ \A pc \in WorkerPC : [e EXCEPT !.pc = pc] \in Execution
         /\ \A b \in BOOLEAN : /\ [e EXCEPT !.heartbeat = b] \in Execution
                               /\ [e EXCEPT !.partial = b] \in Execution
  BY DEF Execution

\* A worker that goes on with the task it has.
LEMMA GoesOn ==
  ASSUME ExecutionOK, NEW w \in Workers, execution[w].pc # "idle",
         NEW pc \in WorkerPC \ {"idle"}, NEW b \in BOOLEAN, NEW p \in BOOLEAN
  PROVE  /\ execution' = [execution EXCEPT ![w] = [execution[w] EXCEPT !.pc = pc]]
              => ExecutionOK'
         /\ execution' = [execution EXCEPT ![w] =
                            [[execution[w] EXCEPT !.pc = pc] EXCEPT !.heartbeat = b]]
              => ExecutionOK'
         /\ execution' = [execution EXCEPT ![w] =
                            [[[execution[w] EXCEPT !.pc = pc] EXCEPT !.heartbeat = b]
                               EXCEPT !.partial = p]]
              => ExecutionOK'
  <1> DEFINE x == [execution[w] EXCEPT !.pc = pc]
             y == [x EXCEPT !.heartbeat = b]
             z == [y EXCEPT !.partial = p]
  <1>1. x \in Execution /\ x.pc = pc /\ x.task = execution[w].task
    BY ExecutionColumns DEF ExecutionOK, Execution
  <1>2. y \in Execution /\ y.pc = pc /\ y.task = execution[w].task
    <2> HIDE DEF x
    <2> QED BY <1>1, ExecutionColumns DEF Execution
  <1>3. z \in Execution /\ z.pc = pc /\ z.task = execution[w].task
    <2> HIDE DEF y
    <2> QED BY <1>2, ExecutionColumns DEF Execution
  <1>4. execution[w].task # None
    BY DEF ExecutionOK
  <1>5. \A e \in {x, y, z} : execution' = [execution EXCEPT ![w] = e] => ExecutionOK'
    <2> HIDE DEF x, y, z
    <2> QED BY <1>1, <1>2, <1>3, <1>4, OneExecution
  <1> QED
    BY <1>5, Zenon

LEMMA ExecutionStep ==
  ASSUME TypeOK, [Next]_vars
  PROVE  ExecutionOK'
  <1>0. ExecutionOK
    BY DEF TypeOK, ExecutionOK
  <1>1. CASE execution' = execution
    BY <1>0, <1>1 DEF ExecutionOK
  <1>2. ASSUME NEW w \in Workers, Finish(w)
        PROVE  ExecutionOK'
    BY <1>0, <1>2, IdleType, OneExecution DEF Finish
  <1>3. ASSUME NEW w \in Workers, NEW t \in Tasks, Acquire(w, t)
        PROVE  ExecutionOK'
    <2> DEFINE e == [Idle EXCEPT !.pc = "claimed", !.task = t,
                                 !.token = AcquiredRow(w, task[t]).fencing_token]
    <2>1. AcquiredRow(w, task[t]).fencing_token \in Nat
      BY AcquiredRowType DEF TypeOK, TaskRow
    <2>2. e \in Execution /\ e.pc # "idle" /\ e.task # None
      BY <2>1, TaskLeaseAssumption DEF Idle, Execution, WorkerPC
    <2>3. execution' = [execution EXCEPT ![w] = e]
      BY <1>3 DEF Acquire
    <2> HIDE DEF e
    <2> QED
      BY <1>0, <2>2, <2>3, OneExecution
  <1>4. ASSUME NEW w \in Workers, BeginProcessing(w)
        PROVE  ExecutionOK'
    <2>1. execution' = [execution EXCEPT ![w] =
             [[execution[w] EXCEPT !.pc = "processing"] EXCEPT !.heartbeat = TRUE]]
      BY <1>4 DEF BeginProcessing
    <2> QED
      BY <1>0, <1>4, <2>1, GoesOn DEF BeginProcessing, WorkerPC
  <1>5. ASSUME NEW w \in Workers, ProcessingRaises(w)
        PROVE  ExecutionOK'
    <2>1. execution' = [execution EXCEPT ![w] =
             [[execution[w] EXCEPT !.pc = "failing"] EXCEPT !.heartbeat = FALSE]]
      BY <1>5 DEF ProcessingRaises
    <2> QED
      BY <1>0, <1>5, <2>1, GoesOn DEF ProcessingRaises, WorkerPC
  <1>6. ASSUME NEW w \in Workers, NEW p \in BOOLEAN, ProcessingReturns(w, p)
        PROVE  ExecutionOK'
    <2>1. execution' = [execution EXCEPT ![w] =
             [[[execution[w] EXCEPT !.pc = "built"] EXCEPT !.heartbeat = FALSE]
                EXCEPT !.partial = p]]
      BY <1>6 DEF ProcessingReturns
    <2>2. "built" \in WorkerPC \ {"idle"} /\ execution[w].pc # "idle"
      BY <1>6 DEF ProcessingReturns, WorkerPC
    <2> QED
      BY <1>0, <2>1, <2>2, GoesOn, Zenon
  <1>7. ASSUME NEW w \in Workers, CompleteFails(w) \/ CompleteUnconfirmed(w)
        PROVE  ExecutionOK'
    <2>1. /\ execution[w].pc = "built"
          /\ execution' = [execution EXCEPT ![w] = [execution[w] EXCEPT !.pc = "failing"]]
      <3>1. CASE CompleteFails(w)
        BY <3>1 DEF CompleteFails
      <3>2. CASE CompleteUnconfirmed(w)
        BY <3>2 DEF CompleteUnconfirmed, Completes
      <3> QED
        BY <1>7, <3>1, <3>2
    <2> QED
      BY <1>0, <2>1, GoesOn DEF WorkerPC
  <1>8. ASSUME NEW w \in Workers, Heartbeat(w), execution' # execution
        PROVE  ExecutionOK'
    <2>1. /\ execution[w].pc = "processing"
          /\ execution' = [execution EXCEPT ![w] = [execution[w] EXCEPT !.heartbeat = FALSE]]
      BY <1>8 DEF Heartbeat
    <2>2. [execution[w] EXCEPT !.heartbeat = FALSE] \in Execution
      BY <1>0, ExecutionColumns DEF ExecutionOK
    <2>3. [execution[w] EXCEPT !.heartbeat = FALSE].pc = execution[w].pc
      BY <1>0 DEF ExecutionOK, Execution
    <2>4. [execution[w] EXCEPT !.heartbeat = FALSE].task = execution[w].task
      BY <1>0 DEF ExecutionOK, Execution
    <2> HIDE DEF ExecutionOK
    <2> QED
      BY <1>0, <2>1, <2>2, <2>3, <2>4, OneExecution DEF ExecutionOK
  <1> QED
    BY <1>1, <1>2, <1>3, <1>4, <1>5, <1>6, <1>7, <1>8
    DEF Next, WorkerStep, Upload, Reingest, RetryTask, DeleteDocument, DocumentMissing,
        Complete, ReportFailure, Abandon, LeaseLapses, BackoffElapses, ScanAndRecover, vars

LEMMA DocumentStep ==
  ASSUME TypeOK, [Next]_vars
  PROVE  /\ document' \in [Docs -> { "ABSENT", "PRESENT", "DELETED" }]
         /\ active_generation' \in [Docs -> Nat]
  <1> USE DEF TypeOK
  <1>1. CASE UNCHANGED <<document, active_generation>>
    BY <1>1
  <1>2. ASSUME NEW d \in Docs, NEW t \in Tasks, Upload(d, t)
        PROVE  /\ document' \in [Docs -> { "ABSENT", "PRESENT", "DELETED" }]
               /\ active_generation' \in [Docs -> Nat]
    BY <1>2 DEF Upload
  <1>3. ASSUME NEW d \in Docs, DeleteDocument(d)
        PROVE  /\ document' \in [Docs -> { "ABSENT", "PRESENT", "DELETED" }]
               /\ active_generation' \in [Docs -> Nat]
    BY <1>3 DEF DeleteDocument
  <1>4. ASSUME NEW w \in Workers, Completes(w)
        PROVE  /\ document' \in [Docs -> { "ABSENT", "PRESENT", "DELETED" }]
               /\ active_generation' \in [Docs -> Nat]
    <2> DEFINE t == execution[w].task
    <2>1. t \in Tasks /\ task[t].target_generation \in Nat
      BY <1>4 DEF Completes, Execution, TaskRow
    <2>2. \/ UNCHANGED active_generation
          \/ active_generation' =
               [active_generation EXCEPT ![task[t].doc_id] = task[t].target_generation]
      BY <1>4 DEF Completes
    <2> HIDE DEF t
    <2> QED
      BY <1>4, <2>1, <2>2 DEF Completes
  <1>5. ASSUME NEW w \in Workers, WorkerStep(w)
        PROVE  /\ document' \in [Docs -> { "ABSENT", "PRESENT", "DELETED" }]
               /\ active_generation' \in [Docs -> Nat]
    BY <1>1, <1>4, <1>5
    DEF WorkerStep, BeginProcessing, DocumentMissing, ProcessingRaises, ProcessingReturns,
        Complete, CompleteUnconfirmed, CompleteFails, ReportFailure, dbVars
  <1> QED
    BY <1>1, <1>2, <1>3, <1>5
    DEF Next, Reingest, RetryTask, Acquire, Heartbeat, Abandon, LeaseLapses, BackoffElapses,
        ScanAndRecover, vars, dbVars

\* TypeOK is inductive by itself.
LEMMA TypeStep ==
  ASSUME TypeOK, [Next]_vars
  PROVE  TypeOK'
  <1>1. \A u \in Tasks : task'[u] \in TaskRow
    BY StepsRows, RowStepType DEF TypeOK, RowsStep
  <1>2. task' \in [Tasks -> TaskRow]
    BY <1>1, StepsRows DEF RowsStep
  <1> QED
    BY <1>2, ExecutionStep, DocumentStep DEF TypeOK, ExecutionOK

LEMMA InitType == Init => TypeOK
  BY NewRowType, IdleType DEF Init, TypeOK

\* Type correctness: every row, document and worker record is always one the
\* columns and the message loop allow; a worker without a task is idle.
THEOREM TypeCorrect == Spec => []TypeOK
  <1>1. TypeOK /\ [Next]_vars => TypeOK'
    BY TypeStep
  <1> QED
    BY <1>1, InitType, PTL DEF Spec

(***************************************************************************)
(* Invariants of single rows                                               *)
(***************************************************************************)

Spent(row) == MaxAttempts + 2 * row.retry_count

\* The inductive invariant of a row.  AttemptBudget needs the bound of a
\* PENDING row (strict, for the claim to come); the first and the last two
\* conjuncts serve the invariants that follow.
RowInv(row) ==
  /\ row.status = "ABSENT" => row.fencing_token = 1 /\ row.doc_id = None
  /\ row.fencing_token = 1 + row.attempt + row.retry_count
  /\ row.status = "RUNNING" => row.worker_id # None /\ row.lease_expires_at # "null"
  /\ row.status = "PENDING" => row.attempt < Spent(row)
  /\ row.status = "RETRY_WAITING" => row.attempt < MaxAttempts
  /\ row.status = "RUNNING" => row.attempt <= Spent(row)
  /\ row.attempt <= Spent(row) + 1
  /\ row.status # "ABSENT" => row.doc_id \in Docs
  /\ row.target_generation >= 1

LEMMA RowInvStep ==
  ASSUME NEW old \in TaskRow, NEW new, RowStep(old, new), RowInv(old)
  PROVE  RowInv(new)
  <1> USE TaskLeaseAssumption DEF TaskRow, RowInv, Spent
  <1>1. CASE new = old
    BY <1>1
  <1>2. CASE Created(old, new)
    BY <1>2 DEF Created, CreatedRow, NewRow
  <1>3. CASE Retried(old, new)
    BY <1>3 DEF Retried, RetriedRow
  <1>4. CASE Acquired(old, new)
    BY <1>4 DEF Acquired, AcquiredRow
  <1>5. CASE Failed(old, new)
    BY <1>5 DEF Failed
  <1>6. CASE Completed(old, new)
    BY <1>6 DEF Completed, CompletedRow
  <1>7. CASE Recovered(old, new)
    BY <1>7 DEF Recovered, RecoveredRow
  <1>8. CASE Deleted(old, new)
    BY <1>8 DEF Deleted
  <1>9. CASE LeaseMoved(old, new)
    BY <1>9 DEF LeaseMoved
  <1>10. CASE BackoffOver(old, new)
    BY <1>10 DEF BackoffOver
  <1> QED
    BY <1>1, <1>2, <1>3, <1>4, <1>5, <1>6, <1>7, <1>8, <1>9, <1>10 DEF RowStep

RowsInv == \A t \in Tasks : RowInv(task[t])

LEMMA RowsInvStep ==
  ASSUME TypeOK, RowsInv, [Next]_vars
  PROVE  RowsInv'
  BY StepsRows, RowInvStep DEF TypeOK, RowsInv, RowsStep

LEMMA RowsInvHolds == Spec => []RowsInv
  <1>1. Init => RowsInv
    BY TaskLeaseAssumption DEF Init, RowsInv, RowInv, NewRow, Spent
  <1>2. TypeOK /\ RowsInv /\ [Next]_vars => RowsInv'
    BY RowsInvStep
  <1> QED
    BY <1>1, <1>2, TypeCorrect, PTL DEF Spec

\* Claims, recoveries and operator retries each raise the fencing token by
\* exactly one, so the token numbers the ownership epochs of a task.
THEOREM TokensNumberEpochs == Spec => []TokenCountsEpochs
  <1>1. RowsInv => TokenCountsEpochs
    BY DEF RowsInv, RowInv, TokenCountsEpochs
  <1> QED
    BY <1>1, RowsInvHolds, PTL

\* No RUNNING row is invisible to the recovery scanner: it has an owner and
\* a lease that can lapse.
THEOREM RunningRowsCanBeRecovered == Spec => []RunningHasLease
  <1>1. RowsInv => RunningHasLease
    BY DEF RowsInv, RowInv, RunningHasLease
  <1> QED
    BY <1>1, RowsInvHolds, PTL

\* A task is started at most as often as its attempts and the operator's
\* retries allow, for every max_attempts.
THEOREM AttemptsAreBounded == Spec => []AttemptBudget
  <1>1. RowsInv => AttemptBudget
    BY DEF RowsInv, RowInv, AttemptBudget, Spent
  <1> QED
    BY <1>1, RowsInvHolds, PTL

(***************************************************************************)
(* Fencing                                                                 *)
(***************************************************************************)

LEMMA TokensGrow ==
  ASSUME NEW old \in TaskRow, NEW new, RowStep(old, new),
         old.status = "ABSENT" => old.fencing_token = 1
  PROVE  new.fencing_token >= old.fencing_token
  <1> USE DEF TaskRow
  <1>1. CASE new = old
    BY <1>1
  <1>2. CASE Created(old, new)
    BY <1>2 DEF Created, CreatedRow, NewRow
  <1>3. CASE Retried(old, new)
    BY <1>3 DEF Retried, RetriedRow
  <1>4. CASE Acquired(old, new)
    BY <1>4 DEF Acquired, AcquiredRow
  <1>5. CASE Failed(old, new)
    BY <1>5 DEF Failed
  <1>6. CASE Completed(old, new)
    BY <1>6 DEF Completed, CompletedRow
  <1>7. CASE Recovered(old, new)
    BY <1>7 DEF Recovered, RecoveredRow
  <1>8. CASE Deleted(old, new)
    BY <1>8 DEF Deleted
  <1>9. CASE LeaseMoved(old, new)
    BY <1>9 DEF LeaseMoved
  <1>10. CASE BackoffOver(old, new)
    BY <1>10 DEF BackoffOver
  <1> QED
    BY <1>1, <1>2, <1>3, <1>4, <1>5, <1>6, <1>7, <1>8, <1>9, <1>10 DEF RowStep

\* What a step does to a worker: it claims a task, or it ends up idle, or it
\* keeps the task and the token it had.
SameHold(v) ==
  /\ execution[v].pc # "idle"
  /\ execution'[v].task = execution[v].task
  /\ execution'[v].token = execution[v].token

LEMMA HoldStep ==
  ASSUME TypeOK, [Next]_vars, NEW v \in Workers
  PROVE  \/ execution'[v].pc = "idle"
         \/ SameHold(v)
         \/ \E t \in Tasks : Acquire(v, t)
  <1> USE DEF TypeOK
  <1>1. CASE execution' = execution
    BY <1>1 DEF SameHold
  <1>2. ASSUME NEW w \in Workers, Finish(w)
        PROVE  execution'[v].pc = "idle" \/ SameHold(v)
    BY <1>2 DEF Finish, Idle, SameHold
  <1>3. ASSUME NEW w \in Workers, NEW t \in Tasks, Acquire(w, t)
        PROVE  \/ execution'[v].pc = "idle"
               \/ SameHold(v)
               \/ Acquire(v, t)
    <2>1. CASE w = v
      BY <1>3, <2>1
    <2>2. CASE w # v
      BY <1>3, <2>2 DEF Acquire, SameHold
    <2> QED
      BY <2>1, <2>2
  <1>4. ASSUME NEW w \in Workers, BeginProcessing(w) \/ ProcessingRaises(w) \/ Heartbeat(w)
                 \/ \E p \in BOOLEAN : ProcessingReturns(w, p)
        PROVE  execution'[v].pc = "idle" \/ SameHold(v)
    BY <1>4 DEF BeginProcessing, ProcessingRaises, Heartbeat, ProcessingReturns, SameHold, Execution
  <1>5. ASSUME NEW w \in Workers, CompleteFails(w) \/ CompleteUnconfirmed(w)
        PROVE  execution'[v].pc = "idle" \/ SameHold(v)
    BY <1>5 DEF CompleteFails, CompleteUnconfirmed, Completes, SameHold, Execution
  <1> QED
    BY <1>1, <1>2, <1>3, <1>4, <1>5
    DEF Next, WorkerStep, Upload, Reingest, RetryTask, DeleteDocument, DocumentMissing,
        Complete, ReportFailure, Abandon, LeaseLapses, BackoffElapses, ScanAndRecover, vars

LEMMA FencingStep ==
  ASSUME TypeOK, RowsInv, ExecutionsAreFenced, [Next]_vars
  PROVE  ExecutionsAreFenced'
  <1> DEFINE Token(t) == task[t].fencing_token
             Next_Token(t) == task'[t].fencing_token
             Fits(v) == execution'[v].pc # "idle" =>
                          /\ execution'[v].token \in Nat
                          /\ execution'[v].token <= Next_Token(execution'[v].task)
  <1>1. \A t \in Tasks : /\ Token(t) \in Nat
                         /\ Next_Token(t) \in Nat
                         /\ Next_Token(t) >= Token(t)
    BY StepsRows, TokensGrow, RowStepType DEF RowsStep, RowsInv, RowInv, TypeOK, TaskRow
  <1>2. ASSUME NEW v \in Workers, NEW t \in Tasks, Acquire(v, t)
        PROVE  /\ execution'[v].task = t
               /\ execution'[v].token = Token(t) + 1
               /\ execution'[v].token = Next_Token(t)
               /\ \A w \in Workers : w # v => execution'[w] = execution[w]
    BY <1>2 DEF Acquire, AcquiredRow, TypeOK, Idle, Execution, TaskRow
  <1>3. \A v \in Workers : execution[v].pc # "idle" =>
          /\ execution[v].task \in Tasks
          /\ execution[v].token \in Nat
          /\ execution[v].token <= Token(execution[v].task)
    BY DEF ExecutionsAreFenced, TypeOK, Execution
  <1>4. ASSUME NEW v \in Workers, SameHold(v)
        PROVE  Fits(v)
    BY <1>1, <1>3, <1>4 DEF SameHold
  <1>5. \A v \in Workers : Fits(v)
    <2> TAKE v \in Workers
    <2>1. CASE \E t \in Tasks : Acquire(v, t)
      BY <1>1, <1>2, <2>1
    <2> QED
      BY <1>4, <2>1, HoldStep
  <1>6. ASSUME NEW v \in Workers, NEW w \in Workers, v # w,
               NEW t \in Tasks, Acquire(v, t),
               execution'[w].pc # "idle", execution'[w].task = t
        PROVE  execution'[v].token # execution'[w].token
    BY <1>1, <1>2, <1>3, <1>6
  <1>7. ASSUME NEW v \in Workers, NEW w \in Workers, v # w,
               execution'[v].pc # "idle", execution'[w].pc # "idle",
               execution'[w].task = execution'[v].task
        PROVE  execution'[v].token # execution'[w].token
    <2>1. CASE \E t \in Tasks : Acquire(v, t)
      BY <1>2, <1>6, <1>7, <2>1
    <2>2. CASE \E t \in Tasks : Acquire(w, t)
      BY <1>2, <1>6, <1>7, <2>2
    <2>3. CASE SameHold(v) /\ SameHold(w)
      BY <1>7, <2>3 DEF SameHold, ExecutionsAreFenced
    <2> QED
      BY <1>7, <2>1, <2>2, <2>3, HoldStep
  <1>8. \A v, w \in Workers :
          v # w /\ execution'[v].pc # "idle" /\ execution'[w].task = execution'[v].task
            => execution'[w].pc # "idle"
    BY TypeStep DEF TypeOK
  <1> QED
    BY <1>5, <1>7, <1>8 DEF ExecutionsAreFenced

\* Fencing: no worker, however late, holds a token newer than its task's
\* row, and no two workers in the middle of one task hold the same token.
THEOREM Fencing == Spec => []ExecutionsAreFenced
  <1>1. Init => ExecutionsAreFenced
    BY DEF Init, ExecutionsAreFenced, Idle
  <1>2. TypeOK /\ RowsInv /\ ExecutionsAreFenced /\ [Next]_vars => ExecutionsAreFenced'
    BY FencingStep
  <1> QED
    BY <1>1, <1>2, TypeCorrect, RowsInvHolds, PTL DEF Spec

(***************************************************************************)
(* Documents and targets                                                   *)
(***************************************************************************)

\* A document that does not exist yet has no generation, and no task aims
\* further than one generation past the active one.
TargetsInv ==
  /\ \A d \in Docs : document[d] = "ABSENT" => active_generation[d] = 0
  /\ \A t \in Tasks : task[t].status # "ABSENT" =>
       task[t].target_generation <= active_generation[task[t].doc_id] + 1

\* What the transaction of a completing worker does to the documents.
LEMMA CompletesDocuments ==
  ASSUME TypeOK, RowsInv, NEW w \in Workers, Completes(w)
  PROVE  /\ document' = document
         /\ \E t \in Tasks :
              /\ t = execution[w].task
              /\ task[t].status = "RUNNING"
              /\ task[t].doc_id \in Docs
              /\ \/ /\ task' = [task EXCEPT ![t] = CompletedRow(task[t], "PARTIAL_SUCCEEDED")]
                    /\ active_generation' = active_generation
                 \/ /\ Publishable(t)
                    /\ task' = [task EXCEPT ![t] = CompletedRow(task[t], "SUCCEEDED")]
                    /\ active_generation' = [active_generation EXCEPT
                          ![task[t].doc_id] = task[t].target_generation]
  <1>1. execution[w].task \in Tasks /\ task[execution[w].task].status = "RUNNING"
    BY DEF TypeOK, Execution, Completes, Owns
  <1>2. task[execution[w].task].doc_id \in Docs
    BY <1>1 DEF RowsInv, RowInv
  <1> QED
    BY <1>1, <1>2 DEF Completes

\* The other steps of a worker leave the documents alone.
LEMMA QuietWorker ==
  ASSUME NEW w \in Workers, WorkerStep(w), ~Completes(w)
  PROVE  /\ UNCHANGED <<document, active_generation>>
         /\ UNCHANGED task \/ (execution[w].pc # "idle" /\ FailOwnRow(w))
  BY DEF WorkerStep, BeginProcessing, DocumentMissing, ProcessingRaises, ProcessingReturns,
         Complete, CompleteUnconfirmed, CompleteFails, ReportFailure, dbVars

LEMMA GenerationsGrow ==
  ASSUME TypeOK, RowsInv, TargetsInv, [Next]_vars
  PROVE  \A d \in Docs : active_generation'[d] >= active_generation[d]
  <1> USE DEF TypeOK
  <1>1. CASE UNCHANGED active_generation
    BY <1>1
  <1>2. ASSUME NEW d \in Docs, NEW t \in Tasks, Upload(d, t)
        PROVE  \A e \in Docs : active_generation'[e] >= active_generation[e]
    BY <1>2 DEF Upload, TargetsInv
  <1>3. ASSUME NEW w \in Workers, Completes(w)
        PROVE  \A d \in Docs : active_generation'[d] >= active_generation[d]
    <2>1. PICK t \in Tasks :
            /\ task[t].doc_id \in Docs
            /\ \/ active_generation' = active_generation
               \/ /\ Publishable(t)
                  /\ active_generation' = [active_generation EXCEPT
                        ![task[t].doc_id] = task[t].target_generation]
      BY <1>3, CompletesDocuments
    <2>2. task[t].target_generation \in Nat
      BY DEF TaskRow
    <2> QED
      BY <2>1, <2>2 DEF Publishable
  <1>4. ASSUME NEW w \in Workers, WorkerStep(w)
        PROVE  \A d \in Docs : active_generation'[d] >= active_generation[d]
    BY <1>1, <1>3, <1>4, QuietWorker
  <1> QED
    BY <1>1, <1>2, <1>4
    DEF Next, Reingest, RetryTask, DeleteDocument, Acquire, Heartbeat, Abandon, LeaseLapses,
        BackoffElapses, ScanAndRecover, vars, dbVars

\* A row keeps its document and its target for good.
LEMMA RowKeepsTarget ==
  ASSUME NEW old \in TaskRow, NEW new, RowStep(old, new), ~Created(old, new),
         RowInv(old)
  PROVE  /\ new.doc_id = old.doc_id
         /\ new.target_generation = old.target_generation
         /\ new.status = "ABSENT" <=> old.status = "ABSENT"
  <1> USE DEF TaskRow
  <1>1. CASE new = old
    BY <1>1
  <1>2. CASE Retried(old, new)
    BY <1>2 DEF Retried, RetriedRow
  <1>3. CASE Acquired(old, new)
    BY <1>3 DEF Acquired, AcquiredRow
  <1>4. CASE Failed(old, new)
    BY <1>4 DEF Failed
  <1>5. CASE Completed(old, new)
    BY <1>5 DEF Completed, CompletedRow
  <1>6. CASE Recovered(old, new)
    BY <1>6 DEF Recovered, RecoveredRow
  <1>7. CASE Deleted(old, new)
    BY <1>7 DEF Deleted, RowInv
  <1>8. CASE LeaseMoved(old, new)
    BY <1>8 DEF LeaseMoved
  <1>9. CASE BackoffOver(old, new)
    BY <1>9 DEF BackoffOver
  <1> QED
    BY <1>1, <1>2, <1>3, <1>4, <1>5, <1>6, <1>7, <1>8, <1>9 DEF RowStep

LEMMA TargetsStep ==
  ASSUME TypeOK, RowsInv, TargetsInv, [Next]_vars
  PROVE  TargetsInv'
  <1>1. ASSUME NEW t \in Tasks, task'[t].status # "ABSENT"
        PROVE  task'[t].target_generation <= active_generation'[task'[t].doc_id] + 1
    <2>1. RowStep(task[t], task'[t]) /\ RowInv(task[t]) /\ task[t] \in TaskRow
      BY StepsRows DEF RowsStep, RowsInv, TypeOK
    <2>2. CASE Created(task[t], task'[t])
      BY <2>2 DEF Created, CreatedRow, NewRow
    <2>3. CASE ~Created(task[t], task'[t])
      <3>1. /\ task'[t].doc_id = task[t].doc_id
            /\ task'[t].target_generation = task[t].target_generation
            /\ task[t].status # "ABSENT"
        BY <1>1, <2>1, <2>3, RowKeepsTarget
      <3>2. task[t].doc_id \in Docs /\ task[t].target_generation \in Nat
        BY <2>1, <3>1 DEF RowInv, TaskRow
      <3> DEFINE d == task[t].doc_id
      <3>3. /\ active_generation'[d] >= active_generation[d]
            /\ active_generation[d] \in Nat /\ active_generation'[d] \in Nat
        BY <3>2, GenerationsGrow, DocumentStep DEF TypeOK
      <3>4. task[t].target_generation <= active_generation[d] + 1
        BY <3>1 DEF TargetsInv
      <3> QED
        BY <3>1, <3>2, <3>3, <3>4
    <2> QED
      BY <2>2, <2>3
  <1>2. ASSUME NEW d \in Docs, document'[d] = "ABSENT"
        PROVE  document[d] = "ABSENT" /\ active_generation'[d] = active_generation[d]
    <2> USE DEF TypeOK
    <2>1. CASE UNCHANGED <<document, active_generation>>
      BY <1>2, <2>1
    <2>2. ASSUME NEW w \in Workers, Completes(w)
          PROVE  document[d] = "ABSENT" /\ active_generation'[d] = active_generation[d]
      BY <1>2, <2>2, CompletesDocuments DEF Publishable
    <2>3. ASSUME NEW w \in Workers, WorkerStep(w)
          PROVE  document[d] = "ABSENT" /\ active_generation'[d] = active_generation[d]
      BY <2>1, <2>2, <2>3, QuietWorker
    <2>4. ASSUME NEW e \in Docs, DeleteDocument(e)
          PROVE  document[d] = "ABSENT" /\ active_generation'[d] = active_generation[d]
      BY <1>2, <2>4 DEF DeleteDocument
    <2>5. ASSUME NEW e \in Docs, NEW t \in Tasks, Upload(e, t)
          PROVE  document[d] = "ABSENT" /\ active_generation'[d] = active_generation[d]
      BY <1>2, <2>5 DEF Upload
    <2> QED
      BY <2>1, <2>3, <2>4, <2>5
      DEF Next, Reingest, RetryTask, Acquire, Heartbeat, Abandon, LeaseLapses,
          BackoffElapses, ScanAndRecover, vars, dbVars
  <1> QED
    BY <1>1, <1>2 DEF TargetsInv

LEMMA TargetsHold == Spec => [](TypeOK /\ RowsInv /\ TargetsInv)
  <1>1. Init => TargetsInv
    BY DEF Init, TargetsInv, NewRow
  <1>2. TypeOK /\ RowsInv /\ TargetsInv /\ [Next]_vars => TargetsInv'
    BY TargetsStep
  <1> QED
    BY <1>1, <1>2, TypeCorrect, RowsInvHolds, PTL DEF Spec

\* Retrieval never falls back to an older generation of a document, whatever
\* order stale, retried and recovered tasks finish in.
THEOREM GenerationsNeverDecrease == Spec => GenerationNeverDecreases
  <1>1. TypeOK /\ RowsInv /\ TargetsInv /\ [Next]_vars
          => [\A d \in Docs : active_generation'[d] >= active_generation[d]]_vars
    BY GenerationsGrow
  <1> QED
    BY <1>1, TargetsHold, PTL DEF Spec, GenerationNeverDecreases

(***************************************************************************)
(* Success and publication                                                 *)
(***************************************************************************)

\* A row becomes SUCCEEDED only by being completed, with its target reached.
LEMMA SuccessIsCompletion ==
  ASSUME NEW old \in TaskRow, NEW new, RowStep(old, new), RowInv(old),
         new.status = "SUCCEEDED"
  PROVE  \/ new = old
         \/ /\ new.doc_id = old.doc_id
            /\ new.target_generation = old.target_generation
            /\ old.doc_id \in Docs
            /\ old.target_generation <= active_generation'[old.doc_id]
  <1> USE DEF TaskRow
  <1>1. CASE Completed(old, new)
    BY <1>1 DEF Completed, CompletedRow, RowInv
  <1>2. CASE Created(old, new)
    BY <1>2 DEF Created, CreatedRow, NewRow
  <1>3. CASE Retried(old, new)
    BY <1>3 DEF Retried, RetriedRow
  <1>4. CASE Acquired(old, new)
    BY <1>4 DEF Acquired, AcquiredRow
  <1>5. CASE Failed(old, new)
    BY <1>5 DEF Failed
  <1>6. CASE Recovered(old, new)
    BY <1>6 DEF Recovered, RecoveredRow
  <1>7. CASE Deleted(old, new)
    BY <1>7 DEF Deleted
  <1>8. CASE LeaseMoved(old, new)
    BY <1>8 DEF LeaseMoved
  <1>9. CASE BackoffOver(old, new)
    BY <1>9 DEF BackoffOver
  <1> QED
    BY <1>1, <1>2, <1>3, <1>4, <1>5, <1>6, <1>7, <1>8, <1>9 DEF RowStep

LEMMA SuccessStep ==
  ASSUME TypeOK, RowsInv, TargetsInv, SuccessIsPublished, [Next]_vars
  PROVE  SuccessIsPublished'
  <1> SUFFICES ASSUME NEW t \in Tasks, task'[t].status = "SUCCEEDED"
               PROVE  task'[t].target_generation <= active_generation'[task'[t].doc_id]
    BY DEF SuccessIsPublished
  <1>1. RowStep(task[t], task'[t]) /\ RowInv(task[t]) /\ task[t] \in TaskRow
    BY StepsRows DEF RowsStep, RowsInv, TypeOK
  <1>2. CASE task'[t] = task[t]
    <2> DEFINE d == task[t].doc_id
    <2>1. d \in Docs /\ task[t].target_generation \in Nat
      BY <1>1, <1>2 DEF RowInv, TaskRow
    <2>2. /\ active_generation'[d] >= active_generation[d]
          /\ active_generation[d] \in Nat /\ active_generation'[d] \in Nat
      BY <2>1, GenerationsGrow, DocumentStep DEF TypeOK
    <2>3. task[t].target_generation <= active_generation[d]
      BY <1>2 DEF SuccessIsPublished
    <2> QED
      BY <1>2, <2>1, <2>2, <2>3
  <1> QED
    BY <1>1, <1>2, SuccessIsCompletion

\* A task reported SUCCEEDED is never reported before, or without, its
\* generation being the one readers see (or an older one).
THEOREM SuccessMeansPublished == Spec => []SuccessIsPublished
  <1>1. Init => SuccessIsPublished
    BY DEF Init, SuccessIsPublished, NewRow
  <1>2. TypeOK /\ RowsInv /\ TargetsInv /\ SuccessIsPublished /\ [Next]_vars
          => SuccessIsPublished'
    BY SuccessStep
  <1> QED
    BY <1>1, <1>2, TargetsHold, PTL DEF Spec

(***************************************************************************)
(* The documents of live tasks                                             *)
(***************************************************************************)

\* A task has a row only as long as its document has one.
DocumentsInv == \A t \in Tasks : Live(t) => document[task[t].doc_id] = "PRESENT"

\* Away from the creation of a task and the deletion of a document, nothing
\* comes to life and documents stay.
LEMMA NothingComesToLife ==
  ASSUME TypeOK, RowsInv, [Next]_vars,
         ~\E d \in Docs, t \in Tasks : Upload(d, t) \/ Reingest(d, t),
         ~\E d \in Docs : DeleteDocument(d)
  PROVE  /\ document' = document
         /\ \A t \in Tasks : task[t].status \in { "ABSENT", "DELETED" } => task'[t] = task[t]
  <1> USE DEF TypeOK
  <1> DEFINE Same == /\ document' = document
                     /\ \A t \in Tasks : task[t].status \in { "ABSENT", "DELETED" }
                          => task'[t] = task[t]
  <1>1. ASSUME NEW w \in Workers, WorkerStep(w)
        PROVE  Same
    <2>1. ASSUME Completes(w)
          PROVE  Same
      BY <2>1, CompletesDocuments
    <2>2. ASSUME ~Completes(w)
          PROVE  Same
      BY <1>1, <2>2, QuietWorker DEF FailOwnRow, Owns, Execution
    <2> QED
      BY <2>1, <2>2
  <1>2. ASSUME NEW w \in Workers, Heartbeat(w) \/ Abandon(w)
        PROVE  Same
    BY <1>2 DEF Execution, Owns, Heartbeat, Abandon, dbVars
  <1>3. ASSUME NEW u \in Tasks, \/ \E w \in Workers : Acquire(w, u)
                                \/ RetryTask(u) \/ LeaseLapses(u) \/ BackoffElapses(u)
        PROVE  Same
    BY <1>3 DEF Acquire, Claimable, RetryTask, LeaseLapses, BackoffElapses
  <1>4. ASSUME NEW S \in SUBSET Tasks, ScanAndRecover(S)
        PROVE  Same
    BY <1>4 DEF ScanAndRecover, Orphans
  <1>5. ASSUME UNCHANGED vars
        PROVE  Same
    BY <1>5 DEF vars
  <1> HIDE DEF Same
  <1>6. Same
    BY <1>1, <1>2, <1>3, <1>4, <1>5 DEF Next
  <1> QED
    BY <1>6 DEF Same

LEMMA DocumentsStep ==
  ASSUME TypeOK, RowsInv, DocumentsInv, [Next]_vars
  PROVE  DocumentsInv'
  <1> USE DEF DocumentsInv, Live
  <1>1. ASSUME NEW d \in Docs, NEW u \in Tasks, Upload(d, u) \/ Reingest(d, u)
        PROVE  DocumentsInv'
    <2>1. PICK g : task' = [task EXCEPT ![u] = CreatedRow(d, g)]
      BY <1>1 DEF Upload, Reingest
    <2>2. task'[u].doc_id = d
      BY <2>1 DEF TypeOK, CreatedRow, NewRow
    <2>3. document'[d] = "PRESENT" /\ \A e \in Docs \ {d} : document'[e] = document[e]
      BY <1>1 DEF Upload, Reingest, TypeOK
    <2>4. \A t \in Tasks \ {u} : task'[t] = task[t]
      BY <2>1 DEF TypeOK
    <2>5. \A t \in Tasks : task[t].status # "ABSENT" => task[t].doc_id \in Docs
      BY DEF RowsInv, RowInv
    <2> QED
      BY <2>2, <2>3, <2>4, <2>5
  <1>2. ASSUME NEW d \in Docs, DeleteDocument(d)
        PROVE  DocumentsInv'
    <2>1. /\ document' = [document EXCEPT ![d] = "DELETED"]
          /\ \A t \in Tasks : task[t].doc_id # d => task'[t] = task[t]
      BY <1>2 DEF DeleteDocument
    <2>2. \A t \in Tasks : task[t].doc_id = d => task'[t].status = "DELETED"
      BY <1>2 DEF DeleteDocument, TypeOK, TaskRow
    <2>3. \A t \in Tasks : task[t].status # "ABSENT" => task[t].doc_id \in Docs
      BY DEF RowsInv, RowInv
    <2> QED
      BY <2>1, <2>2, <2>3 DEF TypeOK
  <1>3. CASE /\ ~\E d \in Docs, t \in Tasks : Upload(d, t) \/ Reingest(d, t)
             /\ ~\E d \in Docs : DeleteDocument(d)
    <2>1. /\ document' = document
          /\ \A t \in Tasks : task[t].status \in { "ABSENT", "DELETED" } => task'[t] = task[t]
      BY <1>3, NothingComesToLife
    <2>2. \A t \in Tasks : /\ RowStep(task[t], task'[t])
                           /\ task[t] \in TaskRow /\ RowInv(task[t])
      BY StepsRows DEF RowsStep, RowsInv, TypeOK
    <2>3. \A t \in Tasks : Live(t)' => Live(t) /\ task'[t].doc_id = task[t].doc_id
      BY <2>1, <2>2, RowKeepsTarget DEF Created
    <2> QED
      BY <2>1, <2>3
  <1> QED
    BY <1>1, <1>2, <1>3

(***************************************************************************)
(* Refinement of DocumentVersions                                          *)
(***************************************************************************)

\* Rows that keep their document and the state of their job, and documents
\* left alone, are a stutter of DocumentVersions.
QuietRow(old, new) ==
  new.doc_id = old.doc_id /\ JobState(new.status) = JobState(old.status)

LEMMA QuietIsStutter ==
  ASSUME TypeOK, UNCHANGED <<document, active_generation>>,
         \A t \in Tasks : QuietRow(task[t], task'[t])
  PROVE  UNCHANGED Versions!vars
  BY DEF QuietRow, Versions!vars

LEMMA QuietRows ==
  ASSUME NEW old \in TaskRow, NEW new,
         \/ new = old
         \/ Retried(old, new)
         \/ Acquired(old, new)
         \/ Failed(old, new)
         \/ Recovered(old, new)
         \/ LeaseMoved(old, new)
         \/ BackoffOver(old, new)
  PROVE  QuietRow(old, new)
  <1> USE DEF TaskRow, QuietRow, JobState
  <1>1. CASE new = old
    BY <1>1
  <1>2. CASE Retried(old, new)
    BY <1>2 DEF Retried, RetriedRow
  <1>3. CASE Acquired(old, new)
    BY <1>3 DEF Acquired, AcquiredRow
  <1>4. CASE Failed(old, new)
    BY <1>4 DEF Failed
  <1>5. CASE Recovered(old, new)
    BY <1>5 DEF Recovered, RecoveredRow
  <1>6. CASE LeaseMoved(old, new)
    BY <1>6 DEF LeaseMoved
  <1>7. CASE BackoffOver(old, new)
    BY <1>7 DEF BackoffOver
  <1> QED
    BY <1>1, <1>2, <1>3, <1>4, <1>5, <1>6, <1>7

\* One row rewritten quietly.
LEMMA OneQuietRow ==
  ASSUME TypeOK, NEW t \in Tasks, NEW row, task' = [task EXCEPT ![t] = row],
         QuietRow(task[t], row), UNCHANGED <<document, active_generation>>
  PROVE  UNCHANGED Versions!vars
  <1>1. \A u \in Tasks : QuietRow(task[u], task'[u])
    BY DEF TypeOK, QuietRow
  <1> QED
    BY <1>1, QuietIsStutter

LEMMA CreationOpens ==
  ASSUME TypeOK, NEW d \in Docs, NEW t \in Tasks, Upload(d, t) \/ Reingest(d, t)
  PROVE  Versions!Open(d, t)
  <1>1. PICK g \in Nat : task' = [task EXCEPT ![t] = CreatedRow(d, g)]
    BY DEF Upload, Reingest, NextGeneration, TypeOK
  <1>2. CreatedRow(d, g).status = "PENDING" /\ CreatedRow(d, g).doc_id = d
    BY DEF CreatedRow, NewRow
  <1>3. [u \in Tasks |-> JobState(task'[u].status)]
          = [[u \in Tasks |-> JobState(task[u].status)] EXCEPT ![t] = "open"]
    BY <1>1, <1>2 DEF TypeOK, JobState
  <1>4. [u \in Tasks |-> task'[u].doc_id]
          = [[u \in Tasks |-> task[u].doc_id] EXCEPT ![t] = d]
    BY <1>1, <1>2 DEF TypeOK
  <1>5. JobState(task[t].status) = "unborn"
    BY DEF Upload, Reingest, JobState
  <1>6. /\ document[d] \in {"ABSENT", "PRESENT"}
        /\ document' = [document EXCEPT ![d] = "PRESENT"]
        /\ active_generation' = [active_generation EXCEPT
                                   ![d] = IF document[d] = "ABSENT" THEN 1 ELSE @]
    BY DEF Upload, Reingest, TypeOK
  <1> QED
    BY <1>3, <1>4, <1>5, <1>6 DEF Versions!Open

LEMMA DeletionDeletes ==
  ASSUME TypeOK, NEW d \in Docs, DeleteDocument(d)
  PROVE  Versions!Delete(d)
  <1>1. \A t \in Tasks :
          /\ task'[t].doc_id = task[t].doc_id
          /\ JobState(task'[t].status) = IF task[t].doc_id = d THEN "closed"
                                                               ELSE JobState(task[t].status)
    BY DEF DeleteDocument, TypeOK, TaskRow, JobState
  <1> QED
    BY <1>1 DEF DeleteDocument, Versions!Delete

LEMMA CompletionPublishesOrCloses ==
  ASSUME TypeOK, RowsInv, TargetsInv, NEW w \in Workers, Completes(w)
  PROVE  \E t \in Tasks : Versions!Publish(t) \/ Versions!Close(t)
  <1>1. PICK t \in Tasks :
          /\ task[t].status = "RUNNING"
          /\ task[t].doc_id \in Docs
          /\ \/ /\ task' = [task EXCEPT ![t] = CompletedRow(task[t], "PARTIAL_SUCCEEDED")]
                /\ active_generation' = active_generation
             \/ /\ Publishable(t)
                /\ task' = [task EXCEPT ![t] = CompletedRow(task[t], "SUCCEEDED")]
                /\ active_generation' = [active_generation EXCEPT
                      ![task[t].doc_id] = task[t].target_generation]
    BY CompletesDocuments
  <1>2. document' = document
    BY CompletesDocuments
  <1>3. JobState(task[t].status) = "open"
    BY <1>1 DEF JobState
  <1>4. ASSUME NEW s \in {"SUCCEEDED", "PARTIAL_SUCCEEDED"},
               task' = [task EXCEPT ![t] = CompletedRow(task[t], s)]
        PROVE  /\ [u \in Tasks |-> JobState(task'[u].status)]
                    = [[u \in Tasks |-> JobState(task[u].status)] EXCEPT ![t] = JobState(s)]
               /\ [u \in Tasks |-> task'[u].doc_id] = [u \in Tasks |-> task[u].doc_id]
    <2>1. CompletedRow(task[t], s).status = s /\ CompletedRow(task[t], s).doc_id = task[t].doc_id
      BY DEF CompletedRow, TypeOK, TaskRow
    <2>2. \A u \in Tasks : u # t => task'[u] = task[u]
      BY <1>4 DEF TypeOK
    <2>3. task'[t] = CompletedRow(task[t], s)
      BY <1>4 DEF TypeOK
    <2> QED
      BY <2>1, <2>2, <2>3
  <1>5. CASE task' = [task EXCEPT ![t] = CompletedRow(task[t], "PARTIAL_SUCCEEDED")]
             /\ active_generation' = active_generation
    <2>1. JobState("PARTIAL_SUCCEEDED") = "closed"
      BY DEF JobState
    <2> QED
      BY <1>2, <1>3, <1>4, <1>5, <2>1 DEF Versions!Close
  <1>6. CASE /\ Publishable(t)
             /\ task' = [task EXCEPT ![t] = CompletedRow(task[t], "SUCCEEDED")]
             /\ active_generation' = [active_generation EXCEPT
                   ![task[t].doc_id] = task[t].target_generation]
    <2> DEFINE d == task[t].doc_id
               g == task[t].target_generation
    <2>1. g \in Nat /\ active_generation[d] \in Nat
      BY <1>1 DEF TypeOK, TaskRow
    <2>2. g \in {active_generation[d], active_generation[d] + 1}
      BY <1>1, <1>6, <2>1 DEF Publishable, TargetsInv
    <2>3. document[d] = "PRESENT"
      BY <1>6 DEF Publishable
    <2>4. JobState("SUCCEEDED") = "published"
      BY DEF JobState
    <2> QED
      BY <1>2, <1>3, <1>4, <1>6, <2>2, <2>3, <2>4 DEF Versions!Publish
  <1> QED
    BY <1>1, <1>5, <1>6

LEMMA StepRefines ==
  ASSUME TypeOK, RowsInv, TargetsInv, [Next]_vars
  PROVE  [Versions!Next]_(Versions!vars)
  <1> USE DEF TypeOK
  <1>1. ASSUME NEW d \in Docs, NEW t \in Tasks, Upload(d, t) \/ Reingest(d, t)
        PROVE  Versions!Next
    BY <1>1, CreationOpens DEF Versions!Next
  <1>2. ASSUME NEW t \in Tasks, RetryTask(t)
        PROVE  UNCHANGED Versions!vars
    <2>1. QuietRow(task[t], RetriedRow(task[t]))
      BY <1>2, QuietRows DEF RetryTask, Retried
    <2> QED
      BY <1>2, <2>1, OneQuietRow DEF RetryTask
  <1>3. ASSUME NEW d \in Docs, DeleteDocument(d)
        PROVE  Versions!Next
    BY <1>3, DeletionDeletes DEF Versions!Next
  <1>4. ASSUME NEW w \in Workers, NEW t \in Tasks, Acquire(w, t)
        PROVE  UNCHANGED Versions!vars
    <2>1. QuietRow(task[t], AcquiredRow(w, task[t]))
      BY <1>4, QuietRows DEF Acquire, Claimable, Acquired
    <2> QED
      BY <1>4, <2>1, OneQuietRow DEF Acquire
  <1>5. ASSUME NEW w \in Workers, Completes(w)
        PROVE  Versions!Next
    BY <1>5, CompletionPublishesOrCloses DEF Versions!Next
  <1>6. ASSUME NEW w \in Workers, execution[w].pc # "idle", FailOwnRow(w),
               UNCHANGED <<document, active_generation>>
        PROVE  UNCHANGED Versions!vars
    <2> DEFINE t == execution[w].task
               row == [task[t] EXCEPT !.status = "FAILED"]
    <2>1. t \in Tasks
      BY <1>6 DEF Execution
    <2>2. CASE Owns(w)
      <3>1. task' = [task EXCEPT ![t] = row]
        BY <1>6, <2>2 DEF FailOwnRow
      <3>2. QuietRow(task[t], row)
        BY <2>1, <2>2, QuietRows DEF Owns, Failed
      <3> HIDE DEF t, row
      <3> QED
        BY <1>6, <2>1, <3>1, <3>2, OneQuietRow
    <2>3. CASE ~Owns(w)
      BY <1>6, <2>3, QuietIsStutter DEF FailOwnRow, QuietRow
    <2> QED
      BY <2>2, <2>3
  <1>7. CASE UNCHANGED dbVars
    BY <1>7, QuietIsStutter DEF dbVars, QuietRow
  <1>8. ASSUME NEW w \in Workers, WorkerStep(w)
        PROVE  [Versions!Next]_(Versions!vars)
    <2>1. CASE UNCHANGED <<task, document, active_generation>>
      BY <1>7, <2>1 DEF dbVars
    <2> QED
      BY <1>5, <1>6, <1>8, <2>1, QuietWorker
  <1>9. ASSUME NEW w \in Workers, Heartbeat(w)
        PROVE  UNCHANGED Versions!vars
    <2> DEFINE t == execution[w].task
               row == [task[t] EXCEPT !.lease_expires_at = "ahead"]
    <2>1. t \in Tasks
      BY <1>9 DEF Heartbeat, Execution
    <2>2. CASE Owns(w)
      <3>1. task' = [task EXCEPT ![t] = row]
        BY <1>9, <2>2 DEF Heartbeat
      <3>2. QuietRow(task[t], row)
        BY <2>1, <2>2, QuietRows DEF Owns, LeaseMoved
      <3> HIDE DEF t, row
      <3> QED
        BY <1>9, <2>1, <3>1, <3>2, OneQuietRow DEF Heartbeat
    <2>3. CASE ~Owns(w)
      BY <1>9, <2>3, QuietIsStutter DEF Heartbeat, QuietRow
    <2> QED
      BY <2>2, <2>3
  <1>10. ASSUME NEW t \in Tasks, LeaseLapses(t)
         PROVE  UNCHANGED Versions!vars
    <2> DEFINE row == [task[t] EXCEPT !.lease_expires_at = "past"]
    <2>1. task' = [task EXCEPT ![t] = row]
      BY <1>10 DEF LeaseLapses
    <2>2. QuietRow(task[t], row)
      BY <1>10, QuietRows DEF LeaseLapses, LeaseMoved
    <2> HIDE DEF row
    <2> QED
      BY <1>10, <2>1, <2>2, OneQuietRow DEF LeaseLapses
  <1>11. ASSUME NEW t \in Tasks, BackoffElapses(t)
         PROVE  UNCHANGED Versions!vars
    <2> DEFINE row == [task[t] EXCEPT !.lease_expires_at = "past", !.next_attempt_at = "past"]
    <2>1. task' = [task EXCEPT ![t] = row]
      BY <1>11 DEF BackoffElapses
    <2>2. QuietRow(task[t], row)
      BY <1>11, QuietRows DEF BackoffElapses, BackoffOver
    <2> HIDE DEF row
    <2> QED
      BY <1>11, <2>1, <2>2, OneQuietRow DEF BackoffElapses
  <1>12. ASSUME NEW S \in SUBSET Tasks, ScanAndRecover(S)
         PROVE  UNCHANGED Versions!vars
    <2>1. \A t \in Tasks : QuietRow(task[t], task'[t])
      BY <1>12, QuietRows DEF ScanAndRecover, Orphans, Recovered
    <2> QED
      BY <1>12, <2>1, QuietIsStutter DEF ScanAndRecover
  <1> QED
    BY <1>1, <1>2, <1>3, <1>4, <1>7, <1>8, <1>9, <1>10, <1>11, <1>12
    DEF Next, Abandon, vars, dbVars

LEMMA InitRefines == Init => Versions!Init
  BY DEF Init, NewRow, JobState, Versions!Init

\* TaskLease implements DocumentVersions: leases, tokens, retries, recoveries
\* and stale workers add up to one publication per task at most, each moving
\* the document's visible version by at most one and never back.
THEOREM LeaseImplementsVersions == Spec => ImplementsVersions
  <1>1. Init => Versions!Init
    BY InitRefines
  <1>2. TypeOK /\ RowsInv /\ TargetsInv /\ [Next]_vars => [Versions!Next]_(Versions!vars)
    BY StepRefines
  <1> QED
    BY <1>1, <1>2, TargetsHold, PTL DEF Spec, ImplementsVersions, Versions!Spec

(***************************************************************************)
(* Who may change a row                                                    *)
(***************************************************************************)

\* A step that changes the record of a worker with a task is its own.
LEMMA OwnStep ==
  ASSUME TypeOK, [Next]_vars, NEW w \in Workers,
         execution[w].pc # "idle", execution'[w] # execution[w]
  PROVE  WorkerStep(w) \/ Heartbeat(w) \/ Abandon(w)
  <1>1. ASSUME NEW v \in Workers, NEW t \in Tasks, Acquire(v, t)
        PROVE  FALSE
    BY <1>1 DEF Acquire, TypeOK
  <1>2. ASSUME NEW v \in Workers, v # w, WorkerStep(v) \/ Heartbeat(v) \/ Abandon(v)
        PROVE  FALSE
    BY <1>2
    DEF TypeOK, WorkerStep, BeginProcessing, DocumentMissing, ProcessingRaises,
        ProcessingReturns, Complete, CompleteUnconfirmed, CompleteFails, ReportFailure,
        Heartbeat, Abandon, Finish
  <1> QED
    BY <1>1, <1>2
    DEF Next, Upload, Reingest, RetryTask, DeleteDocument, LeaseLapses, BackoffElapses,
        ScanAndRecover, vars

StaleStep ==
  \A w \in Workers :
    /\ execution[w].pc # "idle"
    /\ execution[w].token # task[execution[w].task].fencing_token
    /\ execution'[w] # execution[w]
    => UNCHANGED dbVars

LEMMA StaleStepHolds ==
  ASSUME TypeOK, [Next]_vars
  PROVE  StaleStep
  <1> SUFFICES ASSUME NEW w \in Workers, execution[w].pc # "idle",
                      execution[w].token # task[execution[w].task].fencing_token,
                      execution'[w] # execution[w]
               PROVE  UNCHANGED dbVars
    BY DEF StaleStep
  <1>1. WorkerStep(w) \/ Heartbeat(w) \/ Abandon(w)
    BY OwnStep
  <1>2. ~Owns(w)
    BY DEF Owns
  <1> QED
    BY <1>1, <1>2
    DEF WorkerStep, BeginProcessing, DocumentMissing, ProcessingRaises, ProcessingReturns,
        Complete, CompleteUnconfirmed, Completes, CompleteFails, ReportFailure, FailOwnRow,
        Heartbeat, Abandon, dbVars

\* A worker that lost its task, to the scanner, an operator's retry or a
\* later claim, ends its pass without changing a row or a document, whatever
\* point of the pass it had reached.
THEOREM StaleWorkersAreHarmless == Spec => StaleWorkerIsHarmless
  <1>1. TypeOK /\ [Next]_vars => [StaleStep]_vars
    BY StaleStepHolds
  <1> QED
    BY <1>1, TypeCorrect, PTL DEF Spec, StaleWorkerIsHarmless, StaleStep

EndedByHolder(t) ==
  \E w \in Workers : /\ execution[w].task = t
                     /\ execution[w].token = task[t].fencing_token
                     /\ execution'[w] # execution[w]

LeaseStep ==
  \A t \in Tasks :
    /\ task[t].status = "RUNNING"
    /\ task[t].lease_expires_at = "ahead"
    /\ task'[t].status \notin { "RUNNING", "DELETED" }
    => EndedByHolder(t)

\* The worker whose step ends the task of a row had that row's token.
LEMMA WorkerEndsOwnTask ==
  ASSUME TypeOK, NEW w \in Workers, WorkerStep(w), NEW t \in Tasks,
         task'[t].status # task[t].status
  PROVE  EndedByHolder(t)
  <1>1. /\ Owns(w) /\ execution[w].task = t
        /\ execution[w].pc # "idle"
        /\ \/ Finish(w)
           \/ execution' = [execution EXCEPT ![w].pc = "failing"] /\ execution[w].pc = "built"
    BY DEF TypeOK, TaskRow, Execution, WorkerStep, BeginProcessing, DocumentMissing,
           ProcessingRaises, ProcessingReturns, Complete, CompleteUnconfirmed, Completes,
           CompleteFails, ReportFailure, FailOwnRow, dbVars
  <1>2. execution'[w].pc # execution[w].pc
    BY <1>1 DEF TypeOK, Execution, Finish, Idle
  <1> QED
    BY <1>1, <1>2 DEF EndedByHolder, Owns

LEMMA LeaseStepHolds ==
  ASSUME TypeOK, [Next]_vars
  PROVE  LeaseStep
  <1> SUFFICES ASSUME NEW t \in Tasks, task[t].status = "RUNNING",
                      task[t].lease_expires_at = "ahead",
                      task'[t].status \notin { "RUNNING", "DELETED" }
               PROVE  EndedByHolder(t)
    BY DEF LeaseStep
  <1> USE DEF TypeOK, TaskRow
  <1>1. ASSUME NEW w \in Workers, WorkerStep(w)
        PROVE  EndedByHolder(t)
    BY <1>1, WorkerEndsOwnTask
  <1>2. ASSUME NEW d \in Docs, NEW u \in Tasks, Upload(d, u) \/ Reingest(d, u)
        PROVE  FALSE
    BY <1>2 DEF Upload, Reingest
  <1>3. ASSUME NEW u \in Tasks, RetryTask(u) \/ LeaseLapses(u) \/ BackoffElapses(u)
        PROVE  FALSE
    BY <1>3 DEF RetryTask, LeaseLapses, BackoffElapses
  <1>4. ASSUME NEW d \in Docs, DeleteDocument(d)
        PROVE  FALSE
    BY <1>4 DEF DeleteDocument
  <1>5. ASSUME NEW w \in Workers, NEW u \in Tasks, Acquire(w, u)
        PROVE  FALSE
    BY <1>5 DEF Acquire, Claimable
  <1>6. ASSUME NEW w \in Workers, Heartbeat(w) \/ Abandon(w)
        PROVE  FALSE
    BY <1>6 DEF Heartbeat, Abandon, dbVars, Execution
  <1>7. ASSUME NEW S \in SUBSET Tasks, ScanAndRecover(S)
        PROVE  FALSE
    BY <1>7 DEF ScanAndRecover, Orphans
  <1> QED
    BY <1>1, <1>2, <1>3, <1>4, <1>5, <1>6, <1>7 DEF Next, vars

\* While a lease has time left, nobody but its holder ends the task: not the
\* scanner, not another worker, not an operator's retry.
THEOREM LeasesAreRespected == Spec => LeaseIsRespected
  <1>1. TypeOK /\ [Next]_vars => [LeaseStep]_vars
    BY LeaseStepHolds
  <1> QED
    BY <1>1, TypeCorrect, PTL DEF Spec, LeaseIsRespected, LeaseStep, EndedByHolder

(***************************************************************************)
(* The table of transitions                                                *)
(***************************************************************************)

BypassStep ==
  \A t \in Tasks :
    Live(t) /\ Live(t)' /\ task'[t].status # task[t].status
      => \/ can_transition(task[t].status, task'[t].status)
         \/ <<task[t].status, task'[t].status>>
              \in { <<"RUNNING", "DEAD_LETTER">>, <<"DEAD_LETTER", "PENDING">> }

LEMMA BypassStepHolds ==
  ASSUME TypeOK, [Next]_vars
  PROVE  BypassStep
  <1> SUFFICES ASSUME NEW t \in Tasks, Live(t), Live(t)',
                      task'[t].status # task[t].status
               PROVE  \/ can_transition(task[t].status, task'[t].status)
                      \/ <<task[t].status, task'[t].status>>
                           \in { <<"RUNNING", "DEAD_LETTER">>, <<"DEAD_LETTER", "PENDING">> }
    BY DEF BypassStep
  <1> DEFINE old == task[t]
             new == task'[t]
  <1>1. RowStep(old, new) /\ old \in TaskRow
    BY StepsRows DEF RowsStep, TypeOK
  <1>2. old.status \notin { "ABSENT", "DELETED" } /\ new.status \notin { "ABSENT", "DELETED" }
    BY DEF Live
  <1> HIDE DEF old, new
  <1>3. \/ old.status \in { "FAILED", "DEAD_LETTER" } /\ new.status = "PENDING"
        \/ old.status \in { "PENDING", "RETRY_WAITING" } /\ new.status = "RUNNING"
        \/ /\ old.status = "RUNNING"
           /\ new.status \in { "FAILED", "SUCCEEDED", "PARTIAL_SUCCEEDED",
                               "RETRY_WAITING", "DEAD_LETTER" }
        \/ new.status = old.status
    <2> USE DEF TaskRow
    <2>1. CASE Retried(old, new)
      BY <1>1, <2>1 DEF Retried, RetriedRow
    <2>2. CASE Acquired(old, new)
      BY <1>1, <2>2 DEF Acquired, AcquiredRow
    <2>3. CASE Completed(old, new)
      BY <1>1, <2>3 DEF Completed, CompletedRow
    <2>4. CASE Recovered(old, new)
      BY <1>1, <2>4 DEF Recovered, RecoveredRow
    <2>5. CASE Failed(old, new) \/ LeaseMoved(old, new) \/ BackoffOver(old, new)
      BY <1>1, <2>5 DEF Failed, LeaseMoved, BackoffOver
    <2>6. CASE Created(old, new) \/ Deleted(old, new)
      BY <1>1, <1>2, <2>6 DEF Created, Deleted
    <2> QED
      BY <1>1, <2>1, <2>2, <2>3, <2>4, <2>5, <2>6 DEF RowStep
  <1> QED
    BY <1>3 DEF old, new, can_transition, ALLOWED_TRANSITIONS, TaskState

\* The FSM's table governs every change of a status, except where the scanner
\* dead-letters a RUNNING task and where a dead letter is retried.
THEOREM BypassesAreKnown == Spec => OnlyKnownBypasses
  <1>1. TypeOK /\ [Next]_vars => [BypassStep]_vars
    BY BypassStepHolds
  <1> QED
    BY <1>1, TypeCorrect, PTL DEF Spec, OnlyKnownBypasses, BypassStep

(***************************************************************************)
(* What is active has succeeded                                            *)
(***************************************************************************)

\* A SUCCEEDED row is left as it is until its document is deleted.
LEMMA SuccessStays ==
  ASSUME TypeOK, RowsInv, [Next]_vars, NEW t \in Tasks, task[t].status = "SUCCEEDED"
  PROVE  task'[t] = task[t] \/ document'[task[t].doc_id] = "DELETED"
  <1>1. task[t].doc_id \in Docs
    BY DEF RowsInv, RowInv
  <1>2. ASSUME NEW d \in Docs, DeleteDocument(d)
        PROVE  task'[t] = task[t] \/ document'[task[t].doc_id] = "DELETED"
    BY <1>1, <1>2 DEF DeleteDocument, TypeOK
  <1>3. RowStep(task[t], task'[t]) /\ ~Deleted(task[t], task'[t]) => task'[t] = task[t]
    BY DEF RowStep, Created, Retried, Acquired, Failed, Completed, Recovered, LeaseMoved,
           BackoffOver
  <1>4. Deleted(task[t], task'[t]) => task'[t].status = "DELETED"
    BY DEF Deleted, TypeOK, TaskRow
  <1>5. \/ \E d \in Docs : DeleteDocument(d)
        \/ task'[t].status # "DELETED"
    <2> SUFFICES ASSUME ~\E d \in Docs : DeleteDocument(d)
                 PROVE  task'[t] = task[t]
      OBVIOUS
    <2> USE DEF TypeOK
    <2>1. ASSUME NEW w \in Workers, WorkerStep(w)
          PROVE  task'[t] = task[t]
      BY <2>1
      DEF Execution, WorkerStep, BeginProcessing, DocumentMissing, ProcessingRaises,
          ProcessingReturns, Complete, CompleteUnconfirmed, Completes, CompleteFails,
          ReportFailure, FailOwnRow, Owns, dbVars
    <2>2. ASSUME NEW u \in Tasks, \/ \E d \in Docs : Upload(d, u) \/ Reingest(d, u)
                                  \/ \E w \in Workers : Acquire(w, u)
                                  \/ RetryTask(u) \/ LeaseLapses(u) \/ BackoffElapses(u)
          PROVE  task'[t] = task[t]
      BY <2>2 DEF Upload, Reingest, Acquire, Claimable, RetryTask, LeaseLapses, BackoffElapses
    <2>3. ASSUME NEW w \in Workers, Heartbeat(w) \/ Abandon(w)
          PROVE  task'[t] = task[t]
      BY <2>3 DEF Heartbeat, Abandon, Owns, dbVars, Execution
    <2>4. ASSUME NEW S \in SUBSET Tasks, ScanAndRecover(S)
          PROVE  task'[t] = task[t]
      BY <2>4 DEF ScanAndRecover, Orphans
    <2> QED
      BY <2>1, <2>2, <2>3, <2>4 DEF Next, vars
  <1> QED
    BY <1>2, <1>3, <1>4, <1>5, StepsRows DEF RowsStep

\* A generation becomes active by an upload, as the first, or by the success
\* of a task that targets it.
LEMMA GenerationIsNew ==
  ASSUME TypeOK, RowsInv, [Next]_vars, NEW d \in Docs,
         active_generation'[d] # active_generation[d]
  PROVE  \/ active_generation'[d] = 1
         \/ \E t \in Tasks : /\ task'[t].status = "SUCCEEDED"
                             /\ task'[t].doc_id = d
                             /\ task'[t].target_generation = active_generation'[d]
  <1>1. ASSUME NEW w \in Workers, Completes(w)
        PROVE  \E t \in Tasks : /\ task'[t].status = "SUCCEEDED"
                                /\ task'[t].doc_id = d
                                /\ task'[t].target_generation = active_generation'[d]
    <2>1. PICK t \in Tasks :
            /\ task' = [task EXCEPT ![t] = CompletedRow(task[t], "SUCCEEDED")]
            /\ active_generation' = [active_generation EXCEPT
                  ![task[t].doc_id] = task[t].target_generation]
      BY <1>1, CompletesDocuments
    <2>2. task[t].doc_id = d /\ active_generation'[d] = task[t].target_generation
      BY <2>1 DEF TypeOK
    <2> QED
      BY <2>1, <2>2 DEF TypeOK, TaskRow, CompletedRow
  <1>2. ASSUME NEW w \in Workers, WorkerStep(w)
        PROVE  Completes(w)
    BY <1>2, QuietWorker
  <1>3. ASSUME NEW e \in Docs, NEW t \in Tasks, Upload(e, t)
        PROVE  active_generation'[d] = 1
    BY <1>3 DEF Upload, TypeOK
  <1> QED
    BY <1>1, <1>2, <1>3
    DEF Next, Reingest, RetryTask, DeleteDocument, Acquire, Heartbeat, Abandon, LeaseLapses,
        BackoffElapses, ScanAndRecover, vars, dbVars

LEMMA PresentStays ==
  ASSUME TypeOK, RowsInv, TargetsInv, [Next]_vars, NEW d \in Docs,
         document'[d] = "PRESENT", active_generation'[d] > 1
  PROVE  document[d] = "PRESENT" \/ active_generation'[d] # active_generation[d]
  <1>1. ASSUME NEW e \in Docs, NEW t \in Tasks, Upload(e, t)
        PROVE  document[d] = "PRESENT"
    BY <1>1 DEF Upload, TypeOK
  <1>2. ASSUME NEW e \in Docs, DeleteDocument(e)
        PROVE  document[d] = "PRESENT"
    BY <1>2 DEF DeleteDocument, TypeOK
  <1>3. ASSUME NEW w \in Workers, WorkerStep(w)
        PROVE  document[d] = "PRESENT"
    BY <1>3, CompletesDocuments, QuietWorker
  <1> QED
    BY <1>1, <1>2, <1>3
    DEF Next, Reingest, RetryTask, Acquire, Heartbeat, Abandon, LeaseLapses,
        BackoffElapses, ScanAndRecover, vars, dbVars

LEMMA BackedStep ==
  ASSUME TypeOK, RowsInv, TargetsInv, ActiveIsBacked, [Next]_vars
  PROVE  ActiveIsBacked'
  <1> SUFFICES ASSUME NEW d \in Docs, document'[d] = "PRESENT", active_generation'[d] > 1
               PROVE  \E t \in Tasks : /\ task'[t].status = "SUCCEEDED"
                                       /\ task'[t].doc_id = d
                                       /\ task'[t].target_generation = active_generation'[d]
    BY DEF ActiveIsBacked
  <1>1. CASE active_generation'[d] # active_generation[d]
    BY <1>1, GenerationIsNew
  <1>2. CASE active_generation'[d] = active_generation[d]
    <2>1. PICK t \in Tasks : /\ task[t].status = "SUCCEEDED"
                             /\ task[t].doc_id = d
                             /\ task[t].target_generation = active_generation[d]
      BY <1>2, PresentStays DEF ActiveIsBacked
    <2>2. task'[t] = task[t]
      BY <2>1, SuccessStays
    <2> QED
      BY <1>2, <2>1, <2>2
  <1> QED
    BY <1>1, <1>2

\* Readers never see a re-ingestion that did not succeed in full: a
\* generation beyond the first is active only behind a SUCCEEDED task of its
\* document that targeted it, and that row stays for as long as the document.
THEOREM OnlySuccessIsActive == Spec => []ActiveIsBacked
  <1>1. Init => ActiveIsBacked
    BY DEF Init, ActiveIsBacked
  <1>2. TypeOK /\ RowsInv /\ TargetsInv /\ ActiveIsBacked /\ [Next]_vars => ActiveIsBacked'
    BY BackedStep
  <1> QED
    BY <1>1, <1>2, TargetsHold, PTL DEF Spec

\* Not only the active generation: each one up to it was published in turn.
PublishedInTurn ==
  \A d \in Docs : document[d] = "PRESENT" =>
    \A g \in 2 .. active_generation[d] :
      \E t \in Tasks : /\ task[t].status = "SUCCEEDED"
                       /\ task[t].doc_id = d
                       /\ task[t].target_generation = g

LEMMA PublishedInTurnStep ==
  ASSUME TypeOK, RowsInv, TargetsInv, PublishedInTurn, [Next]_vars
  PROVE  PublishedInTurn'
  <1> SUFFICES ASSUME NEW d \in Docs, document'[d] = "PRESENT",
                      NEW g \in 2 .. active_generation'[d]
               PROVE  \E t \in Tasks : /\ task'[t].status = "SUCCEEDED"
                                       /\ task'[t].doc_id = d
                                       /\ task'[t].target_generation = g
    BY DEF PublishedInTurn
  <1>1. active_generation[d] \in Nat /\ active_generation'[d] \in Nat /\ g \in Nat /\ g >= 2
    BY DocumentStep DEF TypeOK
  <1>2. CASE g = active_generation'[d] /\ active_generation'[d] # active_generation[d]
    BY <1>1, <1>2, GenerationIsNew
  <1>3. ASSUME g <= active_generation[d], document[d] = "PRESENT"
        PROVE  \E t \in Tasks : /\ task'[t].status = "SUCCEEDED"
                                /\ task'[t].doc_id = d
                                /\ task'[t].target_generation = g
    <2>1. PICK t \in Tasks : /\ task[t].status = "SUCCEEDED"
                             /\ task[t].doc_id = d
                             /\ task[t].target_generation = g
      BY <1>1, <1>3 DEF PublishedInTurn
    <2>2. task'[t] = task[t]
      BY <2>1, SuccessStays
    <2> QED
      BY <2>1, <2>2
  <1>4. active_generation'[d] <= active_generation[d] + 1
    <2>1. ASSUME NEW w \in Workers, Completes(w)
          PROVE  active_generation'[d] <= active_generation[d] + 1
      <3>1. PICK t \in Tasks :
              /\ task[t].status = "RUNNING"
              /\ \/ active_generation' = active_generation
                 \/ active_generation' = [active_generation EXCEPT
                       ![task[t].doc_id] = task[t].target_generation]
        BY <2>1, CompletesDocuments
      <3>2. task[t].target_generation <= active_generation[task[t].doc_id] + 1
        BY <3>1 DEF TargetsInv
      <3> QED
        BY <1>1, <3>1, <3>2 DEF TypeOK
    <2>2. ASSUME NEW w \in Workers, WorkerStep(w)
          PROVE  active_generation'[d] <= active_generation[d] + 1
      BY <1>1, <2>1, <2>2, QuietWorker
    <2>3. ASSUME NEW e \in Docs, NEW t \in Tasks, Upload(e, t)
          PROVE  active_generation'[d] <= active_generation[d] + 1
      BY <1>1, <2>3 DEF Upload, TypeOK
    <2>4. \/ UNCHANGED active_generation
          \/ \E w \in Workers : WorkerStep(w)
          \/ \E e \in Docs, t \in Tasks : Upload(e, t)
      BY DEF Next, Reingest, RetryTask, DeleteDocument, Acquire, Heartbeat, Abandon, LeaseLapses,
             BackoffElapses, ScanAndRecover, vars, dbVars
    <2> QED
      BY <1>1, <2>2, <2>3, <2>4
  <1>5. document[d] = "PRESENT" \/ active_generation'[d] # active_generation[d]
    BY <1>1, PresentStays
  <1>6. \/ document[d] = "PRESENT"
        \/ active_generation'[d] = active_generation[d]
        \/ active_generation'[d] = 1
    <2>1. ASSUME NEW w \in Workers, Completes(w)
          PROVE  document[d] = "PRESENT" \/ active_generation'[d] = active_generation[d]
      BY <2>1, CompletesDocuments DEF Publishable, TypeOK
    <2>2. ASSUME NEW w \in Workers, WorkerStep(w)
          PROVE  document[d] = "PRESENT" \/ active_generation'[d] = active_generation[d]
      BY <2>1, <2>2, QuietWorker
    <2>3. ASSUME NEW e \in Docs, NEW t \in Tasks, Upload(e, t)
          PROVE  active_generation'[d] = active_generation[d] \/ active_generation'[d] = 1
      BY <2>3 DEF Upload, TypeOK
    <2> QED
      BY <2>2, <2>3
      DEF Next, Reingest, RetryTask, DeleteDocument, Acquire, Heartbeat, Abandon, LeaseLapses,
          BackoffElapses, ScanAndRecover, vars, dbVars
  <1> QED
    BY <1>1, <1>2, <1>3, <1>4, <1>5, <1>6

(***************************************************************************)
(* What a worker has claimed                                               *)
(***************************************************************************)

\* From its claim on, a worker's task has a row.
StartedInv ==
  \A w \in Workers : execution[w].pc # "idle" => task[execution[w].task].status # "ABSENT"

\* A worker that is busy before and after a step is so with the same task.
LEMMA KeepsTask ==
  ASSUME TypeOK, [Next]_vars, NEW w \in Workers,
         execution[w].pc # "idle", execution'[w].pc # "idle"
  PROVE  execution'[w].task = execution[w].task
  <1>1. CASE execution'[w] = execution[w]
    BY <1>1
  <1>2. CASE WorkerStep(w) \/ Heartbeat(w) \/ Abandon(w)
    BY <1>2
    DEF TypeOK, Execution, Idle, WorkerStep, BeginProcessing, DocumentMissing, ProcessingRaises,
        ProcessingReturns, Complete, CompleteUnconfirmed, CompleteFails, ReportFailure,
        Heartbeat, Abandon, Finish
  <1> QED
    BY <1>1, <1>2, OwnStep

\* A worker becomes busy by claiming a task.
LEMMA ClaimsTask ==
  ASSUME TypeOK, [Next]_vars, NEW w \in Workers,
         execution[w].pc = "idle", execution'[w].pc # "idle"
  PROVE  execution'[w].pc = "claimed" /\ task'[execution'[w].task].status = "RUNNING"
  <1>1. ASSUME NEW v \in Workers, NEW t \in Tasks, Acquire(v, t)
        PROVE  execution'[w].pc = "claimed" /\ task'[execution'[w].task].status = "RUNNING"
    <2> DEFINE row == AcquiredRow(v, task[t])
               begun == [Idle EXCEPT !.pc = "claimed", !.task = t, !.token = row.fencing_token]
    <2>1. row.status = "RUNNING" /\ begun.pc = "claimed" /\ begun.task = t
      BY DEF AcquiredRow, TypeOK, TaskRow, Idle
    <2>2. execution' = [execution EXCEPT ![v] = begun] /\ task' = [task EXCEPT ![t] = row]
      BY <1>1 DEF Acquire
    <2> HIDE DEF row, begun
    <2> QED
      BY <2>1, <2>2 DEF TypeOK
  <1>2. ASSUME NEW v \in Workers, WorkerStep(v) \/ Heartbeat(v) \/ Abandon(v)
        PROVE  execution'[w] = execution[w]
    <2>1. v # w
      BY <1>2
      DEF TypeOK, WorkerStep, BeginProcessing, DocumentMissing, ProcessingRaises,
          ProcessingReturns, Complete, CompleteUnconfirmed, Completes, CompleteFails,
          ReportFailure, Heartbeat, Abandon, Finish, Idle
    <2> QED
      BY <1>2, <2>1
      DEF TypeOK, WorkerStep, BeginProcessing, DocumentMissing, ProcessingRaises,
          ProcessingReturns, Complete, CompleteUnconfirmed, CompleteFails, ReportFailure,
          Heartbeat, Abandon, Finish
  <1> QED
    BY <1>1, <1>2
    DEF Next, Upload, Reingest, RetryTask, DeleteDocument, LeaseLapses, BackoffElapses,
        ScanAndRecover, vars

\* The row of a task that exists keeps its document and its target.
LEMMA TargetStays ==
  ASSUME TypeOK, RowsInv, [Next]_vars, NEW t \in Tasks, task[t].status # "ABSENT"
  PROVE  /\ task'[t].status # "ABSENT"
         /\ task'[t].doc_id = task[t].doc_id
         /\ task'[t].target_generation = task[t].target_generation
  <1>1. /\ RowStep(task[t], task'[t])
        /\ task[t] \in TaskRow /\ RowInv(task[t])
    BY StepsRows DEF RowsStep, RowsInv, TypeOK
  <1> QED
    BY <1>1, RowKeepsTarget DEF Created

LEMMA StartedStep ==
  ASSUME TypeOK, RowsInv, StartedInv, [Next]_vars
  PROVE  StartedInv'
  <1> SUFFICES ASSUME NEW w \in Workers, execution'[w].pc # "idle"
               PROVE  task'[execution'[w].task].status # "ABSENT"
    BY DEF StartedInv
  <1>1. CASE execution[w].pc = "idle"
    BY <1>1, ClaimsTask
  <1>2. CASE execution[w].pc # "idle"
    <2>1. execution[w].task \in Tasks
      BY <1>2 DEF TypeOK, Execution
    <2> QED
      BY <1>2, <2>1, KeepsTask, TargetStays DEF StartedInv
  <1> QED
    BY <1>1, <1>2

\* A result is in hand only after processing, and a task succeeds only
\* through a worker with the result in hand.
LEMMA BuiltByProcessing ==
  ASSUME TypeOK, [Next]_vars, NEW w \in Workers, execution'[w].pc = "built"
  PROVE  execution[w].pc \in { "processing", "built" }
  <1>1. CASE execution'[w] = execution[w]
    BY <1>1
  <1>2. CASE WorkerStep(w) \/ Heartbeat(w) \/ Abandon(w)
    BY <1>2
    DEF TypeOK, Execution, Idle, WorkerStep, BeginProcessing, DocumentMissing, ProcessingRaises,
        ProcessingReturns, Complete, CompleteUnconfirmed, CompleteFails, ReportFailure,
        Heartbeat, Abandon, Finish
  <1>3. CASE execution[w].pc = "idle"
    BY <1>3, ClaimsTask
  <1> QED
    BY <1>1, <1>2, <1>3, OwnStep

LEMMA SuccessByWorker ==
  ASSUME TypeOK, RowsInv, [Next]_vars, NEW t \in Tasks,
         task'[t].status = "SUCCEEDED", task[t].status # "SUCCEEDED"
  PROVE  \E w \in Workers : execution[w].pc = "built" /\ execution[w].task = t
  <1> USE DEF TypeOK
  <1>1. ASSUME NEW w \in Workers, Completes(w)
        PROVE  execution[w].pc = "built" /\ execution[w].task = t
    <2>1. PICK u \in Tasks : /\ u = execution[w].task
                             /\ \A v \in Tasks : v # u => task'[v] = task[v]
      BY <1>1, CompletesDocuments
    <2> QED
      BY <1>1, <2>1 DEF Completes
  <1>2. ASSUME NEW w \in Workers, WorkerStep(w), ~Completes(w)
        PROVE  FALSE
    BY <1>2, QuietWorker, ZenonT(40) DEF FailOwnRow, Execution, TaskRow
  <1>3. ASSUME NEW d \in Docs, NEW u \in Tasks, Upload(d, u) \/ Reingest(d, u)
        PROVE  FALSE
    BY <1>3 DEF Upload, Reingest, CreatedRow, NewRow
  <1>4. ASSUME NEW u \in Tasks, RetryTask(u) \/ LeaseLapses(u) \/ BackoffElapses(u)
        PROVE  FALSE
    BY <1>4, ZenonT(40) DEF RetryTask, RetriedRow, LeaseLapses, BackoffElapses, TaskRow
  <1>5. ASSUME NEW w \in Workers, NEW u \in Tasks, Acquire(w, u)
        PROVE  FALSE
    BY <1>5 DEF Acquire, AcquiredRow, TaskRow
  <1>6. ASSUME NEW w \in Workers, Heartbeat(w) \/ Abandon(w)
        PROVE  FALSE
    BY <1>6, SMTT(30) DEF Heartbeat, Abandon, Owns, Execution, TaskRow, dbVars
  <1>7. ASSUME NEW S \in SUBSET Tasks, ScanAndRecover(S)
        PROVE  FALSE
    BY <1>7 DEF ScanAndRecover, RecoveredRow, TaskRow
  <1>8. ASSUME NEW d \in Docs, DeleteDocument(d)
        PROVE  FALSE
    BY <1>8 DEF DeleteDocument, TaskRow
  <1> QED
    BY <1>1, <1>2, <1>3, <1>4, <1>5, <1>6, <1>7, <1>8 DEF Next, vars
=============================================================================
