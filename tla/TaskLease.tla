----------------------------- MODULE TaskLease -----------------------------
(***************************************************************************)
(* Ownership of ingestion tasks: the rows of the tasks and documents       *)
(* tables, the API handlers and the recovery scanner that rewrite them,    *)
(* and worker processes that execute a task under a lease while its row    *)
(* may be taken away from them (src/src/services/task_service.py,          *)
(* src/src/core/tasks/lease.py and recovery.py, src/worker/main.py).       *)
(*                                                                         *)
(* Every action that touches a row is one PostgreSQL transaction.  How a   *)
(* worker comes to hear of a task is left open here (any idle worker may   *)
(* acquire any claimable task); TaskDelivery adds outbox and stream.       *)
(***************************************************************************)
EXTENDS Naturals, FiniteSets, TaskFSM

CONSTANTS
  Tasks,            \* task ids (uuid4: an id is used once)
  Docs,             \* document ids (uuid4: an id is used once)
  Workers,          \* WORKER_ID of each worker process
  None,             \* SQL NULL / Python None
  MaxAttempts,      \* scan_and_recover(max_attempts=3)
  MaxActiveTasks,   \* the tenant's active-task quota
  MaxRetries        \* model bound: manual retries of one task

ASSUME TaskLeaseAssumption ==
  /\ MaxAttempts \in Nat \ {0}
  /\ MaxActiveTasks \in Nat
  /\ MaxRetries \in Nat
  /\ None \notin Tasks \cup Docs \cup Workers

VARIABLES
  task,               \* the tasks table
  document,           \* does the documents row exist: ABSENT, PRESENT or DELETED
  active_generation,  \* documents.active_generation
  execution           \* what each worker process is doing

vars == <<task, document, active_generation, execution>>
dbVars == <<task, document, active_generation>>

(***************************************************************************)
(* A timestamp is modelled by what the code asks of it: is it NULL, still  *)
(* ahead of now, or past.  ABSENT and DELETED are the two ways a task id   *)
(* has no row; a deleted row keeps its columns in the model so that a      *)
(* process that still remembers the task can be told from a fresh id.      *)
(***************************************************************************)
Timestamp == { "null", "ahead", "past" }
RowStatus == TaskState \cup { "ABSENT", "DELETED" }

TaskRow ==
  [ status : RowStatus, doc_id : Docs \cup {None},
    attempt : Nat, retry_count : Nat, fencing_token : Nat,
    worker_id : Workers \cup {None},
    lease_expires_at : Timestamp, next_attempt_at : Timestamp,
    target_generation : Nat ]

\* Columns of a new row (Task column defaults); an unused id has them too.
NewRow ==
  [ status |-> "ABSENT", doc_id |-> None,
    attempt |-> 0, retry_count |-> 0, fencing_token |-> 1,
    worker_id |-> None,
    lease_expires_at |-> "null", next_attempt_at |-> "null",
    target_generation |-> 1 ]

\* pc of a worker's pass through the message loop: between messages; lease
\* acquired; inside process_document; its result in hand; in the except block.
WorkerPC == { "idle", "claimed", "processing", "built", "failing" }

Execution ==
  [ pc : WorkerPC, task : Tasks \cup {None}, token : Nat,
    heartbeat : BOOLEAN, partial : BOOLEAN ]

Idle == [ pc |-> "idle", task |-> None, token |-> 0,
          heartbeat |-> FALSE, partial |-> FALSE ]

TypeOK ==
  /\ task \in [Tasks -> TaskRow]
  /\ document \in [Docs -> { "ABSENT", "PRESENT", "DELETED" }]
  /\ active_generation \in [Docs -> Nat]
  /\ execution \in [Workers -> Execution]
  /\ \A w \in Workers :
       execution[w].pc = "idle" <=> execution[w].task = None

Init ==
  /\ task = [t \in Tasks |-> NewRow]
  /\ document = [d \in Docs |-> "ABSENT"]
  /\ active_generation = [d \in Docs |-> 0]
  /\ execution = [w \in Workers |-> Idle]

ActiveTasks == { t \in Tasks : task[t].status \in ActiveStates }
BelowTaskQuota == Cardinality(ActiveTasks) < MaxActiveTasks

(***************************************************************************)
(* API handlers                                                            *)
(***************************************************************************)

CreatedRow(d, g) ==
  [NewRow EXCEPT !.status = "PENDING", !.doc_id = d, !.target_generation = g]

\* upload_document, its commit: the document, its task and (TaskDelivery)
\* the outbox event.  Both generations are the column default, 1.
Upload(d, t) ==
  /\ document[d] = "ABSENT"
  /\ task[t].status = "ABSENT"
  /\ BelowTaskQuota
  /\ document' = [document EXCEPT ![d] = "PRESENT"]
  /\ active_generation' = [active_generation EXCEPT ![d] = 1]
  /\ task' = [task EXCEPT ![t] = CreatedRow(d, 1)]
  /\ UNCHANGED execution

NextGeneration(d) == active_generation[d] + 1

\* reingest_document: the document row is locked while its next generation
\* is computed from the active one.
Reingest(d, t) ==
  /\ document[d] = "PRESENT"
  /\ task[t].status = "ABSENT"
  /\ BelowTaskQuota
  /\ task' = [task EXCEPT ![t] = CreatedRow(d, NextGeneration(d))]
  /\ UNCHANGED <<document, active_generation, execution>>

\* Mutant: the retry keeps the fencing token.
RetriedRowSameToken(row) ==
  [row EXCEPT !.status = "PENDING", !.retry_count = @ + 1, !.worker_id = None,
              !.lease_expires_at = "null", !.next_attempt_at = "null"]

\* Mutant: the retry starts the task over from the column defaults.
RetriedRowFromDefaults(row) ==
  [row EXCEPT !.status = "PENDING", !.retry_count = @ + 1, !.worker_id = None,
              !.fencing_token = NewRow.fencing_token,
              !.lease_expires_at = "null", !.next_attempt_at = "null"]

RetriedRow(row) ==
  [row EXCEPT !.status = "PENDING",
              !.retry_count = @ + 1,
              !.fencing_token = @ + 1,
              !.worker_id = None,
              !.lease_expires_at = "null",
              !.next_attempt_at = "null"]

\* retry_task: the operator re-enqueues a FAILED or DEAD_LETTER task.
RetryTask(t) ==
  /\ task[t].status \in { "FAILED", "DEAD_LETTER" }
  /\ document[task[t].doc_id] = "PRESENT"
  /\ task[t].retry_count < MaxRetries
  /\ task' = [task EXCEPT ![t] = RetriedRow(@)]
  /\ UNCHANGED <<document, active_generation, execution>>

\* Mutant: the document row goes, its tasks stay.
DeleteWithoutCascade(d) ==
  /\ document[d] = "PRESENT"
  /\ document' = [document EXCEPT ![d] = "DELETED"]
  /\ UNCHANGED <<task, active_generation, execution>>

\* delete_document, its commit: the row goes and its tasks cascade with it.
DeleteDocument(d) ==
  /\ document[d] = "PRESENT"
  /\ document' = [document EXCEPT ![d] = "DELETED"]
  /\ task' = [t \in Tasks |-> IF task[t].doc_id = d
                                THEN [task[t] EXCEPT !.status = "DELETED"]
                                ELSE task[t]]
  /\ UNCHANGED <<active_generation, execution>>

(***************************************************************************)
(* The worker's pass over one message                                      *)
(***************************************************************************)

\* Mutant: anything that is not being worked on can be claimed.
ClaimableUnlessRunning(t) == task[t].status \notin { "RUNNING", "ABSENT", "DELETED" }

Claimable(t) ==
  \/ task[t].status = "PENDING"
  \/ /\ task[t].status = "RETRY_WAITING"
     /\ task[t].next_attempt_at \in { "null", "past" }

\* Mutant: the claim leaves the lease to the first heartbeat.
AcquiredRowWithoutLease(w, row) ==
  [row EXCEPT !.status = "RUNNING", !.worker_id = w, !.attempt = @ + 1,
              !.fencing_token = @ + 1, !.next_attempt_at = "null"]

AcquiredRow(w, row) ==
  [row EXCEPT !.status = "RUNNING",
              !.worker_id = w,
              !.attempt = @ + 1,
              !.fencing_token = @ + 1,
              !.lease_expires_at = "ahead",
              !.next_attempt_at = "null"]

\* acquire_task_lease: SELECT ... FOR UPDATE, then PENDING or due
\* RETRY_WAITING becomes RUNNING with a new fencing token.
Acquire(w, t) ==
  /\ execution[w].pc = "idle"
  /\ Claimable(t)
  /\ task' = [task EXCEPT ![t] = AcquiredRow(w, @)]
  /\ execution' = [execution EXCEPT ![w] =
                     [Idle EXCEPT !.pc = "claimed", !.task = t,
                                  !.token = AcquiredRow(w, task[t]).fencing_token]]
  /\ UNCHANGED <<document, active_generation>>

\* Mutant: the write checks the row's status alone.
OwnsByStatus(w) == task[execution[w].task].status = "RUNNING"

\* The WHERE clause of every write a worker makes to its task's row.
Owns(w) ==
  LET row == task[execution[w].task]
  IN  /\ row.status = "RUNNING"
      /\ row.worker_id = w
      /\ row.fencing_token = execution[w].token

\* update_task_status_cas(RUNNING -> FAILED): FAILED is not terminal in the
\* FSM, so worker_id and lease_expires_at keep their values.
FailOwnRow(w) ==
  task' = IF Owns(w) THEN [task EXCEPT ![execution[w].task].status = "FAILED"]
                     ELSE task

\* Mutant: the worker forgets to drop the task it worked on.
FinishKeepingTask(w) == execution' = [execution EXCEPT ![w].pc = "idle"]

Finish(w) == execution' = [execution EXCEPT ![w] = Idle]

\* The canonical document is found and the tenant's settings load.
BeginProcessing(w) ==
  /\ execution[w].pc = "claimed"
  /\ document[task[execution[w].task].doc_id] = "PRESENT"
  /\ execution' = [execution EXCEPT ![w].pc = "processing", ![w].heartbeat = TRUE]
  /\ UNCHANGED dbVars

\* The document row went between the claim and the lookup.
DocumentMissing(w) ==
  /\ execution[w].pc = "claimed"
  /\ document[task[execution[w].task].doc_id] # "PRESENT"
  /\ FailOwnRow(w)
  /\ Finish(w)
  /\ UNCHANGED <<document, active_generation>>

\* An exception outside the inner try (settings lookup, or the failure CAS
\* itself), cancellation, or the end of the process.  The row stays RUNNING.
Abandon(w) ==
  /\ execution[w].pc # "idle"
  /\ Finish(w)
  /\ UNCHANGED dbVars

\* HeartbeatLeaseGuardian: refresh the lease, or stop beating for good.
Heartbeat(w) ==
  /\ execution[w].pc = "processing"
  /\ execution[w].heartbeat
  /\ IF Owns(w)
       THEN /\ task' = [task EXCEPT ![execution[w].task].lease_expires_at = "ahead"]
            /\ UNCHANGED execution
       ELSE /\ execution' = [execution EXCEPT ![w].heartbeat = FALSE]
            /\ UNCHANGED task
  /\ UNCHANGED <<document, active_generation>>

\* process_document returns; leaving the guardian stops the heartbeat.
ProcessingReturns(w, partial) ==
  /\ execution[w].pc = "processing"
  /\ execution' = [execution EXCEPT ![w].pc = "built", ![w].heartbeat = FALSE,
                                    ![w].partial = partial]
  /\ UNCHANGED dbVars

\* process_document raises: a store or parser error, or a progress report
\* (update_task_progress_cas) that finds the task no longer owned.
ProcessingRaises(w) ==
  /\ execution[w].pc = "processing"
  /\ execution' = [execution EXCEPT ![w].pc = "failing", ![w].heartbeat = FALSE]
  /\ UNCHANGED dbVars

CompletedRow(row, final_status) ==
  [row EXCEPT !.status = final_status,
              !.worker_id = None,
              !.lease_expires_at = "null",
              !.next_attempt_at = "null"]

\* Mutant: publish over any generation.
PublishableOverNewer(t) == document[task[t].doc_id] = "PRESENT"

\* The guard of the document UPDATE inside complete_task_with_generation.
Publishable(t) ==
  /\ document[task[t].doc_id] = "PRESENT"
  /\ active_generation[task[t].doc_id] <= task[t].target_generation

\* Mutant: a partial result publishes its generation too.
CompletesPublishingPartial(w) ==
  LET t == execution[w].task
  IN  /\ execution[w].pc = "built"
      /\ Owns(w)
      /\ Publishable(t)
      /\ task' = [task EXCEPT ![t] =
                    CompletedRow(@, IF execution[w].partial THEN "PARTIAL_SUCCEEDED"
                                                           ELSE "SUCCEEDED")]
      /\ active_generation' =
           [active_generation EXCEPT ![task[t].doc_id] = task[t].target_generation]
      /\ UNCHANGED document

\* complete_task_with_generation commits: the row is finalized and, unless
\* the result was partial, the generation it built becomes the active one.
Completes(w) ==
  LET t == execution[w].task
      d == task[t].doc_id
  IN  /\ execution[w].pc = "built"
      /\ Owns(w)
      /\ \/ /\ execution[w].partial
            /\ task' = [task EXCEPT ![t] = CompletedRow(@, "PARTIAL_SUCCEEDED")]
            /\ UNCHANGED active_generation
         \/ /\ ~execution[w].partial
            /\ Publishable(t)
            /\ task' = [task EXCEPT ![t] = CompletedRow(@, "SUCCEEDED")]
            /\ active_generation' =
                 [active_generation EXCEPT ![d] = task[t].target_generation]
      /\ UNCHANGED document

Complete(w) == Completes(w) /\ Finish(w)

\* The commit takes effect but the worker sees the connection fail.
CompleteUnconfirmed(w) ==
  /\ Completes(w)
  /\ execution' = [execution EXCEPT ![w].pc = "failing"]

\* The row or the document is not what the worker expects (rollback and
\* RuntimeError "ownership lost"), or the transaction itself fails.
CompleteFails(w) ==
  /\ execution[w].pc = "built"
  /\ execution' = [execution EXCEPT ![w].pc = "failing"]
  /\ UNCHANGED dbVars

\* The except block's compare-and-set.
ReportFailure(w) ==
  /\ execution[w].pc = "failing"
  /\ FailOwnRow(w)
  /\ Finish(w)
  /\ UNCHANGED <<document, active_generation>>

(***************************************************************************)
(* Time and the recovery scanner                                           *)
(***************************************************************************)

LeaseLapses(t) ==
  /\ task[t].status = "RUNNING"
  /\ task[t].lease_expires_at = "ahead"
  /\ task' = [task EXCEPT ![t].lease_expires_at = "past"]
  /\ UNCHANGED <<document, active_generation, execution>>

\* RETRY_WAITING carries one deadline in both columns.
BackoffElapses(t) ==
  /\ task[t].status = "RETRY_WAITING"
  /\ task[t].next_attempt_at = "ahead"
  /\ task' = [task EXCEPT ![t].lease_expires_at = "past", ![t].next_attempt_at = "past"]
  /\ UNCHANGED <<document, active_generation, execution>>

\* Mutant: the scanner takes every RUNNING row for an orphan.
OrphansIgnoringLease == { t \in Tasks : task[t].status = "RUNNING" }

Orphans ==
  { t \in Tasks : task[t].status = "RUNNING" /\ task[t].lease_expires_at = "past" }

\* Mutant: one recovery too many before the dead letter.
RecoveredRowInclusive(row) ==
  IF row.attempt + 1 <= MaxAttempts
    THEN [row EXCEPT !.status = "RETRY_WAITING", !.attempt = @ + 1,
                     !.fencing_token = @ + 1, !.lease_expires_at = "ahead",
                     !.next_attempt_at = "ahead", !.worker_id = None]
    ELSE [row EXCEPT !.status = "DEAD_LETTER", !.attempt = @ + 1,
                     !.fencing_token = @ + 1, !.worker_id = None,
                     !.lease_expires_at = "null", !.next_attempt_at = "null"]

RecoveredRow(row) ==
  IF row.attempt + 1 < MaxAttempts
    THEN [row EXCEPT !.status = "RETRY_WAITING",
                     !.attempt = @ + 1,
                     !.fencing_token = @ + 1,
                     !.lease_expires_at = "ahead",
                     !.next_attempt_at = "ahead",
                     !.worker_id = None]
    ELSE [row EXCEPT !.status = "DEAD_LETTER",
                     !.attempt = @ + 1,
                     !.fencing_token = @ + 1,
                     !.worker_id = None,
                     !.lease_expires_at = "null",
                     !.next_attempt_at = "null"]

\* scan_and_recover: one transaction over the expired RUNNING rows that no
\* other transaction holds locked (SKIP LOCKED may leave some out).
ScanAndRecover(S) ==
  /\ S # {}
  /\ S \subseteq Orphans
  /\ task' = [t \in Tasks |-> IF t \in S THEN RecoveredRow(task[t]) ELSE task[t]]
  /\ UNCHANGED <<document, active_generation, execution>>

WorkerStep(w) ==
  \/ BeginProcessing(w)
  \/ DocumentMissing(w)
  \/ ProcessingRaises(w)
  \/ \E partial \in BOOLEAN : ProcessingReturns(w, partial)
  \/ Complete(w)
  \/ CompleteUnconfirmed(w)
  \/ CompleteFails(w)
  \/ ReportFailure(w)

Next ==
  \/ \E d \in Docs, t \in Tasks : Upload(d, t) \/ Reingest(d, t)
  \/ \E t \in Tasks : RetryTask(t)
  \/ \E d \in Docs : DeleteDocument(d)
  \/ \E w \in Workers, t \in Tasks : Acquire(w, t)
  \/ \E w \in Workers : WorkerStep(w) \/ Heartbeat(w) \/ Abandon(w)
  \/ \E t \in Tasks : LeaseLapses(t) \/ BackoffElapses(t)
  \/ \E S \in SUBSET Tasks : ScanAndRecover(S)

Spec == Init /\ [][Next]_vars

(***************************************************************************)
(* Invariants                                                              *)
(***************************************************************************)

Live(t) == task[t].status \notin { "ABSENT", "DELETED" }

\* Every change of ownership or epoch is counted once in the fencing token:
\* claims and recoveries through attempt, operator retries through
\* retry_count.  So no two epochs of a task ever carry one token.
TokenCountsEpochs ==
  \A t \in Tasks :
    task[t].fencing_token = 1 + task[t].attempt + task[t].retry_count

\* A worker, however late, never holds a token newer than the row's, and two
\* workers in the middle of the same task hold different tokens.
ExecutionsAreFenced ==
  /\ \A w \in Workers : execution[w].pc # "idle" =>
       execution[w].token <= task[execution[w].task].fencing_token
  /\ \A v, w \in Workers :
       v # w /\ execution[v].pc # "idle" /\ execution[v].task = execution[w].task
         => execution[v].token # execution[w].token

\* The scanner selects RUNNING rows by their lease and nothing else looks at
\* RUNNING rows nobody works on: a RUNNING row without owner or lease would
\* stay RUNNING for ever.
RunningHasLease ==
  \A t \in Tasks : task[t].status = "RUNNING" =>
    /\ task[t].worker_id # None
    /\ task[t].lease_expires_at # "null"

\* How often a task can be started.  A claim and the recovery of that claim
\* both count as an attempt, and an operator's retry does not reset the
\* count, so it buys exactly one further claim.
AttemptBudget ==
  \A t \in Tasks :
    LET row == task[t]
        spent == MaxAttempts + 2 * row.retry_count
    IN  /\ row.status = "RETRY_WAITING" => row.attempt < MaxAttempts
        /\ row.status = "RUNNING"       => row.attempt <= spent
        /\ row.attempt <= spent + 1

\* A task reported SUCCEEDED has its generation (or a newer one) active: the
\* row and the document commit together and the document never goes back.
SuccessIsPublished ==
  \A t \in Tasks : task[t].status = "SUCCEEDED" =>
    task[t].target_generation <= active_generation[task[t].doc_id]

\* A generation beyond the first is active only because a task that targets
\* it succeeded in full; partial or failed work is never made active.
ActiveIsBacked ==
  \A d \in Docs : document[d] = "PRESENT" /\ active_generation[d] > 1 =>
    \E t \in Tasks : /\ task[t].status = "SUCCEEDED"
                     /\ task[t].doc_id = d
                     /\ task[t].target_generation = active_generation[d]

(***************************************************************************)
(* Action properties                                                       *)
(***************************************************************************)

\* Retrieval never goes back to an older generation of a document.
GenerationNeverDecreases ==
  [][\A d \in Docs : active_generation'[d] >= active_generation[d]]_vars

\* A worker whose token is no longer the row's ends its pass without having
\* changed any row, whatever point it had reached when it lost the task.
StaleWorkerIsHarmless ==
  [][\A w \in Workers :
       /\ execution[w].pc # "idle"
       /\ execution[w].token # task[execution[w].task].fencing_token
       /\ execution'[w] # execution[w]
       => UNCHANGED dbVars]_vars

\* While the lease has time left, a RUNNING task is ended only by the worker
\* that holds it, or by the deletion of its document.
LeaseIsRespected ==
  [][\A t \in Tasks :
       /\ task[t].status = "RUNNING"
       /\ task[t].lease_expires_at = "ahead"
       /\ task'[t].status \notin { "RUNNING", "DELETED" }
       => \E w \in Workers : /\ execution[w].task = t
                             /\ execution[w].token = task[t].fencing_token
                             /\ execution'[w] # execution[w]]_vars

\* The module docstring of fsm.py: "Enforces valid state transitions and terminal
\* state protection".  Two places write a status that the table does not allow,
\* and no other does: the scanner RUNNING -> DEAD_LETTER, and the manual retry
\* DEAD_LETTER -> PENDING.
OnlyKnownBypasses ==
  [][\A t \in Tasks :
       Live(t) /\ Live(t)' /\ task'[t].status # task[t].status
         => \/ can_transition(task[t].status, task'[t].status)
            \/ <<task[t].status, task'[t].status>>
                 \in { <<"RUNNING", "DEAD_LETTER">>, <<"DEAD_LETTER", "PENDING">> }]_vars

(***************************************************************************)
(* Refinement                                                              *)
(***************************************************************************)

JobState(status) ==
  CASE status = "ABSENT"    -> "unborn"
    [] status = "SUCCEEDED" -> "published"
    [] status \in { "PARTIAL_SUCCEEDED", "DELETED" } -> "closed"
    [] OTHER                -> "open"

Versions == INSTANCE DocumentVersions WITH
  Jobs    <- Tasks,
  version <- active_generation,
  job     <- [t \in Tasks |-> JobState(task[t].status)],
  about   <- [t \in Tasks |-> task[t].doc_id]

\* Leases, retries and recoveries add up to one publication per task, one
\* generation at a time.
ImplementsVersions == Versions!Spec
=============================================================================
