# RAG API Pro: specifications, model checking and proofs

RAG API Pro is a multi-tenant GraphRAG service. An upload is stored, a task for
it is queued, a worker parses the file and writes a vector index and a graph
index, and queries are answered from both. PostgreSQL is the source of truth,
Redis Streams only carries events, Qdrant and Memgraph are indexes that can be
rebuilt, and MinIO holds the files. The hard part is not any one function but
that four stores, several API and worker processes and a lossy message channel
have to come to one result. That part is specified here in TLA+, checked with
TLC on small instances and, but for liveness, proved with TLAPS for all instances.

Paths below are relative to the repository root, which holds `src/` (the Python
package), `worker/`, `scripts/` and `frontend/`.

## 1. Inventory

| Component | State | Operations | Correct when |
|---|---|---|---|
| Task state machine, `src/models/fsm.py` | none; a table of allowed transitions | `can_transition`, `is_terminal` | every status change anywhere is in the table (it is, but for two places; `OnlyKnownBypasses`) |
| Task ownership, `services/task_service.py`, `core/tasks/lease.py`, `recovery.py` | rows of `tasks`: status, attempt, fencing token, worker, lease, backoff, target generation; `documents.active_generation` | acquire, heartbeat, progress, complete with generation, fail (CAS), manual retry, `scan_and_recover` | one owner per epoch; a stale worker changes nothing; every RUNNING row can be recovered; attempts are bounded; readers never go back a generation |
| Task delivery, `core/tasks/outbox.py`, `worker/main.py` | outbox rows, the Redis stream and its pending list, what each worker has in hand | `enqueue`, `publish_pending`, XREADGROUP, XAUTOCLAIM, XACK, the message loop | no waiting task without a wakeup; every accepted task settles; the stream drains |
| Document pipeline, `worker/processor.py` | points in Qdrant, relations in Memgraph, by document and generation | `process_document`: download, parse, upsert, merge relations, prune | a published generation is complete and searchable; work in progress is invisible |
| Document service, `services/doc_service.py`, `core/tasks/idempotency.py`, `api/routes/knowledge_bases.py` | rows of `documents` and `tasks`, objects in MinIO | upload, delete, reingest, list, download URL, deletion of a knowledge base | a file is in a knowledge base once; quotas hold under races; deletion leaves no file behind (that of a knowledge base does, see `doc_cascade`) |
| Storage reconciliation, `core/storage/reconciliation.py` | an audit report, read at several moments | `audit_consistency`, `repair_consistency` | repair takes only orphans, and only in its scope (neither is so, see `doc_repair`) |
| Tenant resource cache, `core/tenant/cache.py` | entries, pins, in-flight creations | `get_or_set`, `pin`, `unpin`, `clear`, eviction | one creation per key; pinned entries stay; nobody waits for a creation that is gone. Exported, but without a user in the program yet |
| Tenant configuration and prompts, `core/tenant/config_manager.py`, `prompts.py` | versions and prompt overlays in PostgreSQL, caches per process | publish, load latest, set and load an overlay | a load answers with every committed update; concurrent publications lose none |
| Rate limiting, `core/ratelimit/limiter.py` | sliding windows of requests and tokens for each service and tenant | `acquire` | limits hold in every window; a waiter is refused only if waiting is in vain |
| Query service, `services/rag_service.py`, `services/rag/stream.py`, `chat_session.py` | chat sessions and messages, a cache of histories per process, the frames of a stream, the filter's buffer | `query_hybrid`, `query_stream`, `load_history_from_db`, `append_message_db`, `stream_query_response` | histories grow at the end; stored answers are complete; the context is the asker's own; thinking never reaches the client |
| Retrieval, `services/rag/engine.py` | none (reads the generation map, then the indexes) | vector, keyword and graph search, fusion | only published generations of the caller's tenant are found |
| Backup, `scripts/backup_restore.py` | a file of rows, read table by table | export, restore | a restore fails for known causes only (one of them, the insert order, fails consistent backups; section 2) |
| Access control, listings, parsers, validation, clients, server, scripts, frontend | see PROJECT.json | | not modelled, section 8 |

**Interactions.** An API handler writes business rows and an outbox event in one
transaction. Any process may publish the event to the stream, at least once. A
worker takes a message as a hint only and claims the task row with a new fencing
token; the heartbeat renews the lease; before each stage a compare-and-set on
the row tells the worker whether it still owns the task. Qdrant and Memgraph know
nothing of tokens: what a stale worker writes between two reports stays. The
completing transaction writes the task status and the document's active
generation together, and retrieval filters by that generation. The scanner, in
every worker, takes back rows whose lease is past. Deletion and reconciliation
touch the stores one after the other beside all of this; the deletion of a knowledge
base takes the rows of its documents and touches no store.

A question is put to a session row and its messages, embedded and retrieved
(under the rate limiter, with the tenant's settings), completed or streamed, and
its answer is appended to the session; the knowledge base may be deleted at any
of these points. Tenant cache, limiter, settings and backup share no state with
each other, only callers.

**What is hard.** Processes that stop at any line; a lost reply after an effect;
a worker that is slow, not dead; two transactions on one row; stores written one
by one; a report acted on long after it was made. The list, each at its line, is
`hazards` in PROJECT.json, with the properties that would notice.

## 2. Modules

| Module | Models | Composition |
|---|---|---|
| `TaskFSM` | the tables of `fsm.py`, as data | extended by the task modules |
| `DocumentVersions` | abstract: what ingestion promises about the version readers see | implemented by `TaskLease` |
| `TaskLease` | ownership, recovery, publication of generations | the core |
| `TaskDelivery` | outbox, publishers, stream, message loop | contains `TaskLease` as `Lease` and implements it |
| `IndexGenerations` | points and relations per generation, stale writers, the retrieval filter | contains `TaskLease` as `Lease` |
| `DocumentStorage` | upload, deletion and reconciliation across the four stores | tasks reduced to four states |
| `QueryService` | questions, chat sessions and answer streams, beside deletions of knowledge bases | on its own; retrieval reduced to success or failure |
| `ThinkingFilter` | the filter of streamed deltas, against a reference definition | independent part |
| `TenantCache` | the bounded LRU cache with single flight and pins | independent part |
| `RateLimiter` | `acquire` of the dual-window limiter | independent part |
| `TenantConfig` | configuration versions and prompt overlays, with their caches | independent part |
| `BackupExport` | export and restore of the tables beside a running system | independent part |
| `TaskLeaseProofs` | theorems about `TaskLease`: rows; generations and refinement; what a step may never do | extends it |
| `TaskDeliveryProofs` | theorems about `TaskDelivery` | takes what holds of rows from `TaskLeaseProofs` by INSTANCE |
| `IndexGenerationsProofs` | theorems about `IndexGenerations` | takes what holds of rows from `TaskLeaseProofs` by INSTANCE |
| `DocumentStorageProofs`, `QueryServiceProofs` | theorems about these modules | extend them |
| `FiniteSums` | lemmas about sums over finite sets, and least and greatest numbers | extended by `DocumentStorageProofs` and `LimiterFilterProofs` |
| `LimiterFilterProofs` | theorems about `RateLimiter` and `ThinkingFilter` | extends both |
| `PlatformProofs` | theorems about `TenantCache`, `BackupExport`, `TenantConfig` and the five parts beside each other | extends `MCPlatform` and `LimiterFilterProofs` |
| `MCBackupExport` | the tables an upload writes, as constants of `BackupExport` | extends it, and is extended by `MCPlatform` |
| `MCPlatform` | the five independent parts | a behaviour picks one and runs it |
| `MCServices` | what shares no state with documents and tasks: `MCPlatform` or `MCQueryService` | extends both; a behaviour is of one |
| other `MC...` | values of the constants, symmetry | one for each checked module |

`map` in PROJECT.json gives the source lines of every definition.

### TaskLease

State: `task` is the tasks table (one record per id; `ABSENT` before the insert,
`DELETED` after the cascade), `document` and `active_generation` are the columns
of the documents table, `execution` is what each worker process remembers: its
place in the message loop, its task and token, whether its heartbeat goes on, and
whether its result is partial. A deletion of a knowledge base is to these rows a
series of deletions of its documents. Every action that touches a row is one PostgreSQL
transaction with its `WHERE` clause as guard. A timestamp is kept as `null`,
`ahead` or `past`; time passing is the step from ahead to past. Stage and
percentage are display data and are left out; a failed progress report is
`ProcessingRaises`. Ids are uuid4 and are used once.

### TaskDelivery

State: `outbox` (by event key, which is what makes a repeated key a no-op),
`undelivered` and `pel` (the stream and the pending list of its group),
`delivery` (the message a worker holds, and whether it has still to look at the
task, works on it or is about to acknowledge) and `publisher`. A fault is a
crash, or a call to Redis that fails with or without its effect; faults are
counted so that their number can be bounded. An entry once added to the stream
is taken to survive: durability of Redis is outside the program.

### IndexGenerations

State: `vectors` and `edges` are the two indexes, `build` is how far
`process_document` has come in each worker, `results` is history. Parsing
chooses any of `Parses`, so two attempts may differ (OCR, fallback parsers and
model output are not deterministic). Writes do not look at ownership, reports do,
exactly where the code reports. `VisibleVectors` is the filter of
`_tenant_kb_filter` and `VisibleEdges` the weaker one of the graph, for any map a
query may have loaded earlier. `IndexStatus` is the readiness `list_documents`
derives from the newest task and the vector count, answered or not.
`ReadyMeansSearchable` states what READY is worth: the active generation has points
without a gap, be they of a task that failed; and it is never withheld after a
success. The main README of the repository promises more, that task, active
generation and vectors agree (`ReadyIsPublished`): the run `index_ready` shows a
dead-lettered first upload that is listed as READY.

### DocumentStorage

State: `row` and `job` are the two tables, reduced to what deletion and the
duplicate checks ask of them; `dropped` holds the knowledge bases deleted so far;
`objects`, `points`, `edges` are the stores;
`upload`, `indexing`, `deletion` and `report` are how far each process has come.
An upload request is the document it may create, with a file and a tenant; the
file stands for knowledge base (`KbOf`), name and content, which is what the fingerprint
is computed from. The duplicate check, the tenant lock, the second check with
the quotas, the object, the flush, the commit and the compensation are separate
steps, and the API may end between any two. Two details come from SQLAlchemy and
PostgreSQL: a task row the session has already loaded is not refreshed by the
second check (`seen_failed`), and the unique key is enforced at the flush. A call
to a store may fail with or without effect. `DeleteKnowledgeBase` is one transaction:
the rows of its documents become `CASCADED`, their tasks go, the stores keep what
they hold. It waits for an insert that is flushed and not committed, which has
locked the row of the base; an upload that comes later finds no base at its first
check, or fails on the foreign key at its flush, its object already stored. A
`delete_document` whose row is cascaded away meanwhile goes on and finds nothing
to delete. The audit reads table, Qdrant,
Memgraph and MinIO at four moments; repair goes through the drifts in order.
Files are within the per-file size limit, which `FileValidator` has already
checked. One worker at a time indexes a document here: a second writes only what
is there already, and the detail is in `IndexGenerations`.

### QueryService

State: `session` and `messages` are the two tables, `cache` what each API process
remembers of them, `query` how far each request has come and what it holds
(the frames sent, the context its question was put into). An owner is the
triple of tenant, user and knowledge base that a session row is compared with;
clients choose session ids, so two owners may choose the same. Every await is a
boundary between steps: the check of the session row and the read of its
messages are two, so are the lock, the insert, the commit and the cache update of
a message. Row locks, the primary key and the cascade of a deleted knowledge
base are those of PostgreSQL. `created_at` is a count within the session. Each
retrieval branch of the chosen mode may fail; only dense search matters to the
outcome, and that the others do not is what `Retrieve` says. A stream sends its
frames one by one; the client may leave at any of them.

### ThinkingFilter

State: everything the provider has sent, the filter's `pending` and `thinking`,
and what was passed on. The reference `WithoutThinking` cuts the passages out of
the whole text. The markers are shortened to three symbols which overlap as the
real ones do: both begin with `<` and end with `>`, and they differ in the
second symbol.

### TenantCache

State: `entries` in LRU order with pin counts, `inflight` futures, and for each
call where it is. Code between two awaits is one step, since the lock is never
held over an await. A creator can be cancelled (it leaves its future behind) and
so can a waiter (it cancels the shared future). A user pins, works and unpins;
`clear` may come between.

### RateLimiter

State: a clock in slices of a second, the events of each registered scope, the
calls of `acquire`, and as history every grant ever made. The two windows of a
scope get their events together, so one sequence stands for both. A sleeper may
wake late.

### TenantConfig

State: rows of `tenant_configs` and `tenant_prompts`, the caches of a process and
its requests. A publication takes the advisory lock, reads, commits and then
updates the cache; a load selects and then caches. `truth` is history: what the
committed publications come to. Both unique indexes of the overlays are there,
that of a knowledge base and the partial one of the tenant (`kb_id` NULL), which
`init_db` creates: a second overlay of a scope would be refused at the commit, and
`LoadsSeeEveryUpdate` says that it never comes to that. A request publishes or loads once; the caches
hold one entry, so eviction is everywhere.

### BackupExport

State: the database as a set of rows with foreign keys and unique keys, the
backup file and how many tables it has read. Rows are inserted and deleted (with
cascade) at any moment; the database may be lost and set up again. Of the tables,
four are instantiated: knowledge bases, documents, tasks and outbox events; the
read order is that of the script. The restore adds all rows to a session that
does not flush by itself, so that the commit inserts them table after table, and
PostgreSQL checks a foreign key with each INSERT. SQLAlchemy orders the tables by
`relationship()`, given by `Related`, and not by foreign keys (`WrittenBefore`):
`TaskOutboxEvent` has none and comes too early: a consistent backup with a task and its
event cannot be restored into a database that has lost the task. That is the
last of the causes `RestoreFailureHasACause` names. Tenants, the one table that is
flushed on its own before the others, are left out.

## 3. Runs

| Run | Instance | Shows |
|---|---|---|
| `task_lease` | 2 tasks of 1 document, 2 workers, 3 attempts, 1 manual retry | type, tokens count epochs, fencing, recoverability, attempt budget, success is published, a generation beyond 1 is backed by a success; as action properties generations never decrease, stale workers are harmless, leases are respected, only two known places bypass the FSM; refinement of `DocumentVersions` |
| `task_delivery` | 1 task, 2 workers, 2 publishers, no faults | no lost wakeup with messages duplicated and taken from live workers; refinement of `TaskLease` |
| `task_delivery_live` | 1 task, 1 worker, 1 publisher, 1 manual retry, 1 fault | under fairness every task settles and the stream drains; no lost wakeup through a crash or a lost reply |
| `index_generations` | 2 tasks of 1 document, 2 workers, 2 parses, 3 attempts | a published generation is searchable without gaps; queries see published generations only, in either index; what READY in a listing is worth; the index is exactly one parse as long as all builds came to the same |
| `index_final` (violation) | the same | a stale worker past its last report overwrites a published generation |
| `index_ready` (violation) | 1 task, 1 worker, 1 attempt | a dead-lettered first upload with points in the vector store is listed as READY |
| `doc_storage` | either 2 requests of 1 tenant, files of size 1 and 2, storage quota 2, 2 documents; or 1 request, 2 tenants, and reconciliation of either or of all; 1 knowledge base for each tenant | no duplicate document, quotas hold, the file of a document that `delete_document` has deleted is gone; only deletion, compensation, or a repair whose audit did not know the document takes its data |
| `doc_idempotency` (violation) | as `doc_storage` | a second upload after a failed task ends in an IntegrityError |
| `doc_cascade` (violation) | 1 request, 1 tenant, 1 knowledge base | the deletion of a knowledge base takes a document's row and leaves its file |
| `doc_repair` (violation) | 1 request, 2 tenants, reconciliation of one | a repair removes the file of a document in the table: one committed after the audit had read the table, or one of the other tenant |
| `platform` | `TenantCache`: 4 calls, 2 keys, 2 users, capacity 1. `RateLimiter`: 3 calls, 2 scopes of which 1 fits, 2 requests and 3 tokens per window of 3, costs 1, 2, 4, time-outs 1 and 3, time up to 5. `ThinkingFilter`: 7 symbols in deltas of up to 3. `TenantConfig`: 3 requests, 2 tenants, 1 knowledge base, 2 fields, caches of 1. `BackupExport`: 5 rows in 4 tables, 7 changes. `QueryService`: 3 questions of 2 owners with 1 session id, 1 process, 2 cached messages, 1 token frame; one of the first two may stream, the third comes after a deletion | pinned entries stay; waiters have a creator; limits hold and refusals are justified; thinking is removed however the text is cut; every load sees every update; a failed restore has a cause; a history grows only at its end; stored answers follow their question and were complete; no context of another owner, but for one named window |
| `stream_done` (violation) | `QueryService` as in `platform` | after a provider failure the closing `done` frame never comes |

The violation runs check one statement each that the repository makes of itself;
`findings` in PROJECT.json quotes it. `IndexGenerations` shows what remains true
nevertheless: a rewritten generation stays searchable, and it is exact as long as
parsing is deterministic. The finer statements leave room
for what the code does beside its own promises, and say for how much:
`DataLossHasACause` lists every step that may take data of a document in the table,
the repair by an old report (`doc_repair`) among them; `DeletedFileIsGone` is about
`delete_document` and not about the cascade (`doc_cascade`); `OnlyKnownBypasses`
names two status changes that `fsm.py` does not allow; `RestoreFailureHasACause`
names, beside rows newer than the export, the insert order. `ContextIsOwn`,
`WaitersHaveACreator` and `PinnedEntriesStay` each leave out one window: a session deleted and created anew between two
reads, a creator whose task was cancelled, which blocks its key, and an unpin
that comes after a clear and hits the entry created since. These windows are
hazards that no property covers, and so is the insert order of a restore.

**Bounds, and why they are enough.** Two workers are the least that allows one
stale and one current owner; a third would be stale like the first. Two tasks of
one document are the least that race for a generation. `MaxAttempts` 3 is the
default of the code, so dead letters occur. `MaxRetries` bounds manual retries: one is
enough to reach tokens and attempts beyond the first budget. `MaxFaults` bounds
crashes and failed calls to Redis: the liveness run allows one in each position.
Two faults, and faults with two workers, are beyond the time of a run; the
theorems of section 5 do not depend on any of these bounds. In
`DocumentStorage` two requests are the least that race, and the sizes are chosen
so that the small file fits twice (so that only the duplicate checks stop it)
while small and large together do not fit (so that only the lock stops them).
Requests of different tenants share nothing but the reconciler, so two tenants
are instantiated where it runs. In `QueryService` two
questions are the least that race for a session, and the third sees what a
deletion left; owners differ in their knowledge base, and after a second deletion
there would be none left to see anything. In `platform` the
capacities are 1 or 2 so that every table is full at once; the limiter's time is
long enough for a window to pass completely; seven symbols hold a whole passage
and a symbol to either side, or two markers of a kind. A call, a request or an
operation is used once and they start in the order of their numbers, since
before they start they are all alike; for the same reason the owner, the tenant and
the scope of the first one are given. Symmetry is used for ids that are only compared
for equality, never in a run with a liveness property. `CHECK_DEADLOCK FALSE` is
in every run because ids are finite: when all are used and deleted the system
rests.

## 4. Fairness

`LiveSpec` of `TaskDelivery` asks for weak fairness of publisher steps and of the
selection of an event, of lease expiry and due times (time passes), of receiving
and claiming messages, of the worker's reaction to a message it holds, of its
end and of the scanner. The code justifies it: the publisher sweep, the message
loop and the scanner are `while running` loops in every worker, each iteration
catches its exceptions, and `update ... limit` queries take whatever is due.
`process_document` is assumed to return or raise. Nothing in the code enforces
that: the heartbeat renews the lease as long as the event loop runs. It is
listed as a hazard (`lease.py:58`). Crashes, faults, uploads, retries by hand
and deletions are never forced. The other modules state safety only; where
their code lets a caller wait for ever (a cancelled creator in the cache), or
breaks off a stream, a safety property or a finding says so.

## 5. Proofs

Every theorem holds for all values of the constants that satisfy the named
assumption of its module. The assumptions say that bounds are numbers, that the
values standing for "nobody" are nobody, and where it is needed that a set is not
empty or is finite, and `DocumentStorageAssumption` that every file is for some
knowledge base. Three say more. `ParsesAssumption`: a parse that is written
has at least one chunk and one relation, since `process_document` makes one up where
the text yields none. `CacheAssumption`: `max_capacity` is at least 1, which the constructor
checks. `BackupAssumption`: the script reads every table once, and no table before
one that it refers to, which is the order of the script's list; and a class has a
`relationship()` for all of its foreign keys or for none, as in `db_models.py`.

| Module | Theorem | States |
|---|---|---|
| `TaskLeaseProofs` | `TypeCorrect` | `TypeOK` of `TaskLease`; it is inductive as it stands |
| | `TokensNumberEpochs` | `TokenCountsEpochs`: a token is never used twice |
| | `RunningRowsCanBeRecovered` | `RunningHasLease` |
| | `AttemptsAreBounded` | `AttemptBudget` |
| | `Fencing` | `ExecutionsAreFenced` |
| | `GenerationsNeverDecrease` | `GenerationNeverDecreases` |
| | `SuccessMeansPublished` | `SuccessIsPublished` |
| | `LeaseImplementsVersions` | `TaskLease` implements `DocumentVersions` |
| | `StaleWorkersAreHarmless` | `StaleWorkerIsHarmless` |
| | `LeasesAreRespected` | `LeaseIsRespected` |
| | `BypassesAreKnown` | `OnlyKnownBypasses` |
| | `OnlySuccessIsActive` | `ActiveIsBacked` |
| `TaskDeliveryProofs` | `TypeCorrect` | `TypeOK`, for any number of faults |
| | `DeliveryImplementsLease` | `TaskDelivery` implements `TaskLease` |
| | `NoWakeupIsLost` | `NoLostWakeup` |
| `IndexGenerationsProofs` | `TypeCorrect` | `TypeOK` |
| | `PublishedCanBeSearched` | `PublishedIsSearchable` |
| | `QueriesSeeNoWorkInProgress` | `QueriesSeePublishedOnly` |
| | `PublishedIsExact` | `ExactUnlessParsesDiffer` |
| | `ReadyIsTrue` | `ReadyMeansSearchable` |
| `DocumentStorageProofs` | `TypeCorrect` | `TypeOK` |
| | `FilesAreUnique` | `OneDocumentPerFile` |
| | `QuotasAreKept` | `QuotasHold` |
| | `DeletedFilesAreGone` | `DeletedFileIsGone` |
| | `LossesHaveCauses` | `DataLossHasACause` |
| `QueryServiceProofs` | `TypeCorrect` | `QueryTypeOK` |
| | `StoredAnswersAreComplete` | `AnswersAreComplete` |
| | `ContextsAreOwn` | `ContextIsOwn` |
| | `HistoriesGrow` | `HistoryOnlyGrows` |
| `PlatformProofs` | `CacheTypeCorrect` | `CacheTypeOK` |
| | `PinsKeepEntries` | `PinnedEntriesStay` |
| | `WaitersAreServed` | `WaitersHaveACreator` |
| | `BackupTypeCorrect` | `BackupTypeOK` |
| | `RestoresFailForACause` | `RestoreFailureHasACause` |
| | `SettingsTypeCorrect` | `SettingsTypeOK` |
| | `LoadsAreUpToDate` | `LoadsSeeEveryUpdate` |
| | `PartsRunAlone` | a behaviour of `MCPlatform` is one of each of its parts |
| | `PlatformTypes` | `TypeOK` of `MCPlatform` |
| `LimiterFilterProofs` | `WindowsFollowHistory` | `LimiterInv`, the inductive invariant of the limiter |
| | `LimiterTypes` | `LimiterTypeOK` |
| | `LimitsAreKept` | `LimitsHold` |
| | `RefusalsHaveReasons` | `RefusalsAreJustified` |
| | `FilterFollowsReference` | `FilterInv`, the inductive invariant of the filter |
| | `FilterTypes` | `FilterTypeOK` |
| | `PassagesAreRemoved` | `ThinkingIsRemoved` |

**Rows** (`TaskLeaseProofs`). `RowsStep` says what a step of anybody may do to one
row (the lemma `StepsRows` goes through the actions once); everything about rows
follows from it without looking at the actions again. `RowsInv` is the inductive
invariant of a row: it ties the token to attempt and retry counts, gives RUNNING
rows owner and lease, and strengthens the attempt budget by the status, without
which a recovered row could be claimed once too often. `Fencing` needs that tokens
only grow (`TokensGrow`) and that a claim always takes a token nobody holds yet
(`HoldStep`, `FencingStep`).

**Generations** (`TaskLeaseProofs`). The missing fact is
`TargetsInv`: no task targets more than one beyond the active generation of its
document, since the target is computed under the document's row lock and
generations only grow; with it a completion publishes the next generation or none,
which is what `DocumentVersions` allows. The refinement maps status to `unborn`,
`open`, `published` or `closed`, and shows that each step is one abstract step or a
stutter. `ActiveIsBacked` needs besides that the row of a task, once claimed, is
never absent again (`StartedInv`). The three action properties follow from fencing
and from `StepsRows`, action by action.

**Delivery** (`TaskDeliveryProofs`). Each step is a step of `TaskLease` or leaves
its variables alone (`LeaseStep`), so that what is proved of rows is taken over
from a second instance of the lease's proofs. For `NoLostWakeup` the event that
a waiting task waits for is named (`Wakeup`), and `DeliveryInv` says: it is in the
outbox, and it is neither published nor sent by a publisher that has still to say
so, or a message of it is in the stream (`WakeupInv`); a message that will be
acknowledged without another look is not of that event (`SpentInv`), which
needs the event of a backoff not to be out before the backoff is over
(`BackoffInv`); and the key of the next event of a task is always new, because
keys are made of counts that only grow (`KeysInv`), so that the outbox never
drops an event as a repeated one.

**Index** (`IndexGenerationsProofs`). What was ever written to a generation is kept
in `results`. Points come from a written parse (`PointsInv`) and reach without
a gap as far as the longest one (`SegmentInv`), since an upsert overwrites by point
id and never removes. Relations are another matter, because a prune removes: the
lemma `KeepsRelations` shows that what is removed is what the pruning worker's own
parse lacks, and that parse is itself among those written. So a finished build
leaves every relation there as long as all parses agree (`BuiltUp`, `BuildInv`),
and a task only succeeds with a finished build (`DoneInv`). These invariants are
of any number of tasks, which covers what the run cannot: two re-ingestions
that target one generation.

**Document stores** (`DocumentStorageProofs`). Uniqueness: the row lock of a
tenant has one holder from the check to the commit (`LockInv`), and what the
unique key let through stays unique until then (`FlushInv`). Quotas: what the
second check found under the lock stays true up to the commit (`AdmittedInv`),
because others can only delete, documents one by one or with their knowledge base
(`CascadeLeaves`). Deletion: a deletion without error has passed MinIO
(`CleanDeletionInv`), and an object is only put before the commit of its own
upload; a row that was cascaded away is not one that `delete_document` has taken, and
the theorem says nothing of its file. Losses: the audit's report names no document it knew (`ReportInv`).

**Questions** (`QueryServiceProofs`). `QueryInv` relates requests, rows and the
caches: who is at the session's row is its owner (`SessionInv`), one uncommitted
message per session has the latest stamp (`StampInv`), an answer is begun only
after its stream ended well (`AnswerInv`), the messages of a session are of its
owner and answers follow their questions (`MessagesInv`), and contexts are made of
those messages (`ContextInv`). Only a commit writes messages and only a deletion
of the knowledge base removes them; the lemma `Moves` reduces all other actions
to steps of one request. TLC checked the conjuncts on this small
instance before they were proved.

**Cache** (`PlatformProofs`). `CacheInv` has three parts: the entries hold a key
once and fit the capacity (`EntriesInv`); a registered future belongs to a
creator at work or cancelled, and its key has no entry (`CallsInv`), so that
an insertion never meets an entry of its key; and the references of an entry are
exactly the pins taken since the last clear, unless a foreign unpin has hit the
key (`PinsInv`). The value of a pin, once cleared, is never entered again, for its
call has returned already.

**Backup** (`PlatformProofs`). `BackupInv`: of a table that has been read, every
row that was there before the export and is there still is in the backup
(`SavedInv`), and a saved row's parents are saved or newer than the export
(`BackupOk`), because a parent's table is read first or with it. So a parent that is neither in
the database nor newer than the export is in the backup, and only the insert order
can keep its child out; where nothing does, what the restore comes to is consistent
(`RestoredIsConsistent`). `Cascade` is
the least set that the foreign keys close; that it is closed is `CascadeIsClosed`.

**Settings** (`PlatformProofs`). `TablesInv`: the newest version of a tenant, or
the one overlay of a scope, is what the committed publications come to
(`VersionsInv`, `OverlaysInv`). It stays so because the advisory lock of a
scope has one holder from the lock to the commit (`LocksInv`): what a publication
has read is still the table's when it commits (`RequestOk`,
`OthersReadElsewhere`). `CachesInv` says of the dictionaries only that a key comes
once, that they fit their limits, and that of the version history of a
tenant the newest `MaxVersions` are left (`NewestFew`); `LoadsAreUpToDate` needs
nothing of what the caches hold, because `load_snapshot_db` drops both scopes
before it overwrites them with the rows it has selected (`PopOne`, `OverwriteOne`).

**Limiter** (`LimiterFilterProofs`). The code looks at windows, the promise is
about everything ever granted. `LimiterInv` relates them: the stamps of a scope's
history never decrease, the window of a registered scope is its history
without a beginning that has expired by now, and of an unregistered scope the whole
history has expired, because only such scopes are dropped from the table (`TableInv`,
`HistoryInv`). So what `clean_expired` leaves of the window is what it would leave
of the history. The events of a history
within one window before any of its events, that one included, keep both limits
(`BlocksInv`): a grant adds the new event to what is live, and `Room` was checked of
just that. `LimitsHold` follows, since the events of any window of time are among
those before its last one. For `RefusalsAreJustified`, waiting
frees the oldest events first, so before the computed time the events still live
come to too much; a deadline earlier than that is out of reach, and what others
are granted meanwhile only makes it worse.

**Filter** (`LimiterFilterProofs`). `Cut` is the reference, begun inside or outside a
passage. The invariant looks ahead (`LeadsTo`): whatever text may still come, the
cut of everything sent with that text behind it is what was shown followed by
the cut of the pending text with that text behind it. It holds of each turn of the
loop: a marker that is found is found in the longer text too, at the same place
(`PassMarker`), and a text without a marker may be shown up to the longest suffix
that begins a marker, as no later text can complete a marker that starts
before it (`KeepPartial`). At the end of the stream nothing more comes, what is
pending is shorter than a marker, and `ThinkingIsRemoved` is left. Nothing is
assumed of the two markers but that they are not empty.

**Platform** (`PlatformProofs`). Every step of `MCPlatform` is a step of one part and
leaves the variables of the others alone, so each part's theorems hold of it
(`PartsRunAlone`).

**Changes the proofs asked for.** Some operators computed by recursion what a
definition says directly (the cascade of a deletion, the move of an entry to the
end, the rows that a load puts into the cache, the events that have expired, the wait
for the oldest of them), and the loop of the filter and its reference
became recursive functions, the loop counted by a bound it cannot exceed; some
choices were of no definite value where a set could be empty or a
sentinel could be a number. They were restated, with the same meaning in every
run. No property had to be changed.

**Induction over data.** The library's induction theorems cannot be used here, but
its theorem that a well-founded relation has a minimal element in every set that
is not empty (`WFMin`) can. `FiniteSums` uses it to show that the recursive
function behind a sum over a finite set exists and what it comes to when elements
are added, removed or renamed; `LimiterFilterProofs` that the filter's loop and
its reference exist and obey their equations, by the shortest text of which they
would not.

**Only model-checked.** Liveness (`EveryTaskSettles`, `StreamDrains`), which rests on
ENABLED: TLC checks it on the instance of `task_delivery_live`. Its safety half,
that no waiting task is ever without a wakeup, is the theorem `NoWakeupIsLost`. And
the properties of the runs that expect a violation, which do not hold. Every
other property that a run checks is stated by a theorem of the table.

## 6. Running it

    tlc -workers 2 -config MCTaskLease.cfg MCTaskLease
    tlapm TaskLeaseProofs.tla

and likewise for the other configurations of section 3 and the other `...Proofs`
modules of section 2; the longest proof takes a few minutes. `mutants` in
PROJECT.json names for each property a change of the model, as a plausible bug of
the code would be, that TLC finds to violate it.

## 7. Plan

Done: the task core, delivery, index generations with readiness, the document
stores, questions and chat sessions, tenant cache, settings, limiter, backup.
Next:

1. Composition of `DocumentStorage` with `IndexGenerations`: deletion beside stale
   workers, and what a query finds of a deleted document.
2. Three tasks in `IndexGenerations`, for two re-ingestions that compute one
   target generation.
3. Liveness of waiters in `TenantCache` and `RateLimiter`: true only without
   cancelled creators, and only under fairness among sleepers that asyncio does not
   promise; to be stated with these assumptions.
4. The table splitter and chunker as pure functions, if they add anything to a
   unit test.

No property that a run checks is left to be proved but liveness. The composition
of item 1 would take `DocumentStorageProofs` and `IndexGenerationsProofs` over by
INSTANCE, as these take over `TaskLeaseProofs`.

## 8. Not modelled

- Authentication, roles and API keys: checks of one request against one row.
- Creation and listing of tenants, users and knowledge bases, and of tasks: CRUD in
  single statements.
- Parsers, OCR adapters, embedding and language models, fusion and ranking:
  numerical or textual, and mostly other people's code. What the models need of
  them is that a parse comes to something, possibly different each time.
- Upload validation and archive checks: functions of one file.
- Clients, environment settings, logging, metrics, server wiring, health checks,
  the other maintenance scripts, the frontend: input and output without protocol.
- `SafeAsyncExecutor`, `get_versioned_snapshot`, `TenantScope` and the in-memory
  `publish_config`: nothing in the program uses them.
- What an answer or a community summary says. (A summary names neighbours of every
  generation, staged ones included; it is listed as a hazard.)
- More than one API process in the runs of `QueryService` and `TenantConfig`, although
  the modules allow it: what a request reads of a cache it has just loaded itself,
  so a second cache adds states and no behaviour.
- A wall clock that is set back under the rate limiter: it compares wall-clock
  stamps within a window and the monotonic clock for time-outs; the model takes
  the two to agree.
- Losing acknowledged data in a store (Redis without its log, a restored
  backup) and clocks that differ between hosts: listed as hazards, outside the
  models.
