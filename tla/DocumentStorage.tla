--------------------------- MODULE DocumentStorage ---------------------------
(***************************************************************************)
(* A document across its four stores: uploads that check for duplicates    *)
(* and quotas, store the file and then the row; deletions that go from     *)
(* store to store; deletions of a whole knowledge base, which go to the    *)
(* tables only; workers that index what they have claimed; and the         *)
(* reconciler, which audits the stores one after the other and later       *)
(* repairs from its report (src/src/services/doc_service.py,               *)
(* src/src/api/routes/knowledge_bases.py, src/src/core/tasks/              *)
(* idempotency.py, src/src/core/storage/reconciliation.py).  Any call to   *)
(* a store may fail, with or without effect, and the API process may end   *)
(* at any point.                                                           *)
(***************************************************************************)
EXTENDS Naturals, FiniteSetsExt

CONSTANTS
  Docs,             \* document ids: one for every upload request
  Files,            \* what can be uploaded: file name, content and knowledge base
  KnowledgeBases,   \* those that every tenant has to begin with
  KbOf,             \* the knowledge base that a file is uploaded to
  Tenants,
  Scopes,           \* the tenant filters the reconciler is run with, None for no filter
  None,
  Size,             \* of each file
  MaxStorage,       \* the quotas of a tenant: bytes,
  MaxDocuments,     \* documents
  MaxActiveTasks    \* and active tasks

ASSUME DocumentStorageAssumption ==
  /\ Size \in [Files -> Nat]
  /\ KbOf \in [Files -> KnowledgeBases]
  /\ MaxStorage \in Nat /\ MaxDocuments \in Nat /\ MaxActiveTasks \in Nat
  /\ None \notin Docs \cup Tenants
  /\ Scopes \subseteq Tenants \cup {None}

VARIABLES
  row,        \* the documents table; a row goes with a deletion of the document,
              \* or is CASCADED away with its knowledge base
  job,        \* status of the document's upload task, see TaskLease
  objects,    \* documents with an object in MinIO
  points,     \* documents with points in Qdrant
  edges,      \* documents with relations in Memgraph
  upload,     \* the upload requests
  indexing,   \* how far a worker has come with the document, if it holds the task
  deletion,   \* how far a deletion of the document has come
  dropped,    \* the knowledge bases, each with its tenant, that have been deleted
  report      \* the reconciler's audit and repair

storeVars == <<objects, points, edges>>
tableVars == <<row, job>>
vars == <<row, job, objects, points, edges, upload, indexing, deletion, dropped, report>>

UploadPC == { "new", "checked", "locked", "admitted", "stored", "flushed",
              "compensating", "accepted", "answered", "conflict" }
Upload == [ pc : UploadPC, file : Files, tenant : Tenants, seen_failed : SUBSET Docs ]

Deletion == [ stage : { "none", "points", "edges", "row" }, errors : BOOLEAN ]
NoDeletion == [ stage |-> "none", errors |-> FALSE ]

Indexing == [ stage : { "idle", "embedding", "embedded", "graph", "built" }, holds : BOOLEAN ]
NoIndexing == [ stage |-> "idle", holds |-> FALSE ]

Storage == { "qdrant", "memgraph", "minio" }
Drift == [ storage : Storage, doc : Docs ]
Report == [ stage : { "none", "qdrant", "memgraph", "minio", "repair" },
            tenant_filter : Scopes \cup {None},
            docs : SUBSET Docs, drifts : SUBSET Drift ]
NoReport == [ stage |-> "none", tenant_filter |-> None, docs |-> {}, drifts |-> {} ]

TypeOK ==
  /\ row \in [Docs -> { "ABSENT", "PRESENT", "DELETED", "CASCADED" }]
  /\ job \in [Docs -> { "none", "active", "ok", "failed" }]
  /\ objects \subseteq Docs /\ points \subseteq Docs /\ edges \subseteq Docs
  /\ upload \in [Docs -> Upload]
  /\ indexing \in [Docs -> Indexing]
  /\ deletion \in [Docs -> Deletion]
  /\ dropped \subseteq Tenants \X KnowledgeBases
  /\ report \in Report
  /\ \A d \in Docs : row[d] = "PRESENT" <=> job[d] # "none"

\* Every request comes with some file of some tenant.
Init ==
  /\ row = [d \in Docs |-> "ABSENT"]
  /\ job = [d \in Docs |-> "none"]
  /\ objects = {} /\ points = {} /\ edges = {}
  /\ upload \in [Docs -> { u \in Upload : u.pc = "new" /\ u.seen_failed = {} }]
  /\ indexing = [d \in Docs |-> NoIndexing]
  /\ deletion = [d \in Docs |-> NoDeletion]
  /\ dropped = {}
  /\ report = NoReport

(***************************************************************************)
(* upload_document                                                         *)
(***************************************************************************)
SamePC(d, from, to) ==
  /\ upload[d].pc = from
  /\ upload' = [upload EXCEPT ![d].pc = to]

\* The documents whose task carries the idempotency key of request d.
SameKey(d) ==
  { e \in Docs : /\ row[e] = "PRESENT"
                 /\ upload[e].file = upload[d].file
                 /\ upload[e].tenant = upload[d].tenant }

\* check_idempotent_task: a task that failed lets the upload go on.
DuplicateOf(d) == { e \in SameKey(d) : job[e] # "failed" }

\* The knowledge base of request d, or of the document that came of it.
BaseOf(d) == <<upload[d].tenant, KbOf[upload[d].file]>>

PreCheck(d) ==
  /\ upload[d].pc = "new"
  /\ upload' = [upload EXCEPT
       ![d].pc = IF BaseOf(d) \in dropped \/ DuplicateOf(d) # {}
                 THEN "answered" ELSE "checked",
       ![d].seen_failed = SameKey(d) \ DuplicateOf(d)]
  /\ UNCHANGED <<tableVars, storeVars, indexing, deletion, dropped, report>>

\* The requests that hold the row lock of their tenant.
LockHolders(t) ==
  { e \in Docs : /\ upload[e].tenant = t
                 /\ upload[e].pc \in { "locked", "admitted", "stored", "flushed" } }

\* Mutant: no lock is taken.
LockTenantNever(d) ==
  /\ SamePC(d, "checked", "locked")
  /\ UNCHANGED <<tableVars, storeVars, indexing, deletion, dropped, report>>

LockTenant(d) ==
  /\ LockHolders(upload[d].tenant) = {}
  /\ SamePC(d, "checked", "locked")
  /\ UNCHANGED <<tableVars, storeVars, indexing, deletion, dropped, report>>

DocumentsOf(t) == { e \in Docs : row[e] = "PRESENT" /\ upload[e].tenant = t }

StorageUsed(t) == MapThenSumSet(LAMBDA e : Size[upload[e].file], DocumentsOf(t))

WithinQuotas(t, file) ==
  /\ StorageUsed(t) + Size[file] <= MaxStorage
  /\ Cardinality(DocumentsOf(t)) < MaxDocuments
  /\ Cardinality({ e \in DocumentsOf(t) : job[e] = "active" }) < MaxActiveTasks

\* Under the lock the duplicate is looked for again.  A task that the session
\* loaded as failed before still is what it was: its row is not refreshed.
Recheck(d) ==
  /\ upload[d].pc = "locked"
  /\ LET admitted == /\ DuplicateOf(d) \ upload[d].seen_failed = {}
                     /\ WithinQuotas(upload[d].tenant, upload[d].file)
     IN  upload' = [upload EXCEPT ![d].pc = IF admitted THEN "admitted" ELSE "answered",
                                  ![d].seen_failed = {}]
  /\ UNCHANGED <<tableVars, storeVars, indexing, deletion, dropped, report>>

PutObject(d) ==
  /\ SamePC(d, "admitted", "stored")
  /\ objects' = objects \cup {d}
  /\ UNCHANGED <<tableVars, points, edges, indexing, deletion, dropped, report>>

\* put_object raises: StorageUnavailableError.
PutFails(d) ==
  /\ SamePC(d, "admitted", "answered")
  /\ objects' = objects \cup {d} \/ UNCHANGED objects
  /\ UNCHANGED <<tableVars, points, edges, indexing, deletion, dropped, report>>

\* Mutant: the tasks table has no unique key.
FlushWithoutConstraint(d) ==
  /\ SamePC(d, "stored", IF BaseOf(d) \in dropped THEN "answered" ELSE "flushed")
  /\ UNCHANGED <<tableVars, storeVars, indexing, deletion, dropped, report>>

\* enqueue flushes document and task before its own query.  The unique key
\* (tenant, idempotency_key) refuses the task: IntegrityError, and the object
\* stays, for the flush lies outside the block that compensates.  The foreign
\* key refuses the document if its knowledge base is gone by now.
Flush(d) ==
  /\ \/ BaseOf(d) \in dropped /\ SamePC(d, "stored", "answered")
     \/ BaseOf(d) \notin dropped /\ SameKey(d) = {} /\ SamePC(d, "stored", "flushed")
     \/ BaseOf(d) \notin dropped /\ SameKey(d) # {} /\ SamePC(d, "stored", "conflict")
  /\ UNCHANGED <<tableVars, storeVars, indexing, deletion, dropped, report>>

RowCommitted(d) ==
  /\ row' = [row EXCEPT ![d] = "PRESENT"]
  /\ job' = [job EXCEPT ![d] = "active"]

Commit(d) ==
  /\ SamePC(d, "flushed", "accepted")
  /\ RowCommitted(d)
  /\ UNCHANGED <<storeVars, indexing, deletion, dropped, report>>

\* The commit raises; the connection may have failed after it took effect.
CommitFails(d) ==
  /\ SamePC(d, "flushed", "compensating")
  /\ RowCommitted(d) \/ UNCHANGED tableVars
  /\ UNCHANGED <<storeVars, indexing, deletion, dropped, report>>

\* The object is removed, or that fails as well, silently.
Compensate(d) ==
  /\ SamePC(d, "compensating", "answered")
  /\ objects' = objects \ {d} \/ UNCHANGED objects
  /\ UNCHANGED <<tableVars, points, edges, indexing, deletion, dropped, report>>

\* The API process ends, or the request is cancelled or fails elsewhere.
UploadEnds(d) ==
  /\ upload[d].pc \in { "checked", "locked", "admitted", "stored", "flushed", "compensating" }
  /\ upload' = [upload EXCEPT ![d].pc = "answered", ![d].seen_failed = {}]
  /\ UNCHANGED <<tableVars, storeVars, indexing, deletion, dropped, report>>

(***************************************************************************)
(* The upload's task, as TaskLease and IndexGenerations have it in detail  *)
(***************************************************************************)

\* A worker holds the task and has downloaded and parsed the object.  One at a
\* time is enough here: a second only writes again what is in the stores.
BeginIndexing(d) ==
  /\ job[d] = "active"
  /\ d \in objects
  /\ indexing[d] = NoIndexing
  /\ indexing' = [indexing EXCEPT ![d] = [stage |-> "embedding", holds |-> TRUE]]
  /\ UNCHANGED <<tableVars, storeVars, upload, deletion, dropped, report>>

WritePoints(d) ==
  /\ indexing[d].stage = "embedding"
  /\ points' = points \cup {d}
  /\ indexing' = [indexing EXCEPT ![d].stage = "embedded"]
  /\ UNCHANGED <<tableVars, objects, edges, upload, deletion, dropped, report>>

\* update_task_progress_cas finds the task RUNNING under the worker's token.
OwnsTask(d) == indexing[d].holds /\ row[d] = "PRESENT"

ReportProgress(d) ==
  /\ indexing[d].stage = "embedded"
  /\ OwnsTask(d)
  /\ indexing' = [indexing EXCEPT ![d].stage = "graph"]
  /\ UNCHANGED <<tableVars, storeVars, upload, deletion, dropped, report>>

WriteEdges(d) ==
  /\ indexing[d].stage = "graph"
  /\ edges' = edges \cup {d}
  /\ indexing' = [indexing EXCEPT ![d].stage = "built"]
  /\ UNCHANGED <<tableVars, objects, points, upload, deletion, dropped, report>>

\* Mutant: the completion does not ask whether the task is still there.
EndIndexingBlindly(d) ==
  /\ indexing[d].stage = "built"
  /\ job' = IF indexing[d].holds THEN [job EXCEPT ![d] = "ok"] ELSE job
  /\ indexing' = [indexing EXCEPT ![d] = NoIndexing]
  /\ UNCHANGED <<row, storeVars, upload, deletion, dropped, report>>

\* The worker completes the task if it still can, and lets go of it.
EndIndexing(d) ==
  /\ indexing[d].stage = "built"
  /\ job' = IF OwnsTask(d) THEN [job EXCEPT ![d] = "ok"] ELSE job
  /\ indexing' = [indexing EXCEPT ![d] = NoIndexing]
  /\ UNCHANGED <<row, storeVars, upload, deletion, dropped, report>>

\* An error that will be retried, or a report that finds the task lost.
IndexingStops(d) ==
  /\ indexing[d].stage # "idle"
  /\ indexing' = [indexing EXCEPT ![d] = NoIndexing]
  /\ UNCHANGED <<tableVars, storeVars, upload, deletion, dropped, report>>

\* The task fails, or becomes a dead letter while its worker goes on.
TaskFails(d) ==
  /\ job[d] = "active"
  /\ job' = [job EXCEPT ![d] = "failed"]
  /\ indexing' = [indexing EXCEPT ![d].holds = FALSE]
  /\ UNCHANGED <<row, storeVars, upload, deletion, dropped, report>>

RetryTask(d) ==
  /\ job[d] = "failed"
  /\ job' = [job EXCEPT ![d] = "active"]
  /\ UNCHANGED <<row, storeVars, upload, indexing, deletion, dropped, report>>

(***************************************************************************)
(* delete_document: every store is tried, the row goes if none complained  *)
(***************************************************************************)
DeleteObject(d, failed) ==
  /\ row[d] = "PRESENT"
  /\ deletion[d] = NoDeletion
  /\ objects' = objects \ {d} \/ (failed /\ UNCHANGED objects)
  /\ deletion' = [deletion EXCEPT ![d] = [stage |-> "points", errors |-> failed]]
  /\ UNCHANGED <<tableVars, points, edges, upload, indexing, dropped, report>>

DeletePoints(d, failed) ==
  /\ deletion[d].stage = "points"
  /\ points' = points \ {d} \/ (failed /\ UNCHANGED points)
  /\ deletion' = [deletion EXCEPT ![d].stage = "edges", ![d].errors = @ \/ failed]
  /\ UNCHANGED <<tableVars, objects, edges, upload, indexing, dropped, report>>

DeleteEdges(d, failed) ==
  /\ deletion[d].stage = "edges"
  /\ edges' = edges \ {d} \/ (failed /\ UNCHANGED edges)
  /\ deletion' = [deletion EXCEPT ![d].stage = "row", ![d].errors = @ \/ failed]
  /\ UNCHANGED <<tableVars, objects, points, upload, indexing, dropped, report>>

\* Mutant: the row goes whatever the stores said.
DeleteRowAnyway(d) ==
  /\ deletion[d].stage = "row"
  /\ row' = [row EXCEPT ![d] = "DELETED"]
  /\ job' = [job EXCEPT ![d] = "none"]
  /\ deletion' = [deletion EXCEPT ![d] = NoDeletion]
  /\ UNCHANGED <<storeVars, upload, indexing, dropped, report>>

\* If the row has been cascaded away meanwhile, the DELETE finds none to delete.
DeleteRow(d) ==
  /\ deletion[d].stage = "row"
  /\ ~deletion[d].errors
  /\ row' = [row EXCEPT ![d] = "DELETED"]
  /\ job' = [job EXCEPT ![d] = "none"]
  /\ deletion' = [deletion EXCEPT ![d] = NoDeletion]
  /\ UNCHANGED <<storeVars, upload, indexing, dropped, report>>

\* The row is retained after an error, or the process ends on the way.
DeletionEnds(d) ==
  /\ deletion[d].stage # "none"
  /\ deletion' = [deletion EXCEPT ![d] = NoDeletion]
  /\ UNCHANGED <<tableVars, storeVars, upload, indexing, dropped, report>>

(***************************************************************************)
(* delete_knowledge_base: one transaction, and no store is called          *)
(***************************************************************************)

\* The documents of the base go with it, and their tasks with them.  An insert
\* that is flushed and not committed holds the row of the base: the DELETE
\* waits for it, and then takes its document too.
DeleteKnowledgeBase(base) ==
  LET lost == { d \in Docs : row[d] = "PRESENT" /\ BaseOf(d) = base }
  IN  /\ base \notin dropped
      /\ \A d \in Docs : upload[d].pc = "flushed" => BaseOf(d) # base
      /\ dropped' = dropped \cup {base}
      /\ row' = [d \in Docs |-> IF d \in lost THEN "CASCADED" ELSE row[d]]
      /\ job' = [d \in Docs |-> IF d \in lost THEN "none" ELSE job[d]]
      /\ UNCHANGED <<storeVars, upload, indexing, deletion, report>>

(***************************************************************************)
(* audit_consistency and repair_consistency                                *)
(***************************************************************************)
InScope(t, tenant_filter) == tenant_filter \in { None, t }

\* The documents of the audited tenant, or of all tenants, in one query.
ReadDocuments(tenant_filter) ==
  /\ report.stage = "none"
  /\ report' = [NoReport EXCEPT
       !.stage = "qdrant", !.tenant_filter = tenant_filter,
       !.docs = { d \in Docs : /\ row[d] = "PRESENT"
                               /\ InScope(upload[d].tenant, tenant_filter) }]
  /\ UNCHANGED <<tableVars, storeVars, upload, indexing, deletion, dropped>>

\* Mutant: only documents that have been indexed count as valid.
OrphansOfIndexed(storage, found) ==
  { [storage |-> storage, doc |-> d] :
      d \in { e \in found : e \notin report.docs \/ job[e] # "ok" } }

Orphans(storage, found) ==
  { [storage |-> storage, doc |-> d] : d \in found \ report.docs }

Found(storage, next, found) ==
  /\ report.stage = storage
  /\ report' = [report EXCEPT !.stage = next, !.drifts = @ \cup Orphans(storage, found)]
  /\ UNCHANGED <<tableVars, storeVars, upload, indexing, deletion, dropped>>

ScopedTo(docs) == { d \in docs : InScope(upload[d].tenant, report.tenant_filter) }

ScrollPoints == Found("qdrant", "memgraph", ScopedTo(points))

MatchEdges == Found("memgraph", "minio", ScopedTo(edges))

\* All objects of the bucket, whatever the tenant.
ListObjects == Found("minio", "repair", objects)

\* A store that cannot be read adds nothing to the report; Qdrant is read in
\* pages, and keeps those it has.
AuditFails ==
  \/ \E read \in SUBSET ScopedTo(points) : Found("qdrant", "memgraph", read)
  \/ Found("memgraph", "minio", {})
  \/ Found("minio", "repair", {})

Rank(storage) == CASE storage = "qdrant" -> 1 [] storage = "memgraph" -> 2 [] OTHER -> 3

\* The drifts are repaired in the order they were found; failures are logged.
RepairDrift(drift) ==
  /\ report.stage = "repair"
  /\ drift \in report.drifts
  /\ \A other \in report.drifts : Rank(drift.storage) <= Rank(other.storage)
  /\ points' = IF drift.storage = "qdrant" THEN points \ {drift.doc} ELSE points
  /\ edges' = IF drift.storage = "memgraph" THEN edges \ {drift.doc} ELSE edges
  /\ objects' = IF drift.storage = "minio" THEN objects \ {drift.doc} ELSE objects
  /\ report' = [report EXCEPT !.drifts = @ \ {drift}]
  /\ UNCHANGED <<tableVars, upload, indexing, deletion, dropped>>

RepairFails(drift) ==
  /\ report.stage = "repair"
  /\ drift \in report.drifts
  /\ report' = [report EXCEPT !.drifts = @ \ {drift}]
  /\ UNCHANGED <<tableVars, storeVars, upload, indexing, deletion, dropped>>

\* The tool is done, was asked for an audit only, or is stopped.
EndReconciliation ==
  /\ report.stage # "none"
  /\ report' = NoReport
  /\ UNCHANGED <<tableVars, storeVars, upload, indexing, deletion, dropped>>

UploadStep(d) ==
  \/ PreCheck(d) \/ LockTenant(d) \/ Recheck(d) \/ PutObject(d) \/ PutFails(d)
  \/ Flush(d) \/ Commit(d) \/ CommitFails(d) \/ Compensate(d) \/ UploadEnds(d)

WorkerStep(d) ==
  \/ BeginIndexing(d) \/ WritePoints(d) \/ ReportProgress(d) \/ WriteEdges(d) \/ EndIndexing(d)
  \/ IndexingStops(d) \/ TaskFails(d) \/ RetryTask(d)

DeletionStep(d) ==
  \/ \E failed \in BOOLEAN :
       DeleteObject(d, failed) \/ DeletePoints(d, failed) \/ DeleteEdges(d, failed)
  \/ DeleteRow(d)
  \/ DeletionEnds(d)

ReconcilerStep ==
  \/ \E t \in Scopes : ReadDocuments(t)
  \/ ScrollPoints \/ MatchEdges \/ ListObjects \/ AuditFails
  \/ \E drift \in report.drifts : RepairDrift(drift) \/ RepairFails(drift)
  \/ EndReconciliation

Next ==
  \/ \E d \in Docs : UploadStep(d) \/ WorkerStep(d) \/ DeletionStep(d)
  \/ \E base \in Tenants \X KnowledgeBases : DeleteKnowledgeBase(base)
  \/ ReconcilerStep

Spec == Init /\ [][Next]_vars

(***************************************************************************)
(* Properties                                                              *)
(***************************************************************************)

\* One file is in a tenant's knowledge base at most once, however many
\* uploads of it race, fail, crash and are repeated after deletions.
OneDocumentPerFile ==
  \A d, e \in Docs :
    row[d] = "PRESENT" /\ row[e] = "PRESENT" /\ d # e =>
      upload[d].file # upload[e].file \/ upload[d].tenant # upload[e].tenant

\* Racing uploads of different files never take a tenant over its quotas.
QuotasHold ==
  \A t \in Tenants :
    Cardinality(DocumentsOf(t)) <= MaxDocuments /\ StorageUsed(t) <= MaxStorage

\* Once delete_document has taken a document's row, the document's file is gone
\* for good, whatever was uploading, failing, being repaired or being dropped
\* with its knowledge base meanwhile.  (A row that goes with its knowledge base
\* leaves the file: RowOutlivesFile.)
DeletedFileIsGone == \A d \in Docs : row[d] = "DELETED" => d \notin objects

\* A document in the table loses data in a store only through a deletion of
\* its own, the compensation of its own commit, or a repair whose audit did
\* not know it: one that began before its commit, or was of another tenant.
DataLossHasACause ==
  [][\A d \in Docs :
       /\ row[d] = "PRESENT"
       /\ d \in (objects \ objects') \cup (points \ points') \cup (edges \ edges')
       => \/ deletion'[d] # deletion[d]
          \/ upload[d].pc = "compensating"
          \/ report.stage = "repair" /\ d \notin report.docs]_vars

\* The comment on the second duplicate check: "so the unique task key becomes
\* a deterministic response instead of an IntegrityError".
NoIntegrityError == \A d \in Docs : upload[d].pc # "conflict"

\* delete_document on its failure path: "A failed external cleanup must prevent
\* the metadata row from disappearing, otherwise reconciliation cannot know that
\* the physical object still needs cleanup."  A document's row never goes while
\* its object is there.
RowOutlivesFile ==
  [][\A d \in Docs : row[d] = "PRESENT" /\ row'[d] # "PRESENT" => d \notin objects]_vars

\* repair_consistency: "Safely repairs consistency drifts according to the
\* provided report."  A repair takes nothing from a document in the table, be it
\* newer than the audit or outside the tenant that was asked for.
RepairTakesOrphansOnly ==
  [][\A d \in Docs :
       /\ row[d] = "PRESENT"
       /\ report.stage = "repair"
       /\ report'.drifts # report.drifts
       => /\ d \in objects => d \in objects'
          /\ d \in points => d \in points'
          /\ d \in edges => d \in edges']_vars
=============================================================================
