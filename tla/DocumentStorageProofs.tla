----------------------- MODULE DocumentStorageProofs -----------------------
(***************************************************************************)
(* Theorems about DocumentStorage, for any number of upload requests,      *)
(* files and tenants, any sizes and quotas, and any tenant filters.        *)
(*                                                                         *)
(* Three observations carry them.  A request writes its object before and  *)
(* never after its row is committed; the tenant's row lock is held from    *)
(* the second check to the commit, so what that check counted only shrinks *)
(* until then; a drift never names a document its audit knew.  A deletion  *)
(* of a knowledge base takes rows and nothing else (CascadeLeaves).        *)
(***************************************************************************)
EXTENDS DocumentStorage, FiniteSums

(***************************************************************************)
(* Type correctness                                                        *)
(***************************************************************************)

\* A deletion of a knowledge base touches the tables only.
LEMMA CascadeLeaves ==
  ASSUME NEW base, DeleteKnowledgeBase(base)
  PROVE  /\ UNCHANGED <<storeVars, upload, indexing, deletion, report>>
         /\ UNCHANGED <<objects, points, edges>>
  BY DEF DeleteKnowledgeBase, storeVars

\* Assigning one column keeps a record of its kind.
LEMMA UploadColumns ==
  ASSUME NEW u \in Upload
  PROVE  /\ \A pc \in UploadPC : /\ [u EXCEPT !.pc = pc] \in Upload
                                 /\ [u EXCEPT !.pc = pc].pc = pc
                                 /\ [u EXCEPT !.pc = pc].file = u.file
                                 /\ [u EXCEPT !.pc = pc].tenant = u.tenant
         /\ \A S \in SUBSET Docs : /\ [u EXCEPT !.seen_failed = S] \in Upload
                                   /\ [u EXCEPT !.seen_failed = S].pc = u.pc
                                   /\ [u EXCEPT !.seen_failed = S].file = u.file
                                   /\ [u EXCEPT !.seen_failed = S].tenant = u.tenant
  BY DEF Upload

\* The request of d moves to another stage: what nearly every upload step does.
Moves(d, from, to) ==
  /\ upload[d].pc \in from
  /\ \A e \in Docs : /\ upload'[e] \in Upload
                     /\ e # d => upload'[e] = upload[e]
                     /\ upload'[e].file = upload[e].file
                     /\ upload'[e].tenant = upload[e].tenant
  /\ upload'[d].pc \in to
  /\ upload' \in [Docs -> Upload]

LEMMA OneRequestMoves ==
  ASSUME TypeOK, NEW d \in Docs, NEW u \in Upload,
         u.file = upload[d].file, u.tenant = upload[d].tenant,
         upload' = [upload EXCEPT ![d] = u]
  PROVE  Moves(d, {upload[d].pc}, {u.pc})
  BY DEF TypeOK, Moves

LEMMA SamePCMoves ==
  ASSUME TypeOK, NEW d \in Docs, NEW from, NEW to \in UploadPC, SamePC(d, from, to)
  PROVE  Moves(d, {from}, {to})
  <1> DEFINE u == [upload[d] EXCEPT !.pc = to]
  <1>1. /\ u \in Upload /\ u.pc = to
        /\ u.file = upload[d].file /\ u.tenant = upload[d].tenant
    BY UploadColumns DEF TypeOK
  <1>2. upload' = [upload EXCEPT ![d] = u] /\ upload[d].pc = from
    BY DEF SamePC
  <1> HIDE DEF u
  <1> QED
    BY <1>1, <1>2, OneRequestMoves

LEMMA SeenMoves ==
  ASSUME TypeOK, NEW d \in Docs, NEW to \in UploadPC, NEW S \in SUBSET Docs,
         upload' = [upload EXCEPT ![d].pc = to, ![d].seen_failed = S]
  PROVE  Moves(d, {upload[d].pc}, {to})
  <1> DEFINE v == [upload[d] EXCEPT !.pc = to]
             u == [v EXCEPT !.seen_failed = S]
  <1>1. /\ v \in Upload /\ v.pc = to
        /\ v.file = upload[d].file /\ v.tenant = upload[d].tenant
    BY UploadColumns DEF TypeOK
  <1>2. /\ u \in Upload /\ u.pc = to
        /\ u.file = upload[d].file /\ u.tenant = upload[d].tenant
    <2> HIDE DEF v
    <2> QED BY <1>1, UploadColumns
  <1>3. upload' = [upload EXCEPT ![d] = u]
    OBVIOUS
  <1> HIDE DEF u, v
  <1> QED
    BY <1>2, <1>3, OneRequestMoves

\* Where each step of a request leads from and to.
LEMMA UploadMoves ==
  ASSUME TypeOK, NEW d \in Docs
  PROVE  /\ PreCheck(d) => Moves(d, {"new"}, {"answered", "checked"})
         /\ LockTenant(d) => Moves(d, {"checked"}, {"locked"})
         /\ Recheck(d) => Moves(d, {"locked"}, {"admitted", "answered"})
         /\ PutObject(d) => Moves(d, {"admitted"}, {"stored"})
         /\ PutFails(d) => Moves(d, {"admitted"}, {"answered"})
         /\ Flush(d) => Moves(d, {"stored"}, {"flushed", "conflict", "answered"})
         /\ Commit(d) => Moves(d, {"flushed"}, {"accepted"})
         /\ CommitFails(d) => Moves(d, {"flushed"}, {"compensating"})
         /\ Compensate(d) => Moves(d, {"compensating"}, {"answered"})
         /\ UploadEnds(d) => Moves(d, UploadPC, {"answered"})
  <1> USE DEF UploadPC
  <1>1. PreCheck(d) => Moves(d, {"new"}, {"answered", "checked"})
    <2> SUFFICES ASSUME PreCheck(d)
                 PROVE  Moves(d, {"new"}, {"answered", "checked"})
      OBVIOUS
    <2> DEFINE to == IF BaseOf(d) \in dropped \/ DuplicateOf(d) # {}
                     THEN "answered" ELSE "checked"
               S == SameKey(d) \ DuplicateOf(d)
    <2>1. upload' = [upload EXCEPT ![d].pc = to, ![d].seen_failed = S]
      BY DEF PreCheck
    <2>2. to \in {"answered", "checked"} /\ S \in SUBSET Docs
      BY DEF SameKey
    <2>3. Moves(d, {upload[d].pc}, {to})
      <3> HIDE DEF to, S
      <3> QED BY <2>1, <2>2, SeenMoves
    <2> HIDE DEF to
    <2> QED
      BY <2>2, <2>3 DEF Moves, PreCheck
  <1>2. Recheck(d) => Moves(d, {"locked"}, {"admitted", "answered"})
    <2> SUFFICES ASSUME Recheck(d)
                 PROVE  Moves(d, {"locked"}, {"admitted", "answered"})
      OBVIOUS
    <2>1. \E to \in {"admitted", "answered"} :
            upload' = [upload EXCEPT ![d].pc = to, ![d].seen_failed = {}]
      BY DEF Recheck
    <2>2. PICK to \in {"admitted", "answered"} :
            upload' = [upload EXCEPT ![d].pc = to, ![d].seen_failed = {}]
      BY <2>1
    <2>3. Moves(d, {upload[d].pc}, {to})
      <3> DEFINE S == {}
      <3>1. S \in SUBSET Docs /\ to \in UploadPC
        OBVIOUS
      <3>2. upload' = [upload EXCEPT ![d].pc = to, ![d].seen_failed = S]
        BY <2>2
      <3> HIDE DEF S
      <3> QED BY <3>1, <3>2, SeenMoves
    <2> QED
      BY <2>3 DEF Moves, Recheck
  <1>3. UploadEnds(d) => Moves(d, UploadPC, {"answered"})
    <2> SUFFICES ASSUME UploadEnds(d)
                 PROVE  Moves(d, UploadPC, {"answered"})
      OBVIOUS
    <2>1. Moves(d, {upload[d].pc}, {"answered"})
      <3> DEFINE S == {}
                 to == "answered"
      <3>1. S \in SUBSET Docs /\ to \in UploadPC
        OBVIOUS
      <3>2. upload' = [upload EXCEPT ![d].pc = to, ![d].seen_failed = S]
        BY DEF UploadEnds
      <3> HIDE DEF S, to
      <3>3. Moves(d, {upload[d].pc}, {to})
        BY <3>1, <3>2, SeenMoves
      <3> QED
        BY <3>3 DEF to
    <2> QED
      BY <2>1 DEF Moves, UploadEnds
  <1>4. Flush(d) => Moves(d, {"stored"}, {"flushed", "conflict", "answered"})
    BY SamePCMoves DEF Flush, Moves
  <1> QED
    BY <1>1, <1>2, <1>3, <1>4, SamePCMoves
    DEF LockTenant, PutObject, PutFails, Commit, CommitFails, Compensate

\* A request keeps its file and its tenant, and the table of requests its type.
LEMMA RequestsStay ==
  ASSUME TypeOK, [Next]_vars
  PROVE  /\ upload' \in [Docs -> Upload]
         /\ \A d \in Docs : /\ upload'[d].file = upload[d].file
                            /\ upload'[d].tenant = upload[d].tenant
  <1>1. ASSUME NEW d \in Docs, UploadStep(d)
        PROVE  /\ upload' \in [Docs -> Upload]
               /\ \A e \in Docs : /\ upload'[e].file = upload[e].file
                                  /\ upload'[e].tenant = upload[e].tenant
    BY <1>1, UploadMoves DEF UploadStep, Moves
  <1>2. CASE UNCHANGED upload
    BY <1>2 DEF TypeOK
  <1> QED
    BY <1>1, <1>2, CascadeLeaves
    DEF Next, WorkerStep, DeletionStep, ReconcilerStep, BeginIndexing, WritePoints,
        ReportProgress, WriteEdges, EndIndexing, IndexingStops, TaskFails, RetryTask,
        DeleteObject, DeletePoints, DeleteEdges, DeleteRow, DeletionEnds, ReadDocuments,
        ScrollPoints, MatchEdges, ListObjects, AuditFails, Found, RepairDrift, RepairFails,
        EndReconciliation, vars

RowStates == { "ABSENT", "PRESENT", "DELETED", "CASCADED" }

\* Both columns of a document's row.
LEMMA TablesStep ==
  ASSUME TypeOK, [Next]_vars
  PROVE  /\ row' \in [Docs -> RowStates]
         /\ job' \in [Docs -> { "none", "active", "ok", "failed" }]
         /\ \A d \in Docs : row'[d] = "PRESENT" <=> job'[d] # "none"
  <1> USE DEF TypeOK, RowStates
  <1>1. CASE UNCHANGED tableVars
    BY <1>1 DEF tableVars
  <1>2. ASSUME NEW d \in Docs, RowCommitted(d)
        PROVE  /\ row' \in [Docs -> RowStates]
               /\ job' \in [Docs -> { "none", "active", "ok", "failed" }]
               /\ \A e \in Docs : row'[e] = "PRESENT" <=> job'[e] # "none"
    BY <1>2 DEF RowCommitted
  <1>3. ASSUME NEW d \in Docs, EndIndexing(d) \/ TaskFails(d) \/ RetryTask(d)
        PROVE  /\ row' \in [Docs -> RowStates]
               /\ job' \in [Docs -> { "none", "active", "ok", "failed" }]
               /\ \A e \in Docs : row'[e] = "PRESENT" <=> job'[e] # "none"
    BY <1>3 DEF EndIndexing, TaskFails, RetryTask, OwnsTask
  <1>4. ASSUME NEW d \in Docs, DeleteRow(d)
        PROVE  /\ row' \in [Docs -> RowStates]
               /\ job' \in [Docs -> { "none", "active", "ok", "failed" }]
               /\ \A e \in Docs : row'[e] = "PRESENT" <=> job'[e] # "none"
    BY <1>4 DEF DeleteRow
  <1>5. ASSUME NEW d \in Docs, UploadStep(d)
        PROVE  RowCommitted(d) \/ UNCHANGED tableVars
    BY <1>5
    DEF UploadStep, PreCheck, LockTenant, Recheck, PutObject, PutFails, Flush, Commit,
        CommitFails, Compensate, UploadEnds
  <1>6. ASSUME NEW base, DeleteKnowledgeBase(base)
        PROVE  /\ row' \in [Docs -> RowStates]
               /\ job' \in [Docs -> { "none", "active", "ok", "failed" }]
               /\ \A e \in Docs : row'[e] = "PRESENT" <=> job'[e] # "none"
    BY <1>6 DEF DeleteKnowledgeBase
  <1> QED
    BY <1>1, <1>2, <1>3, <1>4, <1>5, <1>6
    DEF Next, WorkerStep, DeletionStep, ReconcilerStep, BeginIndexing, WritePoints,
        ReportProgress, WriteEdges, IndexingStops, DeleteObject, DeletePoints, DeleteEdges,
        DeletionEnds, ReadDocuments, ScrollPoints, MatchEdges, ListObjects, AuditFails, Found,
        RepairDrift, RepairFails, EndReconciliation, vars, tableVars

LEMMA StoresStep ==
  ASSUME TypeOK, [Next]_vars
  PROVE  objects' \subseteq Docs /\ points' \subseteq Docs /\ edges' \subseteq Docs
  <1> USE DEF TypeOK
  <1>1. CASE UNCHANGED storeVars
    BY <1>1 DEF storeVars
  <1>2. ASSUME NEW d \in Docs, UploadStep(d)
        PROVE  objects' \subseteq Docs /\ points' \subseteq Docs /\ edges' \subseteq Docs
    BY <1>2
    DEF UploadStep, PreCheck, LockTenant, Recheck, PutObject, PutFails, Flush, Commit,
        CommitFails, Compensate, UploadEnds, storeVars
  <1>3. ASSUME NEW d \in Docs, WorkerStep(d) \/ DeletionStep(d)
        PROVE  objects' \subseteq Docs /\ points' \subseteq Docs /\ edges' \subseteq Docs
    BY <1>3
    DEF WorkerStep, BeginIndexing, WritePoints, ReportProgress, WriteEdges, EndIndexing,
        IndexingStops, TaskFails, RetryTask, DeletionStep, DeleteObject, DeletePoints,
        DeleteEdges, DeleteRow, DeletionEnds, storeVars
  <1>4. ASSUME NEW drift \in report.drifts, RepairDrift(drift)
        PROVE  objects' \subseteq Docs /\ points' \subseteq Docs /\ edges' \subseteq Docs
    BY <1>4 DEF RepairDrift
  <1> QED
    BY <1>1, <1>2, <1>3, <1>4, CascadeLeaves
    DEF Next, ReconcilerStep, ReadDocuments, ScrollPoints, MatchEdges, ListObjects, AuditFails,
        Found, RepairFails, EndReconciliation, vars, storeVars

LEMMA IndexingStep ==
  ASSUME TypeOK, [Next]_vars
  PROVE  indexing' \in [Docs -> Indexing]
  <1> USE DEF TypeOK
  <1>1. CASE UNCHANGED indexing
    BY <1>1
  <1>2. NoIndexing \in Indexing
    BY DEF NoIndexing, Indexing
  <1>3. \A x \in Indexing :
          /\ [x EXCEPT !.stage = "embedded"] \in Indexing
          /\ [x EXCEPT !.stage = "graph"] \in Indexing
          /\ [x EXCEPT !.stage = "built"] \in Indexing
          /\ [x EXCEPT !.holds = FALSE] \in Indexing
    BY DEF Indexing
  <1>4. [stage |-> "embedding", holds |-> TRUE] \in Indexing
    BY DEF Indexing
  <1>5. ASSUME NEW d \in Docs, WorkerStep(d)
        PROVE  \/ UNCHANGED indexing
               \/ \E x \in Indexing : indexing' = [indexing EXCEPT ![d] = x]
    <2>1. indexing[d] \in Indexing
      OBVIOUS
    <2> QED
      BY <1>2, <1>3, <1>4, <1>5, <2>1
      DEF WorkerStep, BeginIndexing, WritePoints, ReportProgress, WriteEdges, EndIndexing,
          IndexingStops, TaskFails, RetryTask
  <1>6. ASSUME NEW d \in Docs, UploadStep(d) \/ DeletionStep(d)
        PROVE  UNCHANGED indexing
    BY <1>6
    DEF UploadStep, PreCheck, LockTenant, Recheck, PutObject, PutFails, Flush, Commit,
        CommitFails, Compensate, UploadEnds, DeletionStep, DeleteObject, DeletePoints,
        DeleteEdges, DeleteRow, DeletionEnds
  <1> QED
    BY <1>1, <1>5, <1>6, CascadeLeaves
    DEF Next, ReconcilerStep, ReadDocuments, ScrollPoints, MatchEdges, ListObjects, AuditFails,
        Found, RepairDrift, RepairFails, EndReconciliation, vars

LEMMA DeletionStepType ==
  ASSUME TypeOK, [Next]_vars
  PROVE  deletion' \in [Docs -> Deletion]
  <1> USE DEF TypeOK
  <1>1. CASE UNCHANGED deletion
    BY <1>1
  <1>2. NoDeletion \in Deletion
    BY DEF NoDeletion, Deletion
  <1>3. ASSUME NEW d \in Docs, NEW failed \in BOOLEAN, DeleteObject(d, failed)
        PROVE  deletion' \in [Docs -> Deletion]
    BY <1>3 DEF DeleteObject, Deletion
  <1>4. ASSUME NEW d \in Docs, NEW failed \in BOOLEAN,
               DeletePoints(d, failed) \/ DeleteEdges(d, failed)
        PROVE  deletion' \in [Docs -> Deletion]
    <2>1. PICK s \in { "edges", "row" } :
            deletion' = [deletion EXCEPT ![d].stage = s, ![d].errors = @ \/ failed]
      BY <1>4 DEF DeletePoints, DeleteEdges
    <2> DEFINE v == [deletion[d] EXCEPT !.stage = s]
               x == [v EXCEPT !.errors = deletion[d].errors \/ failed]
    <2>2. v \in Deletion /\ deletion[d].errors \in BOOLEAN
      BY DEF Deletion
    <2>3. x \in Deletion
      <3>1. \A b \in BOOLEAN : [v EXCEPT !.errors = b] \in Deletion
        <4> HIDE DEF v
        <4> QED BY <2>2 DEF Deletion
      <3>2. (deletion[d].errors \/ failed) \in BOOLEAN
        BY <2>2
      <3> QED
        BY <3>1, <3>2, Zenon
    <2>4. deletion' = [deletion EXCEPT ![d] = x]
      BY <2>1, Zenon
    <2> HIDE DEF x, v
    <2> QED
      BY <2>3, <2>4
  <1>5. ASSUME NEW d \in Docs, DeleteRow(d) \/ DeletionEnds(d)
        PROVE  deletion' \in [Docs -> Deletion]
    BY <1>2, <1>5 DEF DeleteRow, DeletionEnds
  <1>6. ASSUME NEW d \in Docs, UploadStep(d) \/ WorkerStep(d)
        PROVE  UNCHANGED deletion
    BY <1>6
    DEF UploadStep, PreCheck, LockTenant, Recheck, PutObject, PutFails, Flush, Commit,
        CommitFails, Compensate, UploadEnds, WorkerStep, BeginIndexing, WritePoints,
        ReportProgress, WriteEdges, EndIndexing, IndexingStops, TaskFails, RetryTask
  <1> QED
    BY <1>1, <1>3, <1>4, <1>5, <1>6, CascadeLeaves
    DEF Next, DeletionStep, ReconcilerStep, ReadDocuments, ScrollPoints, MatchEdges,
        ListObjects, AuditFails, Found, RepairDrift, RepairFails, EndReconciliation, vars

\* The audit knows its documents: what it reports are others.
ReportInv == \A drift \in report.drifts : drift.doc \notin report.docs

LEMMA FoundStep ==
  ASSUME TypeOK, ReportInv, NEW storage \in Storage,
         NEW next \in { "memgraph", "minio", "repair" }, NEW found \in SUBSET Docs,
         Found(storage, next, found)
  PROVE  report' \in Report /\ ReportInv'
  <1> DEFINE v == [report EXCEPT !.stage = next]
             x == [v EXCEPT !.drifts = report.drifts \cup Orphans(storage, found)]
  <1>1. /\ Orphans(storage, found) \subseteq Drift
        /\ \A drift \in Orphans(storage, found) : drift.doc \notin report.docs
    BY DEF Orphans, Drift
  <1>2. v \in Report /\ v.docs = report.docs
    BY DEF TypeOK, Report
  <1>3. report.drifts \cup Orphans(storage, found) \subseteq Drift
    BY <1>1 DEF TypeOK, Report
  <1>4. /\ x \in Report /\ x.docs = report.docs
        /\ x.drifts = report.drifts \cup Orphans(storage, found)
    <2> HIDE DEF v
    <2> QED BY <1>2, <1>3 DEF Report
  <1>5. report' = x
    BY Zenon DEF Found
  <1> HIDE DEF x
  <1> QED
    BY <1>1, <1>4, <1>5 DEF ReportInv

LEMMA ReadDocumentsStep ==
  ASSUME TypeOK, NEW t \in Scopes, ReadDocuments(t)
  PROVE  report' \in Report /\ ReportInv'
  <1> DEFINE known == { d \in Docs : row[d] = "PRESENT" /\ InScope(upload[d].tenant, t) }
             a == [NoReport EXCEPT !.stage = "qdrant"]
             b == [a EXCEPT !.tenant_filter = t]
             x == [b EXCEPT !.docs = known]
  <1>1. a \in Report /\ a.drifts = {}
    BY DEF NoReport, Report
  <1>2. b \in Report /\ b.drifts = {}
    <2> HIDE DEF a
    <2> QED BY <1>1 DEF Report
  <1>3. x \in Report /\ x.drifts = {}
    <2>1. known \subseteq Docs
      OBVIOUS
    <2> HIDE DEF b, known
    <2> QED BY <1>2, <2>1 DEF Report
  <1>4. report' = x
    BY Zenon DEF ReadDocuments
  <1> HIDE DEF x
  <1> QED
    BY <1>3, <1>4 DEF ReportInv

LEMMA ReportStep ==
  ASSUME TypeOK, ReportInv, [Next]_vars
  PROVE  report' \in Report /\ ReportInv'
  <1>1. CASE UNCHANGED report
    BY <1>1 DEF TypeOK, ReportInv
  <1>2. ScopedTo(points) \subseteq Docs /\ ScopedTo(edges) \subseteq Docs /\ objects \subseteq Docs
    BY DEF TypeOK, ScopedTo
  <1>3. /\ "qdrant" \in Storage /\ "memgraph" \in Storage /\ "minio" \in Storage
        /\ {} \subseteq Docs /\ SUBSET ScopedTo(points) \subseteq SUBSET Docs
    BY <1>2 DEF Storage
  <1>4. CASE ScrollPoints \/ MatchEdges \/ ListObjects
    BY <1>2, <1>3, <1>4, FoundStep DEF ScrollPoints, MatchEdges, ListObjects
  <1>5. CASE AuditFails
    BY <1>3, <1>5, FoundStep DEF AuditFails
  <1>6. ASSUME NEW drift, RepairDrift(drift) \/ RepairFails(drift)
        PROVE  report' \in Report /\ ReportInv'
    <2> DEFINE x == [report EXCEPT !.drifts = report.drifts \ {drift}]
    <2>1. report' = x
      BY <1>6 DEF RepairDrift, RepairFails
    <2>2. report.drifts \ {drift} \subseteq Drift
      BY DEF TypeOK, Report
    <2>3. x \in Report /\ x.docs = report.docs /\ x.drifts = report.drifts \ {drift}
      BY <2>2 DEF TypeOK, Report
    <2> HIDE DEF x
    <2> QED
      BY <2>1, <2>3 DEF ReportInv
  <1>7. CASE EndReconciliation
    BY <1>7 DEF EndReconciliation, NoReport, Report, ReportInv
  <1>8. ASSUME NEW d \in Docs, UploadStep(d) \/ WorkerStep(d) \/ DeletionStep(d)
        PROVE  UNCHANGED report
    BY <1>8
    DEF UploadStep, PreCheck, LockTenant, Recheck, PutObject, PutFails, Flush, Commit,
        CommitFails, Compensate, UploadEnds, WorkerStep, BeginIndexing, WritePoints,
        ReportProgress, WriteEdges, EndIndexing, IndexingStops, TaskFails, RetryTask,
        DeletionStep, DeleteObject, DeletePoints, DeleteEdges, DeleteRow, DeletionEnds
  <1>9. ASSUME NEW t \in Scopes, ReadDocuments(t)
        PROVE  report' \in Report /\ ReportInv'
    BY <1>9, ReadDocumentsStep
  <1> QED
    BY <1>1, <1>4, <1>5, <1>6, <1>7, <1>8, <1>9, CascadeLeaves DEF Next, ReconcilerStep, vars

\* Only a knowledge base of some tenant is dropped, and it stays so.
LEMMA DroppedStep ==
  ASSUME TypeOK, [Next]_vars
  PROVE  dropped' \subseteq Tenants \X KnowledgeBases /\ dropped \subseteq dropped'
  <1> USE DEF TypeOK
  <1>1. ASSUME NEW base \in Tenants \X KnowledgeBases, DeleteKnowledgeBase(base)
        PROVE  dropped' \subseteq Tenants \X KnowledgeBases /\ dropped \subseteq dropped'
    BY <1>1 DEF DeleteKnowledgeBase
  <1>2. ASSUME NEW d \in Docs, UploadStep(d) \/ WorkerStep(d) \/ DeletionStep(d)
        PROVE  UNCHANGED dropped
    BY <1>2
    DEF UploadStep, PreCheck, LockTenant, Recheck, PutObject, PutFails, Flush, Commit,
        CommitFails, Compensate, UploadEnds, WorkerStep, BeginIndexing, WritePoints,
        ReportProgress, WriteEdges, EndIndexing, IndexingStops, TaskFails, RetryTask,
        DeletionStep, DeleteObject, DeletePoints, DeleteEdges, DeleteRow, DeletionEnds
  <1>3. CASE ReconcilerStep
    BY <1>3
    DEF ReconcilerStep, ReadDocuments, ScrollPoints, MatchEdges, ListObjects, AuditFails,
        Found, RepairDrift, RepairFails, EndReconciliation
  <1> QED
    BY <1>1, <1>2, <1>3 DEF Next, vars

LEMMA TypeStep ==
  ASSUME TypeOK, ReportInv, [Next]_vars
  PROVE  TypeOK' /\ ReportInv'
  BY RequestsStay, TablesStep, StoresStep, IndexingStep, DeletionStepType, ReportStep, DroppedStep
  DEF TypeOK, RowStates

LEMMA InitType == Init => TypeOK /\ ReportInv
  <1> SUFFICES ASSUME Init
               PROVE  TypeOK /\ ReportInv
    OBVIOUS
  <1>1. upload \in [Docs -> Upload]
    BY DEF Init
  <1>2. /\ indexing \in [Docs -> Indexing]
        /\ deletion \in [Docs -> Deletion]
        /\ report \in Report /\ ReportInv
    BY DEF Init, NoIndexing, Indexing, NoDeletion, Deletion, NoReport, Report, ReportInv
  <1> QED
    BY <1>1, <1>2 DEF Init, TypeOK

\* Type correctness: the tables, the stores, the requests, deletions and the
\* reconciler's report stay within their columns, and a document's row exists
\* exactly while its task's row does.
THEOREM TypeCorrect == Spec => [](TypeOK /\ ReportInv)
  <1>1. TypeOK /\ ReportInv /\ [Next]_vars => TypeOK' /\ ReportInv'
    BY TypeStep
  <1> QED
    BY <1>1, InitType, PTL DEF Spec

(***************************************************************************)
(* Requests, locks and rows                                                *)
(***************************************************************************)

\* A request that changes at all takes a step of its own.
LEMMA RequestStep ==
  ASSUME TypeOK, [Next]_vars, NEW d \in Docs
  PROVE  upload'[d] = upload[d] \/ UploadStep(d)
  <1>1. ASSUME NEW e \in Docs, e # d, UploadStep(e)
        PROVE  upload'[d] = upload[d]
    BY <1>1, UploadMoves DEF UploadStep, Moves
  <1>2. ASSUME NEW e \in Docs, WorkerStep(e) \/ DeletionStep(e)
        PROVE  upload'[d] = upload[d]
    BY <1>2
    DEF WorkerStep, BeginIndexing, WritePoints, ReportProgress, WriteEdges, EndIndexing,
        IndexingStops, TaskFails, RetryTask, DeletionStep, DeleteObject, DeletePoints,
        DeleteEdges, DeleteRow, DeletionEnds
  <1>3. CASE ReconcilerStep
    BY <1>3
    DEF ReconcilerStep, ReadDocuments, ScrollPoints, MatchEdges, ListObjects, AuditFails,
        Found, RepairDrift, RepairFails, EndReconciliation
  <1> QED
    BY <1>1, <1>2, <1>3, CascadeLeaves DEF Next, vars

\* A row appears with the commit of its request, and goes with DeleteRow or with
\* its knowledge base.
LEMMA RowChange ==
  ASSUME TypeOK, [Next]_vars, NEW d \in Docs
  PROVE  \/ row'[d] = row[d]
         \/ Commit(d) \/ CommitFails(d)
         \/ DeleteRow(d)
         \/ row[d] = "PRESENT" /\ row'[d] = "CASCADED"
  <1>1. ASSUME NEW e \in Docs, UploadStep(e)
        PROVE  row'[d] = row[d] \/ Commit(d) \/ CommitFails(d)
    BY <1>1
    DEF TypeOK, UploadStep, PreCheck, LockTenant, Recheck, PutObject, PutFails, Flush, Commit,
        CommitFails, RowCommitted, Compensate, UploadEnds, tableVars
  <1>2. ASSUME NEW e \in Docs, WorkerStep(e) \/ DeletionStep(e)
        PROVE  row'[d] = row[d] \/ DeleteRow(d)
    BY <1>2
    DEF TypeOK, WorkerStep, BeginIndexing, WritePoints, ReportProgress, WriteEdges, EndIndexing,
        IndexingStops, TaskFails, RetryTask, DeletionStep, DeleteObject, DeletePoints,
        DeleteEdges, DeleteRow, DeletionEnds, tableVars
  <1>3. CASE ReconcilerStep
    BY <1>3
    DEF ReconcilerStep, ReadDocuments, ScrollPoints, MatchEdges, ListObjects, AuditFails,
        Found, RepairDrift, RepairFails, EndReconciliation, tableVars
  <1>4. ASSUME NEW base, DeleteKnowledgeBase(base)
        PROVE  row'[d] = row[d] \/ (row[d] = "PRESENT" /\ row'[d] = "CASCADED")
    BY <1>4 DEF DeleteKnowledgeBase
  <1> QED
    BY <1>1, <1>2, <1>3, <1>4 DEF Next, vars

Holding == { "locked", "admitted", "stored", "flushed" }

\* The row lock of a tenant has one holder.
LockInv ==
  \A d, e \in Docs :
    /\ upload[d].pc \in Holding /\ upload[e].pc \in Holding
    /\ upload[d].tenant = upload[e].tenant
    => d = e

\* What the unique key let through stays unique until the commit.
FlushInv == \A d \in Docs : upload[d].pc = "flushed" => SameKey(d) = {}

\* A row is there only after its request committed.
CommittedInv ==
  \A d \in Docs : row[d] # "ABSENT" =>
    upload[d].pc \in { "compensating", "accepted", "answered" }

\* Only a document that has, or had, a row is being deleted.
DeletionInv ==
  \A d \in Docs : deletion[d].stage # "none" => row[d] # "ABSENT"

RequestInv == LockInv /\ FlushInv /\ CommittedInv /\ DeletionInv

LEMMA HoldingStep ==
  ASSUME TypeOK, NEW d \in Docs, UploadStep(d), upload'[d].pc \in Holding
  PROVE  LockTenant(d) \/ upload[d].pc \in Holding
  BY UploadMoves DEF UploadStep, Moves, Holding

LEMMA LockStep ==
  ASSUME TypeOK, LockInv, [Next]_vars
  PROVE  LockInv'
  <1> SUFFICES ASSUME NEW d \in Docs, NEW e \in Docs, d # e,
                      upload'[d].pc \in Holding, upload'[e].pc \in Holding,
                      upload'[d].tenant = upload'[e].tenant
               PROVE  FALSE
    BY DEF LockInv, Holding
  <1>1. upload[d].tenant = upload[e].tenant
    BY RequestsStay
  <1>2. ASSUME NEW x \in Docs, NEW y \in Docs, x # y, LockTenant(x),
               upload[x].tenant = upload[y].tenant, upload'[y].pc \in Holding
        PROVE  FALSE
    <2>1. upload'[y] = upload[y]
      BY <1>2, UploadMoves DEF Moves
    <2> QED
      BY <1>2, <2>1 DEF LockTenant, LockHolders, Holding
  <1>3. upload[d].pc \in Holding \/ LockTenant(d)
    BY RequestStep, HoldingStep
  <1>4. upload[e].pc \in Holding \/ LockTenant(e)
    BY RequestStep, HoldingStep
  <1> QED
    BY <1>1, <1>2, <1>3, <1>4 DEF LockInv

\* Only the holder of the lock, and only past the constraint, commits.
LEMMA CommitLeavesFlushed ==
  ASSUME TypeOK, NEW d \in Docs, Commit(d) \/ CommitFails(d)
  PROVE  /\ upload[d].pc = "flushed"
         /\ upload'[d].pc \in { "compensating", "accepted" }
         /\ \A e \in Docs : e # d => row'[e] = row[e] /\ upload'[e] = upload[e]
  <1>1. upload[d].pc = "flushed" /\ upload'[d].pc \in { "compensating", "accepted" }
    BY UploadMoves DEF Moves
  <1>2. \A e \in Docs : e # d => row'[e] = row[e]
    BY DEF TypeOK, Commit, CommitFails, RowCommitted, tableVars
  <1>3. \A e \in Docs : e # d => upload'[e] = upload[e]
    BY UploadMoves DEF Moves
  <1> QED
    BY <1>1, <1>2, <1>3

LEMMA FlushStep ==
  ASSUME TypeOK, LockInv, FlushInv, [Next]_vars
  PROVE  FlushInv'
  <1> SUFFICES ASSUME NEW d \in Docs, upload'[d].pc = "flushed",
                      NEW e \in Docs, row'[e] = "PRESENT",
                      upload'[e].file = upload'[d].file, upload'[e].tenant = upload'[d].tenant
               PROVE  FALSE
    BY DEF FlushInv, SameKey
  <1>1. upload[e].file = upload[d].file /\ upload[e].tenant = upload[d].tenant
    BY RequestsStay
  <1>2. SameKey(d) = {} /\ upload[d].pc \in { "stored", "flushed" }
    <2>1. CASE upload'[d] = upload[d]
      BY <2>1 DEF FlushInv
    <2>2. ASSUME UploadStep(d)
          PROVE  Flush(d)
      BY <2>2, UploadMoves DEF UploadStep, Moves
    <2>3. ASSUME Flush(d)
          PROVE  SameKey(d) = {} /\ upload[d].pc = "stored"
      <3>1. upload[d].pc = "stored"
        BY <2>3, UploadMoves DEF Moves
      <3>2. \A to \in { "conflict", "answered" } :
              SamePC(d, "stored", to) => upload'[d].pc = to
        BY SamePCMoves DEF UploadPC, Moves
      <3> QED
        BY <2>3, <3>1, <3>2 DEF Flush
    <2> QED
      BY <2>1, <2>2, <2>3, RequestStep
  <1>3. row[e] # "PRESENT"
    BY <1>1, <1>2 DEF SameKey
  <1>4. Commit(e) \/ CommitFails(e)
    BY <1>3, RowChange DEF DeleteRow, TypeOK
  <1>5. d = e
    BY <1>1, <1>2, <1>4, CommitLeavesFlushed DEF LockInv, Holding
  <1> QED
    BY <1>4, <1>5, CommitLeavesFlushed

LEMMA CommittedStep ==
  ASSUME TypeOK, CommittedInv, DeletionInv, [Next]_vars
  PROVE  CommittedInv'
  <1> SUFFICES ASSUME NEW d \in Docs, row'[d] # "ABSENT"
               PROVE  upload'[d].pc \in { "compensating", "accepted", "answered" }
    BY DEF CommittedInv
  <1>1. CASE Commit(d) \/ CommitFails(d)
    BY <1>1, CommitLeavesFlushed
  <1>2. CASE DeleteRow(d)
    BY <1>2 DEF DeleteRow, CommittedInv, DeletionInv
  <1>3. CASE row[d] # "ABSENT"
    BY <1>3, RequestStep, UploadMoves DEF CommittedInv, UploadStep, Moves
  <1> QED
    BY <1>1, <1>2, <1>3, RowChange

\* A step that changes a deletion is a step of that deletion.
LEMMA DeletionChange ==
  ASSUME TypeOK, [Next]_vars, NEW d \in Docs
  PROVE  deletion'[d] = deletion[d] \/ DeletionStep(d)
  <1>1. ASSUME NEW e \in Docs, e # d, DeletionStep(e)
        PROVE  deletion'[d] = deletion[d]
    BY <1>1
    DEF TypeOK, DeletionStep, DeleteObject, DeletePoints, DeleteEdges, DeleteRow, DeletionEnds
  <1>2. ASSUME NEW e \in Docs, UploadStep(e) \/ WorkerStep(e)
        PROVE  deletion'[d] = deletion[d]
    BY <1>2
    DEF UploadStep, PreCheck, LockTenant, Recheck, PutObject, PutFails, Flush, Commit,
        CommitFails, Compensate, UploadEnds, WorkerStep, BeginIndexing, WritePoints,
        ReportProgress, WriteEdges, EndIndexing, IndexingStops, TaskFails, RetryTask
  <1>3. CASE ReconcilerStep
    BY <1>3
    DEF ReconcilerStep, ReadDocuments, ScrollPoints, MatchEdges, ListObjects, AuditFails,
        Found, RepairDrift, RepairFails, EndReconciliation
  <1> QED
    BY <1>1, <1>2, <1>3, CascadeLeaves DEF Next, vars

LEMMA DeletionInvStep ==
  ASSUME TypeOK, DeletionInv, [Next]_vars
  PROVE  DeletionInv'
  <1> SUFFICES ASSUME NEW d \in Docs, deletion'[d].stage # "none"
               PROVE  row'[d] # "ABSENT"
    BY DEF DeletionInv
  <1>1. row[d] # "ABSENT" => row'[d] # "ABSENT"
    BY RowChange DEF TypeOK, Commit, CommitFails, RowCommitted, DeleteRow, tableVars
  <1>2. CASE deletion'[d] = deletion[d]
    BY <1>1, <1>2 DEF DeletionInv
  <1>3. CASE DeletionStep(d) /\ deletion[d].stage # "none"
    BY <1>1, <1>3 DEF DeletionInv
  <1>4. ASSUME DeletionStep(d), deletion[d].stage = "none"
        PROVE  row[d] = "PRESENT"
    BY <1>4
    DEF DeletionStep, DeleteObject, DeletePoints, DeleteEdges, DeleteRow, DeletionEnds
  <1> QED
    BY <1>1, <1>2, <1>3, <1>4, DeletionChange

LEMMA RequestInvHolds == Spec => [](TypeOK /\ ReportInv /\ RequestInv)
  <1>1. Init => RequestInv
    BY DEF Init, RequestInv, LockInv, FlushInv, CommittedInv, DeletionInv, Holding, NoDeletion
  <1>2. TypeOK /\ RequestInv /\ [Next]_vars => RequestInv'
    BY LockStep, FlushStep, CommittedStep, DeletionInvStep DEF RequestInv
  <1> QED
    BY <1>1, <1>2, TypeCorrect, PTL DEF Spec

(***************************************************************************)
(* One document per file                                                   *)
(***************************************************************************)

LEMMA OneDocumentStep ==
  ASSUME TypeOK, RequestInv, OneDocumentPerFile, [Next]_vars
  PROVE  OneDocumentPerFile'
  <1> SUFFICES ASSUME NEW d \in Docs, NEW e \in Docs, d # e,
                      row'[d] = "PRESENT", row'[e] = "PRESENT",
                      upload'[d].file = upload'[e].file, upload'[d].tenant = upload'[e].tenant
               PROVE  FALSE
    BY DEF OneDocumentPerFile
  <1>1. upload[d].file = upload[e].file /\ upload[d].tenant = upload[e].tenant
    BY RequestsStay
  <1>2. ASSUME NEW x \in Docs, NEW y \in Docs, x # y, row'[y] = "PRESENT",
               upload[x].file = upload[y].file, upload[x].tenant = upload[y].tenant,
               Commit(x) \/ CommitFails(x)
        PROVE  FALSE
    <2>1. row[y] = "PRESENT" /\ upload[x].pc = "flushed"
      BY <1>2, CommitLeavesFlushed
    <2> QED
      BY <1>2, <2>1 DEF RequestInv, FlushInv, SameKey
  <1>3. row[d] = "PRESENT" \/ Commit(d) \/ CommitFails(d)
    BY RowChange DEF DeleteRow, TypeOK
  <1>4. row[e] = "PRESENT" \/ Commit(e) \/ CommitFails(e)
    BY RowChange DEF DeleteRow, TypeOK
  <1> QED
    BY <1>1, <1>2, <1>3, <1>4 DEF OneDocumentPerFile

\* However many uploads of one file race, fail, crash, lose their commit's
\* answer or follow a deletion, a tenant has at most one document of it: the
\* lock is held from the check to the commit and the unique key is looked at
\* under it.
THEOREM FilesAreUnique == Spec => []OneDocumentPerFile
  <1>1. Init => OneDocumentPerFile
    BY DEF Init, OneDocumentPerFile
  <1>2. TypeOK /\ RequestInv /\ OneDocumentPerFile /\ [Next]_vars => OneDocumentPerFile'
    BY OneDocumentStep
  <1> QED
    BY <1>1, <1>2, RequestInvHolds, PTL DEF Spec

(***************************************************************************)
(* Deleted files and lost data                                             *)
(***************************************************************************)

\* An object is put only while its request has not committed.
LEMMA ObjectAppears ==
  ASSUME TypeOK, [Next]_vars, NEW d \in Docs, d \in objects', d \notin objects
  PROVE  upload[d].pc = "admitted"
  <1>1. ASSUME NEW e \in Docs, UploadStep(e)
        PROVE  upload[d].pc = "admitted"
    BY <1>1
    DEF UploadStep, PreCheck, LockTenant, Recheck, PutObject, PutFails, SamePC, Flush, Commit,
        CommitFails, Compensate, UploadEnds, storeVars
  <1>2. ASSUME NEW e \in Docs, WorkerStep(e) \/ DeletionStep(e)
        PROVE  objects' \subseteq objects
    BY <1>2
    DEF WorkerStep, BeginIndexing, WritePoints, ReportProgress, WriteEdges, EndIndexing,
        IndexingStops, TaskFails, RetryTask, DeletionStep, DeleteObject, DeletePoints,
        DeleteEdges, DeleteRow, DeletionEnds, storeVars
  <1>3. CASE ReconcilerStep
    BY <1>3
    DEF ReconcilerStep, ReadDocuments, ScrollPoints, MatchEdges, ListObjects, AuditFails,
        Found, RepairDrift, RepairFails, EndReconciliation, storeVars
  <1> QED
    BY <1>1, <1>2, <1>3, CascadeLeaves DEF Next, vars

\* A deletion that has met no error has removed the object.
CleanDeletionInv ==
  \A d \in Docs : deletion[d].stage # "none" /\ ~deletion[d].errors => d \notin objects

LEMMA CleanDeletionStep ==
  ASSUME TypeOK, RequestInv, CleanDeletionInv, [Next]_vars
  PROVE  CleanDeletionInv'
  <1> SUFFICES ASSUME NEW d \in Docs, deletion'[d].stage # "none", ~deletion'[d].errors
               PROVE  d \notin objects'
    BY DEF CleanDeletionInv
  <1>1. CASE deletion[d].stage # "none" /\ ~deletion[d].errors
    BY <1>1, ObjectAppears DEF CleanDeletionInv, RequestInv, DeletionInv, CommittedInv
  <1>2. CASE DeletionStep(d) /\ ~(deletion[d].stage # "none" /\ ~deletion[d].errors)
    <2>1. ASSUME NEW failed \in BOOLEAN, DeletePoints(d, failed) \/ DeleteEdges(d, failed)
          PROVE  deletion[d].stage # "none" /\ ~deletion[d].errors
      <3>1. deletion[d] \in Deletion
        BY DEF TypeOK
      <3>2. deletion[d].stage # "none"
        BY <2>1 DEF DeletePoints, DeleteEdges
      <3>3. deletion'[d].errors = (deletion[d].errors \/ failed)
        BY <2>1, <3>1 DEF DeletePoints, DeleteEdges, TypeOK, Deletion
      <3> QED
        BY <3>2, <3>3
    <2>2. ASSUME NEW failed \in BOOLEAN, DeleteObject(d, failed)
          PROVE  d \notin objects'
      <3>1. deletion'[d].errors = failed
        BY <2>2 DEF DeleteObject, TypeOK
      <3> QED
        BY <2>2, <3>1 DEF DeleteObject
    <2>3. ~DeleteRow(d) /\ ~DeletionEnds(d)
      BY DEF DeleteRow, DeletionEnds, TypeOK, NoDeletion
    <2> QED
      BY <1>2, <2>1, <2>2, <2>3 DEF DeletionStep
  <1>3. CASE deletion'[d] = deletion[d]
    BY <1>1, <1>3
  <1> QED
    BY <1>1, <1>2, <1>3, DeletionChange

LEMMA DeletedFileStep ==
  ASSUME TypeOK, RequestInv, CleanDeletionInv, DeletedFileIsGone, [Next]_vars
  PROVE  DeletedFileIsGone'
  <1> SUFFICES ASSUME NEW d \in Docs, row'[d] = "DELETED"
               PROVE  d \notin objects'
    BY DEF DeletedFileIsGone
  <1>1. CASE row[d] = "DELETED"
    BY <1>1, ObjectAppears DEF DeletedFileIsGone, RequestInv, CommittedInv
  <1>2. CASE DeleteRow(d)
    BY <1>2 DEF DeleteRow, CleanDeletionInv, storeVars
  <1>3. ASSUME Commit(d) \/ CommitFails(d), row[d] # "DELETED"
        PROVE  FALSE
    BY <1>3 DEF Commit, CommitFails, RowCommitted, TypeOK, tableVars
  <1> QED
    BY <1>1, <1>2, <1>3, RowChange

\* The file of a document that delete_document has deleted is gone for good: it
\* takes the row only after every store confirmed, and the document's upload
\* never writes the object again.  This says nothing of the other way a row
\* goes, with its knowledge base: no store is asked then, and the file stays.
THEOREM DeletedFilesAreGone == Spec => []DeletedFileIsGone
  <1>1. Init => CleanDeletionInv /\ DeletedFileIsGone
    BY DEF Init, CleanDeletionInv, DeletedFileIsGone
  <1>2. TypeOK /\ RequestInv /\ CleanDeletionInv /\ DeletedFileIsGone /\ [Next]_vars
          => CleanDeletionInv' /\ DeletedFileIsGone'
    BY CleanDeletionStep, DeletedFileStep
  <1> QED
    BY <1>1, <1>2, RequestInvHolds, PTL DEF Spec

LossStep ==
  \A d \in Docs :
    /\ row[d] = "PRESENT"
    /\ d \in (objects \ objects') \cup (points \ points') \cup (edges \ edges')
    => \/ deletion'[d] # deletion[d]
       \/ upload[d].pc = "compensating"
       \/ report.stage = "repair" /\ d \notin report.docs

LEMMA LossStepHolds ==
  ASSUME TypeOK, ReportInv, [Next]_vars
  PROVE  LossStep
  <1> SUFFICES ASSUME NEW d \in Docs,
                      d \in (objects \ objects') \cup (points \ points') \cup (edges \ edges')
               PROVE  \/ deletion'[d] # deletion[d]
                      \/ upload[d].pc = "compensating"
                      \/ report.stage = "repair" /\ d \notin report.docs
    BY DEF LossStep
  <1>1. ASSUME NEW e \in Docs, UploadStep(e)
        PROVE  upload[d].pc = "compensating"
    BY <1>1
    DEF UploadStep, PreCheck, LockTenant, Recheck, PutObject, PutFails, SamePC, Flush, Commit,
        CommitFails, Compensate, UploadEnds, storeVars
  <1>2. ASSUME NEW e \in Docs, WorkerStep(e)
        PROVE  FALSE
    BY <1>2
    DEF WorkerStep, BeginIndexing, WritePoints, ReportProgress, WriteEdges, EndIndexing,
        IndexingStops, TaskFails, RetryTask, storeVars
  <1>3. ASSUME NEW e \in Docs, DeletionStep(e)
        PROVE  deletion'[d] # deletion[d]
    <2>1. e = d /\ ~DeleteRow(e) /\ ~DeletionEnds(e)
      BY <1>3
      DEF DeletionStep, DeleteObject, DeletePoints, DeleteEdges, DeleteRow, DeletionEnds, storeVars
    <2>2. PICK failed \in BOOLEAN :
            DeleteObject(d, failed) \/ DeletePoints(d, failed) \/ DeleteEdges(d, failed)
      BY <1>3, <2>1 DEF DeletionStep
    <2>3. deletion'[d].stage # deletion[d].stage
      <3>1. CASE DeleteObject(d, failed)
        BY <3>1 DEF DeleteObject, NoDeletion, TypeOK
      <3>2. CASE DeletePoints(d, failed) \/ DeleteEdges(d, failed)
        BY <3>2 DEF DeletePoints, DeleteEdges, TypeOK, Deletion
      <3> QED
        BY <2>2, <3>1, <3>2
    <2> QED
      BY <2>3
  <1>4. ASSUME ReconcilerStep
        PROVE  report.stage = "repair" /\ d \notin report.docs
    BY <1>4
    DEF ReconcilerStep, ReadDocuments, ScrollPoints, MatchEdges, ListObjects, AuditFails,
        Found, RepairDrift, RepairFails, EndReconciliation, storeVars, ReportInv
  <1> QED
    BY <1>1, <1>2, <1>3, <1>4, CascadeLeaves DEF Next, vars

\* A document in the table loses data in a store only through its own
\* deletion, the compensation of its own commit, or a repair whose audit did
\* not know it.  No worker, no other upload and no other deletion does it.
THEOREM LossesHaveCauses == Spec => DataLossHasACause
  <1>1. TypeOK /\ ReportInv /\ [Next]_vars => [LossStep]_vars
    BY LossStepHolds
  <1> QED
    BY <1>1, TypeCorrect, PTL DEF Spec, DataLossHasACause, LossStep

(***************************************************************************)
(* What StorageUsed adds up                                                *)
(***************************************************************************)

\* The bytes of the documents in S, by a table of requests.
Bytes(up, S) == MapThenSumSet(LAMBDA e : Size[up[e].file], S)

\* What each document adds to them.
SizesOf(up) == [d \in Docs |-> Size[up[d].file]]

\* The bytes are the total of the documents' sizes.
LEMMA BytesIsTotal ==
  ASSUME NEW up, NEW S \in SUBSET Docs, IsFiniteSet(S)
  PROVE  Bytes(up, S) = Total(SizesOf(up), S)
  <1> DEFINE AddsUp(g) ==
        g = [s \in SUBSET S |-> IF s = {} THEN 0
                                ELSE Size[up[First(s)].file] + g[s \ {First(s)}]]
  <1>1. Bytes(up, S) = (CHOOSE g : AddsUp(g))[S]
    BY DEF Bytes, First, MapThenSumSet, MapThenFoldSet
  <1>2. ASSUME NEW g
        PROVE  AddsUp(g) <=> Sums(g, SizesOf(up), S)
    <2>1. \A s \in SUBSET S : s # {} => SizesOf(up)[First(s)] = Size[up[First(s)].file]
      BY FirstOf DEF SizesOf
    <2> QED
      BY <2>1 DEF Sums
  <1> HIDE DEF AddsUp
  <1>3. PICK g : Sums(g, SizesOf(up), S) /\ Bytes(up, S) = g[S]
    BY <1>1, <1>2, SumsExist
  <1>4. PICK h : Sums(h, SizesOf(up), S) /\ Total(SizesOf(up), S) = h[S]
    BY SumsExist, TotalIsSum
  <1>5. S \in FiniteSubsetsOf(S \cap S)
    BY DEF FiniteSubsetsOf
  <1> QED
    BY <1>3, <1>4, <1>5, SumsAgree

LEMMA BytesOfNothing ==
  ASSUME NEW up
  PROVE  Bytes(up, {}) = 0
  BY BytesIsTotal, TotalOfNothing, FS_EmptySet

\* The sum is a number.
LEMMA BytesType ==
  ASSUME NEW up \in [Docs -> Upload], NEW S \in SUBSET Docs, IsFiniteSet(S)
  PROVE  Bytes(up, S) \in Nat
  <1>1. \A d \in S : SizesOf(up)[d] \in Nat
    BY DocumentStorageAssumption DEF SizesOf, Upload
  <1> QED
    BY <1>1, BytesIsTotal, TotalType

\* One more document is its file's size more, whichever it is.
LEMMA BytesOfOneMore ==
  ASSUME NEW up \in [Docs -> Upload], NEW S \in SUBSET Docs, IsFiniteSet(S), NEW d \in S
  PROVE  Bytes(up, S) = Size[up[d].file] + Bytes(up, S \ {d})
  <1>1. \A e \in S : SizesOf(up)[e] \in Nat
    BY DocumentStorageAssumption DEF SizesOf, Upload
  <1>2. Total(SizesOf(up), S) = SizesOf(up)[d] + Total(SizesOf(up), S \ {d})
    BY <1>1, TotalOfOneMore
  <1>3. SizesOf(up)[d] = Size[up[d].file]
    BY DEF SizesOf
  <1>4. S \ {d} \in SUBSET Docs /\ IsFiniteSet(S \ {d})
    BY FS_RemoveElement
  <1> QED
    BY <1>2, <1>3, <1>4, BytesIsTotal

\* Fewer documents are no more bytes.
LEMMA BytesOfFewer ==
  ASSUME NEW up \in [Docs -> Upload], NEW S \in SUBSET Docs, IsFiniteSet(S), NEW R \in SUBSET S
  PROVE  Bytes(up, R) <= Bytes(up, S)
  <1>1. \A d \in S : SizesOf(up)[d] \in Nat
    BY DocumentStorageAssumption DEF SizesOf, Upload
  <1>2. IsFiniteSet(R) /\ R \in SUBSET Docs
    BY FS_Subset
  <1> QED
    BY <1>1, <1>2, TotalOfFewer, BytesIsTotal

\* The sum looks at the files only.
LEMMA BytesOfSameFiles ==
  ASSUME NEW up, NEW vp, NEW S \in SUBSET Docs, IsFiniteSet(S),
         \A d \in S : vp[d].file = up[d].file
  PROVE  Bytes(vp, S) = Bytes(up, S)
  <1>1. \A d \in S : SizesOf(vp)[d] = SizesOf(up)[d]
    BY DEF SizesOf
  <1> QED
    BY <1>1, BytesIsTotal, TotalOfSame

(***************************************************************************)
(* Quotas                                                                  *)
(***************************************************************************)

\* How the documents of a tenant change.
LEMMA DocumentsChange ==
  ASSUME TypeOK, [Next]_vars, NEW t \in Tenants
  PROVE  \/ \E d \in Docs \ DocumentsOf(t) :
              /\ Commit(d) \/ CommitFails(d)
              /\ upload[d].tenant = t
              /\ DocumentsOf(t)' = DocumentsOf(t) \cup {d}
         \/ DocumentsOf(t)' \subseteq DocumentsOf(t)
  <1>1. \A e \in Docs : upload'[e].tenant = upload[e].tenant
    BY RequestsStay
  <1>2. ASSUME NEW d \in Docs, Commit(d) \/ CommitFails(d)
        PROVE  /\ \A e \in Docs : e # d => row'[e] = row[e]
               /\ row'[d] = "PRESENT" \/ row'[d] = row[d]
    BY <1>2 DEF TypeOK, Commit, CommitFails, RowCommitted, tableVars
  <1>3. ASSUME NEW d \in Docs, Commit(d) \/ CommitFails(d)
        PROVE  \/ DocumentsOf(t)' = DocumentsOf(t)
               \/ /\ d \notin DocumentsOf(t) /\ upload[d].tenant = t
                  /\ DocumentsOf(t)' = DocumentsOf(t) \cup {d}
    BY <1>1, <1>2, <1>3 DEF DocumentsOf
  <1>4. ASSUME \A e \in Docs : ~Commit(e) /\ ~CommitFails(e)
        PROVE  \A e \in Docs : row'[e] = "PRESENT" => row[e] = "PRESENT"
    BY <1>4, RowChange DEF TypeOK, DeleteRow
  <1>5. CASE \A e \in Docs : row'[e] = "PRESENT" => row[e] = "PRESENT"
    BY <1>1, <1>5 DEF DocumentsOf
  <1> QED
    BY <1>3, <1>4, <1>5

\* What the tenant uses is the sum over its documents, before a step and after.
LEMMA StorageUsedIsBytes ==
  ASSUME NEW t
  PROVE  /\ StorageUsed(t) = Bytes(upload, DocumentsOf(t))
         /\ StorageUsed(t)' = Bytes(upload', DocumentsOf(t)')
  <1>1. StorageUsed(t) = Bytes(upload, DocumentsOf(t))
    BY DEF StorageUsed, Bytes
  <1>2. StorageUsed(t)' = Bytes(upload', DocumentsOf(t)')
    BY DEF StorageUsed, Bytes, MapThenSumSet, MapThenFoldSet
  <1> QED
    BY <1>1, <1>2

\* A tenant has finitely many documents.
FiniteInv == \A t \in Tenants : IsFiniteSet(DocumentsOf(t))

\* The file still fits into the tenant's storage and document quotas.
Fits(t, file) ==
  /\ StorageUsed(t) + Size[file] <= MaxStorage
  /\ Cardinality(DocumentsOf(t)) < MaxDocuments

\* What the second check found under the lock stays true up to the commit.
AdmittedInv ==
  \A d \in Docs, t \in Tenants, file \in Files :
    /\ upload[d].pc \in { "admitted", "stored", "flushed" }
    /\ upload[d].tenant = t /\ upload[d].file = file
    => Fits(t, file)

QuotaInv == FiniteInv /\ AdmittedInv /\ QuotasHold

\* What a tenant uses is counted in numbers.
Usage(t) ==
  /\ StorageUsed(t) \in Nat
  /\ Cardinality(DocumentsOf(t)) \in Nat

LEMMA UsageType ==
  ASSUME TypeOK, FiniteInv, NEW t \in Tenants
  PROVE  Usage(t)
  <1>1. DocumentsOf(t) \in SUBSET Docs /\ IsFiniteSet(DocumentsOf(t))
    BY DEF FiniteInv, DocumentsOf
  <1> QED
    BY <1>1, StorageUsedIsBytes, BytesType, FS_CardinalityType DEF TypeOK, Usage

\* A step either leaves a tenant with no more than it had, or commits one
\* document of its.
LEMMA UsageStep ==
  ASSUME TypeOK, FiniteInv, [Next]_vars, NEW t \in Tenants
  PROVE  /\ IsFiniteSet(DocumentsOf(t)')
         /\ Usage(t) /\ Usage(t)'
         /\ \/ /\ StorageUsed(t)' <= StorageUsed(t)
               /\ Cardinality(DocumentsOf(t))' <= Cardinality(DocumentsOf(t))
            \/ \E d \in Docs :
                 /\ Commit(d) \/ CommitFails(d)
                 /\ upload[d].tenant = t
                 /\ StorageUsed(t)' = StorageUsed(t) + Size[upload[d].file]
                 /\ Cardinality(DocumentsOf(t))' = Cardinality(DocumentsOf(t)) + 1
  <1> DEFINE S == DocumentsOf(t)
             T == DocumentsOf(t)'
  <1>1. /\ S \in SUBSET Docs /\ T \in SUBSET Docs
        /\ IsFiniteSet(S) /\ upload \in [Docs -> Upload]
        /\ \A d \in Docs : Size[upload[d].file] \in Nat
    BY DocumentStorageAssumption DEF FiniteInv, DocumentsOf, TypeOK, Upload
  <1>2. Cardinality(DocumentsOf(t))' = Cardinality(T)
    OBVIOUS
  <1>3. /\ StorageUsed(t) = Bytes(upload, S)
        /\ StorageUsed(t)' = Bytes(upload', T)
    BY StorageUsedIsBytes
  <1>4. Usage(t)
    BY UsageType
  <1>5. IsFiniteSet(T)
    BY <1>1, DocumentsChange, FS_AddElement, FS_Subset
  <1>6. Bytes(upload', T) = Bytes(upload, T)
    BY <1>1, <1>5, RequestsStay, BytesOfSameFiles
  <1>7. Bytes(upload, T) \in Nat /\ Cardinality(T) \in Nat
    BY <1>1, <1>5, BytesType, FS_CardinalityType
  <1> HIDE DEF S, T
  <1>9. ASSUME NEW d \in Docs \ S, Commit(d) \/ CommitFails(d), upload[d].tenant = t,
               T = S \cup {d}
        PROVE  /\ Bytes(upload, T) = Bytes(upload, S) + Size[upload[d].file]
               /\ Cardinality(T) = Cardinality(S) + 1
    <2>1. T \ {d} = S /\ d \in T
      BY <1>9
    <2>2. Bytes(upload, T) = Size[upload[d].file] + Bytes(upload, S)
      BY <1>1, <1>5, <2>1, BytesOfOneMore
    <2>3. Bytes(upload, S) \in Nat
      BY <1>1, BytesType
    <2>4. Cardinality(T) = Cardinality(S) + 1
      BY <1>1, <1>9, FS_AddElement
    <2> QED
      BY <1>1, <2>2, <2>3, <2>4
  <1>10. ASSUME T \subseteq S
         PROVE  /\ Bytes(upload, T) <= Bytes(upload, S)
                /\ Cardinality(T) <= Cardinality(S)
    <2>1. Bytes(upload, T) <= Bytes(upload, S)
      BY <1>1, <1>10, BytesOfFewer
    <2>2. Cardinality(T) <= Cardinality(S)
      BY <1>1, <1>10, FS_Subset
    <2> QED
      BY <2>1, <2>2
  <1>11. \/ \E d \in Docs \ S : /\ Commit(d) \/ CommitFails(d)
                                /\ upload[d].tenant = t
                                /\ T = S \cup {d}
         \/ T \subseteq S
    BY DocumentsChange DEF S, T
  <1>12. Usage(t)'
    BY <1>2, <1>3, <1>6, <1>7 DEF Usage, T
  <1>13. \/ /\ Bytes(upload, T) <= Bytes(upload, S)
            /\ Cardinality(T) <= Cardinality(S)
         \/ \E d \in Docs :
              /\ Commit(d) \/ CommitFails(d)
              /\ upload[d].tenant = t
              /\ Bytes(upload, T) = Bytes(upload, S) + Size[upload[d].file]
              /\ Cardinality(T) = Cardinality(S) + 1
    <2>1. CASE T \subseteq S
      BY <1>10, <2>1
    <2>2. CASE \E d \in Docs \ S : /\ Commit(d) \/ CommitFails(d)
                                   /\ upload[d].tenant = t
                                   /\ T = S \cup {d}
      BY <1>9, <2>2
    <2> QED
      BY <1>11, <2>1, <2>2
  <1> QED
    BY <1>2, <1>3, <1>4, <1>5, <1>6, <1>12, <1>13 DEF S, T

\* A request between its second check and its commit has passed that check.
LEMMA AdmittedStep ==
  ASSUME TypeOK, AdmittedInv, [Next]_vars, NEW d \in Docs, NEW t \in Tenants, NEW file \in Files,
         upload'[d].pc \in { "admitted", "stored", "flushed" },
         upload[d].tenant = t, upload[d].file = file
  PROVE  upload[d].pc \in Holding /\ Fits(t, file)
  <1>1. CASE upload'[d] = upload[d]
    BY <1>1 DEF AdmittedInv, Holding
  <1>2. CASE Recheck(d)
    <2>1. upload[d].pc = "locked"
      BY <1>2 DEF Recheck
    <2>2. WithinQuotas(upload[d].tenant, upload[d].file)
      <3> SUFFICES ASSUME ~WithinQuotas(upload[d].tenant, upload[d].file)
                   PROVE  FALSE
        OBVIOUS
      <3>1. upload' = [upload EXCEPT ![d].pc = "answered", ![d].seen_failed = {}]
        BY <1>2 DEF Recheck
      <3> DEFINE S == {}
                 to == "answered"
      <3>2. S \in SUBSET Docs /\ to \in UploadPC
        BY DEF UploadPC
      <3>3. upload' = [upload EXCEPT ![d].pc = to, ![d].seen_failed = S]
        BY <3>1
      <3>4. Moves(d, {upload[d].pc}, {to})
        <4> HIDE DEF S, to
        <4> QED BY <3>2, <3>3, SeenMoves
      <3> QED
        BY <3>4 DEF Moves
    <2> QED
      BY <2>1, <2>2 DEF WithinQuotas, Fits, Holding
  <1>3. ASSUME UploadStep(d), ~Recheck(d)
        PROVE  upload[d].pc \in { "admitted", "stored", "flushed" }
    BY <1>3, UploadMoves DEF UploadStep, Moves
  <1> QED
    BY <1>1, <1>2, <1>3, RequestStep DEF AdmittedInv, Holding

LEMMA QuotaStep ==
  ASSUME TypeOK, LockInv, QuotaInv, [Next]_vars
  PROVE  QuotaInv'
  <1> USE DEF QuotaInv
  <1>1. FiniteInv'
    BY UsageStep DEF FiniteInv
  <1>2. QuotasHold'
    <2> SUFFICES ASSUME NEW t \in Tenants
                 PROVE  /\ Cardinality(DocumentsOf(t))' <= MaxDocuments
                        /\ StorageUsed(t)' <= MaxStorage
      BY DEF QuotasHold
    <2>1. /\ Cardinality(DocumentsOf(t)) <= MaxDocuments
          /\ StorageUsed(t) <= MaxStorage
      BY DEF QuotasHold
    <2>2. /\ StorageUsed(t) \in Nat /\ StorageUsed(t)' \in Nat
          /\ Cardinality(DocumentsOf(t)) \in Nat /\ Cardinality(DocumentsOf(t))' \in Nat
      BY UsageStep DEF Usage
    <2>3. CASE /\ StorageUsed(t)' <= StorageUsed(t)
               /\ Cardinality(DocumentsOf(t))' <= Cardinality(DocumentsOf(t))
      BY <2>1, <2>2, <2>3, DocumentStorageAssumption
    <2>4. ASSUME NEW d \in Docs, Commit(d) \/ CommitFails(d), upload[d].tenant = t,
                 StorageUsed(t)' = StorageUsed(t) + Size[upload[d].file],
                 Cardinality(DocumentsOf(t))' = Cardinality(DocumentsOf(t)) + 1
          PROVE  /\ Cardinality(DocumentsOf(t))' <= MaxDocuments
                 /\ StorageUsed(t)' <= MaxStorage
      <3>1. Fits(t, upload[d].file)
        BY <2>4, CommitLeavesFlushed DEF AdmittedInv, TypeOK, Upload
      <3> QED
        BY <2>2, <2>4, <3>1, DocumentStorageAssumption DEF Fits
    <2>5. \/ /\ StorageUsed(t)' <= StorageUsed(t)
             /\ Cardinality(DocumentsOf(t))' <= Cardinality(DocumentsOf(t))
          \/ \E d \in Docs :
               /\ Commit(d) \/ CommitFails(d)
               /\ upload[d].tenant = t
               /\ StorageUsed(t)' = StorageUsed(t) + Size[upload[d].file]
               /\ Cardinality(DocumentsOf(t))' = Cardinality(DocumentsOf(t)) + 1
      BY UsageStep
    <2> QED
      BY <2>3, <2>4, <2>5
  <1>3. AdmittedInv'
    <2> SUFFICES ASSUME NEW d \in Docs, NEW t \in Tenants, NEW file \in Files,
                        upload'[d].pc \in { "admitted", "stored", "flushed" },
                        upload'[d].tenant = t, upload'[d].file = file
                 PROVE  Fits(t, file)'
      BY DEF AdmittedInv
    <2>1. upload[d].tenant = t /\ upload[d].file = file
      BY RequestsStay
    <2>2. upload[d].pc \in Holding /\ Fits(t, file)
      BY <2>1, AdmittedStep
    <2>3. Size[file] \in Nat
      BY DocumentStorageAssumption
    <2>4. ~\E e \in Docs : (Commit(e) \/ CommitFails(e)) /\ upload[e].tenant = t
      <3> SUFFICES ASSUME NEW e \in Docs, Commit(e) \/ CommitFails(e), upload[e].tenant = t
                   PROVE  FALSE
        OBVIOUS
      <3>1. upload[e].pc \in Holding
        BY CommitLeavesFlushed DEF Holding
      <3>2. d = e
        BY <2>1, <2>2, <3>1 DEF LockInv
      <3> QED
        BY <3>2, CommitLeavesFlushed
    <2>5. /\ StorageUsed(t)' <= StorageUsed(t)
          /\ Cardinality(DocumentsOf(t))' <= Cardinality(DocumentsOf(t))
          /\ Usage(t) /\ Usage(t)'
      BY <2>4, UsageStep
    <2> QED
      BY <2>2, <2>3, <2>5, DocumentStorageAssumption DEF Fits, Usage
  <1> QED
    BY <1>1, <1>2, <1>3

LEMMA InitQuota == Init => QuotaInv
  <1> SUFFICES ASSUME Init
               PROVE  QuotaInv
    OBVIOUS
  <1>1. \A t \in Tenants : DocumentsOf(t) = {}
    BY DEF Init, DocumentsOf
  <1>2. \A t \in Tenants : StorageUsed(t) = 0 /\ Cardinality(DocumentsOf(t)) = 0
    BY <1>1, StorageUsedIsBytes, BytesOfNothing, FS_EmptySet
  <1>3. FiniteInv /\ QuotasHold
    BY <1>1, <1>2, FS_EmptySet, DocumentStorageAssumption DEF FiniteInv, QuotasHold
  <1>4. AdmittedInv
    BY DEF Init, AdmittedInv
  <1> QED
    BY <1>3, <1>4 DEF QuotaInv

\* Racing uploads of different files never take a tenant over its quotas: the
\* check and the commit it admits are under one hold of the tenant's lock.
THEOREM QuotasAreKept == Spec => []QuotasHold
  <1>1. TypeOK /\ LockInv /\ QuotaInv /\ [Next]_vars => QuotaInv'
    BY QuotaStep
  <1>2. RequestInv => LockInv
    BY DEF RequestInv
  <1>3. QuotaInv => QuotasHold
    BY DEF QuotaInv
  <1> QED
    BY <1>1, <1>2, <1>3, InitQuota, RequestInvHolds, PTL DEF Spec
=============================================================================
