-------------------------- MODULE IndexGenerations --------------------------
(***************************************************************************)
(* What a task builds: the points of a document generation in Qdrant and   *)
(* its relations in Memgraph, written by workers that may have lost their  *)
(* task meanwhile, and the generation filter of retrieval                  *)
(* (src/worker/processor.py, src/src/services/rag/engine.py).  Ownership   *)
(* of tasks and publication of generations are TaskLease's; documents are  *)
(* not deleted here.                                                       *)
(***************************************************************************)
EXTENDS Naturals, FiniteSets, TaskFSM

CONSTANTS
  Tasks, Docs, Workers, None, MaxAttempts, MaxActiveTasks, MaxRetries,  \* TaskLease
  Parses    \* what parsing one document may come to, see ParsesAssumption

VARIABLES
  task, document, active_generation, execution,  \* TaskLease
  vectors,    \* points of the Qdrant collection
  edges,      \* RELATED_TO relations of the Memgraph graph
  build,      \* how far each worker's process_document has come
  results     \* history: the parses whose points were ever written, by generation

Lease == INSTANCE TaskLease

\* A parse has at least one chunk and one relation (the code invents one
\* where the text yields none); two parses may agree in either.  Task ids
\* are uuid4 values, of which there are finitely many, and None is no number.
ASSUME ParsesAssumption ==
  /\ Lease!TaskLeaseAssumption
  /\ IsFiniteSet(Tasks) /\ None \notin Nat
  /\ \A p \in Parses : /\ p.chunks \in Nat \ {0}
                       /\ IsFiniteSet(p.relations) /\ p.relations # {}
                       /\ p.partial \in BOOLEAN

leaseVars == <<task, document, active_generation, execution>>
storeVars == <<vectors, edges>>
vars == <<leaseVars, storeVars, build, results>>

Relations == UNION { p.relations : p \in Parses }

\* Point ids are uuid5 of document, generation and index; the payload is
\* the chunk that some parse has at that index.
Point == [ doc : Docs, generation : Nat, index : Nat, parse : Parses ]
PointId(x) == [ doc |-> x.doc, generation |-> x.generation, index |-> x.index ]
Edge == [ doc : Docs, generation : Nat, relation : Relations ]

BuildStage == { "none", "downloading", "embedded", "indexed", "graph", "pruned" }
Build == [ stage : BuildStage, parse : Parses \cup {None}, left : SUBSET Relations ]
NoBuild == [ stage |-> "none", parse |-> None, left |-> {} ]

TypeOK ==
  /\ Lease!TypeOK
  /\ vectors \subseteq Point
  /\ \A x, y \in vectors : PointId(x) = PointId(y) => x = y
  /\ edges \subseteq Edge
  /\ build \in [Workers -> Build]
  /\ \A w \in Workers : build[w].stage # "none" <=> execution[w].pc = "processing"
  /\ results \subseteq [ doc : Docs, generation : Nat, parse : Parses ]

Init ==
  /\ Lease!Init
  /\ vectors = {}
  /\ edges = {}
  /\ build = [w \in Workers |-> NoBuild]
  /\ results = {}

(***************************************************************************)
(* process_document                                                        *)
(***************************************************************************)
TaskDoc(w) == task[execution[w].task].doc_id
TargetGeneration(w) == task[execution[w].task].target_generation

BeginProcessing(w) ==
  /\ Lease!BeginProcessing(w)
  /\ build' = [build EXCEPT ![w] = [NoBuild EXCEPT !.stage = "downloading"]]
  /\ UNCHANGED <<storeVars, results>>

\* Every progress report first asks whether the task is still owned.  Here
\* the reports up to EMBEDDING, the last one before the points are written.
Parse(w, p) ==
  /\ build[w].stage = "downloading"
  /\ Lease!Owns(w)
  /\ build' = [build EXCEPT ![w].stage = "embedded", ![w].parse = p]
  /\ UNCHANGED <<leaseVars, storeVars, results>>

Points(d, g, p) ==
  { [doc |-> d, generation |-> g, index |-> i, parse |-> p] : i \in 0 .. p.chunks - 1 }

\* Mutant: the upsert makes room by deleting the document's other points.
UpsertReplacingDocument(w) ==
  LET d == TaskDoc(w)
  IN  /\ build[w].stage = "embedded"
      /\ vectors' = { x \in vectors : x.doc # d }
                      \cup Points(d, TargetGeneration(w), build[w].parse)
      /\ results' = results \cup
           {[doc |-> d, generation |-> TargetGeneration(w), parse |-> build[w].parse]}
      /\ build' = [build EXCEPT ![w].stage = "indexed"]
      /\ UNCHANGED <<leaseVars, edges>>

\* Mutant: every point gets a fresh id.
UpsertAppending(w) ==
  LET d == TaskDoc(w)
      g == TargetGeneration(w)
  IN  /\ build[w].stage = "embedded"
      /\ vectors' = vectors \cup Points(d, g, build[w].parse)
      /\ results' = results \cup {[doc |-> d, generation |-> g, parse |-> build[w].parse]}
      /\ build' = [build EXCEPT ![w].stage = "indexed"]
      /\ UNCHANGED <<leaseVars, edges>>

\* One upsert of all points, overwriting those with the same id.
Upsert(w) ==
  LET d == TaskDoc(w)
      g == TargetGeneration(w)
      new == Points(d, g, build[w].parse)
      ids == { PointId(x) : x \in new }
  IN  /\ build[w].stage = "embedded"
      /\ vectors' = { x \in vectors : PointId(x) \notin ids } \cup new
      /\ results' = results \cup {[doc |-> d, generation |-> g, parse |-> build[w].parse]}
      /\ build' = [build EXCEPT ![w].stage = "indexed"]
      /\ UNCHANGED <<leaseVars, edges>>

\* The report of GRAPH_BUILDING.
BeginGraph(w) ==
  /\ build[w].stage = "indexed"
  /\ Lease!Owns(w)
  /\ build' = [build EXCEPT ![w].stage = "graph", ![w].left = build[w].parse.relations]
  /\ UNCHANGED <<leaseVars, storeVars, results>>

\* One MERGE, in a transaction of its own.
MergeRelation(w, r) ==
  /\ build[w].stage = "graph"
  /\ r \in build[w].left
  /\ edges' = edges \cup
       {[doc |-> TaskDoc(w), generation |-> TargetGeneration(w), relation |-> r]}
  /\ build' = [build EXCEPT ![w].left = @ \ {r}]
  /\ UNCHANGED <<leaseVars, vectors, results>>

\* Mutant: the stale relations are looked for in every generation.
PruneEveryGeneration(w) ==
  /\ build[w].stage = "graph"
  /\ build[w].left = {}
  /\ edges' = { e \in edges : \/ e.doc # TaskDoc(w)
                              \/ e.relation \in build[w].parse.relations }
  /\ build' = [build EXCEPT ![w].stage = "pruned"]
  /\ UNCHANGED <<leaseVars, vectors, results>>

\* The relations this parse does not have leave the generation it built.
PruneRelations(w) ==
  /\ build[w].stage = "graph"
  /\ build[w].left = {}
  /\ edges' = { e \in edges : \/ e.doc # TaskDoc(w)
                              \/ e.generation # TargetGeneration(w)
                              \/ e.relation \in build[w].parse.relations }
  /\ build' = [build EXCEPT ![w].stage = "pruned"]
  /\ UNCHANGED <<leaseVars, vectors, results>>

\* The report of COMPLETED and the return of the result.
ProcessingReturns(w) ==
  /\ build[w].stage = "pruned"
  /\ Lease!Owns(w)
  /\ Lease!ProcessingReturns(w, build[w].parse.partial)
  /\ build' = [build EXCEPT ![w] = NoBuild]
  /\ UNCHANGED <<storeVars, results>>

\* A failed download, parse or store call, or a report that finds the task lost.
ProcessingRaises(w) ==
  /\ Lease!ProcessingRaises(w)
  /\ build' = [build EXCEPT ![w] = NoBuild]
  /\ UNCHANGED <<storeVars, results>>

\* The process ends in the middle of a build.
Abandon(w) ==
  /\ build[w].stage # "none"
  /\ Lease!Abandon(w)
  /\ build' = [build EXCEPT ![w] = NoBuild]
  /\ UNCHANGED <<storeVars, results>>

\* What TaskLease does but to begin and end processing, or delete a document.
Ownership ==
  /\ Lease!Next
  /\ \A w \in Workers : execution'[w].pc = "processing" <=> execution[w].pc = "processing"
  /\ \A d \in Docs : document'[d] # "DELETED"
  /\ UNCHANGED <<storeVars, build, results>>

(***************************************************************************)
(* Retrieval                                                               *)
(***************************************************************************)

\* What _load_active_generations may have read for a query that is still in
\* flight, 0 for a document it did not find: the stores are read later, but
\* active_generation never decreases (GenerationNeverDecreases).
LoadedMaps ==
  { map \in [Docs -> 0 .. Cardinality(Tasks) + 1] :
      \A d \in Docs : map[d] <= active_generation[d] }

\* An empty map is falsy: then no generation condition is added at all.
Unfiltered(map) == \A d \in Docs : map[d] = 0

\* Mutant: the filter asks for the documents of the map, not for their generations.
VisibleVectorsOfDocuments(map) ==
  { x \in vectors : Unfiltered(map) \/ map[x.doc] # 0 }

VisibleVectors(map) ==
  { x \in vectors : Unfiltered(map) \/ x.generation = map[x.doc] }

\* The graph's records are filtered after they are read, and a document that
\* is not in the map is let through.
VisibleEdges(map) ==
  { e \in edges : Unfiltered(map) \/ map[e.doc] \in {0, e.generation} }

(***************************************************************************)
(* Readiness of a document as listings show it                             *)
(***************************************************************************)

\* A count the vector store does not answer is None, which is no number.
derive_index_status(status, indexed_chunks) ==
  CASE status \in ActiveStates -> "PROCESSING"
    [] status \notin ActiveStates /\ indexed_chunks = None ->
         IF status \in {"FAILED", "DEAD_LETTER"} THEN "FAILED" ELSE "UNKNOWN"
    [] status \notin ActiveStates /\ indexed_chunks = 0 -> "NOT_INDEXED"
    [] OTHER -> IF status = "PARTIAL_SUCCEEDED" THEN "PARTIAL" ELSE "READY"

\* Mutant: the count is not restricted to the active generation.
CountEveryGeneration(d) == Cardinality({ x \in vectors : x.doc = d })

_count_indexed_chunks(d) ==
  Cardinality({ x \in vectors : x.doc = d /\ x.generation = active_generation[d] })

\* The newest of a document's tasks: a later one never targets less, as the
\* active generation never decreases (GenerationNeverDecreases).
NewestTasks(d) ==
  LET own == { t \in Tasks : task[t].status \in TaskState /\ task[t].doc_id = d }
  IN  { t \in own : \A u \in own : task[u].target_generation <= task[t].target_generation }

\* What a listing may show of a document, its count answered or not.
IndexStatus(d, t) ==
  { derive_index_status(task[t].status, n) : n \in {_count_indexed_chunks(d), None} }

Next ==
  \/ Ownership
  \/ \E w \in Workers :
       \/ BeginProcessing(w)
       \/ \E p \in Parses : Parse(w, p)
       \/ Upsert(w)
       \/ BeginGraph(w)
       \/ \E r \in Relations : MergeRelation(w, r)
       \/ PruneRelations(w)
       \/ ProcessingReturns(w)
       \/ ProcessingRaises(w)
       \/ Abandon(w)

Spec == Init /\ [][Next]_vars

(***************************************************************************)
(* Properties                                                              *)
(***************************************************************************)

\* The documents whose active generation was published by a task of theirs.
Published(d) ==
  /\ document[d] = "PRESENT"
  /\ \E t \in Tasks : /\ task[t].status = "SUCCEEDED"
                      /\ task[t].doc_id = d
                      /\ task[t].target_generation = active_generation[d]

VectorsOf(d, g) == { x \in vectors : x.doc = d /\ x.generation = g }
EdgesOf(d, g) == { e \in edges : e.doc = d /\ e.generation = g }

\* A published generation can be searched: its points are there without a
\* gap from the first chunk on, whatever later builds of the document do.
PublishedIsSearchable ==
  \A d \in Docs : Published(d) =>
    LET found == VectorsOf(d, active_generation[d])
    IN  /\ found # {}
        /\ { x.index : x \in found } = 0 .. Cardinality(found) - 1

\* Queries never see work in progress: what a query can reach of a generation
\* beyond the first was published by a task that succeeded in full, whenever
\* the query read its map; points and relations of the documents in the map.
QueriesSeePublishedOnly ==
  \A map \in LoadedMaps : \A x \in VisibleVectors(map) \cup VisibleEdges(map) :
    x.generation > 1 /\ document[x.doc] = "PRESENT" /\ map[x.doc] # 0 =>
      \E t \in Tasks : /\ task[t].status = "SUCCEEDED"
                       /\ task[t].doc_id = x.doc
                       /\ task[t].target_generation = x.generation

\* The index of (d, g) is what one parse of the document comes to.
FromOneParse(d, g) ==
  \E p \in Parses :
    /\ VectorsOf(d, g) = Points(d, g, p)
    /\ { e.relation : e \in EdgesOf(d, g) } = p.relations

\* Stale workers, second attempts and rival re-ingestions do no harm to a
\* published generation as long as parsing came to the same each time.
ExactUnlessParsesDiffer ==
  \A d \in Docs :
    LET g == active_generation[d]
    IN  Published(d) /\ Cardinality({ r \in results : r.doc = d /\ r.generation = g }) = 1
          => FromOneParse(d, g)

\* Readiness is what the index holds, whatever the newest task came to: a
\* document shown as READY has in its active generation the points of every
\* chunk from the first on.  A document whose newest task succeeded is
\* published and never shown as less, as long as the vector store answers.
ReadyMeansSearchable ==
  \A d \in Docs : \A t \in NewestTasks(d) :
    LET found == VectorsOf(d, active_generation[d])
    IN  /\ "READY" \in IndexStatus(d, t) =>
             /\ found # {}
             /\ { x.index : x \in found } = 0 .. Cardinality(found) - 1
        /\ task[t].status = "SUCCEEDED" =>
             /\ Published(d)
             /\ IndexStatus(d, t) = {"READY", "UNKNOWN"}

\* README.md: "A document is only shown as "searchable" when task state, active
\* index version, and actual vector counts in Qdrant all agree."  So a document
\* shown as READY would have an active generation that a task of it published.
ReadyIsPublished ==
  \A d \in Docs : \A t \in NewestTasks(d) :
    "READY" \in IndexStatus(d, t) => Published(d)

\* complete_task_with_generation: "A stale worker therefore cannot make a
\* partial re-ingestion visible".  Once a re-ingestion is published, what
\* retrieval finds of it does not change until the next one is.
PublishedIsFinal ==
  [][\A d \in Docs :
       LET g == active_generation[d]
       IN  Published(d) /\ g > 1 /\ active_generation'[d] = g
             => /\ VectorsOf(d, g)' = VectorsOf(d, g)
                /\ EdgesOf(d, g)' = EdgesOf(d, g)]_vars
=============================================================================
