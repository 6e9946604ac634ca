----------------------- MODULE IndexGenerationsProofs -----------------------
(***************************************************************************)
(* Theorems about IndexGenerations, for any number of documents, tasks,    *)
(* workers and parses.  Points and relations of a generation are written   *)
(* without fencing, so nothing can be said of who wrote them last; the     *)
(* invariants speak of the parses that were ever written to a generation,  *)
(* a set that only grows.  What the rows guarantee is taken from the lease *)
(* proofs through a second instance.                                       *)
(***************************************************************************)
EXTENDS IndexGenerations, FiniteSetTheorems, TLAPS

Rows == INSTANCE TaskLeaseProofs

(***************************************************************************)
(* The lease                                                               *)
(***************************************************************************)

LEMMA SameLease ==
  /\ Rows!TaskLeaseAssumption
  /\ Lease!Init <=> Rows!Init
  /\ [Lease!Next]_Lease!vars <=> [Rows!Next]_Rows!vars
  /\ Lease!TypeOK <=> Rows!TypeOK
  /\ Lease!TypeOK' <=> Rows!TypeOK'
  BY ParsesAssumption
  DEF Lease!TaskLeaseAssumption, Rows!TaskLeaseAssumption,
      Lease!TypeOK, Rows!TypeOK, Lease!Init, Rows!Init, Lease!Next, Rows!Next,
      Lease!vars, Rows!vars,
      Lease!dbVars, Rows!dbVars, Lease!Timestamp, Rows!Timestamp, Lease!RowStatus,
      Rows!RowStatus, Lease!TaskRow, Rows!TaskRow, Lease!NewRow, Rows!NewRow, Lease!WorkerPC,
      Rows!WorkerPC, Lease!Execution, Rows!Execution, Lease!Idle, Rows!Idle, Lease!ActiveTasks,
      Rows!ActiveTasks, Lease!BelowTaskQuota, Rows!BelowTaskQuota, Lease!CreatedRow,
      Rows!CreatedRow, Lease!Upload, Rows!Upload, Lease!NextGeneration, Rows!NextGeneration,
      Lease!Reingest, Rows!Reingest, Lease!RetriedRow, Rows!RetriedRow, Lease!RetryTask,
      Rows!RetryTask, Lease!DeleteDocument, Rows!DeleteDocument, Lease!Claimable,
      Rows!Claimable, Lease!AcquiredRow, Rows!AcquiredRow, Lease!Acquire, Rows!Acquire,
      Lease!Owns, Rows!Owns, Lease!FailOwnRow, Rows!FailOwnRow, Lease!Finish, Rows!Finish,
      Lease!BeginProcessing, Rows!BeginProcessing, Lease!DocumentMissing, Rows!DocumentMissing,
      Lease!Abandon, Rows!Abandon, Lease!Heartbeat, Rows!Heartbeat, Lease!ProcessingReturns,
      Rows!ProcessingReturns, Lease!ProcessingRaises, Rows!ProcessingRaises, Lease!CompletedRow,
      Rows!CompletedRow, Lease!Publishable, Rows!Publishable, Lease!Completes, Rows!Completes,
      Lease!Complete, Rows!Complete, Lease!CompleteUnconfirmed, Rows!CompleteUnconfirmed,
      Lease!CompleteFails, Rows!CompleteFails, Lease!ReportFailure, Rows!ReportFailure,
      Lease!LeaseLapses, Rows!LeaseLapses, Lease!BackoffElapses, Rows!BackoffElapses,
      Lease!Orphans, Rows!Orphans, Lease!RecoveredRow, Rows!RecoveredRow, Lease!ScanAndRecover,
      Rows!ScanAndRecover, Lease!WorkerStep, Rows!WorkerStep, Lease!TaskState, Rows!TaskState,
      Lease!ActiveStates, Rows!ActiveStates, Lease!Cardinality, Rows!Cardinality

\* A worker that has parsed knows what the parse came to.
ParseInv ==
  \A w \in Workers : build[w].stage \notin { "none", "downloading" } => build[w].parse \in Parses

\* Every step is a step of TaskLease or leaves its variables alone.
LEMMA LeaseStep ==
  ASSUME ParseInv, [Next]_vars
  PROVE  [Rows!Next]_Rows!vars
  <1>1. ASSUME NEW w \in Workers, ProcessingReturns(w)
        PROVE  Lease!Next
    <2>1. build[w].parse.partial \in BOOLEAN
      BY <1>1, ParsesAssumption DEF ProcessingReturns, ParseInv
    <2> QED
      BY <1>1, <2>1 DEF ProcessingReturns, Lease!Next, Lease!WorkerStep
  <1>2. ASSUME NEW w \in Workers, BeginProcessing(w) \/ ProcessingRaises(w) \/ Abandon(w)
        PROVE  Lease!Next
    BY <1>2 DEF BeginProcessing, ProcessingRaises, Abandon, Lease!Next, Lease!WorkerStep
  <1>3. [Lease!Next]_Lease!vars
    BY <1>1, <1>2
    DEF Next, Ownership, Parse, Upsert, BeginGraph, MergeRelation, PruneRelations, vars, leaseVars,
        Lease!vars
  <1> QED
    BY <1>3, SameLease

\* What the rows are known to be.
LeaseInv ==
  /\ Rows!TypeOK /\ Rows!RowsInv /\ Rows!TargetsInv /\ Rows!DocumentsInv
  /\ Rows!StartedInv /\ Rows!SuccessIsPublished /\ Rows!PublishedInTurn

LEMMA LeaseInvStep ==
  ASSUME LeaseInv, ParseInv, [Next]_vars
  PROVE  LeaseInv'
  <1>1. [Rows!Next]_Rows!vars
    BY LeaseStep
  <1> QED
    BY <1>1, SameLease, Rows!TypeStep, Rows!RowsInvStep, Rows!TargetsStep, Rows!DocumentsStep,
       Rows!StartedStep, Rows!SuccessStep, Rows!PublishedInTurnStep
    DEF LeaseInv

LEMMA LeaseInvInit == Init => LeaseInv
  <1> SUFFICES ASSUME Init
               PROVE  LeaseInv
    OBVIOUS
  <1>1. Rows!Init
    BY SameLease DEF Init
  <1>2. Rows!TypeOK
    BY <1>1, SameLease, Rows!InitType
  <1>3. Rows!RowsInv
    BY <1>1, SameLease
    DEF Rows!Init, Rows!RowsInv, Rows!RowInv, Rows!NewRow, Rows!Spent, Rows!TaskLeaseAssumption
  <1>4. Rows!TargetsInv /\ Rows!DocumentsInv /\ Rows!StartedInv /\ Rows!SuccessIsPublished
    BY <1>1
    DEF Rows!Init, Rows!NewRow, Rows!Idle, Rows!TargetsInv, Rows!DocumentsInv, Rows!Live,
        Rows!StartedInv, Rows!SuccessIsPublished
  <1>5. Rows!PublishedInTurn
    BY <1>1 DEF Rows!Init, Rows!PublishedInTurn
  <1> QED
    BY <1>2, <1>3, <1>4, <1>5 DEF LeaseInv

\* What a busy worker builds is a generation of a document, and stays so.
LEMMA OnTarget ==
  ASSUME LeaseInv, NEW w \in Workers, execution[w].pc # "idle"
  PROVE  /\ execution[w].task \in Tasks
         /\ task[execution[w].task].status # "ABSENT"
         /\ TaskDoc(w) \in Docs /\ TargetGeneration(w) \in Nat
  <1>1. execution[w].task \in Tasks /\ task \in [Tasks -> Rows!TaskRow]
    BY DEF LeaseInv, Rows!TypeOK, Rows!Execution
  <1>2. task[execution[w].task].status # "ABSENT"
    BY DEF LeaseInv, Rows!StartedInv
  <1> QED
    BY <1>1, <1>2
    DEF LeaseInv, Rows!RowsInv, Rows!RowInv, Rows!TaskRow, TaskDoc, TargetGeneration

LEMMA TargetStays ==
  ASSUME LeaseInv, ParseInv, [Next]_vars,
         NEW w \in Workers, execution[w].pc # "idle", execution'[w].pc # "idle"
  PROVE  TaskDoc(w)' = TaskDoc(w) /\ TargetGeneration(w)' = TargetGeneration(w)
  <1>1. [Rows!Next]_Rows!vars
    BY LeaseStep
  <1>2. execution'[w].task = execution[w].task
    BY <1>1, SameLease, Rows!KeepsTask DEF LeaseInv
  <1>3. /\ task'[execution[w].task].doc_id = task[execution[w].task].doc_id
        /\ task'[execution[w].task].target_generation = task[execution[w].task].target_generation
    BY <1>1, OnTarget, SameLease, Rows!TargetStays DEF LeaseInv
  <1> QED
    BY <1>2, <1>3 DEF TaskDoc, TargetGeneration

(***************************************************************************)
(* One worker's build                                                      *)
(***************************************************************************)

\* One worker's build goes to another stage; the others stay.
OnlyBuild(w) ==
  /\ build' \in [Workers -> Build]
  /\ \A v \in Workers \ {w} : build'[v] = build[v]

Goes(w, from, to) ==
  /\ OnlyBuild(w)
  /\ build[w].stage = from /\ build'[w].stage = to

BuildsType == build \in [Workers -> Build]

LEMMA OneBuild ==
  ASSUME BuildsType, NEW w \in Workers, NEW x \in Build, build' = [build EXCEPT ![w] = x]
  PROVE  OnlyBuild(w) /\ build'[w] = x
  BY DEF BuildsType, OnlyBuild

LEMMA BuildMoves ==
  ASSUME BuildsType, ParseInv, NEW w \in Workers
  PROVE  /\ BeginProcessing(w) => OnlyBuild(w) /\ build'[w].stage = "downloading"
         /\ \A p \in Parses : Parse(w, p) =>
              Goes(w, "downloading", "embedded") /\ build'[w].parse = p
         /\ Upsert(w) => Goes(w, "embedded", "indexed") /\ build'[w].parse = build[w].parse
         /\ BeginGraph(w) => /\ Goes(w, "indexed", "graph") /\ build'[w].parse = build[w].parse
                             /\ build'[w].left = build[w].parse.relations
         /\ \A r \in Relations : MergeRelation(w, r) =>
              /\ Goes(w, "graph", "graph") /\ build'[w].parse = build[w].parse
              /\ build'[w].left = build[w].left \ {r}
         /\ PruneRelations(w) => /\ Goes(w, "graph", "pruned") /\ build'[w].parse = build[w].parse
                                 /\ build'[w].left = {}
         /\ ProcessingReturns(w) \/ ProcessingRaises(w) \/ Abandon(w)
              => OnlyBuild(w) /\ build'[w].stage = "none"
  <1> USE DEF Goes
  <1>1. build[w] \in Build
    BY DEF BuildsType
  <1>2. NoBuild \in Build /\ NoBuild.stage = "none"
    BY DEF NoBuild, Build, BuildStage
  <1>3. ASSUME BeginProcessing(w)
        PROVE  OnlyBuild(w) /\ build'[w].stage = "downloading"
    <2> DEFINE x == [NoBuild EXCEPT !.stage = "downloading"]
    <2>1. x \in Build /\ x.stage = "downloading"
      BY DEF NoBuild, Build, BuildStage
    <2>2. build' = [build EXCEPT ![w] = x]
      BY <1>3 DEF BeginProcessing
    <2> HIDE DEF x
    <2> QED
      BY <2>1, <2>2, OneBuild
  <1>4. ASSUME NEW p \in Parses, Parse(w, p)
        PROVE  Goes(w, "downloading", "embedded") /\ build'[w].parse = p
    <2> DEFINE x == [build[w] EXCEPT !.stage = "embedded", !.parse = p]
    <2>1. x \in Build /\ x.stage = "embedded" /\ x.parse = p
      BY <1>1 DEF Build, BuildStage
    <2>2. build' = [build EXCEPT ![w] = x] /\ build[w].stage = "downloading"
      BY <1>4 DEF Parse
    <2> HIDE DEF x
    <2> QED
      BY <2>1, <2>2, OneBuild
  <1>5. ASSUME NEW to \in BuildStage, build' = [build EXCEPT ![w].stage = to]
        PROVE  /\ OnlyBuild(w) /\ build'[w].stage = to
               /\ build'[w].parse = build[w].parse /\ build'[w].left = build[w].left
    <2> DEFINE x == [build[w] EXCEPT !.stage = to]
    <2>1. /\ x \in Build /\ x.stage = to
          /\ x.parse = build[w].parse /\ x.left = build[w].left
      BY <1>1 DEF Build
    <2>2. build' = [build EXCEPT ![w] = x]
      BY <1>5
    <2> HIDE DEF x
    <2> QED
      BY <2>1, <2>2, OneBuild
  <1>6. Upsert(w) => Goes(w, "embedded", "indexed") /\ build'[w].parse = build[w].parse
    BY <1>5 DEF Upsert, BuildStage
  <1>7. PruneRelations(w) => /\ Goes(w, "graph", "pruned") /\ build'[w].parse = build[w].parse
                             /\ build'[w].left = {}
    BY <1>5 DEF PruneRelations, BuildStage
  <1>8. ASSUME BeginGraph(w)
        PROVE  /\ Goes(w, "indexed", "graph") /\ build'[w].parse = build[w].parse
               /\ build'[w].left = build[w].parse.relations
    <2> DEFINE x == [build[w] EXCEPT !.stage = "graph", !.left = build[w].parse.relations]
    <2>1. build[w].stage = "indexed" /\ build' = [build EXCEPT ![w] = x]
      BY <1>8 DEF BeginGraph
    <2>2. build[w].parse.relations \subseteq Relations
      BY <2>1 DEF ParseInv, Relations
    <2>3. /\ x \in Build /\ x.stage = "graph" /\ x.parse = build[w].parse
          /\ x.left = build[w].parse.relations
      BY <1>1, <2>2 DEF Build, BuildStage
    <2> HIDE DEF x
    <2> QED
      BY <2>1, <2>3, OneBuild
  <1>9. ASSUME NEW r \in Relations, MergeRelation(w, r)
        PROVE  /\ Goes(w, "graph", "graph") /\ build'[w].parse = build[w].parse
               /\ build'[w].left = build[w].left \ {r}
    <2> DEFINE x == [build[w] EXCEPT !.left = @ \ {r}]
    <2>1. build[w].stage = "graph" /\ build' = [build EXCEPT ![w] = x]
      BY <1>9 DEF MergeRelation
    <2>2. /\ x \in Build /\ x.stage = build[w].stage /\ x.parse = build[w].parse
          /\ x.left = build[w].left \ {r}
      BY <1>1 DEF Build
    <2> HIDE DEF x
    <2> QED
      BY <2>1, <2>2, OneBuild
  <1>10. ProcessingReturns(w) \/ ProcessingRaises(w) \/ Abandon(w)
           => OnlyBuild(w) /\ build'[w].stage = "none"
    BY <1>2, OneBuild DEF ProcessingReturns, ProcessingRaises, Abandon
  <1> QED
    BY <1>3, <1>4, <1>6, <1>7, <1>8, <1>9, <1>10

(***************************************************************************)
(* Points                                                                  *)
(***************************************************************************)

\* What was ever written to a generation, and the chunks it has points of.
ResultsOf(d, g) == { r \in results : r.doc = d /\ r.generation = g }
Indices(d, g) == { x.index : x \in VectorsOf(d, g) }

ResultType == [ doc : Docs, generation : Nat, parse : Parses ]

\* Every point comes from a parse that was written to its generation.
PointsInv ==
  \A x \in vectors : \E r \in ResultsOf(x.doc, x.generation) :
    x.parse = r.parse /\ x.index < r.parse.chunks

\* The points of a generation reach without a gap as far as the longest parse.
SegmentInv ==
  \A d \in Docs, g \in Nat : \E n \in Nat :
    /\ Indices(d, g) = 0 .. n - 1
    /\ \A r \in ResultsOf(d, g) : r.parse.chunks <= n

VectorsType ==
  /\ vectors \subseteq Point
  /\ \A x, y \in vectors : PointId(x) = PointId(y) => x = y

\* The result that a worker writes.
Result(w) == [doc |-> TaskDoc(w), generation |-> TargetGeneration(w), parse |-> build[w].parse]

LEMMA BusyBuild ==
  ASSUME TypeOK, LeaseInv, ParseInv, NEW w \in Workers, build[w].stage # "none"
  PROVE  /\ execution[w].pc = "processing"
         /\ TaskDoc(w) \in Docs /\ TargetGeneration(w) \in Nat
         /\ build[w].stage # "downloading" => build[w].parse \in Parses /\ Result(w) \in ResultType
  <1>1. execution[w].pc = "processing"
    BY DEF TypeOK
  <1> QED
    BY <1>1, OnTarget DEF ParseInv, Result, ResultType

\* The points that one parse is written as.
LEMMA PointsOfParse ==
  ASSUME NEW d \in Docs, NEW g \in Nat, NEW p \in Parses
  PROVE  /\ Points(d, g, p) \subseteq Point
         /\ \A x \in Points(d, g, p) : /\ x.doc = d /\ x.generation = g /\ x.parse = p
                                       /\ x.index \in 0 .. p.chunks - 1
         /\ \A i \in 0 .. p.chunks - 1 : \E x \in Points(d, g, p) : x.index = i
         /\ \A x, y \in Points(d, g, p) : x.index = y.index => x = y
         /\ p.chunks \in Nat \ {0}
  <1>1. p.chunks \in Nat \ {0}
    BY ParsesAssumption
  <1>2. \A i \in 0 .. p.chunks - 1 : i \in Nat
    BY <1>1
  <1>3. Points(d, g, p) \subseteq Point
    BY <1>2 DEF Points, Point
  <1>4. \A x \in Points(d, g, p) : /\ x.doc = d /\ x.generation = g /\ x.parse = p
                                   /\ x.index \in 0 .. p.chunks - 1
    BY DEF Points
  <1>5. ASSUME NEW i \in 0 .. p.chunks - 1
        PROVE  \E x \in Points(d, g, p) : x.index = i
    <2> DEFINE x == [doc |-> d, generation |-> g, index |-> i, parse |-> p]
    <2>1. x \in Points(d, g, p) /\ x.index = i
      BY DEF Points
    <2> QED
      BY <2>1
  <1>6. \A x, y \in Points(d, g, p) : x.index = y.index => x = y
    BY DEF Points
  <1> QED
    BY <1>1, <1>3, <1>4, <1>5, <1>6

LEMMA UpsertPoints ==
  ASSUME TypeOK, LeaseInv, ParseInv, NEW w \in Workers, Upsert(w)
  PROVE  \E new \in SUBSET Point :
           /\ new = Points(TaskDoc(w), TargetGeneration(w), build[w].parse)
           /\ vectors' = { x \in vectors : \A y \in new : PointId(x) # PointId(y) } \cup new
           /\ results' = results \cup {Result(w)}
           /\ Result(w) \in ResultType
           /\ build[w].parse \in Parses
           /\ TaskDoc(w) \in Docs /\ TargetGeneration(w) \in Nat
  <1>1. /\ build[w].parse \in Parses
        /\ TaskDoc(w) \in Docs /\ TargetGeneration(w) \in Nat /\ Result(w) \in ResultType
    BY BusyBuild DEF Upsert
  <1> DEFINE new == Points(TaskDoc(w), TargetGeneration(w), build[w].parse)
  <1>2. new \in SUBSET Point
    BY <1>1, PointsOfParse
  <1>3. /\ vectors' = { x \in vectors : PointId(x) \notin { PointId(y) : y \in new } } \cup new
        /\ results' = results \cup {Result(w)}
    BY DEF Upsert, Result
  <1> HIDE DEF new
  <1>4. vectors' = { x \in vectors : \A y \in new : PointId(x) # PointId(y) } \cup new
    BY <1>3
  <1> QED
    BY <1>1, <1>2, <1>3, <1>4 DEF new

\* Points and results are written by an upsert and by nothing else.
LEMMA OnlyUpsertWrites ==
  ASSUME [Next]_vars
  PROVE  UNCHANGED <<vectors, results>> \/ \E w \in Workers : Upsert(w)
  BY DEF Next, Ownership, BeginProcessing, Parse, BeginGraph, MergeRelation, PruneRelations,
         ProcessingReturns, ProcessingRaises, Abandon, storeVars, vars

LEMMA VectorsStep ==
  ASSUME TypeOK, LeaseInv, ParseInv, PointsInv, [Next]_vars
  PROVE  VectorsType' /\ results' \subseteq ResultType /\ PointsInv'
  <1>1. CASE UNCHANGED <<vectors, results>>
    BY <1>1 DEF TypeOK, VectorsType, ResultType, PointsInv, ResultsOf
  <1>2. ASSUME NEW w \in Workers, Upsert(w)
        PROVE  VectorsType' /\ results' \subseteq ResultType /\ PointsInv'
    <2> DEFINE d == TaskDoc(w)
               g == TargetGeneration(w)
               p == build[w].parse
    <2>1. PICK new \in SUBSET Point :
            /\ new = Points(d, g, p)
            /\ vectors' = { x \in vectors : \A y \in new : PointId(x) # PointId(y) } \cup new
            /\ results' = results \cup {Result(w)}
            /\ Result(w) \in ResultType /\ p \in Parses /\ d \in Docs /\ g \in Nat
      BY <1>2, UpsertPoints
    <2>2. /\ \A x \in new : x.doc = d /\ x.generation = g /\ x.parse = p /\ x.index < p.chunks
          /\ \A x, y \in new : x.index = y.index => x = y
      BY <2>1, PointsOfParse
    <2>3. VectorsType'
      <3>1. vectors' \subseteq Point
        BY <2>1 DEF TypeOK
      <3>2. ASSUME NEW x \in vectors', NEW y \in vectors', PointId(x) = PointId(y)
            PROVE  x = y
        <4>1. CASE x \in new /\ y \in new
          BY <2>2, <3>2, <4>1 DEF PointId
        <4>2. CASE x \notin new /\ y \notin new
          BY <2>1, <3>2, <4>2 DEF TypeOK
        <4> QED
          BY <2>1, <3>2, <4>1, <4>2
      <3> QED
        BY <3>1, <3>2 DEF VectorsType
    <2>4. ASSUME NEW x \in vectors'
          PROVE  \E r \in results' : /\ r.doc = x.doc /\ r.generation = x.generation
                                     /\ x.parse = r.parse /\ x.index < r.parse.chunks
      <3>1. CASE x \in new
        <4>1. Result(w).doc = d /\ Result(w).generation = g /\ Result(w).parse = p
          BY DEF Result
        <4> QED
          BY <2>1, <2>2, <3>1, <4>1
      <3>2. CASE x \in vectors
        BY <2>1, <3>2 DEF PointsInv, ResultsOf
      <3> QED
        BY <2>1, <3>1, <3>2
    <2>5. PointsInv'
      BY <2>4 DEF PointsInv, ResultsOf
    <2> QED
      BY <2>1, <2>3, <2>5 DEF TypeOK, ResultType
  <1> QED
    BY <1>1, <1>2, OnlyUpsertWrites

LEMMA SegmentStep ==
  ASSUME TypeOK, LeaseInv, ParseInv, SegmentInv, [Next]_vars
  PROVE  SegmentInv'
  <1>1. CASE UNCHANGED <<vectors, results>>
    BY <1>1 DEF SegmentInv, Indices, VectorsOf, ResultsOf
  <1>2. ASSUME NEW w \in Workers, Upsert(w), NEW d \in Docs, NEW g \in Nat
        PROVE  \E n \in Nat : /\ Indices(d, g)' = 0 .. n - 1
                              /\ \A r \in ResultsOf(d, g)' : r.parse.chunks <= n
    <2> DEFINE p == build[w].parse
    <2>1. PICK new \in SUBSET Point :
            /\ new = Points(TaskDoc(w), TargetGeneration(w), p)
            /\ vectors' = { x \in vectors : \A y \in new : PointId(x) # PointId(y) } \cup new
            /\ results' = results \cup {Result(w)}
            /\ p \in Parses /\ TaskDoc(w) \in Docs /\ TargetGeneration(w) \in Nat
      BY <1>2, UpsertPoints
    <2>2. /\ \A x \in new : /\ x.doc = TaskDoc(w) /\ x.generation = TargetGeneration(w)
                            /\ x.index \in 0 .. p.chunks - 1
          /\ \A i \in 0 .. p.chunks - 1 : \E x \in new : x.index = i
          /\ p.chunks \in Nat
      BY <2>1, PointsOfParse
    <2>3. PICK n \in Nat : /\ Indices(d, g) = 0 .. n - 1
                           /\ \A r \in ResultsOf(d, g) : r.parse.chunks <= n
      BY DEF SegmentInv
    <2>4. /\ Result(w).doc = TaskDoc(w) /\ Result(w).generation = TargetGeneration(w)
          /\ Result(w).parse = p
      BY DEF Result
    <2>5. CASE d # TaskDoc(w) \/ g # TargetGeneration(w)
      <3>1. VectorsOf(d, g)' = VectorsOf(d, g)
        <4>1. \A x \in vectors : \A y \in new : PointId(x) = PointId(y)
                => x.doc = y.doc /\ x.generation = y.generation
          BY DEF PointId
        <4> QED
          BY <2>1, <2>2, <2>5, <4>1 DEF VectorsOf
      <3>2. ResultsOf(d, g)' = ResultsOf(d, g)
        BY <2>1, <2>4, <2>5 DEF ResultsOf
      <3> QED
        BY <2>3, <3>1, <3>2 DEF Indices
    <2>6. CASE d = TaskDoc(w) /\ g = TargetGeneration(w)
      <3> DEFINE m == IF n <= p.chunks THEN p.chunks ELSE n
      <3>1. m \in Nat /\ n <= m /\ p.chunks <= m /\ (m = n \/ m = p.chunks)
        BY <2>2
      <3>2. Indices(d, g)' \subseteq Indices(d, g) \cup 0 .. p.chunks - 1
        BY <2>1, <2>2 DEF Indices, VectorsOf
      <3>3. 0 .. p.chunks - 1 \subseteq Indices(d, g)'
        BY <2>1, <2>2, <2>6 DEF Indices, VectorsOf
      <3>4. Indices(d, g) \subseteq Indices(d, g)' \cup 0 .. p.chunks - 1
        <4>1. \A x \in vectors : \A y \in new : PointId(x) = PointId(y) => x.index = y.index
          BY DEF PointId
        <4> QED
          BY <2>1, <2>2, <4>1 DEF Indices, VectorsOf
      <3>5. Indices(d, g)' = 0 .. m - 1
        <4> HIDE DEF m
        <4>1. 0 .. n - 1 \subseteq 0 .. m - 1 /\ 0 .. p.chunks - 1 \subseteq 0 .. m - 1
          BY <2>2, <3>1
        <4>2. 0 .. m - 1 = 0 .. n - 1 \/ 0 .. m - 1 = 0 .. p.chunks - 1
          BY <3>1
        <4> QED
          BY <2>3, <3>2, <3>3, <3>4, <4>1, <4>2
      <3>6. \A r \in ResultsOf(d, g)' : r \in ResultsOf(d, g) \/ r.parse = p
        BY <2>1, <2>4 DEF ResultsOf
      <3>7. \A r \in ResultsOf(d, g) : r.parse.chunks \in Nat
        BY ParsesAssumption DEF ResultsOf, TypeOK
      <3> HIDE DEF m
      <3> QED
        BY <2>2, <2>3, <3>1, <3>5, <3>6, <3>7
    <2> QED
      BY <2>5, <2>6
  <1>3. ASSUME NEW w \in Workers, Upsert(w)
        PROVE  SegmentInv'
    BY <1>2, <1>3 DEF SegmentInv
  <1> QED
    BY <1>1, <1>3, OnlyUpsertWrites

(***************************************************************************)
(* Types                                                                   *)
(***************************************************************************)

\* A worker is in the middle of a build while it is inside process_document.
LEMMA StageStep ==
  ASSUME TypeOK, ParseInv, [Next]_vars
  PROVE  /\ build' \in [Workers -> Build]
         /\ \A v \in Workers : build'[v].stage # "none" <=> execution'[v].pc = "processing"
  <1> DEFINE Good == /\ build' \in [Workers -> Build]
                     /\ \A v \in Workers :
                          build'[v].stage # "none" <=> execution'[v].pc = "processing"
  <1>1. BuildsType /\ execution \in [Workers -> Lease!Execution]
    BY DEF TypeOK, BuildsType, Lease!TypeOK
  <1>2. ASSUME Ownership \/ UNCHANGED vars
        PROVE  Good
    BY <1>2 DEF TypeOK, Ownership, vars, leaseVars
  <1>3. ASSUME NEW w \in Workers, OnlyBuild(w),
               build'[w].stage # "none" <=> execution'[w].pc = "processing",
               \A v \in Workers \ {w} : execution'[v] = execution[v]
        PROVE  Good
    BY <1>3 DEF TypeOK, OnlyBuild
  <1>4. ASSUME NEW w \in Workers, BeginProcessing(w)
        PROVE  Good
    <2>1. /\ execution'[w].pc = "processing"
          /\ \A v \in Workers \ {w} : execution'[v] = execution[v]
      BY <1>1, <1>4 DEF BeginProcessing, Lease!BeginProcessing, Lease!Execution
    <2> QED
      BY <1>1, <1>3, <1>4, <2>1, BuildMoves
  <1>5. ASSUME NEW w \in Workers,
               \/ (\E p \in Parses : Parse(w, p)) \/ Upsert(w) \/ BeginGraph(w)
               \/ (\E r \in Relations : MergeRelation(w, r)) \/ PruneRelations(w)
        PROVE  Good
    <2>1. execution' = execution
      BY <1>5 DEF Parse, Upsert, BeginGraph, MergeRelation, PruneRelations, leaseVars
    <2>2. OnlyBuild(w) /\ build[w].stage # "none" /\ build'[w].stage # "none"
      BY <1>1, <1>5, BuildMoves DEF Goes
    <2>3. execution[w].pc = "processing"
      BY <2>2 DEF TypeOK
    <2> QED
      BY <1>3, <2>1, <2>2, <2>3
  <1>6. ASSUME NEW w \in Workers, ProcessingReturns(w) \/ ProcessingRaises(w) \/ Abandon(w)
        PROVE  Good
    <2>1. /\ execution'[w].pc # "processing"
          /\ \A v \in Workers \ {w} : execution'[v] = execution[v]
      <3>1. CASE ProcessingReturns(w)
        BY <1>1, <3>1 DEF ProcessingReturns, Lease!ProcessingReturns, Lease!Execution
      <3>2. CASE ProcessingRaises(w)
        BY <1>1, <3>2 DEF ProcessingRaises, Lease!ProcessingRaises, Lease!Execution
      <3>3. CASE Abandon(w)
        BY <1>1, <3>3 DEF Abandon, Lease!Abandon, Lease!Finish, Lease!Idle
      <3> QED
        BY <1>6, <3>1, <3>2, <3>3
    <2> QED
      BY <1>1, <1>3, <1>6, <2>1, BuildMoves
  <1> HIDE DEF Good
  <1>7. Good
    BY <1>2, <1>4, <1>5, <1>6 DEF Next
  <1> QED
    BY <1>7 DEF Good

LEMMA ParseStep ==
  ASSUME TypeOK, ParseInv, [Next]_vars
  PROVE  ParseInv'
  <1>1. BuildsType
    BY DEF TypeOK, BuildsType
  <1>2. ASSUME UNCHANGED build
        PROVE  ParseInv'
    BY <1>2 DEF ParseInv
  <1>3. ASSUME NEW w \in Workers, OnlyBuild(w),
               build'[w].stage \notin { "none", "downloading" } => build'[w].parse \in Parses
        PROVE  ParseInv'
    BY <1>3 DEF ParseInv, OnlyBuild
  <1>4. ASSUME NEW w \in Workers, NEW p \in Parses, Parse(w, p)
        PROVE  ParseInv'
    BY <1>1, <1>3, <1>4, BuildMoves DEF Goes
  <1>5. ASSUME NEW w \in Workers, NEW r \in Relations, MergeRelation(w, r)
        PROVE  ParseInv'
    <2>1. Goes(w, "graph", "graph") /\ build'[w].parse = build[w].parse
      BY <1>1, <1>5, BuildMoves
    <2> QED
      BY <1>3, <2>1 DEF Goes, ParseInv
  <1>6. ASSUME NEW w \in Workers, Upsert(w) \/ BeginGraph(w) \/ PruneRelations(w)
        PROVE  ParseInv'
    <2>1. /\ OnlyBuild(w) /\ build'[w].parse = build[w].parse
          /\ build[w].stage \notin { "none", "downloading" }
      BY <1>1, <1>6, BuildMoves DEF Goes
    <2> QED
      BY <1>3, <2>1 DEF ParseInv
  <1>7. ASSUME NEW w \in Workers,
               BeginProcessing(w) \/ ProcessingReturns(w) \/ ProcessingRaises(w) \/ Abandon(w)
        PROVE  ParseInv'
    BY <1>1, <1>3, <1>7, BuildMoves
  <1>8. Ownership \/ UNCHANGED vars => UNCHANGED build
    BY DEF Ownership, vars
  <1> QED
    BY <1>2, <1>4, <1>5, <1>6, <1>7, <1>8 DEF Next

LEMMA EdgesType ==
  ASSUME TypeOK, LeaseInv, ParseInv, [Next]_vars
  PROVE  edges' \subseteq Edge
  <1>1. ASSUME NEW w \in Workers, NEW r \in Relations, MergeRelation(w, r)
        PROVE  edges' \subseteq Edge
    <2>1. TaskDoc(w) \in Docs /\ TargetGeneration(w) \in Nat
      BY <1>1, BusyBuild DEF MergeRelation
    <2> QED
      BY <1>1, <2>1 DEF MergeRelation, Edge, TypeOK
  <1>2. ASSUME NEW w \in Workers, PruneRelations(w)
        PROVE  edges' \subseteq Edge
    BY <1>2 DEF PruneRelations, TypeOK
  <1>3. ASSUME UNCHANGED edges
        PROVE  edges' \subseteq Edge
    BY <1>3 DEF TypeOK
  <1> QED
    BY <1>1, <1>2, <1>3
    DEF Next, Ownership, BeginProcessing, Parse, Upsert, BeginGraph, ProcessingReturns,
        ProcessingRaises, Abandon, storeVars, vars

LEMMA TypeStep ==
  ASSUME TypeOK, LeaseInv, ParseInv, PointsInv, [Next]_vars
  PROVE  TypeOK'
  <1>1. Lease!TypeOK'
    BY LeaseInvStep, SameLease DEF LeaseInv
  <1>2. VectorsType' /\ results' \subseteq ResultType
    BY VectorsStep
  <1> QED
    BY <1>1, <1>2, EdgesType, StageStep DEF TypeOK, VectorsType, ResultType

(***************************************************************************)
(* Relations                                                               *)
(***************************************************************************)

RelationsOf(d, g) == { e.relation : e \in EdgesOf(d, g) }

\* All that was ever written to a generation is one parse.
OnlyParse(d, g, p) == \A r \in ResultsOf(d, g) : r.parse = p

\* A finished build: if all builds agreed, every relation is there.
BuiltUp(d, g) ==
  /\ ResultsOf(d, g) # {}
  /\ \A p \in Parses : OnlyParse(d, g, p) => p.relations \subseteq RelationsOf(d, g)

\* Every relation comes from a parse that was written to its generation.
EdgesInv ==
  \A e \in edges : \E r \in ResultsOf(e.doc, e.generation) : e.relation \in r.parse.relations

FiniteInv == IsFiniteSet(results)

\* A build on its way: what it has merged stays, unless a build that parsed
\* otherwise prunes it.
BuildOf(w) ==
  /\ build[w].stage \in { "indexed", "graph", "pruned" } => Result(w) \in results
  /\ build[w].stage \in { "graph", "pruned" } =>
       /\ build[w].left \subseteq build[w].parse.relations
       /\ OnlyParse(TaskDoc(w), TargetGeneration(w), build[w].parse) =>
            build[w].parse.relations \ build[w].left
              \subseteq RelationsOf(TaskDoc(w), TargetGeneration(w))
  /\ build[w].stage = "pruned" => build[w].left = {}
  /\ execution[w].pc = "built" => BuiltUp(TaskDoc(w), TargetGeneration(w))

BuildInv == \A w \in Workers : BuildOf(w)

\* What a task published was built up.
DoneInv ==
  \A t \in Tasks : task[t].status = "SUCCEEDED" =>
    BuiltUp(task[t].doc_id, task[t].target_generation)

\* What was written is never forgotten.
LEMMA ResultsGrow ==
  ASSUME [Next]_vars
  PROVE  /\ results \subseteq results'
         /\ \A d, g : ResultsOf(d, g) \subseteq ResultsOf(d, g)'
         /\ \A d, g, p : OnlyParse(d, g, p)' => OnlyParse(d, g, p)
  <1>1. results \subseteq results'
    BY OnlyUpsertWrites DEF Upsert
  <1>2. \A d, g : ResultsOf(d, g) \subseteq ResultsOf(d, g)'
    BY <1>1 DEF ResultsOf
  <1> QED
    BY <1>1, <1>2 DEF OnlyParse

LEMMA FiniteStep ==
  ASSUME FiniteInv, [Next]_vars
  PROVE  FiniteInv'
  <1>1. ASSUME NEW w \in Workers, Upsert(w)
        PROVE  FiniteInv'
    <2>1. results' = results \cup {Result(w)}
      BY <1>1 DEF Upsert, Result
    <2> QED
      BY <2>1, FS_AddElement DEF FiniteInv
  <1> QED
    BY <1>1, OnlyUpsertWrites DEF FiniteInv

\* Relations are written by a merge or a prune and by nothing else.
LEMMA OnlyGraphWrites ==
  ASSUME [Next]_vars
  PROVE  \/ UNCHANGED edges
         \/ \E w \in Workers, r \in Relations : MergeRelation(w, r)
         \/ \E w \in Workers : PruneRelations(w)
  BY DEF Next, Ownership, BeginProcessing, Parse, Upsert, BeginGraph, ProcessingReturns,
         ProcessingRaises, Abandon, storeVars, vars

LEMMA EdgesStep ==
  ASSUME TypeOK, LeaseInv, ParseInv, BuildInv, EdgesInv, [Next]_vars
  PROVE  EdgesInv'
  <1>1. ASSUME NEW e \in edges
        PROVE  \E r \in ResultsOf(e.doc, e.generation)' : e.relation \in r.parse.relations
    BY ResultsGrow DEF EdgesInv
  <1>2. ASSUME edges' \subseteq edges
        PROVE  EdgesInv'
    BY <1>1, <1>2 DEF EdgesInv
  <1>3. ASSUME NEW w \in Workers, NEW r \in Relations, MergeRelation(w, r)
        PROVE  EdgesInv'
    <2>1. PICK x :
            x = [doc |-> TaskDoc(w), generation |-> TargetGeneration(w), relation |-> r]
      OBVIOUS
    <2>2. /\ edges' = edges \cup {x}
          /\ build[w].stage = "graph" /\ r \in build[w].left
      BY <1>3, <2>1 DEF MergeRelation
    <2>3. Result(w) \in results /\ r \in build[w].parse.relations
      BY <2>2 DEF BuildInv, BuildOf
    <2>4. Result(w) \in ResultsOf(x.doc, x.generation) /\ Result(w).parse = build[w].parse
      BY <2>1, <2>3 DEF Result, ResultsOf
    <2>5. x.relation = r
      BY <2>1
    <2>6. \E q \in ResultsOf(x.doc, x.generation)' : x.relation \in q.parse.relations
      BY <2>3, <2>4, <2>5, ResultsGrow
    <2> QED
      BY <1>1, <2>2, <2>6 DEF EdgesInv
  <1>4. ASSUME NEW w \in Workers, PruneRelations(w)
        PROVE  EdgesInv'
    BY <1>2, <1>4 DEF PruneRelations
  <1> QED
    BY <1>2, <1>3, <1>4, OnlyGraphWrites

\* The crux: only a prune deletes relations, those its own parse lacks; and
\* its own parse is among those ever written to the generation.
LEMMA KeepsRelations ==
  ASSUME TypeOK, LeaseInv, ParseInv, BuildInv, [Next]_vars,
         NEW d, NEW g, NEW p, OnlyParse(d, g, p)',
         NEW R, R \subseteq p.relations, R \subseteq RelationsOf(d, g)
  PROVE  R \subseteq RelationsOf(d, g)'
  <1>1. ASSUME edges \subseteq edges'
        PROVE  R \subseteq RelationsOf(d, g)'
    BY <1>1 DEF RelationsOf, EdgesOf
  <1>2. ASSUME NEW w \in Workers, PruneRelations(w)
        PROVE  R \subseteq RelationsOf(d, g)'
    <2>1. Result(w) \in results
      BY <1>2 DEF PruneRelations, BuildInv, BuildOf
    <2>2. TaskDoc(w) = d /\ TargetGeneration(w) = g => build[w].parse = p
      BY <2>1, ResultsGrow DEF OnlyParse, ResultsOf, Result
    <2>3. ASSUME NEW r \in R
          PROVE  r \in RelationsOf(d, g)'
      <3>1. PICK e \in edges : e.doc = d /\ e.generation = g /\ e.relation = r
        BY DEF RelationsOf, EdgesOf
      <3>2. e \in edges'
        BY <1>2, <2>2, <3>1 DEF PruneRelations
      <3> QED
        BY <3>1, <3>2 DEF RelationsOf, EdgesOf
    <2> QED
      BY <2>3
  <1>3. \A w \in Workers, r \in Relations : MergeRelation(w, r) => edges \subseteq edges'
    BY DEF MergeRelation
  <1> QED
    BY <1>1, <1>2, <1>3, OnlyGraphWrites

LEMMA BuiltUpStays ==
  ASSUME TypeOK, LeaseInv, ParseInv, BuildInv, [Next]_vars,
         NEW d, NEW g, BuiltUp(d, g)
  PROVE  BuiltUp(d, g)'
  <1>1. ResultsOf(d, g)' # {}
    BY ResultsGrow DEF BuiltUp
  <1>2. ASSUME NEW p \in Parses, OnlyParse(d, g, p)'
        PROVE  p.relations \subseteq RelationsOf(d, g)'
    <2>1. p.relations \subseteq RelationsOf(d, g)
      BY <1>2, ResultsGrow DEF BuiltUp
    <2> QED
      BY <1>2, <2>1, KeepsRelations
  <1> QED
    BY <1>1, <1>2 DEF BuiltUp

\* A build that goes on: one of five actions of its worker, or none.
LEMMA GoesOn ==
  ASSUME TypeOK, LeaseInv, ParseInv, [Next]_vars,
         NEW w \in Workers, build'[w].stage \notin { "none", "downloading" }
  PROVE  /\ TaskDoc(w)' = TaskDoc(w) /\ TargetGeneration(w)' = TargetGeneration(w)
         /\ \/ build'[w] = build[w]
            \/ \E p \in Parses : Parse(w, p)
            \/ Upsert(w) \/ BeginGraph(w) \/ PruneRelations(w)
            \/ \E r \in Relations : MergeRelation(w, r)
  <1>1. BuildsType
    BY DEF TypeOK, BuildsType
  <1>2. \/ build'[w] = build[w]
        \/ \E p \in Parses : Parse(w, p)
        \/ Upsert(w) \/ BeginGraph(w) \/ PruneRelations(w)
        \/ \E r \in Relations : MergeRelation(w, r)
    <2>1. ASSUME NEW v \in Workers, v # w,
                 \/ BeginProcessing(v) \/ (\E p \in Parses : Parse(v, p)) \/ Upsert(v)
                 \/ BeginGraph(v) \/ (\E r \in Relations : MergeRelation(v, r))
                 \/ PruneRelations(v) \/ ProcessingReturns(v) \/ ProcessingRaises(v)
                 \/ Abandon(v)
          PROVE  build'[w] = build[w]
      <3>1. OnlyBuild(v)
        BY <1>1, <2>1, BuildMoves DEF Goes
      <3> QED
        BY <2>1, <3>1 DEF OnlyBuild
    <2>2. ~BeginProcessing(w) /\ ~ProcessingReturns(w) /\ ~ProcessingRaises(w) /\ ~Abandon(w)
      BY <1>1, BuildMoves
    <2>3. Ownership \/ UNCHANGED vars => build'[w] = build[w]
      BY DEF Ownership, vars
    <2> QED
      BY <2>1, <2>2, <2>3 DEF Next
  <1>3. build[w].stage # "none"
    BY <1>1, <1>2, BuildMoves DEF Goes
  <1>4. execution[w].pc # "idle" /\ execution'[w].pc # "idle"
    BY <1>3, StageStep DEF TypeOK
  <1> QED
    BY <1>2, <1>4, TargetStays

\* A worker that comes out of process_document with a result has merged all.
LEMMA ReturnsBuiltUp ==
  ASSUME TypeOK, LeaseInv, ParseInv, BuildInv, [Next]_vars,
         NEW w \in Workers, execution'[w].pc = "built"
  PROVE  BuiltUp(TaskDoc(w), TargetGeneration(w))
  <1>1. [Rows!Next]_Rows!vars
    BY LeaseStep
  <1>2. execution[w].pc \in { "processing", "built" }
    BY <1>1, SameLease, Rows!BuiltByProcessing DEF LeaseInv
  <1>3. ASSUME execution[w].pc = "processing"
        PROVE  ProcessingReturns(w)
    <2>1. build[w].stage # "none" /\ build'[w].stage = "none"
      BY <1>3, StageStep DEF TypeOK
    <2>2. ASSUME NEW v \in Workers, v # w,
                 \/ BeginProcessing(v) \/ (\E p \in Parses : Parse(v, p)) \/ Upsert(v)
                 \/ BeginGraph(v) \/ (\E r \in Relations : MergeRelation(v, r))
                 \/ PruneRelations(v) \/ ProcessingReturns(v) \/ ProcessingRaises(v)
                 \/ Abandon(v)
          PROVE  build'[w] = build[w]
      <3>1. OnlyBuild(v)
        BY <2>2, BuildMoves DEF Goes, TypeOK, BuildsType
      <3> QED
        BY <2>2, <3>1 DEF OnlyBuild
    <2>3. /\ ~BeginProcessing(w) /\ (\A p \in Parses : ~Parse(w, p)) /\ ~Upsert(w)
          /\ ~BeginGraph(w) /\ (\A r \in Relations : ~MergeRelation(w, r)) /\ ~PruneRelations(w)
      BY <2>1, BuildMoves DEF Goes, TypeOK, BuildsType
    <2>4. ~ProcessingRaises(w) /\ ~Abandon(w)
      BY DEF ProcessingRaises, Abandon, Lease!ProcessingRaises, Lease!Abandon, Lease!Finish,
             Lease!Idle, Lease!Execution, TypeOK, Lease!TypeOK
    <2>5. ~Ownership /\ ~UNCHANGED vars
      BY <2>1 DEF Ownership, vars
    <2> QED
      BY <2>1, <2>2, <2>3, <2>4, <2>5 DEF Next
  <1>4. ASSUME ProcessingReturns(w)
        PROVE  BuiltUp(TaskDoc(w), TargetGeneration(w))
    <2> DEFINE d == TaskDoc(w)
               g == TargetGeneration(w)
               parsed == build[w].parse
    <2>1. /\ Result(w) \in results
          /\ OnlyParse(d, g, parsed) => parsed.relations \subseteq RelationsOf(d, g)
      BY <1>4 DEF ProcessingReturns, BuildInv, BuildOf
    <2>2. Result(w) \in ResultsOf(d, g) /\ Result(w).parse = parsed
      BY <2>1 DEF ResultsOf, Result
    <2> QED
      BY <2>1, <2>2 DEF BuiltUp, OnlyParse
  <1> QED
    BY <1>2, <1>3, <1>4 DEF BuildInv, BuildOf

LEMMA BuildStep ==
  ASSUME TypeOK, LeaseInv, ParseInv, BuildInv, [Next]_vars
  PROVE  BuildInv'
  <1> SUFFICES ASSUME NEW w \in Workers
               PROVE  BuildOf(w)'
    BY DEF BuildInv
  <1>1. BuildsType /\ BuildOf(w)
    BY DEF TypeOK, BuildsType, BuildInv
  <1>2. ASSUME execution'[w].pc = "built"
        PROVE  BuiltUp(TaskDoc(w), TargetGeneration(w))'
    <2>1. [Rows!Next]_Rows!vars
      BY LeaseStep
    <2>2. execution[w].pc # "idle"
      BY <1>2, <2>1, SameLease, Rows!BuiltByProcessing DEF LeaseInv
    <2>3. PICK d, g : d = TaskDoc(w) /\ g = TargetGeneration(w)
      OBVIOUS
    <2>4. TaskDoc(w)' = d /\ TargetGeneration(w)' = g
      BY <1>2, <2>2, <2>3, TargetStays
    <2>5. BuiltUp(d, g)'
      BY <1>2, <2>3, ReturnsBuiltUp, BuiltUpStays
    <2> QED
      BY <2>4, <2>5 DEF BuiltUp, ResultsOf, OnlyParse, RelationsOf, EdgesOf
  <1>3. CASE build'[w].stage \in { "none", "downloading", "embedded" }
    BY <1>2, <1>3 DEF BuildOf
  <1>4. CASE build'[w].stage \in { "indexed", "graph", "pruned" }
    <2>1. PICK d, g : d = TaskDoc(w) /\ g = TargetGeneration(w)
      OBVIOUS
    <2>2. TaskDoc(w)' = d /\ TargetGeneration(w)' = g
      BY <1>4, <2>1, GoesOn
    <2>3. \/ build'[w] = build[w] /\ build[w].stage # "embedded"
          \/ Upsert(w) \/ BeginGraph(w) \/ PruneRelations(w)
          \/ \E r \in Relations : MergeRelation(w, r)
      <3>1. \A p \in Parses : ~Parse(w, p)
        BY <1>1, <1>4, BuildMoves DEF Goes
      <3> QED
        BY <1>4, <3>1, GoesOn
    <2>4. build'[w].parse = build[w].parse
      BY <1>1, <2>3, BuildMoves
    <2>5. Result(w)' = Result(w)
      BY <2>1, <2>2, <2>4 DEF Result
    <2>6. Result(w) \in results'
      <3>1. CASE Upsert(w)
        BY <3>1 DEF Upsert, Result
      <3>2. CASE ~Upsert(w)
        <4>1. build[w].stage \in { "indexed", "graph", "pruned" }
          BY <1>1, <1>4, <2>3, <3>2, BuildMoves DEF Goes
        <4> QED
          BY <1>1, <4>1, ResultsGrow DEF BuildOf
      <3> QED
        BY <3>1, <3>2
    <2>7. ASSUME build'[w].stage \in { "graph", "pruned" }
          PROVE  /\ build'[w].left \subseteq build[w].parse.relations
                 /\ OnlyParse(d, g, build[w].parse)' =>
                      build[w].parse.relations \ build'[w].left \subseteq RelationsOf(d, g)'
      <3> DEFINE parsed == build[w].parse
                 merged == parsed.relations \ build[w].left
      <3>1. PICK p, R : p = parsed /\ R = merged
        OBVIOUS
      <3>2. ASSUME build[w].stage \in { "graph", "pruned" }, OnlyParse(d, g, parsed)'
            PROVE  merged \subseteq RelationsOf(d, g)'
        <4>1. OnlyParse(d, g, p)'
          BY <2>4, <3>1, <3>2 DEF OnlyParse
        <4>2. R \subseteq RelationsOf(d, g)
          BY <1>1, <2>1, <3>1, <3>2, <4>1, ResultsGrow DEF BuildOf
        <4> QED
          BY <3>1, <4>1, <4>2, KeepsRelations
      <3>3. CASE build'[w] = build[w]
        BY <1>1, <2>7, <3>2, <3>3 DEF BuildOf
      <3>4. CASE BeginGraph(w)
        BY <1>1, <3>4, BuildMoves
      <3>5. CASE PruneRelations(w)
        <4>1. build[w].stage = "graph" /\ build[w].left = {} /\ build'[w].left = {}
          BY <1>1, <3>5, BuildMoves DEF PruneRelations
        <4> QED
          BY <3>2, <4>1
      <3>6. ASSUME NEW r \in Relations, MergeRelation(w, r)
            PROVE  /\ build'[w].left \subseteq parsed.relations
                   /\ OnlyParse(d, g, parsed)' =>
                        parsed.relations \ build'[w].left \subseteq RelationsOf(d, g)'
        <4>1. build[w].stage = "graph" /\ build'[w].left = build[w].left \ {r}
          BY <1>1, <3>6, BuildMoves DEF Goes
        <4>2. r \in RelationsOf(d, g)'
          <5> DEFINE e == [doc |-> d, generation |-> g, relation |-> r]
          <5>1. e \in edges' /\ e.doc = d /\ e.generation = g /\ e.relation = r
            BY <2>1, <3>6 DEF MergeRelation
          <5> QED
            BY <5>1 DEF RelationsOf, EdgesOf
        <4> QED
          BY <1>1, <3>2, <4>1, <4>2 DEF BuildOf
      <3>7. ~Upsert(w)
        BY <1>1, <2>7, BuildMoves DEF Goes
      <3> QED
        BY <2>3, <3>3, <3>4, <3>5, <3>6, <3>7
    <2>8. build'[w].stage = "pruned" => build'[w].left = {}
      BY <1>1, <2>3, BuildMoves DEF Goes, BuildOf
    <2> QED
      BY <1>2, <2>1, <2>2, <2>4, <2>5, <2>6, <2>7, <2>8
      DEF BuildOf, ResultsOf, OnlyParse, RelationsOf, EdgesOf
  <1> QED
    BY <1>3, <1>4, StageStep DEF Build, BuildStage

\* A task succeeds in the hands of a worker whose build was finished.
LEMMA DoneStep ==
  ASSUME TypeOK, LeaseInv, ParseInv, BuildInv, DoneInv, [Next]_vars
  PROVE  DoneInv'
  <1> SUFFICES ASSUME NEW t \in Tasks, task'[t].status = "SUCCEEDED"
               PROVE  BuiltUp(task[t].doc_id, task[t].target_generation)'
    BY DEF DoneInv
  <1>1. [Rows!Next]_Rows!vars
    BY LeaseStep
  <1>2. CASE task[t].status = "SUCCEEDED"
    <2>1. PICK d, g : d = task[t].doc_id /\ g = task[t].target_generation
      OBVIOUS
    <2>2. task'[t].doc_id = d /\ task'[t].target_generation = g
      BY <1>1, <1>2, <2>1, SameLease, Rows!TargetStays DEF LeaseInv
    <2>3. BuiltUp(d, g)'
      BY <1>2, <2>1, BuiltUpStays DEF DoneInv
    <2> QED
      BY <2>2, <2>3 DEF BuiltUp, ResultsOf, OnlyParse, RelationsOf, EdgesOf
  <1>3. CASE task[t].status # "SUCCEEDED"
    <2>1. PICK w \in Workers : execution[w].pc = "built" /\ execution[w].task = t
      BY <1>1, <1>3, SameLease, Rows!SuccessByWorker DEF LeaseInv
    <2>2. PICK d, g : d = task[t].doc_id /\ g = task[t].target_generation
      OBVIOUS
    <2>3. task[t].status # "ABSENT"
      BY <2>1 DEF LeaseInv, Rows!StartedInv
    <2>4. task'[t].doc_id = d /\ task'[t].target_generation = g
      BY <1>1, <2>2, <2>3, SameLease, Rows!TargetStays DEF LeaseInv
    <2>5. BuiltUp(d, g)
      BY <2>1, <2>2 DEF BuildInv, BuildOf, TaskDoc, TargetGeneration
    <2>6. BuiltUp(d, g)'
      BY <2>5, BuiltUpStays
    <2> QED
      BY <2>4, <2>6 DEF BuiltUp, ResultsOf, OnlyParse, RelationsOf, EdgesOf
  <1> QED
    BY <1>2, <1>3

(***************************************************************************)
(* The inductive invariant                                                 *)
(***************************************************************************)

IndexInv ==
  /\ TypeOK /\ LeaseInv /\ ParseInv
  /\ FiniteInv /\ PointsInv /\ SegmentInv /\ EdgesInv
  /\ BuildInv /\ DoneInv

LEMMA IndexInvInit == Init => IndexInv
  <1> SUFFICES ASSUME Init
               PROVE  IndexInv
    OBVIOUS
  <1>1. LeaseInv
    BY LeaseInvInit
  <1>2. \A w \in Workers : /\ build[w].stage = "none" /\ execution[w].pc = "idle"
                           /\ NoBuild \in Build
    BY DEF Init, NoBuild, Build, BuildStage, Lease!Init, Lease!Idle
  <1>3. TypeOK
    BY <1>1, <1>2, SameLease DEF LeaseInv, TypeOK, Init
  <1>4. ParseInv /\ BuildInv
    BY <1>2 DEF ParseInv, BuildInv, BuildOf
  <1>5. FiniteInv /\ PointsInv /\ EdgesInv
    BY FS_EmptySet DEF Init, FiniteInv, PointsInv, EdgesInv
  <1>6. ASSUME NEW d \in Docs, NEW g \in Nat
        PROVE  Indices(d, g) = 0 .. 0 - 1 /\ ResultsOf(d, g) = {}
    BY DEF Init, Indices, VectorsOf, ResultsOf
  <1>7. SegmentInv
    BY <1>6 DEF SegmentInv
  <1>8. DoneInv
    BY DEF Init, Lease!Init, Lease!NewRow, DoneInv
  <1> QED
    BY <1>1, <1>3, <1>4, <1>5, <1>7, <1>8 DEF IndexInv

LEMMA IndexInvStep == IndexInv /\ [Next]_vars => IndexInv'
  BY TypeStep, LeaseInvStep, ParseStep, FiniteStep, VectorsStep, SegmentStep, EdgesStep, BuildStep,
     DoneStep
  DEF IndexInv

LEMMA IndexInvHolds == Spec => []IndexInv
  BY IndexInvInit, IndexInvStep, PTL DEF Spec

(***************************************************************************)
(* Theorems                                                                *)
(***************************************************************************)

\* Every reachable state is well-typed: point ids are unique, and a worker is
\* in the middle of a build exactly while it is inside process_document.
THEOREM TypeCorrect == Spec => []TypeOK
  <1>1. IndexInv => TypeOK
    BY DEF IndexInv
  <1> QED
    BY <1>1, IndexInvHolds, PTL

\* The points of a generation are numbered by their count.
LEMMA CountedPoints ==
  ASSUME TypeOK, SegmentInv, NEW d \in Docs, NEW g \in Nat
  PROVE  LET found == VectorsOf(d, g)
         IN  /\ IsFiniteSet(found)
             /\ { x.index : x \in found } = 0 .. Cardinality(found) - 1
             /\ \A r \in ResultsOf(d, g) : r.parse.chunks <= Cardinality(found)
  <1> DEFINE found == VectorsOf(d, g)
             index == [x \in found |-> x.index]
  <1>1. PICK n \in Nat : /\ Indices(d, g) = 0 .. n - 1
                         /\ \A r \in ResultsOf(d, g) : r.parse.chunks <= n
    BY DEF SegmentInv
  <1>2. index \in Injection(found, 0 .. n - 1)
    <2>1. \A x \in found : x.index \in 0 .. n - 1
      BY <1>1 DEF Indices
    <2>2. \A x, y \in found : x.index = y.index => x = y
      BY DEF TypeOK, VectorsOf, PointId
    <2> QED
      BY <2>1, <2>2 DEF Injection, IsInjective
  <1>3. index \in Surjection(found, 0 .. n - 1)
    <2>1. \A i \in 0 .. n - 1 : \E x \in found : x.index = i
      BY <1>1 DEF Indices
    <2> QED
      BY <1>2, <2>1 DEF Surjection, Injection
  <1>4. IsFiniteSet(0 .. n - 1) /\ Cardinality(0 .. n - 1) = n
    BY FS_Interval
  <1>5. IsFiniteSet(found) /\ Cardinality(found) = n
    BY <1>2, <1>3, <1>4, FS_Injection
  <1> QED
    BY <1>1, <1>5 DEF Indices

\* What was built up can be searched.
LEMMA BuiltUpIsSearchable ==
  ASSUME IndexInv, NEW d \in Docs, NEW g \in Nat, BuiltUp(d, g)
  PROVE  VectorsOf(d, g) # {}
  <1>1. PICK r \in ResultsOf(d, g) : TRUE
    BY DEF BuiltUp
  <1>2. r.parse.chunks \in Nat \ {0}
    BY ParsesAssumption DEF IndexInv, TypeOK, ResultsOf
  <1>3. r.parse.chunks <= Cardinality(VectorsOf(d, g))
    BY CountedPoints DEF IndexInv
  <1>4. Cardinality({}) = 0
    BY FS_EmptySet
  <1> QED
    BY <1>2, <1>3, <1>4

LEMMA PublishedIsBuiltUp ==
  ASSUME IndexInv, NEW d \in Docs, Published(d)
  PROVE  active_generation[d] \in Nat /\ BuiltUp(d, active_generation[d])
  BY DEF Published, IndexInv, DoneInv, TypeOK, Lease!TypeOK

\* A published generation has its points from the first chunk on without a
\* gap, whatever stale workers and later builds of the document write.
THEOREM PublishedCanBeSearched == Spec => []PublishedIsSearchable
  <1>1. ASSUME IndexInv, NEW d \in Docs, Published(d)
        PROVE  LET found == VectorsOf(d, active_generation[d])
               IN  found # {} /\ { x.index : x \in found } = 0 .. Cardinality(found) - 1
    BY <1>1, PublishedIsBuiltUp, BuiltUpIsSearchable, CountedPoints DEF IndexInv
  <1>2. IndexInv => PublishedIsSearchable
    BY <1>1 DEF PublishedIsSearchable
  <1> QED
    BY <1>2, IndexInvHolds, PTL

\* What a query reaches of a re-ingested document was published, whichever
\* state of active_generation the query had read.
THEOREM QueriesSeeNoWorkInProgress == Spec => []QueriesSeePublishedOnly
  <1>1. ASSUME IndexInv, NEW map \in LoadedMaps,
               NEW x \in VisibleVectors(map) \cup VisibleEdges(map),
               x.generation > 1, document[x.doc] = "PRESENT", map[x.doc] # 0
        PROVE  \E t \in Tasks : /\ task[t].status = "SUCCEEDED"
                                /\ task[t].doc_id = x.doc
                                /\ task[t].target_generation = x.generation
    <2>1. x.doc \in Docs /\ x.generation \in Nat
      BY <1>1 DEF VisibleVectors, VisibleEdges, IndexInv, TypeOK, Point, Edge
    <2>2. ~Unfiltered(map)
      BY <1>1, <2>1 DEF Unfiltered
    <2>3. x.generation = map[x.doc]
      BY <1>1, <2>2 DEF VisibleVectors, VisibleEdges
    <2>4. x.generation <= active_generation[x.doc]
      BY <2>1, <2>3 DEF LoadedMaps
    <2>5. active_generation[x.doc] \in Nat
      BY <1>1, <2>1 DEF IndexInv, TypeOK, Lease!TypeOK
    <2>6. x.generation \in 2 .. active_generation[x.doc]
      BY <1>1, <2>1, <2>4, <2>5
    <2> QED
      BY <1>1, <2>1, <2>6 DEF IndexInv, LeaseInv, Rows!PublishedInTurn
  <1>2. IndexInv => QueriesSeePublishedOnly
    BY <1>1 DEF QueriesSeePublishedOnly
  <1> QED
    BY <1>2, IndexInvHolds, PTL

\* The points of a generation that one parse alone was written to.
LEMMA PointsOfOneParse ==
  ASSUME IndexInv, NEW d \in Docs, NEW g \in Nat, NEW r, ResultsOf(d, g) = {r}
  PROVE  VectorsOf(d, g) = Points(d, g, r.parse)
  <1> DEFINE p == r.parse
             found == VectorsOf(d, g)
  <1>1. p \in Parses /\ p.chunks \in Nat
    BY ParsesAssumption DEF IndexInv, TypeOK, ResultsOf
  <1>2. ASSUME NEW x \in found
        PROVE  /\ x.index \in 0 .. p.chunks - 1
               /\ x = [doc |-> d, generation |-> g, index |-> x.index, parse |-> p]
    <2>1. x.doc = d /\ x.generation = g /\ x \in vectors
      BY DEF VectorsOf
    <2>2. x.parse = p /\ x.index < p.chunks
      BY <2>1 DEF IndexInv, PointsInv
    <2>3. x \in Point
      BY <2>1 DEF IndexInv, TypeOK
    <2> QED
      BY <1>1, <2>1, <2>2, <2>3 DEF Point
  <1>3. PICK n \in Nat : Indices(d, g) = 0 .. n - 1 /\ p.chunks <= n
    BY DEF IndexInv, SegmentInv
  <1>4. ASSUME NEW i \in 0 .. p.chunks - 1
        PROVE  [doc |-> d, generation |-> g, index |-> i, parse |-> p] \in found
    <2>1. i \in 0 .. n - 1
      BY <1>1, <1>3
    <2>2. PICK x \in found : x.index = i
      BY <1>3, <2>1 DEF Indices
    <2> QED
      BY <1>2, <2>2
  <1>5. found \subseteq Points(d, g, p)
    BY <1>2 DEF Points
  <1>6. Points(d, g, p) \subseteq found
    BY <1>4 DEF Points
  <1> QED
    BY <1>5, <1>6

\* Stale workers and rival builds leave a published generation exactly what
\* one parse comes to, as long as parsing came to the same each time.
THEOREM PublishedIsExact == Spec => []ExactUnlessParsesDiffer
  <1>1. ASSUME IndexInv, NEW d \in Docs, Published(d),
               Cardinality({ r \in results : r.doc = d /\ r.generation = active_generation[d] }) = 1
        PROVE  FromOneParse(d, active_generation[d])
    <2> DEFINE g == active_generation[d]
    <2>1. g \in Nat /\ BuiltUp(d, g)
      BY <1>1, PublishedIsBuiltUp
    <2>2. IsFiniteSet(ResultsOf(d, g))
      BY <1>1, FS_Subset DEF IndexInv, FiniteInv, ResultsOf
    <2>3. PICK r : ResultsOf(d, g) = {r}
      <3>1. Cardinality(ResultsOf(d, g)) = 1
        BY <1>1 DEF ResultsOf
      <3> QED
        BY <2>2, <3>1, FS_Singleton
    <2>4. r.parse \in Parses /\ OnlyParse(d, g, r.parse)
      BY <1>1, <2>3 DEF IndexInv, TypeOK, ResultsOf, OnlyParse
    <2>5. r.parse.relations \subseteq RelationsOf(d, g)
      BY <2>1, <2>4 DEF BuiltUp
    <2>6. RelationsOf(d, g) \subseteq r.parse.relations
      <3>1. ASSUME NEW e \in EdgesOf(d, g)
            PROVE  e.relation \in r.parse.relations
        <4>1. \E q \in ResultsOf(d, g) : e.relation \in q.parse.relations
          BY <1>1 DEF IndexInv, EdgesInv, EdgesOf
        <4> QED
          BY <2>3, <4>1
      <3> QED
        BY <3>1 DEF RelationsOf
    <2>7. VectorsOf(d, g) = Points(d, g, r.parse)
      BY <1>1, <2>1, <2>3, PointsOfOneParse
    <2> QED
      BY <2>4, <2>5, <2>6, <2>7 DEF FromOneParse, RelationsOf
  <1>2. IndexInv => ExactUnlessParsesDiffer
    BY <1>1 DEF ExactUnlessParsesDiffer
  <1> QED
    BY <1>2, IndexInvHolds, PTL

\* The newest task of a document, if it succeeded, published what is active.
LEMMA NewestSuccessIsActive ==
  ASSUME IndexInv, NEW d \in Docs, NEW t \in NewestTasks(d), task[t].status = "SUCCEEDED"
  PROVE  Published(d)
  <1>1. /\ t \in Tasks /\ task[t].doc_id = d
        /\ \A u \in Tasks : task[u].status = "SUCCEEDED" /\ task[u].doc_id = d
             => task[u].target_generation <= task[t].target_generation
    BY DEF NewestTasks, TaskState
  <1>2. document[d] = "PRESENT"
    BY <1>1 DEF IndexInv, LeaseInv, Rows!DocumentsInv, Rows!Live
  <1>3. /\ task[t].target_generation \in Nat /\ active_generation[d] \in Nat
        /\ task[t].target_generation >= 1
    BY <1>1 DEF IndexInv, LeaseInv, Rows!TypeOK, Rows!TaskRow, Rows!RowsInv, Rows!RowInv
  <1>4. task[t].target_generation <= active_generation[d]
    BY <1>1 DEF IndexInv, LeaseInv, Rows!SuccessIsPublished
  <1>5. CASE active_generation[d] = 1
    BY <1>1, <1>2, <1>3, <1>4, <1>5 DEF Published
  <1>6. CASE active_generation[d] # 1
    <2>1. active_generation[d] \in 2 .. active_generation[d]
      BY <1>3, <1>4, <1>6
    <2> QED
      BY <1>2, <2>1 DEF IndexInv, LeaseInv, Rows!PublishedInTurn, Published
  <1> QED
    BY <1>5, <1>6

\* READY in a listing means that the active generation can be searched from
\* its first chunk on; and a document whose newest task succeeded is published
\* and not shown as less while the vector store answers.
THEOREM ReadyIsTrue == Spec => []ReadyMeansSearchable
  <1>1. ASSUME IndexInv, NEW d \in Docs
        PROVE  /\ _count_indexed_chunks(d) = Cardinality(VectorsOf(d, active_generation[d]))
               /\ active_generation[d] \in Nat
               /\ _count_indexed_chunks(d) \in Nat /\ _count_indexed_chunks(d) # None
               /\ _count_indexed_chunks(d) = 0 <=> VectorsOf(d, active_generation[d]) = {}
               /\ { x.index : x \in VectorsOf(d, active_generation[d]) }
                    = 0 .. Cardinality(VectorsOf(d, active_generation[d])) - 1
    <2>1. _count_indexed_chunks(d) = Cardinality(VectorsOf(d, active_generation[d]))
      BY DEF _count_indexed_chunks, VectorsOf
    <2>2. active_generation[d] \in Nat
      BY <1>1 DEF IndexInv, TypeOK, Lease!TypeOK
    <2>3. /\ IsFiniteSet(VectorsOf(d, active_generation[d]))
          /\ { x.index : x \in VectorsOf(d, active_generation[d]) }
               = 0 .. Cardinality(VectorsOf(d, active_generation[d])) - 1
      BY <1>1, <2>2, CountedPoints DEF IndexInv
    <2>4. Cardinality(VectorsOf(d, active_generation[d])) \in Nat
      BY <2>3, FS_CardinalityType
    <2>5. Cardinality(VectorsOf(d, active_generation[d])) = 0
            <=> VectorsOf(d, active_generation[d]) = {}
      BY <2>3, FS_EmptySet
    <2>6. None \notin Nat
      BY ParsesAssumption
    <2> QED
      BY <2>1, <2>2, <2>3, <2>4, <2>5, <2>6
  <1>2. ASSUME IndexInv, NEW d \in Docs, NEW t \in NewestTasks(d), "READY" \in IndexStatus(d, t)
        PROVE  LET found == VectorsOf(d, active_generation[d])
               IN  /\ found # {}
                   /\ { x.index : x \in found } = 0 .. Cardinality(found) - 1
    <2>1. PICK n \in {_count_indexed_chunks(d), None} :
            derive_index_status(task[t].status, n) = "READY"
      BY <1>2 DEF IndexStatus
    <2>2. n # None /\ n # 0
      BY <2>1 DEF derive_index_status
    <2> QED
      BY <1>1, <1>2, <2>1, <2>2
  <1>3. ASSUME IndexInv, NEW d \in Docs, NEW t \in NewestTasks(d),
               task[t].status = "SUCCEEDED"
        PROVE  Published(d) /\ IndexStatus(d, t) = {"READY", "UNKNOWN"}
    <2>1. Published(d)
      BY <1>3, NewestSuccessIsActive
    <2>2. _count_indexed_chunks(d) # None /\ _count_indexed_chunks(d) # 0
      BY <1>1, <1>3, <2>1, PublishedIsBuiltUp, BuiltUpIsSearchable
    <2>3. "SUCCEEDED" \notin ActiveStates
      BY DEF ActiveStates
    <2>4. \A n : n # None /\ n # 0 => derive_index_status("SUCCEEDED", n) = "READY"
      BY <2>3 DEF derive_index_status
    <2>5. derive_index_status("SUCCEEDED", None) = "UNKNOWN"
      <3>1. None # 0
        BY ParsesAssumption
      <3> QED
        BY <2>3, <3>1 DEF derive_index_status
    <2>6. IndexStatus(d, t)
            = { derive_index_status("SUCCEEDED", n) : n \in {_count_indexed_chunks(d), None} }
      BY <1>3 DEF IndexStatus
    <2> QED
      BY <2>1, <2>2, <2>4, <2>5, <2>6
  <1>4. IndexInv => ReadyMeansSearchable
    BY <1>2, <1>3 DEF ReadyMeansSearchable
  <1> QED
    BY <1>4, IndexInvHolds, PTL
=============================================================================
