------------------------- MODULE TaskDeliveryProofs -------------------------
(***************************************************************************)
(* Theorems about TaskDelivery, for any number of tasks, workers and       *)
(* publishers, any faults and any retries.  Delivery implements TaskLease, *)
(* so what the lease proofs say of its rows is said of them here, through  *)
(* a second instance; the rest is about events and messages.  Of all that  *)
(* circulates in a task's name only the event of its latest enqueueing     *)
(* matters: that one is not lost while the task waits for a worker.        *)
(***************************************************************************)
EXTENDS TaskDelivery, FiniteSetTheorems, TLAPS

Rows == INSTANCE TaskLeaseProofs

(***************************************************************************)
(* The lease                                                               *)
(***************************************************************************)

\* The module with the proofs speaks of the rows that TaskDelivery speaks of.
LEMMA SameLease ==
  /\ Rows!TaskLeaseAssumption
  /\ Lease!Init <=> Rows!Init
  /\ [Lease!Next]_Lease!vars <=> [Rows!Next]_Rows!vars
  /\ Lease!TypeOK <=> Rows!TypeOK
  /\ Lease!TypeOK' <=> Rows!TypeOK'
  BY TaskDeliveryAssumption
  DEF Lease!TaskLeaseAssumption, Rows!TaskLeaseAssumption,
      Lease!TypeOK, Rows!TypeOK, Lease!Init, Rows!Init, Lease!Next, Rows!Next,
      Lease!vars, Rows!vars,
      Lease!dbVars, Rows!dbVars, Lease!Timestamp, Rows!Timestamp, Lease!RowStatus,
      Rows!RowStatus, Lease!TaskRow, Rows!TaskRow, Lease!NewRow, Rows!NewRow, Lease!WorkerPC,
      Rows!WorkerPC, Lease!Execution, Rows!Execution, Lease!Idle, Rows!Idle, Lease!ActiveTasks,
      Rows!ActiveTasks, Lease!BelowTaskQuota, Rows!BelowTaskQuota, Lease!CreatedRow,
      Rows!CreatedRow, Lease!Upload, Rows!Upload, Lease!NextGeneration, Rows!NextGeneration,
      Lease!Reingest, Rows!Reingest, Lease!RetriedRow, Rows!RetriedRow, Lease!RetryTask,
      Rows!RetryTask, Lease!DeleteDocument, Rows!DeleteDocument, Lease!Claimable,
      Rows!Claimable, Lease!AcquiredRow, Rows!AcquiredRow, Lease!Acquire, Rows!Acquire,
      Lease!Owns, Rows!Owns, Lease!FailOwnRow, Rows!FailOwnRow, Lease!Finish, Rows!Finish,
      Lease!BeginProcessing, Rows!BeginProcessing, Lease!DocumentMissing, Rows!DocumentMissing,
      Lease!Abandon, Rows!Abandon, Lease!Heartbeat, Rows!Heartbeat, Lease!ProcessingReturns,
      Rows!ProcessingReturns, Lease!ProcessingRaises, Rows!ProcessingRaises, Lease!CompletedRow,
      Rows!CompletedRow, Lease!Publishable, Rows!Publishable, Lease!Completes, Rows!Completes,
      Lease!Complete, Rows!Complete, Lease!CompleteUnconfirmed, Rows!CompleteUnconfirmed,
      Lease!CompleteFails, Rows!CompleteFails, Lease!ReportFailure, Rows!ReportFailure,
      Lease!LeaseLapses, Rows!LeaseLapses, Lease!BackoffElapses, Rows!BackoffElapses,
      Lease!Orphans, Rows!Orphans, Lease!RecoveredRow, Rows!RecoveredRow, Lease!ScanAndRecover,
      Rows!ScanAndRecover, Lease!WorkerStep, Rows!WorkerStep, Lease!TaskState, Rows!TaskState,
      Lease!ActiveStates, Rows!ActiveStates, Lease!Cardinality, Rows!Cardinality

\* Every step is a step of TaskLease or leaves its variables alone.
LEMMA LeaseStep ==
  ASSUME TypeOK, [Next]_vars
  PROVE  [Lease!Next]_Lease!vars
  <1> USE DEF Lease!vars, leaseVars
  <1>1. ASSUME NEW d \in Docs, NEW t \in Tasks, Enroll(d, t)
        PROVE  Lease!Next
    BY <1>1 DEF Enroll, Lease!Next
  <1>2. ASSUME NEW t \in Tasks, RetryTask(t) \/ LeaseLapses(t) \/ BackoffElapses(t)
        PROVE  Lease!Next
    BY <1>2 DEF RetryTask, LeaseLapses, BackoffElapses, Lease!Next
  <1>3. ASSUME NEW d \in Docs, DeleteDocument(d)
        PROVE  Lease!Next
    BY <1>3 DEF DeleteDocument, Lease!Next
  <1>4. ASSUME NEW S \in SUBSET Tasks, ScanAndRecover(S)
        PROVE  Lease!Next
    BY <1>4 DEF ScanAndRecover, Lease!Next
  <1>5. ASSUME NEW w \in Workers, Work(w) \/ Settle(w) \/ LeavePending(w)
        PROVE  Lease!Next
    BY <1>5 DEF Work, Settle, LeavePending, Lease!Next, Lease!WorkerStep
  <1>6. ASSUME NEW w \in Workers, WorkerStops(w)
        PROVE  [Lease!Next]_Lease!vars
    BY <1>6 DEF WorkerStops, Lease!Next
  <1>7. ASSUME NEW w \in Workers, Claim(w)
        PROVE  Lease!Next
    <2>1. TaskOf(w) \in Tasks
      BY <1>7 DEF Claim, TypeOK, Delivery, Message, EventKey, TaskOf
    <2> QED
      BY <1>7, <2>1 DEF Claim, Lease!Next
  <1> QED
    BY <1>1, <1>2, <1>3, <1>4, <1>5, <1>6, <1>7
    DEF Next, PublisherStep, Xadd, XaddFails, MarkPublished, Requeue, PublisherStops, ClaimEvent,
        Receive, Autoclaim, WorkerStep, Refuse, Xack, EventLeaseLapses, EventDue, vars

LEMMA LeaseTypeStep ==
  ASSUME TypeOK, [Next]_vars
  PROVE  Lease!TypeOK'
  <1>1. Rows!TypeOK /\ [Rows!Next]_Rows!vars
    BY SameLease, LeaseStep DEF TypeOK
  <1>2. Rows!TypeOK'
    BY <1>1, SameLease, Rows!TypeStep
  <1> QED
    BY <1>2, SameLease

(***************************************************************************)
(* Fresh copies                                                            *)
(***************************************************************************)

\* The messages that some worker may still name.
Named == undelivered \cup pel \cup { delivery[w].message : w \in Workers }

\* There are finitely many of them.
FiniteInv == IsFiniteSet(Named)

\* A new stream entry is told apart from every message that is still named.
LEMMA FreshCopy ==
  ASSUME TypeOK, FiniteInv, NEW e \in EventKey
  PROVE  /\ [event |-> e, copy |-> NextCopy(e)] \in Message
         /\ [event |-> e, copy |-> NextCopy(e)] \notin Named
  <1> DEFINE named == { m \in Named : m # None /\ m.event = e }
             used == { m.copy : m \in named }
             n == Cardinality(used)
  <1>1. IsFiniteSet(named) /\ named \subseteq Message
    BY FS_Subset DEF FiniteInv, Named, TypeOK, Delivery
  <1>2. IsFiniteSet(used)
    <2>1. [m \in named |-> m.copy] \in Surjection(named, used)
      BY DEF Surjection
    <2> QED
      BY <1>1, <2>1, FS_Surjection
  <1>3. n \in Nat
    BY <1>2, FS_CardinalityType
  <1>4. \E c \in 0 .. n : c \notin used
    <2>1. Cardinality(0 .. n) = n + 1
      BY <1>3, FS_Interval
    <2>2. 0 .. n \subseteq used => Cardinality(0 .. n) <= n
      BY <1>2, FS_Subset
    <2> HIDE DEF n
    <2> QED
      BY <1>3, <2>1, <2>2
  <1>5. NextCopy(e) = CHOOSE c \in 0 .. n : c \notin used
    BY DEF NextCopy, Named
  <1>6. NextCopy(e) \in 0 .. n /\ NextCopy(e) \notin used
    BY <1>4, <1>5
  <1>7. [event |-> e, copy |-> NextCopy(e)] \in Message
    BY <1>3, <1>6 DEF Message
  <1>8. [event |-> e, copy |-> NextCopy(e)] # None
    BY <1>7, TaskDeliveryAssumption
  <1> QED
    BY <1>6, <1>7, <1>8

(***************************************************************************)
(* Type correctness                                                        *)
(***************************************************************************)

LEMMA EventColumns ==
  ASSUME NEW r \in EventRow
  PROVE  /\ \A s \in { "PENDING", "PUBLISHING", "PUBLISHED" } :
              [r EXCEPT !.status = s] \in EventRow
         /\ \A x \in Timestamp : /\ [r EXCEPT !.lease_expires_at = x] \in EventRow
                                 /\ [r EXCEPT !.available_at = x] \in EventRow
  BY DEF EventRow

\* The table of events rewritten event by event.
LEMMA NewEventType ==
  ASSUME NEW x \in Timestamp
  PROVE  NewEvent(x) \in EventRow
  BY DEF NewEvent, EventRow, Timestamp

\* One event gets another row.
LEMMA OneEvent ==
  ASSUME TypeOK, NEW e \in DOMAIN outbox, NEW r \in EventRow, outbox' = [outbox EXCEPT ![e] = r]
  PROVE  /\ DOMAIN outbox' = DOMAIN outbox
         /\ \A k \in DOMAIN outbox' : outbox'[k] \in EventRow
  BY DEF TypeOK

\* Events that the outbox does not have are added to it.
LEMMA EnqueueType ==
  ASSUME TypeOK, NEW E, E \subseteq EventKey, NEW x \in Timestamp, Enqueue(E, x)
  PROVE  /\ DOMAIN outbox' = DOMAIN outbox \cup E
         /\ \A k \in DOMAIN outbox' : outbox'[k] \in EventRow
  BY NewEventType DEF TypeOK, Enqueue

LEMMA EventsEnqueued ==
  ASSUME TypeOK, NEW t \in Tasks
  PROVE  /\ Event(t, "new", 0) \in EventKey
         /\ Event(t, "retry", task[t].retry_count + 1) \in EventKey
         /\ Event(t, "recovery", task[t].attempt + 1) \in EventKey
  BY DEF TypeOK, Lease!TypeOK, Lease!TaskRow, Event, EventKey

LEMMA OutboxType ==
  ASSUME TypeOK, [Next]_vars
  PROVE  /\ DOMAIN outbox' \subseteq EventKey
         /\ \A e \in DOMAIN outbox' : outbox'[e] \in EventRow
  <1> DEFINE Good == /\ DOMAIN outbox' \subseteq EventKey
                     /\ \A e \in DOMAIN outbox' : outbox'[e] \in EventRow
  <1>1. CASE UNCHANGED outbox
    BY <1>1 DEF TypeOK
  <1>2. ASSUME NEW d \in Docs, NEW t \in Tasks, Enroll(d, t)
        PROVE  Good
    <2> DEFINE E == {Event(t, "new", 0)}
    <2>1. E \subseteq EventKey /\ Enqueue(E, "past")
      BY <1>2, EventsEnqueued DEF Enroll
    <2> HIDE DEF E
    <2> QED
      BY <2>1, EnqueueType DEF TypeOK, Timestamp
  <1>3. ASSUME NEW t \in Tasks, RetryTask(t)
        PROVE  Good
    <2> DEFINE E == {Event(t, "retry", task[t].retry_count + 1)}
    <2>1. E \subseteq EventKey /\ Enqueue(E, "past")
      BY <1>3, EventsEnqueued DEF RetryTask
    <2> HIDE DEF E
    <2> QED
      BY <2>1, EnqueueType DEF TypeOK, Timestamp
  <1>4. ASSUME NEW d \in Docs, DeleteDocument(d)
        PROVE  Good
    BY <1>4 DEF DeleteDocument, TypeOK
  <1>5. ASSUME NEW S \in SUBSET Tasks, ScanAndRecover(S)
        PROVE  Good
    <2>1. RecoveryEvents(S) \subseteq EventKey
      BY EventsEnqueued DEF RecoveryEvents
    <2> QED
      BY <1>5, <2>1, EnqueueType DEF ScanAndRecover, TypeOK, Timestamp
  <1>6. ASSUME NEW p \in Publishers, NEW e \in DOMAIN outbox, ClaimEvent(p, e)
        PROVE  Good
    <2> DEFINE a == [outbox[e] EXCEPT !.status = "PUBLISHING"]
               b == [a EXCEPT !.lease_expires_at = "ahead"]
    <2>1. a \in EventRow
      BY EventColumns DEF TypeOK
    <2>2. b \in EventRow
      <3> HIDE DEF a
      <3> QED BY <2>1, EventColumns DEF Timestamp
    <2>3. outbox' = [outbox EXCEPT ![e] = b]
      BY <1>6 DEF ClaimEvent
    <2> HIDE DEF b
    <2> QED
      BY <2>2, <2>3, OneEvent DEF TypeOK
  <1>7. ASSUME NEW p \in Publishers, MarkPublished(p)
        PROVE  Good
    <2> DEFINE e == publisher[p].event
               a == [outbox[e] EXCEPT !.status = "PUBLISHED"]
               b == [a EXCEPT !.lease_expires_at = "null"]
    <2>1. CASE e \in DOMAIN outbox /\ outbox[e].status = "PUBLISHING"
      <3>1. a \in EventRow
        BY <2>1, EventColumns DEF TypeOK
      <3>2. b \in EventRow
        <4> HIDE DEF a
        <4> QED BY <3>1, EventColumns DEF Timestamp
      <3>3. outbox' = [outbox EXCEPT ![e] = b]
        BY <1>7, <2>1 DEF MarkPublished
      <3> HIDE DEF b, e
      <3> QED
        BY <2>1, <3>2, <3>3, OneEvent DEF TypeOK
    <2> QED
      BY <1>1, <1>7, <2>1 DEF MarkPublished
  <1>8. ASSUME NEW p \in Publishers, Requeue(p)
        PROVE  Good
    BY <1>8, NewEventType DEF Requeue, TypeOK, Timestamp
  <1>9. ASSUME NEW t \in Tasks, BackoffElapses(t)
        PROVE  Good
    <2>1. \A e \in DOMAIN outbox : [outbox[e] EXCEPT !.available_at = "past"] \in EventRow
      BY EventColumns DEF TypeOK, Timestamp
    <2> QED
      BY <1>9, <2>1 DEF BackoffElapses, TypeOK
  <1>10. ASSUME NEW e \in DOMAIN outbox, EventLeaseLapses(e) \/ EventDue(e)
         PROVE  Good
    <2>1. /\ [outbox[e] EXCEPT !.available_at = "past"] \in EventRow
          /\ [outbox[e] EXCEPT !.lease_expires_at = "past"] \in EventRow
      BY EventColumns DEF TypeOK, Timestamp
    <2> QED
      BY <1>10, <2>1, OneEvent DEF EventLeaseLapses, EventDue, TypeOK
  <1> QED
    BY <1>1, <1>2, <1>3, <1>4, <1>5, <1>6, <1>7, <1>8, <1>9, <1>10
    DEF Next, PublisherStep, Xadd, XaddFails, PublisherStops, Receive, Autoclaim, WorkerStep,
        Claim, Refuse, Work, Settle, LeavePending, Xack, WorkerStops, LeaseLapses, vars

\* The worker goes on, or lets go of its task, or takes one; the others stay.
ExecutionGoesOn(w) ==
  /\ execution[w].pc # "idle" /\ execution'[w].pc # "idle"
  /\ \A v \in Workers \ {w} : execution'[v] = execution[v]

ExecutionEnds(w) ==
  /\ execution[w].pc # "idle" /\ execution'[w].pc = "idle"
  /\ \A v \in Workers \ {w} : execution'[v] = execution[v]

ExecutionBegins(w) ==
  /\ execution[w].pc = "idle" /\ execution'[w].pc # "idle"
  /\ \A v \in Workers \ {w} : execution'[v] = execution[v]

LEMMA ExecutionMoves ==
  ASSUME TypeOK, NEW w \in Workers
  PROVE  /\ Work(w) => ExecutionGoesOn(w)
         /\ Settle(w) \/ LeavePending(w) => ExecutionEnds(w)
         /\ WorkerStops(w) /\ delivery[w].phase = "working" => ExecutionEnds(w)
         /\ Claim(w) => ExecutionBegins(w)
  <1>1. execution \in [Workers -> Lease!Execution]
    BY DEF TypeOK, Lease!TypeOK
  <1>2. Lease!Idle.pc = "idle"
    BY DEF Lease!Idle
  <1>3. ASSUME Lease!Finish(w), execution[w].pc # "idle"
        PROVE  ExecutionEnds(w)
    BY <1>1, <1>2, <1>3 DEF Lease!Finish, ExecutionEnds
  <1>4. ASSUME Work(w)
        PROVE  ExecutionGoesOn(w)
    <2>1. CASE Lease!BeginProcessing(w)
      BY <1>1, <2>1 DEF Lease!BeginProcessing, ExecutionGoesOn, Lease!Execution
    <2>2. CASE Lease!Heartbeat(w)
      BY <1>1, <2>2 DEF Lease!Heartbeat, ExecutionGoesOn, Lease!Execution
    <2>3. CASE Lease!ProcessingRaises(w)
      BY <1>1, <2>3 DEF Lease!ProcessingRaises, ExecutionGoesOn, Lease!Execution
    <2>4. ASSUME NEW partial \in BOOLEAN, Lease!ProcessingReturns(w, partial)
          PROVE  ExecutionGoesOn(w)
      BY <1>1, <2>4 DEF Lease!ProcessingReturns, ExecutionGoesOn, Lease!Execution
    <2>5. CASE Lease!CompleteFails(w) \/ Lease!CompleteUnconfirmed(w)
      BY <1>1, <2>5
      DEF Lease!CompleteFails, Lease!CompleteUnconfirmed, Lease!Completes, ExecutionGoesOn,
          Lease!Execution
    <2> QED
      BY <1>4, <2>1, <2>2, <2>3, <2>4, <2>5 DEF Work
  <1>5. Settle(w) \/ LeavePending(w) => Lease!Finish(w) /\ execution[w].pc # "idle"
    BY DEF Settle, LeavePending, Lease!Complete, Lease!Completes, Lease!DocumentMissing,
           Lease!ReportFailure
  <1>6. WorkerStops(w) /\ delivery[w].phase = "working"
          => Lease!Finish(w) /\ execution[w].pc # "idle"
    BY DEF WorkerStops, Lease!Abandon
  <1>7. ASSUME Claim(w)
        PROVE  ExecutionBegins(w)
    <2> DEFINE x == [Lease!Idle EXCEPT !.pc = "claimed", !.task = TaskOf(w),
                       !.token = Lease!AcquiredRow(w, task[TaskOf(w)]).fencing_token]
    <2>1. execution[w].pc = "idle" /\ execution' = [execution EXCEPT ![w] = x]
      BY <1>7 DEF Claim, Lease!Acquire
    <2>2. x.pc = "claimed"
      BY DEF Lease!Idle
    <2> HIDE DEF x
    <2> QED
      BY <1>1, <2>1, <2>2 DEF ExecutionBegins
  <1> QED
    BY <1>3, <1>4, <1>5, <1>6, <1>7

\* One worker's message goes to another phase, is dropped, or is taken.
OnlyHand(w) ==
  /\ delivery' \in [Workers -> Delivery]
  /\ \A v \in Workers \ {w} : delivery'[v] = delivery[v]

Hand(w, from, to) ==
  /\ OnlyHand(w)
  /\ delivery[w].phase = from /\ delivery'[w].phase = to
  /\ delivery'[w].message = delivery[w].message
  /\ delivery'[w].message \in Message

Drops(w) ==
  OnlyHand(w) /\ delivery'[w] = NoDelivery

Takes(w, m) ==
  /\ OnlyHand(w)
  /\ delivery[w].phase = "none"
  /\ delivery'[w].phase = "read" /\ delivery'[w].message = m

LEMMA OneDelivery ==
  ASSUME TypeOK, NEW w \in Workers, NEW x \in Delivery, delivery' = [delivery EXCEPT ![w] = x]
  PROVE  OnlyHand(w) /\ delivery'[w] = x
  BY DEF TypeOK, OnlyHand

LEMMA PhaseMoves ==
  ASSUME TypeOK, NEW w \in Workers, NEW phase \in { "working", "acking" },
         delivery[w].phase # "none", delivery' = [delivery EXCEPT ![w].phase = phase]
  PROVE  Hand(w, delivery[w].phase, phase)
  <1> DEFINE x == [delivery[w] EXCEPT !.phase = phase]
  <1>1. x \in Delivery /\ x.phase = phase /\ x.message = delivery[w].message
    BY DEF TypeOK, Delivery
  <1>2. delivery[w].message \in Message
    BY DEF TypeOK, Delivery
  <1>3. delivery' = [delivery EXCEPT ![w] = x]
    OBVIOUS
  <1> HIDE DEF x
  <1> QED
    BY <1>1, <1>2, <1>3, OneDelivery DEF Hand

LEMMA DropsDelivery ==
  ASSUME TypeOK, NEW w \in Workers, delivery' = [delivery EXCEPT ![w] = NoDelivery]
  PROVE  Drops(w)
  <1>1. NoDelivery \in Delivery
    BY DEF NoDelivery, Delivery
  <1> QED
    BY <1>1, OneDelivery DEF Drops

LEMMA TakesMessage ==
  ASSUME TypeOK, NEW w \in Workers, NEW m \in Message, delivery[w].phase = "none",
         delivery' = [delivery EXCEPT ![w] = [phase |-> "read", message |-> m]]
  PROVE  Takes(w, m)
  <1> DEFINE x == [phase |-> "read", message |-> m]
  <1>1. x \in Delivery /\ x.phase = "read" /\ x.message = m
    BY DEF Delivery
  <1> HIDE DEF x
  <1> QED
    BY <1>1, OneDelivery DEF x, Takes

\* What each step of the message loop does with the message.
LEMMA DeliveryMoves ==
  ASSUME TypeOK, NEW w \in Workers
  PROVE  /\ Claim(w) => Hand(w, "read", "working")
         /\ Refuse(w) => Hand(w, "read", "acking")
         /\ Settle(w) => Hand(w, "working", "acking")
         /\ LeavePending(w) \/ Xack(w) \/ WorkerStops(w) => Drops(w)
         /\ \A m \in undelivered : Receive(w, m) => Takes(w, m)
         /\ \A m \in pel : Autoclaim(w, m) => Takes(w, m)
  <1>1. Claim(w) => Hand(w, "read", "working")
    BY PhaseMoves DEF Claim
  <1>2. Refuse(w) => Hand(w, "read", "acking")
    BY PhaseMoves DEF Refuse
  <1>3. Settle(w) => Hand(w, "working", "acking")
    <2>1. Settle(w) => delivery[w].phase = "working"
      BY ExecutionMoves DEF ExecutionEnds, TypeOK
    <2> QED
      BY <2>1, PhaseMoves DEF Settle
  <1>4. LeavePending(w) \/ Xack(w) \/ WorkerStops(w) => Drops(w)
    BY DropsDelivery DEF LeavePending, Xack, WorkerStops
  <1>5. \A m \in undelivered : Receive(w, m) => Takes(w, m)
    BY TakesMessage DEF Receive, TypeOK
  <1>6. \A m \in pel : Autoclaim(w, m) => Takes(w, m)
    BY TakesMessage DEF Autoclaim, TypeOK
  <1> QED
    BY <1>1, <1>2, <1>3, <1>4, <1>5, <1>6

\* What a worker has in hand: nothing, a message, or a message it works on.
DeliveryOK(w) ==
  /\ delivery[w].phase = "working" <=> execution[w].pc # "idle"
  /\ delivery[w].phase = "none" <=> delivery[w].message = None

LEMMA DeliveryType ==
  ASSUME TypeOK, [Next]_vars
  PROVE  /\ delivery' \in [Workers -> Delivery]
         /\ \A w \in Workers : DeliveryOK(w)'
  <1> DEFINE Good == /\ delivery' \in [Workers -> Delivery]
                     /\ \A w \in Workers : DeliveryOK(w)'
             Quiet == UNCHANGED <<delivery, execution>>
  <1> USE DEF DeliveryOK
  <1>1. \A w \in Workers : DeliveryOK(w)
    BY DEF TypeOK
  <1>2. ASSUME Quiet
        PROVE  Good
    BY <1>1, <1>2 DEF TypeOK
  <1>3. ASSUME NEW w \in Workers, Claim(w)
        PROVE  Good
    BY <1>1, <1>3, ExecutionMoves, DeliveryMoves, TaskDeliveryAssumption
    DEF ExecutionBegins, Hand, OnlyHand
  <1>4. ASSUME NEW w \in Workers, Work(w)
        PROVE  Good
    <2>1. delivery' = delivery
      BY <1>4 DEF Work
    <2> QED
      BY <1>1, <1>4, <2>1, ExecutionMoves DEF ExecutionGoesOn, TypeOK
  <1>5. ASSUME NEW w \in Workers, Settle(w)
        PROVE  Good
    BY <1>1, <1>5, ExecutionMoves, DeliveryMoves, TaskDeliveryAssumption
    DEF ExecutionEnds, Hand, OnlyHand
  <1>6. ASSUME NEW w \in Workers,
               LeavePending(w) \/ (WorkerStops(w) /\ delivery[w].phase = "working")
        PROVE  Good
    BY <1>1, <1>6, ExecutionMoves, DeliveryMoves DEF ExecutionEnds, Drops, OnlyHand, NoDelivery
  <1>7. ASSUME NEW w \in Workers, Xack(w) \/ (WorkerStops(w) /\ delivery[w].phase # "working")
        PROVE  Good
    <2>1. execution' = execution /\ delivery[w].phase # "working"
      BY <1>7 DEF Xack, WorkerStops, leaseVars
    <2> QED
      BY <1>1, <1>7, <2>1, DeliveryMoves DEF Drops, OnlyHand, NoDelivery
  <1>8. ASSUME NEW w \in Workers, Refuse(w)
        PROVE  Good
    <2>1. execution' = execution
      BY <1>8 DEF Refuse, leaseVars
    <2> QED
      BY <1>1, <1>8, <2>1, DeliveryMoves, TaskDeliveryAssumption DEF Hand, OnlyHand
  <1>9. ASSUME NEW w \in Workers, NEW m \in undelivered \cup pel, Receive(w, m) \/ Autoclaim(w, m)
        PROVE  Good
    <2>1. execution' = execution /\ m \in Message
      BY <1>9 DEF Receive, Autoclaim, leaseVars, TypeOK
    <2>2. Takes(w, m)
      BY <1>9, DeliveryMoves DEF Receive, Autoclaim
    <2> QED
      BY <1>1, <2>1, <2>2, TaskDeliveryAssumption DEF Takes, OnlyHand
  <1>10. /\ \A d \in Docs, t \in Tasks : Enroll(d, t) => Quiet
         /\ \A d \in Docs : DeleteDocument(d) => Quiet
         /\ \A S \in SUBSET Tasks : ScanAndRecover(S) => Quiet
         /\ \A t \in Tasks : RetryTask(t) \/ LeaseLapses(t) \/ BackoffElapses(t)
              => Quiet
    BY DEF Enroll, RetryTask, DeleteDocument, ScanAndRecover, LeaseLapses, BackoffElapses,
           Lease!Upload, Lease!Reingest, Lease!RetryTask, Lease!DeleteDocument,
           Lease!ScanAndRecover, Lease!LeaseLapses, Lease!BackoffElapses
  <1>11. /\ \A p \in Publishers : PublisherStep(p) \/ PublisherStops(p)
              => Quiet
         /\ \A p \in Publishers, e \in DOMAIN outbox : ClaimEvent(p, e)
              => Quiet
    BY DEF PublisherStep, Xadd, XaddFails, MarkPublished, Requeue, PublisherStops, ClaimEvent,
           leaseVars
  <1>12. ASSUME NEW e, EventLeaseLapses(e) \/ EventDue(e)
         PROVE  Quiet
    BY <1>12 DEF EventLeaseLapses, EventDue, leaseVars
  <1>13. CASE UNCHANGED vars
    BY <1>2, <1>13 DEF vars
  <1>14. CASE Next
    <2>1. Good
      <3> HIDE DEF Good, Quiet, DeliveryOK
      <3> QED
        BY <1>2, <1>3, <1>4, <1>5, <1>6, <1>7, <1>8, <1>9, <1>10, <1>11, <1>12, <1>14
        DEF Next, WorkerStep
    <2> QED
      BY <2>1
  <1> QED
    BY <1>13, <1>14

\* The stream keeps new and pending entries apart, and the named messages
\* stay finitely many.
LEMMA StreamType ==
  ASSUME TypeOK, FiniteInv, [Next]_vars
  PROVE  /\ undelivered' \subseteq Message /\ pel' \subseteq Message
         /\ undelivered' \cap pel' = {}
         /\ FiniteInv'
  <1> DEFINE Good == /\ undelivered' \subseteq Message /\ pel' \subseteq Message
                     /\ undelivered' \cap pel' = {}
  <1>1. ASSUME UNCHANGED streamVars
        PROVE  Good
    BY <1>1 DEF streamVars, TypeOK
  <1>2. ASSUME NEW p \in Publishers, publisher[p].pc = "claimed", AddToStream(publisher[p].event),
               UNCHANGED pel
        PROVE  Good /\ \E m : undelivered' = undelivered \cup {m}
    <2> DEFINE m == [event |-> publisher[p].event, copy |-> NextCopy(publisher[p].event)]
    <2>1. publisher[p].event \in EventKey
      BY <1>2 DEF TypeOK, PublisherState
    <2>2. m \in Message /\ m \notin Named
      BY <2>1, FreshCopy
    <2>3. undelivered' = undelivered \cup {m}
      BY <1>2 DEF AddToStream
    <2> HIDE DEF m
    <2> QED
      BY <1>2, <2>2, <2>3 DEF Named, TypeOK
  <1>3. ASSUME NEW w \in Workers, NEW m \in undelivered, Receive(w, m)
        PROVE  Good /\ undelivered' \cup pel' = undelivered \cup pel
    BY <1>3 DEF Receive, TypeOK
  <1>4. ASSUME NEW w \in Workers, Xack(w)
        PROVE  Good /\ undelivered' \cup pel' \subseteq undelivered \cup pel
    BY <1>4 DEF Xack, TypeOK
  <1>5. \E m : undelivered' \cup pel' \subseteq undelivered \cup pel \cup {m}
    BY <1>1, <1>2, <1>3, <1>4
    DEF Next, Enroll, RetryTask, DeleteDocument, ScanAndRecover, PublisherStep, Xadd, XaddFails,
        MarkPublished, Requeue, PublisherStops, ClaimEvent, Autoclaim, WorkerStep, Claim, Refuse,
        Work, Settle, LeavePending, WorkerStops, LeaseLapses, BackoffElapses, EventLeaseLapses,
        EventDue, streamVars, vars
  <1>6. \E m : { delivery'[w].message : w \in Workers }
                 \subseteq { delivery[w].message : w \in Workers } \cup {m}
    <2>1. ASSUME NEW w \in Workers, OnlyHand(w)
          PROVE  { delivery'[v].message : v \in Workers }
                   \subseteq { delivery[v].message : v \in Workers } \cup {delivery'[w].message}
      BY <2>1 DEF OnlyHand
    <2>2. CASE UNCHANGED delivery
      BY <2>2
    <2>3. ASSUME NEW w \in Workers, WorkerStep(w) \/ WorkerStops(w)
          PROVE  OnlyHand(w) \/ UNCHANGED delivery
      BY <2>3, DeliveryMoves DEF WorkerStep, Work, Hand, Drops
    <2>4. ASSUME NEW w \in Workers, NEW m \in undelivered \cup pel, Receive(w, m) \/ Autoclaim(w, m)
          PROVE  OnlyHand(w)
      BY <2>4, DeliveryMoves DEF Takes, Receive, Autoclaim
    <2> QED
      BY <2>1, <2>2, <2>3, <2>4
      DEF Next, Enroll, RetryTask, DeleteDocument, ScanAndRecover, PublisherStep, Xadd,
          XaddFails, MarkPublished, Requeue, PublisherStops, ClaimEvent, LeaseLapses,
          BackoffElapses, EventLeaseLapses, EventDue, vars
  <1>7. PICK m, n : /\ undelivered' \cup pel' \subseteq undelivered \cup pel \cup {m}
                    /\ { delivery'[w].message : w \in Workers }
                         \subseteq { delivery[w].message : w \in Workers } \cup {n}
    BY <1>5, <1>6
  <1>8. IsFiniteSet(Named \cup {m} \cup {n})
    BY FS_AddElement DEF FiniteInv
  <1>9. FiniteInv'
    <2>1. Named' \subseteq Named \cup {m} \cup {n}
      BY <1>7 DEF Named
    <2> QED
      BY <1>8, <2>1, FS_Subset DEF FiniteInv
  <1>10. Good
    BY <1>1, <1>2, <1>3, <1>4
    DEF Next, Enroll, RetryTask, DeleteDocument, ScanAndRecover, PublisherStep, Xadd, XaddFails,
        MarkPublished, Requeue, PublisherStops, ClaimEvent, Autoclaim, WorkerStep, Claim, Refuse,
        Work, Settle, LeavePending, WorkerStops, LeaseLapses, BackoffElapses, EventLeaseLapses,
        EventDue, streamVars, vars
  <1> QED
    BY <1>9, <1>10

\* One publisher goes on with its event, is done with it, or takes one.
OnlyPublisher(p) ==
  /\ publisher' \in [Publishers -> PublisherState]
  /\ \A q \in Publishers \ {p} : publisher'[q] = publisher[q]

GoesOnWith(p, from, to) ==
  /\ OnlyPublisher(p)
  /\ publisher[p].pc = from /\ publisher'[p].pc = to
  /\ publisher'[p].event = publisher[p].event
  /\ publisher[p].event \in EventKey

LEMMA OnePublisher ==
  ASSUME TypeOK, NEW p \in Publishers, NEW x \in PublisherState,
         publisher' = [publisher EXCEPT ![p] = x]
  PROVE  OnlyPublisher(p) /\ publisher'[p] = x
  BY DEF TypeOK, OnlyPublisher

LEMMA PublisherGoesOn ==
  ASSUME TypeOK, NEW p \in Publishers, NEW to \in { "sent", "refused" },
         publisher[p].pc = "claimed", publisher' = [publisher EXCEPT ![p].pc = to]
  PROVE  GoesOnWith(p, "claimed", to)
  <1> DEFINE x == [publisher[p] EXCEPT !.pc = to]
  <1>1. x \in PublisherState /\ x.pc = to /\ x.event = publisher[p].event
    BY DEF TypeOK, PublisherState
  <1>2. publisher' = [publisher EXCEPT ![p] = x]
    OBVIOUS
  <1>3. publisher[p].event \in EventKey
    BY DEF TypeOK, PublisherState
  <1> HIDE DEF x
  <1> QED
    BY <1>1, <1>2, <1>3, OnePublisher DEF GoesOnWith

\* What each step of publish_pending does with the event.
LEMMA PublisherMoves ==
  ASSUME TypeOK, NEW p \in Publishers
  PROVE  /\ Xadd(p) => GoesOnWith(p, "claimed", "sent")
         /\ XaddFails(p) => GoesOnWith(p, "claimed", "refused")
         /\ MarkPublished(p) \/ Requeue(p) \/ PublisherStops(p)
              => OnlyPublisher(p) /\ publisher'[p] = IdlePublisher
         /\ \A e \in DOMAIN outbox : ClaimEvent(p, e) =>
              /\ OnlyPublisher(p)
              /\ publisher'[p].pc = "claimed" /\ publisher'[p].event = e
  <1>1. Xadd(p) => GoesOnWith(p, "claimed", "sent")
    BY PublisherGoesOn DEF Xadd
  <1>2. XaddFails(p) => GoesOnWith(p, "claimed", "refused")
    BY PublisherGoesOn DEF XaddFails
  <1>3. MarkPublished(p) \/ Requeue(p) \/ PublisherStops(p)
          => OnlyPublisher(p) /\ publisher'[p] = IdlePublisher
    <2>1. IdlePublisher \in PublisherState
      BY DEF IdlePublisher, PublisherState
    <2> QED
      BY <2>1, OnePublisher DEF MarkPublished, Requeue, PublisherStops
  <1>4. ASSUME NEW e \in DOMAIN outbox, ClaimEvent(p, e)
        PROVE  OnlyPublisher(p) /\ publisher'[p].pc = "claimed" /\ publisher'[p].event = e
    <2> DEFINE x == [pc |-> "claimed", event |-> e]
    <2>1. x \in PublisherState /\ x.pc = "claimed" /\ x.event = e
      BY DEF TypeOK, PublisherState
    <2>2. publisher' = [publisher EXCEPT ![p] = x]
      BY <1>4 DEF ClaimEvent
    <2> HIDE DEF x
    <2> QED
      BY <2>1, <2>2, OnePublisher
  <1> QED
    BY <1>1, <1>2, <1>3, <1>4

LEMMA PublisherType ==
  ASSUME TypeOK, [Next]_vars
  PROVE  /\ publisher' \in [Publishers -> PublisherState]
         /\ \A p \in Publishers : publisher'[p].pc = "idle" <=> publisher'[p].event = None
  <1> DEFINE Good == /\ publisher' \in [Publishers -> PublisherState]
                     /\ \A p \in Publishers :
                          publisher'[p].pc = "idle" <=> publisher'[p].event = None
  <1>1. \A p \in Publishers : publisher[p].pc = "idle" <=> publisher[p].event = None
    BY DEF TypeOK
  <1>2. ASSUME UNCHANGED publisher
        PROVE  Good
    BY <1>2 DEF TypeOK
  <1>3. ASSUME NEW p \in Publishers, PublisherStep(p) \/ PublisherStops(p)
        PROVE  Good
    <2>1. CASE Xadd(p) \/ XaddFails(p)
      BY <1>1, <2>1, PublisherMoves, TaskDeliveryAssumption DEF GoesOnWith, OnlyPublisher
    <2>2. CASE MarkPublished(p) \/ Requeue(p) \/ PublisherStops(p)
      BY <1>1, <2>2, PublisherMoves DEF OnlyPublisher, IdlePublisher
    <2> QED
      BY <1>3, <2>1, <2>2 DEF PublisherStep
  <1>4. ASSUME NEW p \in Publishers, NEW e \in DOMAIN outbox, ClaimEvent(p, e)
        PROVE  Good
    BY <1>1, <1>4, PublisherMoves, TaskDeliveryAssumption DEF OnlyPublisher, TypeOK
  <1>5. \/ UNCHANGED publisher
        \/ \E p \in Publishers : PublisherStep(p) \/ PublisherStops(p)
        \/ \E p \in Publishers, e \in DOMAIN outbox : ClaimEvent(p, e)
    BY DEF Next, Enroll, RetryTask, DeleteDocument, ScanAndRecover, Receive, Autoclaim,
           WorkerStep, Claim, Refuse, Work, Settle, LeavePending, Xack, WorkerStops, LeaseLapses,
           BackoffElapses, EventLeaseLapses, EventDue, vars
  <1> HIDE DEF Good
  <1>6. Good
    BY <1>2, <1>3, <1>4, <1>5
  <1> QED
    BY <1>6 DEF Good

LEMMA FaultsType ==
  ASSUME TypeOK, [Next]_vars
  PROVE  faults' \in 0 .. MaxFaults
  <1>1. Fault => faults' \in 0 .. MaxFaults
    BY TaskDeliveryAssumption DEF TypeOK, Fault
  <1>2. UNCHANGED faults => faults' \in 0 .. MaxFaults
    BY DEF TypeOK
  <1> QED
    BY <1>1, <1>2
    DEF Next, Enroll, RetryTask, DeleteDocument, ScanAndRecover, PublisherStep, Xadd, XaddFails,
        MarkPublished, Requeue, PublisherStops, ClaimEvent, Receive, Autoclaim, WorkerStep, Claim,
        Refuse, Work, Settle, LeavePending, Xack, WorkerStops, LeaseLapses, BackoffElapses,
        EventLeaseLapses, EventDue, vars

LEMMA TypeStep ==
  ASSUME TypeOK, FiniteInv, [Next]_vars
  PROVE  TypeOK' /\ FiniteInv'
  BY LeaseTypeStep, OutboxType, StreamType, DeliveryType, PublisherType, FaultsType
  DEF TypeOK, DeliveryOK

LEMMA InitType == Init => TypeOK /\ FiniteInv
  <1> SUFFICES ASSUME Init
               PROVE  TypeOK /\ FiniteInv
    OBVIOUS
  <1>1. Lease!TypeOK
    BY SameLease, Rows!InitType DEF Init
  <1>2. \A w \in Workers : execution[w] = Lease!Idle
    BY DEF Init, Lease!Init
  <1>3. NoDelivery \in Delivery /\ IdlePublisher \in PublisherState
    BY DEF NoDelivery, Delivery, IdlePublisher, PublisherState
  <1>4. Named \subseteq {} \cup {None}
    BY DEF Init, Named, NoDelivery
  <1>5. FiniteInv
    BY <1>4, FS_EmptySet, FS_AddElement, FS_Subset DEF FiniteInv
  <1>6. faults \in 0 .. MaxFaults
    BY TaskDeliveryAssumption DEF Init
  <1>7. /\ DOMAIN outbox \subseteq EventKey
        /\ \A e \in DOMAIN outbox : outbox[e] \in EventRow
    BY DEF Init
  <1> QED
    BY <1>1, <1>2, <1>3, <1>5, <1>6, <1>7
    DEF Init, TypeOK, NoDelivery, IdlePublisher, Lease!Idle

\* Type correctness: rows, events, messages, publishers and workers stay
\* within their columns; a message is new or pending, never both; a worker has
\* a message in hand exactly while it works, and an event exactly while it
\* publishes.
THEOREM TypeCorrect == Spec => [](TypeOK /\ FiniteInv)
  <1>1. TypeOK /\ FiniteInv /\ [Next]_vars => TypeOK' /\ FiniteInv'
    BY TypeStep
  <1> QED
    BY <1>1, InitType, PTL DEF Spec

\* What delivery does to the tables is what TaskLease allows: whatever
\* messages are lost, duplicated or stale, the row decides.
THEOREM DeliveryImplementsLease == Spec => ImplementsLease
  <1>1. TypeOK /\ [Next]_vars => [Lease!Next]_Lease!vars
    BY LeaseStep
  <1>2. Init => Lease!Init
    BY DEF Init
  <1> QED
    BY <1>1, <1>2, TypeCorrect, PTL DEF Spec, ImplementsLease, Lease!Spec

(***************************************************************************)
(* Rows and what circulates in their name                                  *)
(***************************************************************************)

RowsInv == Rows!RowsInv

LEMMA RowsHold ==
  ASSUME TypeOK, RowsInv, [Next]_vars
  PROVE  RowsInv'
  <1>1. Rows!TypeOK /\ [Rows!Next]_Rows!vars
    BY SameLease, LeaseStep DEF TypeOK
  <1> QED
    BY <1>1, SameLease, Rows!RowsInvStep DEF RowsInv

LEMMA RowsType ==
  ASSUME TypeOK, NEW t \in Tasks
  PROVE  task[t] \in Rows!TaskRow
  <1>1. Rows!TypeOK
    BY SameLease DEF TypeOK
  <1> QED
    BY <1>1 DEF Rows!TypeOK

\* The counters of a row only grow, and a task id is used once.
LEMMA RowGrows ==
  ASSUME NEW old \in Rows!TaskRow, NEW new, Rows!RowStep(old, new), Rows!RowInv(old)
  PROVE  /\ new.attempt >= old.attempt
         /\ new.retry_count >= old.retry_count
         /\ new.status = "ABSENT" => old.status = "ABSENT"
  <1> USE DEF Rows!TaskRow
  <1>1. CASE new = old
    BY <1>1
  <1>2. CASE Rows!Created(old, new)
    <2>1. old.attempt = 0 /\ old.retry_count = 0
      BY <1>2 DEF Rows!Created, Rows!RowInv
    <2> QED
      BY <1>2, <2>1 DEF Rows!Created, Rows!CreatedRow, Rows!NewRow
  <1>3. CASE Rows!Retried(old, new)
    BY <1>3 DEF Rows!Retried, Rows!RetriedRow
  <1>4. CASE Rows!Acquired(old, new)
    BY <1>4 DEF Rows!Acquired, Rows!AcquiredRow
  <1>5. CASE Rows!Failed(old, new)
    BY <1>5 DEF Rows!Failed
  <1>6. CASE Rows!Completed(old, new)
    BY <1>6 DEF Rows!Completed, Rows!CompletedRow
  <1>7. CASE Rows!Recovered(old, new)
    BY <1>7 DEF Rows!Recovered, Rows!RecoveredRow
  <1>8. CASE Rows!Deleted(old, new)
    BY <1>8 DEF Rows!Deleted
  <1>9. CASE Rows!LeaseMoved(old, new)
    BY <1>9 DEF Rows!LeaseMoved
  <1>10. CASE Rows!BackoffOver(old, new)
    BY <1>10 DEF Rows!BackoffOver
  <1> QED
    BY <1>1, <1>2, <1>3, <1>4, <1>5, <1>6, <1>7, <1>8, <1>9, <1>10 DEF Rows!RowStep

LEMMA RowsGrow ==
  ASSUME TypeOK, RowsInv, [Next]_vars, NEW t \in Tasks
  PROVE  /\ task'[t].attempt >= task[t].attempt
         /\ task'[t].retry_count >= task[t].retry_count
         /\ task'[t].status = "ABSENT" => task[t].status = "ABSENT"
  <1>1. Rows!TypeOK /\ [Rows!Next]_Rows!vars
    BY SameLease, LeaseStep DEF TypeOK
  <1>2. Rows!RowStep(task[t], task'[t])
    BY <1>1, SameLease, Rows!StepsRows DEF Rows!RowsStep
  <1>3. task[t] \in Rows!TaskRow /\ Rows!RowInv(task[t])
    BY RowsType DEF RowsInv, Rows!RowsInv
  <1> QED
    BY <1>2, <1>3, RowGrows

Waiting(t) == task[t].status \in { "PENDING", "RETRY_WAITING" }

\* The event of the enqueueing that a waiting task is in.
Wakeup(t) ==
  IF task[t].status = "RETRY_WAITING" THEN Event(t, "recovery", task[t].attempt)
  ELSE IF task[t].retry_count = 0 THEN Event(t, "new", 0)
  ELSE Event(t, "retry", task[t].retry_count)

\* The events that publishers, the stream or workers have to do with.
Circulating ==
  { publisher[p].event : p \in { q \in Publishers : publisher[q].pc # "idle" } }
    \cup { m.event : m \in undelivered \cup pel }
    \cup { delivery[w].message.event : w \in { v \in Workers : delivery[v].phase # "none" } }

\* Most steps leave a row alone or leave it with nobody waiting.
NobodyWoken == \A t \in Tasks : task'[t] = task[t] \/ ~Waiting(t)'

LEMMA WorkerWakesNobody ==
  ASSUME TypeOK, NEW w \in Workers, WorkerStep(w) \/ WorkerStops(w)
  PROVE  NobodyWoken
  <1> USE DEF NobodyWoken, Waiting
  <1>1. /\ task \in [Tasks -> Lease!TaskRow]
        /\ execution[w].pc # "idle" => execution[w].task \in Tasks
    BY DEF TypeOK, Lease!TypeOK, Lease!Execution
  <1>2. CASE UNCHANGED task
    BY <1>2
  <1>3. CASE Claim(w)
    <2> DEFINE row == Lease!AcquiredRow(w, task[TaskOf(w)])
    <2>1. TaskOf(w) \in Tasks
      BY <1>3 DEF Claim, TypeOK, Delivery, Message, EventKey, TaskOf
    <2>2. task' = [task EXCEPT ![TaskOf(w)] = row]
      BY <1>3 DEF Claim, Lease!Acquire
    <2>3. row.status = "RUNNING"
      BY <1>1, <2>1 DEF Lease!AcquiredRow, Lease!TaskRow
    <2> HIDE DEF row
    <2> QED
      BY <1>1, <2>1, <2>2, <2>3
  <1>4. ASSUME execution[w].pc # "idle", Lease!FailOwnRow(w)
        PROVE  NobodyWoken
    BY <1>1, <1>4 DEF Lease!FailOwnRow, Lease!TaskRow
  <1>5. ASSUME Lease!Completes(w)
        PROVE  NobodyWoken
    <2> DEFINE t == execution[w].task
    <2>1. PICK s \in { "SUCCEEDED", "PARTIAL_SUCCEEDED" } :
            task' = [task EXCEPT ![t] = Lease!CompletedRow(@, s)]
      BY <1>5 DEF Lease!Completes
    <2>2. t \in Tasks
      BY <1>1, <1>5 DEF Lease!Completes
    <2>3. Lease!CompletedRow(task[t], s).status = s
      BY <1>1, <2>2 DEF Lease!CompletedRow, Lease!TaskRow
    <2> HIDE DEF t
    <2> QED
      BY <1>1, <2>1, <2>2, <2>3
  <1>6. ASSUME Lease!Heartbeat(w)
        PROVE  NobodyWoken
    BY <1>1, <1>6 DEF Lease!Heartbeat, Lease!Owns, Lease!TaskRow
  <1>7. CASE Work(w)
    BY <1>2, <1>5, <1>6, <1>7
    DEF Work, Lease!BeginProcessing, Lease!ProcessingRaises, Lease!ProcessingReturns,
        Lease!CompleteFails, Lease!CompleteUnconfirmed, Lease!dbVars
  <1>8. CASE Settle(w) \/ LeavePending(w)
    BY <1>4, <1>5, <1>8
    DEF Settle, LeavePending, Lease!Complete, Lease!DocumentMissing, Lease!ReportFailure
  <1> QED
    BY <1>2, <1>3, <1>7, <1>8
    DEF WorkerStep, WorkerStops, Refuse, Xack, Lease!Abandon, Lease!dbVars, leaseVars

\* A task that waits after the step has been waiting for the same event, and
\* a backoff it is in is the one it was in.
StillWaits(t) ==
  Waiting(t)' => /\ Waiting(t)
                 /\ Wakeup(t)' = Wakeup(t)
                 /\ InBackoff(t)' => InBackoff(t)

LEMMA QuietRowsStillWait ==
  ASSUME NobodyWoken, NEW t \in Tasks
  PROVE  StillWaits(t)
  BY DEF NobodyWoken, StillWaits, Waiting, Wakeup, InBackoff

\* Only the steps that enqueue an event make a task wait.
Enqueues ==
  \/ \E d \in Docs, t \in Tasks : Enroll(d, t)
  \/ \E t \in Tasks : RetryTask(t)
  \/ \E S \in SUBSET Tasks : ScanAndRecover(S)

LEMMA OthersStillWait ==
  ASSUME TypeOK, [Next]_vars, ~Enqueues
  PROVE  \A t \in Tasks : StillWaits(t)
  <1>1. ASSUME NEW d \in Docs, DeleteDocument(d)
        PROVE  NobodyWoken
    BY <1>1 DEF DeleteDocument, Lease!DeleteDocument, NobodyWoken, Waiting, TypeOK, Lease!TypeOK,
                Lease!TaskRow
  <1>2. ASSUME NEW t \in Tasks, LeaseLapses(t)
        PROVE  NobodyWoken
    BY <1>2 DEF LeaseLapses, Lease!LeaseLapses, NobodyWoken, Waiting, TypeOK, Lease!TypeOK,
                Lease!TaskRow
  <1>3. ASSUME UNCHANGED task
        PROVE  NobodyWoken
    BY <1>3 DEF NobodyWoken
  <1>4. ASSUME NEW u \in Tasks, BackoffElapses(u), NEW t \in Tasks
        PROVE  StillWaits(t)
    <2>1. /\ task' = [task EXCEPT ![u].lease_expires_at = "past", ![u].next_attempt_at = "past"]
          /\ task \in [Tasks -> Lease!TaskRow]
      BY <1>4 DEF BackoffElapses, Lease!BackoffElapses, TypeOK, Lease!TypeOK
    <2>2. /\ task'[t].status = task[t].status
          /\ task'[t].attempt = task[t].attempt
          /\ task'[t].retry_count = task[t].retry_count
          /\ task'[t].next_attempt_at = task[t].next_attempt_at \/ task'[t].next_attempt_at = "past"
      BY <2>1 DEF Lease!TaskRow
    <2> QED
      BY <2>2 DEF StillWaits, Waiting, Wakeup, InBackoff
  <1>5. \/ NobodyWoken
        \/ \E u \in Tasks : BackoffElapses(u)
    BY <1>1, <1>2, <1>3, WorkerWakesNobody
    DEF Enqueues, Next, PublisherStep, Xadd, XaddFails, MarkPublished, Requeue, PublisherStops,
        ClaimEvent, Receive, Autoclaim, EventLeaseLapses, EventDue, leaseVars, vars
  <1> QED
    BY <1>4, <1>5, QuietRowsStillWait

(***************************************************************************)
(* Enqueueing                                                              *)
(***************************************************************************)

\* The task an event is about has got as far as the event's key says.
Known(e) ==
  /\ task[e.task].status # "ABSENT"
  /\ e.kind = "retry" => e.n <= task[e.task].retry_count
  /\ e.kind = "recovery" => e.n <= task[e.task].attempt

\* So the key of the next enqueueing of a task is a new one.
KeysInv == \A e \in DOMAIN outbox \cup Circulating : Known(e)

\* A task begins to wait together with an event that nobody has taken yet.
Woken(t) ==
  /\ Wakeup(t)' \in DOMAIN outbox'
  /\ Wakeup(t)' \notin DOMAIN outbox \cup Circulating
  /\ outbox'[Wakeup(t)'].status = "PENDING"
  /\ InBackoff(t)' => outbox'[Wakeup(t)'].available_at = "ahead"

EnqueueStep ==
  /\ UNCHANGED <<streamVars, delivery, publisher>>
  /\ DOMAIN outbox \subseteq DOMAIN outbox'
  /\ \A e \in DOMAIN outbox : outbox'[e] = outbox[e]
  /\ \A e \in DOMAIN outbox' : e \in DOMAIN outbox \/ Known(e)'
  /\ \A t \in Tasks : StillWaits(t) \/ Woken(t)

LEMMA EventFields ==
  ASSUME NEW t, NEW kind, NEW n
  PROVE  /\ Event(t, kind, n).task = t
         /\ Event(t, kind, n).kind = kind
         /\ Event(t, kind, n).n = n
  BY DEF Event

\* One task gets a row that waits, and the event that goes with it.
LEMMA OneWakes ==
  ASSUME TypeOK, KeysInv, NEW t \in Tasks, NEW row \in Lease!TaskRow, NEW e,
         task' = [task EXCEPT ![t] = row], Enqueue({e}, "past"),
         UNCHANGED <<streamVars, delivery, publisher>>,
         row.status = "PENDING",
         e = IF row.retry_count = 0 THEN Event(t, "new", 0)
                                    ELSE Event(t, "retry", row.retry_count),
         ~Known(e)
  PROVE  EnqueueStep
  <1>1. task'[t] = row /\ \A u \in Tasks \ {t} : task'[u] = task[u]
    BY DEF TypeOK, Lease!TypeOK
  <1>2. \A u \in Tasks \ {t} : StillWaits(u)
    BY <1>1 DEF StillWaits, Waiting, Wakeup, InBackoff
  <1>3. Wakeup(t)' = e /\ ~InBackoff(t)'
    BY <1>1 DEF Wakeup, InBackoff
  <1>4. e \notin DOMAIN outbox \cup Circulating
    BY DEF KeysInv
  <1>5. DOMAIN outbox' = DOMAIN outbox \cup {e} /\ outbox'[e].status = "PENDING"
    BY <1>4 DEF Enqueue, NewEvent
  <1>6. \A k \in DOMAIN outbox : outbox'[k] = outbox[k]
    BY DEF Enqueue
  <1>7. Known(e)'
    BY <1>1, EventFields DEF Known, Lease!TaskRow
  <1>8. Woken(t)
    BY <1>3, <1>4, <1>5 DEF Woken
  <1> QED
    BY <1>2, <1>5, <1>6, <1>7, <1>8 DEF EnqueueStep

\* The scanner's rows wait for the events it enqueues with them; those that
\* are not recovered again stay dead.
LEMMA RecoveredWakes ==
  ASSUME TypeOK, RowsInv, KeysInv, Rows!DocumentsInv, NEW S \in SUBSET Tasks, ScanAndRecover(S)
  PROVE  EnqueueStep
  <1> DEFINE E == RecoveryEvents(S)
  <1>1. /\ S \subseteq Lease!Orphans
        /\ task \in [Tasks -> Lease!TaskRow]
        /\ task' = [t \in Tasks |-> IF t \in S THEN Lease!RecoveredRow(task[t]) ELSE task[t]]
    BY DEF ScanAndRecover, Lease!ScanAndRecover, TypeOK, Lease!TypeOK
  <1>2. DOMAIN outbox' = DOMAIN outbox \cup E /\ \A e \in DOMAIN outbox : outbox'[e] = outbox[e]
    BY DEF ScanAndRecover, Enqueue
  <1>3. \A e \in E : e \notin DOMAIN outbox => outbox'[e] = NewEvent("ahead")
    BY DEF ScanAndRecover, Enqueue
  <1>4. ASSUME NEW t \in S
        PROVE  /\ task[t].status = "RUNNING" /\ task[t].attempt \in Nat
               /\ document[task[t].doc_id] = "PRESENT"
               /\ task'[t] = Lease!RecoveredRow(task[t])
               /\ task'[t].attempt = task[t].attempt + 1
               /\ task'[t].status \in { "RETRY_WAITING", "DEAD_LETTER" }
    <2>1. task[t].status = "RUNNING"
      BY <1>1 DEF Lease!Orphans
    <2>2. document[task[t].doc_id] = "PRESENT"
      BY <2>1 DEF Rows!DocumentsInv, Rows!Live
    <2>3. task[t] \in Lease!TaskRow /\ task'[t] = Lease!RecoveredRow(task[t])
      BY <1>1
    <2> QED
      BY <2>1, <2>2, <2>3 DEF Lease!RecoveredRow, Lease!TaskRow
  <1>5. \A e \in E : \E t \in S : e = Event(t, "recovery", task[t].attempt + 1)
    BY DEF RecoveryEvents
  <1>6. ASSUME NEW e \in E
        PROVE  Known(e)' /\ e \notin DOMAIN outbox \cup Circulating
    <2>1. PICK t \in S : e = Event(t, "recovery", task[t].attempt + 1)
      BY <1>5
    <2>2. e.task = t /\ e.kind = "recovery" /\ e.n = task[t].attempt + 1
      BY <2>1, EventFields
    <2>3. Known(e)'
      BY <1>4, <2>2 DEF Known
    <2>4. ~Known(e)
      BY <1>4, <2>2 DEF Known
    <2> QED
      BY <2>3, <2>4 DEF KeysInv
  <1>7. ASSUME NEW t \in S
        PROVE  StillWaits(t) \/ Woken(t)
    <2> DEFINE e == Event(t, "recovery", task[t].attempt + 1)
    <2>1. CASE task'[t].status = "RETRY_WAITING"
      <3>1. e \in E
        BY <1>4, <2>1 DEF RecoveryEvents
      <3>2. Wakeup(t)' = e
        BY <1>4, <2>1 DEF Wakeup
      <3>3. e \in DOMAIN outbox' /\ outbox'[e] = NewEvent("ahead")
        BY <1>2, <1>3, <1>6, <3>1
      <3> HIDE DEF E, e
      <3>4. /\ Wakeup(t)' \in DOMAIN outbox'
            /\ Wakeup(t)' \notin DOMAIN outbox \cup Circulating
            /\ outbox'[Wakeup(t)'] = NewEvent("ahead")
        BY <1>6, <3>1, <3>2, <3>3
      <3> QED
        BY <3>4 DEF Woken, NewEvent
    <2>2. CASE task'[t].status # "RETRY_WAITING"
      BY <1>4, <2>2 DEF StillWaits, Waiting
    <2> QED
      BY <2>1, <2>2
  <1>8. ASSUME NEW t \in Tasks \ S
        PROVE  StillWaits(t)
    BY <1>1, <1>8 DEF StillWaits, Waiting, Wakeup, InBackoff
  <1>9. UNCHANGED <<streamVars, delivery, publisher>>
    BY DEF ScanAndRecover
  <1> HIDE DEF E
  <1> QED
    BY <1>2, <1>6, <1>7, <1>8, <1>9 DEF EnqueueStep

LEMMA EnqueuesWake ==
  ASSUME TypeOK, RowsInv, KeysInv, Rows!DocumentsInv, Enqueues
  PROVE  EnqueueStep
  <1>1. ASSUME NEW d \in Docs, NEW t \in Tasks, Enroll(d, t)
        PROVE  EnqueueStep
    <2> DEFINE e == Event(t, "new", 0)
    <2>1. /\ task[t].status = "ABSENT"
          /\ Enqueue({e}, "past")
          /\ UNCHANGED <<streamVars, delivery, publisher>>
      BY <1>1 DEF Enroll, Lease!Upload, Lease!Reingest
    <2>2. PICK g \in Nat : task' = [task EXCEPT ![t] = Lease!CreatedRow(d, g)]
      BY <1>1 DEF Enroll, Lease!Upload, Lease!Reingest, Lease!NextGeneration, TypeOK, Lease!TypeOK
    <2> DEFINE row == Lease!CreatedRow(d, g)
    <2>3. row \in Lease!TaskRow /\ row.status = "PENDING" /\ row.retry_count = 0
      BY DEF Lease!CreatedRow, Lease!NewRow, Lease!TaskRow, Lease!RowStatus, Lease!TaskState,
             Lease!Timestamp, TaskState
    <2>4. ~Known(e)
      BY <2>1, EventFields DEF Known
    <2>5. e = IF row.retry_count = 0 THEN Event(t, "new", 0) ELSE Event(t, "retry", row.retry_count)
      BY <2>3
    <2> HIDE DEF e, row
    <2> QED
      BY <2>1, <2>2, <2>3, <2>4, <2>5, OneWakes DEF e, row
  <1>2. ASSUME NEW t \in Tasks, RetryTask(t)
        PROVE  EnqueueStep
    <2> DEFINE e == Event(t, "retry", task[t].retry_count + 1)
               row == Lease!RetriedRow(task[t])
    <2>1. /\ Enqueue({e}, "past")
          /\ task' = [task EXCEPT ![t] = row]
          /\ UNCHANGED <<streamVars, delivery, publisher>>
      BY <1>2 DEF RetryTask, Lease!RetryTask
    <2>2. task[t] \in Lease!TaskRow /\ task[t].retry_count \in Nat
      BY DEF TypeOK, Lease!TypeOK, Lease!TaskRow
    <2>3. row.status = "PENDING" /\ row.retry_count = task[t].retry_count + 1
      BY <2>2 DEF Lease!RetriedRow, Lease!TaskRow
    <2>4. row \in Lease!TaskRow
      <3>1. Lease!TypeOK'
        BY <1>2, LeaseTypeStep DEF Next
      <3> HIDE DEF row
      <3> QED
        BY <2>1, <3>1 DEF Lease!TypeOK, TypeOK
    <2>5. ~Known(e)
      BY <2>2, EventFields DEF Known
    <2>6. e = IF row.retry_count = 0 THEN Event(t, "new", 0) ELSE Event(t, "retry", row.retry_count)
      BY <2>2, <2>3
    <2> HIDE DEF e, row
    <2> QED
      BY <2>1, <2>3, <2>4, <2>5, <2>6, OneWakes
  <1> QED
    BY <1>1, <1>2, RecoveredWakes DEF Enqueues

(***************************************************************************)
(* What circulates                                                         *)
(***************************************************************************)

InPublishing == { publisher[p].event : p \in { q \in Publishers : publisher[q].pc # "idle" } }
InStream == { m.event : m \in undelivered \cup pel }
InHand == { delivery[w].message.event : w \in { v \in Workers : delivery[v].phase # "none" } }

LEMMA CirculatingParts == Circulating = InPublishing \cup InStream \cup InHand
  BY DEF Circulating, InPublishing, InStream, InHand

\* The events that a publisher may take.
Due == { e \in DOMAIN outbox : outbox[e].available_at = "past" }

LEMMA PublishingMoves ==
  ASSUME TypeOK, [Next]_vars
  PROVE  InPublishing' \subseteq InPublishing \cup Due
  <1>1. CASE UNCHANGED publisher
    BY <1>1 DEF InPublishing
  <1>2. ASSUME NEW p \in Publishers, Xadd(p) \/ XaddFails(p)
        PROVE  InPublishing' \subseteq InPublishing
    <2>1. GoesOnWith(p, "claimed", "sent") \/ GoesOnWith(p, "claimed", "refused")
      BY <1>2, PublisherMoves
    <2> QED
      BY <2>1 DEF GoesOnWith, OnlyPublisher, InPublishing
  <1>3. ASSUME NEW p \in Publishers, MarkPublished(p) \/ Requeue(p) \/ PublisherStops(p)
        PROVE  InPublishing' \subseteq InPublishing
    BY <1>3, PublisherMoves DEF OnlyPublisher, IdlePublisher, InPublishing
  <1>4. ASSUME NEW p \in Publishers, NEW e \in DOMAIN outbox, ClaimEvent(p, e)
        PROVE  InPublishing' \subseteq InPublishing \cup Due
    <2>1. e \in Due
      BY <1>4 DEF ClaimEvent, Publishable, Due
    <2> QED
      BY <1>4, <2>1, PublisherMoves DEF OnlyPublisher, InPublishing
  <1> QED
    BY <1>1, <1>2, <1>3, <1>4
    DEF Next, Enroll, RetryTask, DeleteDocument, ScanAndRecover, PublisherStep, Receive, Autoclaim,
        WorkerStep, Claim, Refuse, Work, Settle, LeavePending, Xack, WorkerStops, LeaseLapses,
        BackoffElapses, EventLeaseLapses, EventDue, vars

\* Messages are added for events being published and taken off by an XACK.
LEMMA StreamMoves ==
  ASSUME TypeOK, [Next]_vars
  PROVE  /\ InStream' \subseteq InStream \cup InPublishing
         /\ \/ undelivered \cup pel \subseteq undelivered' \cup pel'
            \/ \E w \in Workers : /\ Xack(w)
                                  /\ undelivered \cup pel
                                       \subseteq undelivered' \cup pel' \cup {delivery[w].message}
  <1> DEFINE Kept == undelivered \cup pel \subseteq undelivered' \cup pel'
             Good == /\ InStream' \subseteq InStream \cup InPublishing
                     /\ Kept \/ \E w \in Workers :
                          /\ Xack(w)
                          /\ undelivered \cup pel
                               \subseteq undelivered' \cup pel' \cup {delivery[w].message}
  <1>1. ASSUME UNCHANGED streamVars
        PROVE  Good
    BY <1>1 DEF streamVars, InStream
  <1>2. ASSUME NEW p \in Publishers, publisher[p].pc = "claimed", UNCHANGED pel,
               AddToStream(publisher[p].event)
        PROVE  Good
    <2> DEFINE m == [event |-> publisher[p].event, copy |-> NextCopy(publisher[p].event)]
    <2>1. undelivered' = undelivered \cup {m}
      BY <1>2 DEF AddToStream
    <2>2. m.event = publisher[p].event
      OBVIOUS
    <2>3. publisher[p].event \in InPublishing
      BY <1>2 DEF InPublishing
    <2> HIDE DEF m
    <2> QED
      BY <1>2, <2>1, <2>2, <2>3 DEF InStream
  <1>3. ASSUME NEW w \in Workers, NEW m \in undelivered, Receive(w, m)
        PROVE  Good
    <2>1. undelivered' \cup pel' = undelivered \cup pel
      BY <1>3 DEF Receive
    <2> QED
      BY <2>1 DEF InStream
  <1>4. ASSUME NEW w \in Workers, Xack(w)
        PROVE  Good
    BY <1>4 DEF Xack, InStream
  <1> HIDE DEF Good
  <1>5. Good
    BY <1>1, <1>2, <1>3, <1>4
    DEF Next, Enroll, RetryTask, DeleteDocument, ScanAndRecover, PublisherStep, Xadd, XaddFails,
        MarkPublished, Requeue, PublisherStops, ClaimEvent, Autoclaim, WorkerStep, Claim, Refuse,
        Work, Settle, LeavePending, WorkerStops, LeaseLapses, BackoffElapses, EventLeaseLapses,
        EventDue, streamVars, vars
  <1> QED
    BY <1>5 DEF Good

\* A worker goes on with its message, drops it, or takes one off the stream.
HandStep(w) ==
  \/ delivery'[w] = delivery[w]
  \/ delivery'[w].phase = "none"
  \/ /\ delivery[w].phase = "none" /\ delivery'[w].phase = "read"
     /\ delivery'[w].message.event \in InStream
  \/ /\ delivery[w].phase # "none" /\ delivery'[w].message = delivery[w].message
     /\ \/ Claim(w)
        \/ Refuse(w)
        \/ delivery[w].phase = "working"

LEMMA HandsMove ==
  ASSUME TypeOK, [Next]_vars, NEW w \in Workers
  PROVE  HandStep(w)
  <1>1. CASE UNCHANGED delivery
    BY <1>1 DEF HandStep
  <1>2. ASSUME NEW v \in Workers, OnlyHand(v), v # w
        PROVE  HandStep(w)
    BY <1>2 DEF OnlyHand, HandStep
  <1>3. ASSUME NEW v \in Workers, WorkerStep(v) \/ WorkerStops(v)
        PROVE  HandStep(w)
    <2>1. OnlyHand(v) \/ UNCHANGED delivery
      BY <1>3, DeliveryMoves DEF WorkerStep, Work, Hand, Drops
    <2>2. CASE v = w
      BY <1>3, <2>2, DeliveryMoves DEF WorkerStep, Work, Hand, Drops, NoDelivery, HandStep
    <2> QED
      BY <1>1, <1>2, <2>1, <2>2
  <1>4. ASSUME NEW v \in Workers, NEW m \in undelivered \cup pel, Receive(v, m) \/ Autoclaim(v, m)
        PROVE  HandStep(w)
    <2>1. Takes(v, m)
      BY <1>4, DeliveryMoves DEF Receive, Autoclaim
    <2>2. m.event \in InStream
      BY DEF InStream
    <2>3. CASE v = w
      BY <2>1, <2>2, <2>3 DEF Takes, HandStep
    <2> QED
      BY <1>2, <2>1, <2>3 DEF Takes
  <1> QED
    BY <1>1, <1>3, <1>4
    DEF Next, Enroll, RetryTask, DeleteDocument, ScanAndRecover, PublisherStep, Xadd, XaddFails,
        MarkPublished, Requeue, PublisherStops, ClaimEvent, LeaseLapses, BackoffElapses,
        EventLeaseLapses, EventDue, vars

\* Nothing circulates but what did, and events that were due.
LEMMA CirculatingMoves ==
  ASSUME TypeOK, [Next]_vars
  PROVE  Circulating' \subseteq Circulating \cup Due
  <1>1. InHand' \subseteq InHand \cup InStream
    <2> SUFFICES ASSUME NEW w \in Workers, delivery'[w].phase # "none"
                 PROVE  delivery'[w].message.event \in InHand \cup InStream
      BY DEF InHand
    <2>1. CASE delivery[w].phase # "none" /\ delivery'[w].message = delivery[w].message
      BY <2>1 DEF InHand
    <2>2. \/ delivery[w].phase # "none" /\ delivery'[w].message = delivery[w].message
          \/ delivery'[w].message.event \in InStream
      BY HandsMove DEF HandStep
    <2> QED
      BY <2>1, <2>2
  <1>2. Circulating' = InPublishing' \cup InStream' \cup InHand'
    BY DEF Circulating, InPublishing, InStream, InHand
  <1> QED
    BY <1>1, <1>2, CirculatingParts, PublishingMoves, StreamMoves

LEMMA CirculatingKeys == ASSUME TypeOK PROVE Circulating \subseteq EventKey
  BY DEF TypeOK, Circulating, PublisherState, Delivery, Message

\* Keys of events stay behind the rows they are about.
LEMMA KeysStep ==
  ASSUME TypeOK, RowsInv, KeysInv, Rows!DocumentsInv, [Next]_vars
  PROVE  KeysInv'
  <1>1. ASSUME NEW e \in EventKey, Known(e)
        PROVE  Known(e)'
    <2>1. e.task \in Tasks /\ e.n \in Nat
      BY DEF EventKey
    <2> DEFINE t == e.task
    <2>2. /\ task[t].attempt \in Nat /\ task[t].retry_count \in Nat
          /\ task'[t].attempt \in Nat /\ task'[t].retry_count \in Nat
      BY <2>1, LeaseTypeStep DEF TypeOK, Lease!TypeOK, Lease!TaskRow
    <2>3. /\ task'[t].attempt >= task[t].attempt
          /\ task'[t].retry_count >= task[t].retry_count
          /\ task'[t].status = "ABSENT" => task[t].status = "ABSENT"
      BY <2>1, RowsGrow
    <2> QED
      BY <1>1, <2>1, <2>2, <2>3 DEF Known
  <1>2. DOMAIN outbox \cup Circulating \subseteq EventKey
    BY CirculatingKeys DEF TypeOK
  <1>3. Circulating' \subseteq Circulating \cup DOMAIN outbox
    BY CirculatingMoves DEF Due
  <1>4. \A e \in DOMAIN outbox' : e \in DOMAIN outbox \/ Known(e)'
    <2>1. CASE Enqueues
      BY <2>1, EnqueuesWake DEF EnqueueStep
    <2>2. CASE ~Enqueues
      BY <2>2
      DEF Enqueues, Next, DeleteDocument, PublisherStep, Xadd, XaddFails, MarkPublished, Requeue,
          PublisherStops, ClaimEvent, Receive, Autoclaim, WorkerStep, Claim, Refuse, Work, Settle,
          LeavePending, Xack, WorkerStops, LeaseLapses, BackoffElapses, EventLeaseLapses,
          EventDue, vars
    <2> QED
      BY <2>1, <2>2
  <1> QED
    BY <1>1, <1>2, <1>3, <1>4 DEF KeysInv

(***************************************************************************)
(* No lost wakeup                                                          *)
(***************************************************************************)

\* An event does its duty: it is still to be published, and no publisher
\* will tick it off unsent, or it has a message.
Upheld(e) ==
  \/ /\ outbox[e].status # "PUBLISHED"
     /\ \A p \in Publishers : publisher[p].pc = "sent" => publisher[p].event # e
  \/ \E m \in undelivered \cup pel : m.event = e

\* A waiting task has the event of its latest enqueueing.
WakeupInv == \A t \in Tasks : Waiting(t) => Wakeup(t) \in DOMAIN outbox /\ Upheld(Wakeup(t))

\* A message that will be acknowledged is not one that a task waits for.
SpentInv ==
  \A w \in Workers : delivery[w].phase \in { "working", "acking" } =>
    (Waiting(TaskOf(w)) => delivery[w].message.event # Wakeup(TaskOf(w)))

\* The event of a backoff is not due before the backoff is over, so that no
\* worker is told to look at the task too early.
BackoffInv ==
  \A t \in Tasks : InBackoff(t) =>
    /\ outbox[Wakeup(t)].available_at = "ahead"
    /\ Wakeup(t) \notin Circulating

\* An event is ticked off only by a publisher that has sent it, and what
\* waits becomes due only in its time.
LEMMA EventMoves ==
  ASSUME TypeOK, [Next]_vars, NEW e \in DOMAIN outbox \cap DOMAIN outbox'
  PROVE  /\ \/ outbox'[e].status # "PUBLISHED"
            \/ outbox[e].status = "PUBLISHED"
            \/ \E p \in Publishers : publisher[p].pc = "sent" /\ publisher[p].event = e
         /\ \/ outbox'[e].available_at = outbox[e].available_at
            \/ outbox'[e].available_at = "ahead"
            \/ \E t \in Tasks : BackoffElapses(t) /\ e = BackoffEvent(t)
            \/ ~(InBackoff(e.task) /\ e = BackoffEvent(e.task))
  <1> DEFINE Good == /\ \/ outbox'[e].status # "PUBLISHED"
                        \/ outbox[e].status = "PUBLISHED"
                        \/ \E p \in Publishers : publisher[p].pc = "sent" /\ publisher[p].event = e
                     /\ \/ outbox'[e].available_at = outbox[e].available_at
                        \/ outbox'[e].available_at = "ahead"
                        \/ \E t \in Tasks : BackoffElapses(t) /\ e = BackoffEvent(t)
                        \/ ~(InBackoff(e.task) /\ e = BackoffEvent(e.task))
  <1>1. outbox[e] \in EventRow
    BY DEF TypeOK
  <1>2. ASSUME outbox'[e] = outbox[e]
        PROVE  Good
    BY <1>2
  <1>3. Enqueues => outbox'[e] = outbox[e]
    BY DEF Enqueues, Enroll, RetryTask, ScanAndRecover, Enqueue
  <1>4. ASSUME NEW d \in Docs, DeleteDocument(d)
        PROVE  outbox'[e] = outbox[e]
    BY <1>4 DEF DeleteDocument
  <1>5. ASSUME NEW p \in Publishers, NEW f \in DOMAIN outbox, ClaimEvent(p, f)
        PROVE  Good
    <2>1. CASE f = e
      BY <1>1, <1>5, <2>1 DEF ClaimEvent, EventRow
    <2>2. CASE f # e
      BY <1>2, <1>5, <2>2 DEF ClaimEvent
    <2> QED
      BY <2>1, <2>2
  <1>6. ASSUME NEW p \in Publishers, MarkPublished(p)
        PROVE  Good
    <2>1. CASE publisher[p].event = e
      BY <1>1, <1>6, <2>1 DEF MarkPublished, EventRow
    <2>2. CASE publisher[p].event # e
      BY <1>2, <1>6, <2>2 DEF MarkPublished
    <2> QED
      BY <2>1, <2>2
  <1>7. ASSUME NEW p \in Publishers, Requeue(p)
        PROVE  Good
    BY <1>2, <1>7 DEF Requeue, NewEvent
  <1>8. ASSUME NEW t \in Tasks, BackoffElapses(t)
        PROVE  Good
    BY <1>1, <1>2, <1>8 DEF BackoffElapses, EventRow
  <1>9. ASSUME NEW f \in DOMAIN outbox, EventLeaseLapses(f) \/ EventDue(f)
        PROVE  Good
    <2>1. CASE f = e
      BY <1>1, <1>9, <2>1 DEF EventLeaseLapses, EventDue, EventRow
    <2>2. CASE f # e
      BY <1>2, <1>9, <2>2 DEF EventLeaseLapses, EventDue
    <2> QED
      BY <2>1, <2>2
  <1> HIDE DEF Good
  <1>10. Good
    BY <1>2, <1>3, <1>4, <1>5, <1>6, <1>7, <1>8, <1>9
    DEF Enqueues, Next, PublisherStep, Xadd, XaddFails, PublisherStops, Receive, Autoclaim,
        WorkerStep, Claim, Refuse, Work, Settle, LeavePending, Xack, WorkerStops, LeaseLapses, vars
  <1> QED
    BY <1>10 DEF Good

\* Events go only with the document of their task.
LEMMA EventsStay ==
  ASSUME TypeOK, [Next]_vars, NEW e \in DOMAIN outbox
  PROVE  \/ e \in DOMAIN outbox'
         \/ task'[e.task].status = "DELETED"
  <1>1. ASSUME NEW d \in Docs, DeleteDocument(d)
        PROVE  e \in DOMAIN outbox' \/ task'[e.task].status = "DELETED"
    <2>1. e.task \in Tasks
      BY DEF TypeOK, EventKey
    <2>2. CASE task[e.task].doc_id = d
      BY <1>1, <2>1, <2>2
      DEF DeleteDocument, Lease!DeleteDocument, TypeOK, Lease!TypeOK, Lease!TaskRow
    <2>3. CASE task[e.task].doc_id # d
      BY <1>1, <2>3 DEF DeleteDocument
    <2> QED
      BY <2>2, <2>3
  <1> QED
    BY <1>1
    DEF Next, Enroll, RetryTask, ScanAndRecover, Enqueue, PublisherStep, Xadd, XaddFails,
        MarkPublished, Requeue, PublisherStops, ClaimEvent, Receive, Autoclaim, WorkerStep, Claim,
        Refuse, Work, Settle, LeavePending, Xack, WorkerStops, LeaseLapses, BackoffElapses,
        EventLeaseLapses, EventDue, vars

\* Only a publisher whose XADD went through counts as having sent.
LEMMA SentMeansAdded ==
  ASSUME TypeOK, [Next]_vars, NEW p \in Publishers, publisher'[p].pc = "sent"
  PROVE  \/ publisher'[p] = publisher[p]
         \/ publisher'[p].event \in InStream'
  <1>1. CASE UNCHANGED publisher
    BY <1>1
  <1>2. ASSUME NEW q \in Publishers, OnlyPublisher(q), q # p
        PROVE  publisher'[p] = publisher[p]
    BY <1>2 DEF OnlyPublisher
  <1>3. ASSUME NEW q \in Publishers, Xadd(q)
        PROVE  publisher'[p] = publisher[p] \/ publisher'[p].event \in InStream'
    <2>1. GoesOnWith(q, "claimed", "sent")
      BY <1>3, PublisherMoves
    <2> DEFINE m == [event |-> publisher[q].event, copy |-> NextCopy(publisher[q].event)]
    <2>2. m \in undelivered' /\ m.event = publisher[q].event
      BY <1>3 DEF Xadd, AddToStream
    <2>3. publisher[q].event \in InStream'
      <3> HIDE DEF m
      <3> QED BY <2>2 DEF InStream
    <2>4. CASE q = p
      BY <2>1, <2>3, <2>4 DEF GoesOnWith
    <2>5. CASE q # p
      BY <1>2, <2>1, <2>5 DEF GoesOnWith
    <2> QED
      BY <2>4, <2>5
  <1>4. ASSUME NEW q \in Publishers, XaddFails(q)
        PROVE  publisher'[p] = publisher[p]
    <2>1. GoesOnWith(q, "claimed", "refused")
      BY <1>4, PublisherMoves
    <2> QED
      BY <1>2, <2>1 DEF GoesOnWith
  <1>5. ASSUME NEW q \in Publishers, MarkPublished(q) \/ Requeue(q) \/ PublisherStops(q)
        PROVE  publisher'[p] = publisher[p]
    BY <1>2, <1>5, PublisherMoves DEF IdlePublisher
  <1>6. ASSUME NEW q \in Publishers, NEW e \in DOMAIN outbox, ClaimEvent(q, e)
        PROVE  publisher'[p] = publisher[p]
    BY <1>2, <1>6, PublisherMoves
  <1> QED
    BY <1>1, <1>3, <1>4, <1>5, <1>6
    DEF Next, Enroll, RetryTask, DeleteDocument, ScanAndRecover, PublisherStep, Receive, Autoclaim,
        WorkerStep, Claim, Refuse, Work, Settle, LeavePending, Xack, WorkerStops, LeaseLapses,
        BackoffElapses, EventLeaseLapses, EventDue, vars

LEMMA WakeupIsOfTask ==
  ASSUME NEW t
  PROVE  Wakeup(t).task = t
  BY EventFields DEF Wakeup

\* The event that a task goes on waiting for stays and stays upheld.
LEMMA UpheldStays ==
  ASSUME TypeOK, WakeupInv, SpentInv, [Next]_vars,
         NEW t \in Tasks, Waiting(t), Waiting(t)', NEW e, e = Wakeup(t)
  PROVE  e \in DOMAIN outbox' /\ Upheld(e)'
  <1>1. e \in DOMAIN outbox /\ Upheld(e) /\ e.task = t
    BY WakeupIsOfTask DEF WakeupInv
  <1>2. e \in DOMAIN outbox'
    BY <1>1, EventsStay DEF Waiting
  <1>3. CASE \E m \in undelivered \cup pel : m.event = e
    <2>1. PICK m \in undelivered \cup pel : m.event = e
      BY <1>3
    <2>2. ASSUME NEW w \in Workers, Xack(w)
          PROVE  delivery[w].message # m
      BY <1>1, <2>1, <2>2 DEF Xack, SpentInv, TaskOf
    <2>3. m \in undelivered' \cup pel'
      BY <2>1, <2>2, StreamMoves
    <2> QED
      BY <1>2, <2>1, <2>3 DEF Upheld
  <1>4. CASE /\ outbox[e].status # "PUBLISHED"
             /\ \A p \in Publishers : publisher[p].pc = "sent" => publisher[p].event # e
    <2>1. outbox'[e].status # "PUBLISHED"
      BY <1>1, <1>2, <1>4, EventMoves
    <2>2. ASSUME NEW p \in Publishers, publisher'[p].pc = "sent", publisher'[p].event = e
          PROVE  \E m \in undelivered' \cup pel' : m.event = e
      BY <1>4, <2>2, SentMeansAdded DEF InStream
    <2> QED
      BY <1>2, <2>1, <2>2 DEF Upheld
  <1> QED
    BY <1>1, <1>3, <1>4 DEF Upheld

DeliveryInv ==
  /\ TypeOK /\ FiniteInv
  /\ RowsInv /\ Rows!DocumentsInv
  /\ KeysInv /\ WakeupInv /\ SpentInv /\ BackoffInv

\* Every task that waits after the step has been waiting for what it waits
\* for, or an event was enqueued for it that nobody has taken yet.
LEMMA WaitingCases ==
  ASSUME DeliveryInv, [Next]_vars, NEW t \in Tasks, Waiting(t)'
  PROVE  \/ Waiting(t) /\ Wakeup(t)' = Wakeup(t) /\ (InBackoff(t)' => InBackoff(t))
         \/ Woken(t) /\ UNCHANGED <<streamVars, delivery, publisher>>
  BY EnqueuesWake, OthersStillWait DEF DeliveryInv, EnqueueStep, StillWaits

LEMMA WakeupStep ==
  ASSUME DeliveryInv, [Next]_vars
  PROVE  WakeupInv'
  <1> SUFFICES ASSUME NEW t \in Tasks, Waiting(t)'
               PROVE  (Wakeup(t) \in DOMAIN outbox /\ Upheld(Wakeup(t)))'
    BY DEF WakeupInv
  <1>1. PICK e : e = Wakeup(t)'
    OBVIOUS
  <1>2. e \in DOMAIN outbox' /\ Upheld(e)'
    <2>1. CASE Waiting(t) /\ Wakeup(t)' = Wakeup(t)
      BY <1>1, <2>1, UpheldStays DEF DeliveryInv
    <2>2. CASE Woken(t) /\ UNCHANGED <<streamVars, delivery, publisher>>
      <3>1. e \notin Circulating /\ outbox'[e].status = "PENDING" /\ e \in DOMAIN outbox'
        BY <1>1, <2>2 DEF Woken
      <3>2. \A p \in Publishers : publisher'[p].pc = "sent" => publisher'[p].event # e
        BY <2>2, <3>1 DEF Circulating
      <3> QED
        BY <3>1, <3>2 DEF Upheld
    <2> QED
      BY <2>1, <2>2, WaitingCases
  <1> QED
    BY <1>1, <1>2 DEF Upheld

\* A worker that is about to work on a task or has just refused it does not
\* hold what the task waits for.
LEMMA SpentStep ==
  ASSUME DeliveryInv, [Next]_vars
  PROVE  SpentInv'
  <1> SUFFICES ASSUME NEW w \in Workers, delivery'[w].phase \in { "working", "acking" },
                      NEW t, t = delivery'[w].message.event.task, Waiting(t)',
                      delivery'[w].message.event = Wakeup(t)'
               PROVE  FALSE
    BY DEF SpentInv, TaskOf
  <1>1. TypeOK' /\ t \in Tasks
    <2>1. TypeOK'
      BY TypeStep DEF DeliveryInv
    <2> QED
      BY <2>1, TaskDeliveryAssumption DEF TypeOK, Delivery, Message, EventKey
  <1>2. delivery[w].phase # "none" /\ delivery'[w].message = delivery[w].message
    BY HandsMove DEF DeliveryInv, HandStep
  <1>3. delivery[w].message.event \in Circulating
    BY <1>2 DEF Circulating
  <1>4. /\ Waiting(t) /\ Wakeup(t)' = Wakeup(t)
        /\ TaskOf(w) = t /\ delivery[w].message.event = Wakeup(t)
    <2>1. ~Woken(t)
      BY <1>2, <1>3 DEF Woken
    <2> QED
      BY <1>1, <1>2, <2>1, WaitingCases DEF TaskOf
  <1>5. ~InBackoff(t)
    BY <1>1, <1>3, <1>4 DEF DeliveryInv, BackoffInv
  <1>6. delivery[w].phase \notin { "working", "acking" }
    BY <1>4 DEF DeliveryInv, SpentInv
  <1>7. Claim(w) \/ Refuse(w)
    BY <1>6, HandsMove DEF DeliveryInv, HandStep
  <1>8. ~Refuse(w)
    <2>1. task[t].next_attempt_at \in { "null", "ahead", "past" }
      BY <1>1 DEF DeliveryInv, TypeOK, Lease!TypeOK, Lease!TaskRow, Lease!Timestamp
    <2> QED
      BY <1>4, <1>5, <2>1 DEF Refuse, Lease!Claimable, Waiting, InBackoff
  <1>9. ~Claim(w)
    <2>1. task[t] \in Lease!TaskRow /\ task \in [Tasks -> Lease!TaskRow]
      BY <1>1 DEF DeliveryInv, TypeOK, Lease!TypeOK
    <2>2. Lease!AcquiredRow(w, task[t]).status = "RUNNING"
      BY <2>1 DEF Lease!AcquiredRow, Lease!TaskRow
    <2>3. Claim(w) => task' = [task EXCEPT ![t] = Lease!AcquiredRow(w, task[t])]
      BY <1>4 DEF Claim, Lease!Acquire
    <2>4. Claim(w) => task'[t] = Lease!AcquiredRow(w, task[t])
      BY <1>1, <2>1, <2>3
    <2> QED
      BY <2>2, <2>4 DEF Waiting
  <1> QED
    BY <1>7, <1>8, <1>9

LEMMA BackoffStep ==
  ASSUME DeliveryInv, [Next]_vars
  PROVE  BackoffInv'
  <1> SUFFICES ASSUME NEW t \in Tasks, InBackoff(t)', NEW e, e = Wakeup(t)'
               PROVE  outbox'[e].available_at = "ahead" /\ e \notin Circulating'
    BY DEF BackoffInv
  <1>1. Waiting(t)'
    BY DEF InBackoff, Waiting
  <1>2. CASE Waiting(t) /\ Wakeup(t)' = Wakeup(t) /\ InBackoff(t)
    <2>1. /\ e = Wakeup(t) /\ e \in DOMAIN outbox /\ e.task = t
          /\ outbox[e].available_at = "ahead" /\ e \notin Circulating
      BY <1>2, WakeupIsOfTask DEF DeliveryInv, WakeupInv, BackoffInv
    <2>2. e \in DOMAIN outbox'
      BY <1>1, <2>1, EventsStay DEF DeliveryInv, Waiting
    <2>3. e = BackoffEvent(t)
      BY <1>2, <2>1 DEF BackoffEvent, Wakeup, InBackoff
    <2>4. ASSUME NEW u \in Tasks, BackoffElapses(u), e = BackoffEvent(u)
          PROVE  FALSE
      <3>1. u = t
        BY <2>1, <2>4, EventFields DEF BackoffEvent
      <3>2. task'[t].next_attempt_at = "past"
        BY <2>4, <3>1
        DEF BackoffElapses, Lease!BackoffElapses, DeliveryInv, TypeOK, Lease!TypeOK, Lease!TaskRow
      <3> QED
        BY <3>2 DEF InBackoff
    <2>5. outbox'[e].available_at = "ahead"
      BY <1>2, <2>1, <2>2, <2>3, <2>4, EventMoves DEF DeliveryInv
    <2>6. e \notin Due
      BY <2>1 DEF Due
    <2> QED
      BY <2>1, <2>5, <2>6, CirculatingMoves DEF DeliveryInv
  <1>3. CASE Woken(t) /\ UNCHANGED <<streamVars, delivery, publisher>>
    <2>1. Circulating' = Circulating
      BY <1>3 DEF Circulating, streamVars
    <2> QED
      BY <1>3, <2>1 DEF Woken
  <1> QED
    BY <1>1, <1>2, <1>3, WaitingCases

LEMMA DeliveryInvStep ==
  ASSUME DeliveryInv, [Next]_vars
  PROVE  DeliveryInv'
  <1>1. Rows!TypeOK /\ [Rows!Next]_Rows!vars
    BY SameLease, LeaseStep DEF DeliveryInv, TypeOK
  <1>2. Rows!DocumentsInv'
    BY <1>1, Rows!DocumentsStep, SameLease DEF DeliveryInv, RowsInv
  <1> QED
    BY <1>2, TypeStep, RowsHold, KeysStep, WakeupStep, SpentStep, BackoffStep DEF DeliveryInv

LEMMA DeliveryInvInit == Init => DeliveryInv
  <1> SUFFICES ASSUME Init
               PROVE  DeliveryInv
    OBVIOUS
  <1>1. \A t \in Tasks : task[t] = Rows!NewRow
    BY SameLease DEF Init, Rows!Init
  <1>2. Rows!NewRow.status = "ABSENT"
    BY DEF Rows!NewRow
  <1>3. RowsInv
    BY <1>1, SameLease DEF RowsInv, Rows!RowsInv, Rows!RowInv, Rows!NewRow, Rows!Spent,
                           Rows!TaskLeaseAssumption
  <1>4. Rows!DocumentsInv
    BY <1>1, <1>2 DEF Rows!DocumentsInv, Rows!Live
  <1>5. Circulating = {} /\ DOMAIN outbox = {}
    BY DEF Init, Circulating, NoDelivery, IdlePublisher
  <1>6. \A t \in Tasks : ~Waiting(t) /\ ~InBackoff(t)
    BY <1>1, <1>2 DEF Waiting, InBackoff
  <1>7. KeysInv /\ WakeupInv /\ BackoffInv
    BY <1>5, <1>6 DEF KeysInv, WakeupInv, BackoffInv
  <1>8. SpentInv
    BY DEF Init, SpentInv, NoDelivery
  <1> QED
    BY <1>3, <1>4, <1>7, <1>8, InitType DEF DeliveryInv

LEMMA DeliveryInvHolds == Spec => []DeliveryInv
  <1> QED
    BY DeliveryInvInit, DeliveryInvStep, PTL DEF Spec

\* No lost wakeup: through crashes of publishers and workers, lost replies
\* of Redis, duplicates and deliveries out of order, a task that waits for a
\* worker has an event still to be published or a message that whoever holds
\* it will look at its task with, before acknowledging it.
THEOREM NoWakeupIsLost == Spec => []NoLostWakeup
  <1>1. DeliveryInv => NoLostWakeup
    <2> SUFFICES ASSUME DeliveryInv, NEW t \in Tasks, Waiting(t)
                 PROVE  \/ \E e \in DOMAIN outbox : e.task = t /\ outbox[e].status # "PUBLISHED"
                        \/ \E m \in undelivered \cup pel : m.event.task = t /\ Pending(m)
      BY DEF NoLostWakeup, Waiting
    <2>1. /\ Wakeup(t) \in DOMAIN outbox /\ Upheld(Wakeup(t))
          /\ Wakeup(t).task = t
      BY WakeupIsOfTask DEF DeliveryInv, WakeupInv
    <2>2. ASSUME NEW m, m.event = Wakeup(t)
          PROVE  Pending(m)
      BY <2>1, <2>2 DEF Pending, DeliveryInv, SpentInv, TaskOf
    <2> QED
      BY <2>1, <2>2 DEF Upheld
  <1> QED
    BY <1>1, DeliveryInvHolds, PTL
=============================================================================
