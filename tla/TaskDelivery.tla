---------------------------- MODULE TaskDelivery ----------------------------
(***************************************************************************)
(* How a worker comes to hear of a task: the transactional outbox table,   *)
(* the publishers that move its events to a Redis stream, the stream with  *)
(* its consumer group, and the worker's message loop around TaskLease      *)
(* (src/src/core/tasks/outbox.py, src/worker/main.py).  Publishers and     *)
(* workers crash, calls to Redis fail with or without effect, events and   *)
(* messages are duplicated and claimed from live workers.                  *)
(***************************************************************************)
EXTENDS Naturals, FiniteSets, TaskFSM

CONSTANTS
  Tasks, Docs, Workers, None, MaxAttempts, MaxActiveTasks, MaxRetries,  \* TaskLease
  Publishers,       \* concurrent executions of publish_pending (API and workers)
  MaxFaults         \* model bound: crashes and failed calls to Redis

VARIABLES
  task, document, active_generation, execution,  \* TaskLease
  outbox,       \* task_outbox_events: the events by event_key
  undelivered,  \* stream entries the consumer group has not delivered yet
  pel,          \* its pending entries: delivered and not acknowledged
  delivery,     \* the message each worker has in hand, and what is next for it
  publisher,    \* where each publisher is with the event it took
  faults        \* faults so far

Lease == INSTANCE TaskLease

streamVars == <<undelivered, pel>>
vars == <<task, document, active_generation, execution,
          outbox, undelivered, pel, delivery, publisher, faults>>

(***************************************************************************)
(* Events and messages.  event_key is "<task>" for the first event of a    *)
(* task, "<task>:retry:<n>" and "<task>:recovery:<n>" for the later ones.  *)
(* A message is one stream entry; copies of one event are told apart.      *)
(***************************************************************************)
EventKey == [ task : Tasks, kind : { "new", "retry", "recovery" }, n : Nat ]
Event(t, kind, n) == [ task |-> t, kind |-> kind, n |-> n ]

Timestamp == { "null", "ahead", "past" }
EventRow == [ status : { "PENDING", "PUBLISHING", "PUBLISHED" },
              lease_expires_at : Timestamp, available_at : Timestamp ]

NewEvent(available) ==
  [ status |-> "PENDING", lease_expires_at |-> "null", available_at |-> available ]

Message == [ event : EventKey, copy : Nat ]

ASSUME TaskDeliveryAssumption ==
  /\ Lease!TaskLeaseAssumption
  /\ MaxFaults \in Nat
  /\ None \notin EventKey \cup Message

Delivery == [ phase : { "none", "read", "working", "acking" },
              message : Message \cup {None} ]
NoDelivery == [ phase |-> "none", message |-> None ]

PublisherState == [ pc : { "idle", "claimed", "sent", "refused" },
                    event : EventKey \cup {None} ]
IdlePublisher == [ pc |-> "idle", event |-> None ]

TypeOK ==
  /\ Lease!TypeOK
  /\ DOMAIN outbox \subseteq EventKey
  /\ \A e \in DOMAIN outbox : outbox[e] \in EventRow
  /\ undelivered \subseteq Message /\ pel \subseteq Message
  /\ undelivered \cap pel = {}
  /\ delivery \in [Workers -> Delivery]
  /\ publisher \in [Publishers -> PublisherState]
  /\ faults \in 0 .. MaxFaults
  /\ \A w \in Workers :
       /\ delivery[w].phase = "working" <=> execution[w].pc # "idle"
       /\ delivery[w].phase = "none" <=> delivery[w].message = None
  /\ \A p \in Publishers : publisher[p].pc = "idle" <=> publisher[p].event = None

Init ==
  /\ Lease!Init
  /\ outbox = [e \in {} |-> NewEvent("past")]
  /\ undelivered = {}
  /\ pel = {}
  /\ delivery = [w \in Workers |-> NoDelivery]
  /\ publisher = [p \in Publishers |-> IdlePublisher]
  /\ faults = 0

Fault == faults < MaxFaults /\ faults' = faults + 1

(***************************************************************************)
(* Transactions that enqueue                                               *)
(***************************************************************************)

\* TaskOutboxService.enqueue: an event_key that exists already is left as it is.
Enqueue(E, available) ==
  outbox' = [e \in DOMAIN outbox \cup E |->
               IF e \in DOMAIN outbox THEN outbox[e] ELSE NewEvent(available)]

\* upload_document and reingest_document commit the task with its first event.
Enroll(d, t) ==
  /\ Lease!Upload(d, t) \/ Lease!Reingest(d, t)
  /\ Enqueue({Event(t, "new", 0)}, "past")
  /\ UNCHANGED <<streamVars, delivery, publisher, faults>>

RetryTask(t) ==
  /\ Lease!RetryTask(t)
  /\ Enqueue({Event(t, "retry", task[t].retry_count + 1)}, "past")
  /\ UNCHANGED <<streamVars, delivery, publisher, faults>>

\* The events cascade with the tasks; stream entries stay.
DeleteDocument(d) ==
  /\ Lease!DeleteDocument(d)
  /\ LET kept == { e \in DOMAIN outbox : task[e.task].doc_id # d }
     IN  outbox' = [e \in kept |-> outbox[e]]
  /\ UNCHANGED <<streamVars, delivery, publisher, faults>>

\* Mutant: the event key of a recovery does not tell it from an earlier delivery.
RecoveryEventsKeyedByRetry(S) ==
  { Event(t, IF task[t].retry_count = 0 THEN "new" ELSE "retry", task[t].retry_count) :
      t \in { u \in S : Lease!RecoveredRow(task[u]).status = "RETRY_WAITING" } }

\* The event key carries the new attempt; the event is due with the backoff.
RecoveryEvents(S) ==
  { Event(t, "recovery", task[t].attempt + 1) :
      t \in { u \in S : /\ Lease!RecoveredRow(task[u]).status = "RETRY_WAITING"
                        /\ document[task[u].doc_id] = "PRESENT" } }

\* Mutant: the recovery event is due at once, before the backoff is over.
ScanAndRecoverAtOnce(S) ==
  /\ Lease!ScanAndRecover(S)
  /\ Enqueue(RecoveryEvents(S), "past")
  /\ UNCHANGED <<streamVars, delivery, publisher, faults>>

\* scan_and_recover commits the recovered rows together with their events.
ScanAndRecover(S) ==
  /\ Lease!ScanAndRecover(S)
  /\ Enqueue(RecoveryEvents(S), "ahead")
  /\ UNCHANGED <<streamVars, delivery, publisher, faults>>

(***************************************************************************)
(* publish_pending, one event                                              *)
(***************************************************************************)
leaseVars == <<task, document, active_generation, execution>>

Publishable(e) ==
  /\ \/ outbox[e].status = "PENDING"
     \/ outbox[e].status = "PUBLISHING" /\ outbox[e].lease_expires_at = "past"
  /\ outbox[e].available_at = "past"

\* Mutant: the event counts as published when it is taken.
ClaimEventAsPublished(p, e) ==
  /\ publisher[p].pc = "idle"
  /\ Publishable(e)
  /\ outbox' = [outbox EXCEPT ![e].status = "PUBLISHED"]
  /\ publisher' = [publisher EXCEPT ![p] = [pc |-> "claimed", event |-> e]]
  /\ UNCHANGED <<leaseVars, streamVars, delivery, faults>>

ClaimEvent(p, e) ==
  /\ publisher[p].pc = "idle"
  /\ Publishable(e)
  /\ outbox' = [outbox EXCEPT ![e].status = "PUBLISHING", ![e].lease_expires_at = "ahead"]
  /\ publisher' = [publisher EXCEPT ![p] = [pc |-> "claimed", event |-> e]]
  /\ UNCHANGED <<leaseVars, streamVars, delivery, faults>>

\* The next stream entry for e: no entry a worker may still name has its copy number.
NextCopy(e) ==
  LET named == { m \in undelivered \cup pel \cup { delivery[w].message : w \in Workers } :
                   m # None /\ m.event = e }
      used  == { m.copy : m \in named }
  IN  CHOOSE c \in 0 .. Cardinality(used) : c \notin used

AddToStream(e) == undelivered' = undelivered \cup {[event |-> e, copy |-> NextCopy(e)]}

Xadd(p) ==
  /\ publisher[p].pc = "claimed"
  /\ AddToStream(publisher[p].event)
  /\ publisher' = [publisher EXCEPT ![p].pc = "sent"]
  /\ UNCHANGED <<leaseVars, outbox, pel, delivery, faults>>

\* XADD raises; a lost reply hides an entry that was added.
XaddFails(p) ==
  /\ publisher[p].pc = "claimed"
  /\ Fault
  /\ AddToStream(publisher[p].event) \/ UNCHANGED undelivered
  /\ publisher' = [publisher EXCEPT ![p].pc = "refused"]
  /\ UNCHANGED <<leaseVars, outbox, pel, delivery>>

MarkPublished(p) ==
  LET e == publisher[p].event
  IN  /\ publisher[p].pc = "sent"
      /\ IF e \in DOMAIN outbox /\ outbox[e].status = "PUBLISHING"
           THEN outbox' = [outbox EXCEPT ![e].status = "PUBLISHED",
                                         ![e].lease_expires_at = "null"]
           ELSE UNCHANGED outbox
      /\ publisher' = [publisher EXCEPT ![p] = IdlePublisher]
      /\ UNCHANGED <<leaseVars, streamVars, delivery, faults>>

\* After a failed XADD the event goes back to PENDING whatever it is by now.
Requeue(p) ==
  LET e == publisher[p].event
  IN  /\ publisher[p].pc = "refused"
      /\ outbox' = [k \in DOMAIN outbox |->
                      IF k = e THEN NewEvent("ahead") ELSE outbox[k]]
      /\ publisher' = [publisher EXCEPT ![p] = IdlePublisher]
      /\ UNCHANGED <<leaseVars, streamVars, delivery, faults>>

\* The process ends, or the database refuses the bookkeeping.
PublisherStops(p) ==
  /\ publisher[p].pc # "idle"
  /\ Fault
  /\ publisher' = [publisher EXCEPT ![p] = IdlePublisher]
  /\ UNCHANGED <<leaseVars, outbox, streamVars, delivery>>

(***************************************************************************)
(* The worker's message loop                                               *)
(***************************************************************************)

\* XREADGROUP: a new entry goes to the pending list in this worker's name.
Receive(w, m) ==
  /\ delivery[w].phase = "none"
  /\ m \in undelivered
  /\ undelivered' = undelivered \ {m}
  /\ pel' = pel \cup {m}
  /\ delivery' = [delivery EXCEPT ![w] = [phase |-> "read", message |-> m]]
  /\ UNCHANGED <<leaseVars, outbox, publisher, faults>>

\* XAUTOCLAIM after two seconds of idling, be its worker dead or busy.
Autoclaim(w, m) ==
  /\ delivery[w].phase = "none"
  /\ m \in pel
  /\ delivery' = [delivery EXCEPT ![w] = [phase |-> "read", message |-> m]]
  /\ UNCHANGED <<leaseVars, outbox, streamVars, publisher, faults>>

TaskOf(w) == delivery[w].message.event.task

\* Mutant: the message is taken for the authority on the task's state.
ClaimTrustingMessage(w) ==
  LET t == TaskOf(w)
      row == Lease!AcquiredRow(w, task[t])
  IN  /\ delivery[w].phase = "read"
      /\ task' = [task EXCEPT ![t] = row]
      /\ execution' = [execution EXCEPT ![w] =
                         [Lease!Idle EXCEPT !.pc = "claimed", !.task = t,
                                            !.token = row.fencing_token]]
      /\ delivery' = [delivery EXCEPT ![w].phase = "working"]
      /\ UNCHANGED <<document, active_generation, outbox, streamVars, publisher, faults>>

\* The claim that the message asks for; the row decides.
Claim(w) ==
  /\ delivery[w].phase = "read"
  /\ Lease!Acquire(w, TaskOf(w))
  /\ delivery' = [delivery EXCEPT ![w].phase = "working"]
  /\ UNCHANGED <<outbox, streamVars, publisher, faults>>

\* Mutant: a refused message is left to the next worker.
RefuseWithoutXack(w) ==
  /\ delivery[w].phase = "read"
  /\ ~Lease!Claimable(TaskOf(w))
  /\ delivery' = [delivery EXCEPT ![w] = NoDelivery]
  /\ UNCHANGED <<leaseVars, outbox, streamVars, publisher, faults>>

\* acquire_task_lease finds nothing to claim: the message will be acknowledged.
Refuse(w) ==
  /\ delivery[w].phase = "read"
  /\ ~Lease!Claimable(TaskOf(w))
  /\ delivery' = [delivery EXCEPT ![w].phase = "acking"]
  /\ UNCHANGED <<leaseVars, outbox, streamVars, publisher, faults>>

\* Steps of the pass over the task after which the message stays in hand.
Work(w) ==
  /\ \/ Lease!BeginProcessing(w)
     \/ Lease!Heartbeat(w)
     \/ Lease!ProcessingRaises(w)
     \/ \E partial \in BOOLEAN : Lease!ProcessingReturns(w, partial)
     \/ Lease!CompleteFails(w)
     \/ Lease!CompleteUnconfirmed(w)
  /\ UNCHANGED <<outbox, streamVars, delivery, publisher, faults>>

\* The task was brought to an end, well or not, by this worker.
Settle(w) ==
  /\ \/ Lease!Complete(w)
     \/ Lease!DocumentMissing(w)
     \/ Lease!ReportFailure(w) /\ Lease!Owns(w)
  /\ delivery' = [delivery EXCEPT ![w].phase = "acking"]
  /\ UNCHANGED <<outbox, streamVars, publisher, faults>>

\* Mutant: the loop goes on as if it still had the task.
LeavePendingStillWorking(w) ==
  /\ Lease!ReportFailure(w)
  /\ ~Lease!Owns(w)
  /\ UNCHANGED <<outbox, streamVars, delivery, publisher, faults>>

\* The failure CAS fails: the message stays pending for whoever claims it.
LeavePending(w) ==
  /\ Lease!ReportFailure(w)
  /\ ~Lease!Owns(w)
  /\ delivery' = [delivery EXCEPT ![w] = NoDelivery]
  /\ UNCHANGED <<outbox, streamVars, publisher, faults>>

Xack(w) ==
  /\ delivery[w].phase = "acking"
  /\ pel' = pel \ {delivery[w].message}
  /\ delivery' = [delivery EXCEPT ![w] = NoDelivery]
  /\ UNCHANGED <<leaseVars, outbox, undelivered, publisher, faults>>

\* The worker process ends, or an exception reaches the outer handler.
WorkerStops(w) ==
  /\ delivery[w].phase # "none"
  /\ Fault
  /\ delivery[w].phase = "working" => Lease!Abandon(w)
  /\ delivery[w].phase # "working" => UNCHANGED leaseVars
  /\ delivery' = [delivery EXCEPT ![w] = NoDelivery]
  /\ UNCHANGED <<outbox, streamVars, publisher>>

(***************************************************************************)
(* Time.  Deadlines of one task lie on one clock: a recovery event falls   *)
(* due together with the backoff it was created with.                      *)
(***************************************************************************)
LeaseLapses(t) ==
  /\ Lease!LeaseLapses(t)
  /\ UNCHANGED <<outbox, streamVars, delivery, publisher, faults>>

\* The event of the backoff a RETRY_WAITING task is in.
BackoffEvent(t) == Event(t, "recovery", task[t].attempt)
InBackoff(t) ==
  task[t].status = "RETRY_WAITING" /\ task[t].next_attempt_at = "ahead"

BackoffElapses(t) ==
  /\ Lease!BackoffElapses(t)
  /\ outbox' = [e \in DOMAIN outbox |->
                  IF e = BackoffEvent(t) /\ outbox[e].available_at = "ahead"
                    THEN [outbox[e] EXCEPT !.available_at = "past"]
                    ELSE outbox[e]]
  /\ UNCHANGED <<streamVars, delivery, publisher, faults>>

EventLeaseLapses(e) ==
  /\ outbox[e].status = "PUBLISHING"
  /\ outbox[e].lease_expires_at = "ahead"
  /\ outbox' = [outbox EXCEPT ![e].lease_expires_at = "past"]
  /\ UNCHANGED <<leaseVars, streamVars, delivery, publisher, faults>>

\* The delay after a failed XADD is over.
EventDue(e) ==
  /\ outbox[e].available_at = "ahead"
  /\ ~(InBackoff(e.task) /\ e = BackoffEvent(e.task))
  /\ outbox' = [outbox EXCEPT ![e].available_at = "past"]
  /\ UNCHANGED <<leaseVars, streamVars, delivery, publisher, faults>>

PublisherStep(p) ==
  Xadd(p) \/ XaddFails(p) \/ MarkPublished(p) \/ Requeue(p)

WorkerStep(w) ==
  Claim(w) \/ Refuse(w) \/ Work(w) \/ Settle(w) \/ LeavePending(w) \/ Xack(w)

Next ==
  \/ \E d \in Docs, t \in Tasks : Enroll(d, t)
  \/ \E t \in Tasks : RetryTask(t)
  \/ \E d \in Docs : DeleteDocument(d)
  \/ \E S \in SUBSET Tasks : ScanAndRecover(S)
  \/ \E p \in Publishers : PublisherStep(p) \/ PublisherStops(p)
  \/ \E p \in Publishers, e \in DOMAIN outbox : ClaimEvent(p, e)
  \/ \E w \in Workers, m \in undelivered : Receive(w, m)
  \/ \E w \in Workers, m \in pel : Autoclaim(w, m)
  \/ \E w \in Workers : WorkerStep(w) \/ WorkerStops(w)
  \/ \E t \in Tasks : LeaseLapses(t) \/ BackoffElapses(t)
  \/ \E e \in DOMAIN outbox : EventLeaseLapses(e) \/ EventDue(e)

(***************************************************************************)
(* Fairness.  Publisher sweeps, the message loop and the scanner run again *)
(* and again in every worker, so what stays possible is done; time passes; *)
(* process_document is assumed to return or raise (nothing bounds it while *)
(* its heartbeat goes on).  Crashes and faults are never forced.           *)
(***************************************************************************)
Fairness ==
  /\ \A p \in Publishers : WF_vars(PublisherStep(p))
  /\ WF_vars(\E p \in Publishers, e \in DOMAIN outbox : ClaimEvent(p, e))
  /\ WF_vars(\E e \in DOMAIN outbox : EventLeaseLapses(e))
  /\ WF_vars(\E e \in DOMAIN outbox : EventDue(e))
  /\ WF_vars(\E w \in Workers, m \in undelivered : Receive(w, m))
  /\ WF_vars(\E w \in Workers, m \in pel : Autoclaim(w, m))
  /\ \A w \in Workers :
       /\ WF_vars(Claim(w) \/ Refuse(w) \/ Xack(w))
       /\ WF_vars(Settle(w) \/ LeavePending(w))
       /\ WF_vars(Work(w) /\ execution'[w].pc # execution[w].pc)
  /\ WF_vars(ScanAndRecover(Lease!Orphans))
  /\ \A t \in Tasks : WF_vars(LeaseLapses(t)) /\ WF_vars(BackoffElapses(t))

Spec == Init /\ [][Next]_vars
LiveSpec == Spec /\ Fairness

(***************************************************************************)
(* Properties                                                              *)
(***************************************************************************)

\* A message whose holder will not acknowledge it before looking at its task.
Pending(m) ==
  ~ \E w \in Workers : delivery[w].phase = "acking" /\ delivery[w].message = m

\* No lost wakeup: a task that waits for a worker has an event still to be
\* published or a message still to be looked at.  Nothing polls the tasks
\* table for PENDING or RETRY_WAITING rows, so a task without either would
\* wait for ever.
NoLostWakeup ==
  \A t \in Tasks : task[t].status \in { "PENDING", "RETRY_WAITING" } =>
    \/ \E e \in DOMAIN outbox : e.task = t /\ outbox[e].status # "PUBLISHED"
    \/ \E m \in undelivered \cup pel : m.event.task = t /\ Pending(m)

\* Every accepted task is brought to an end, through every crash, lost reply
\* and duplicate: it succeeds, fails, is dead-lettered or is deleted.
EveryTaskSettles ==
  \A t \in Tasks : task[t].status \in ActiveStates ~> task[t].status \notin ActiveStates

\* No message circulates for ever: the stream and its pending list drain.
StreamDrains == (undelivered \cup pel # {}) ~> (undelivered \cup pel = {})

\* What delivery does to the tables is what TaskLease allows.
ImplementsLease == Lease!Spec
=============================================================================
