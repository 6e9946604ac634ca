-------------------------- MODULE DocumentVersions --------------------------
(***************************************************************************)
(* What ingestion promises about a document's visible version, without     *)
(* leases, tokens, retries or workers: a document starts at version 1; its *)
(* version changes only when one of its jobs publishes, by at most one     *)
(* step and never backwards; a job publishes at most once; deleting a      *)
(* document closes all of its jobs for good.  TaskLease implements this.   *)
(***************************************************************************)
EXTENDS Naturals

CONSTANTS Jobs, Docs, None

VARIABLES
  document,   \* ABSENT, PRESENT or DELETED
  version,    \* the version readers see
  job,        \* unborn, open, published or closed
  about       \* the document a job belongs to

vars == <<document, version, job, about>>

TypeOK ==
  /\ document \in [Docs -> { "ABSENT", "PRESENT", "DELETED" }]
  /\ version \in [Docs -> Nat]
  /\ job \in [Jobs -> { "unborn", "open", "published", "closed" }]
  /\ about \in [Jobs -> Docs \cup {None}]

Init ==
  /\ document = [d \in Docs |-> "ABSENT"]
  /\ version = [d \in Docs |-> 0]
  /\ job = [j \in Jobs |-> "unborn"]
  /\ about = [j \in Jobs |-> None]

\* A job is opened for a document, new or present.
Open(d, j) ==
  /\ document[d] \in { "ABSENT", "PRESENT" }
  /\ job[j] = "unborn"
  /\ document' = [document EXCEPT ![d] = "PRESENT"]
  /\ version' = [version EXCEPT ![d] = IF document[d] = "ABSENT" THEN 1 ELSE @]
  /\ job' = [job EXCEPT ![j] = "open"]
  /\ about' = [about EXCEPT ![j] = d]

Publish(j) ==
  /\ job[j] = "open"
  /\ document[about[j]] = "PRESENT"
  /\ job' = [job EXCEPT ![j] = "published"]
  /\ \E v \in { version[about[j]], version[about[j]] + 1 } :
       version' = [version EXCEPT ![about[j]] = v]
  /\ UNCHANGED <<document, about>>

\* A job ends without publishing (its result was incomplete).
Close(j) ==
  /\ job[j] = "open"
  /\ job' = [job EXCEPT ![j] = "closed"]
  /\ UNCHANGED <<document, version, about>>

Delete(d) ==
  /\ document[d] = "PRESENT"
  /\ document' = [document EXCEPT ![d] = "DELETED"]
  /\ job' = [j \in Jobs |-> IF about[j] = d THEN "closed" ELSE job[j]]
  /\ UNCHANGED <<version, about>>

Next ==
  \/ \E d \in Docs, j \in Jobs : Open(d, j)
  \/ \E j \in Jobs : Publish(j) \/ Close(j)
  \/ \E d \in Docs : Delete(d)

Spec == Init /\ [][Next]_vars
=============================================================================
