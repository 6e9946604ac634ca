--------------------------- MODULE MCBackupExport ---------------------------
(***************************************************************************)
(* BackupExport with the tables that an upload writes: a document in a     *)
(* knowledge base, its task, and the task's outbox event.                  *)
(***************************************************************************)
EXTENDS BackupExport, TLC

CONSTANTS kb, same_name, doc, task, outbox_event   \* rows of the backup

MCTableOf == (kb :> "knowledge_bases") @@ (same_name :> "knowledge_bases")
             @@ (doc :> "documents") @@ (task :> "tasks")
             @@ (outbox_event :> "task_outbox_events")
MCParentsOf == (kb :> {}) @@ (same_name :> {}) @@ (doc :> {kb}) @@ (task :> {kb, doc})
               @@ (outbox_event :> {task})
\* A knowledge base may be deleted and another created under its name.
MCKeyOf == [r \in Rows |-> "key"]
MCReadOrder == <<"knowledge_bases", "documents", "tasks", "task_outbox_events">>

\* TaskOutboxEvent has a foreign key to tasks and no relationship().
MCRelated == [knowledge_bases |-> {}, documents |-> {"knowledge_bases"},
              tasks |-> {"knowledge_bases", "documents"}, task_outbox_events |-> {}]
=============================================================================
