------------------------------ MODULE TaskFSM ------------------------------
(***************************************************************************)
(* The ingestion task's finite state machine (src/src/models/fsm.py): the  *)
(* eight states, the terminal ones, and the table of allowed transitions   *)
(* that update_task_status_cas and complete_task_with_generation consult.  *)
(***************************************************************************)

TaskState ==
  { "PENDING", "RUNNING", "RETRY_WAITING", "SUCCEEDED",
    "PARTIAL_SUCCEEDED", "FAILED", "DEAD_LETTER", "CANCELLED" }

TERMINAL_STATES == { "SUCCEEDED", "DEAD_LETTER", "CANCELLED" }

ALLOWED_TRANSITIONS ==
  [ s \in TaskState |->
      CASE s = "PENDING"           -> { "RUNNING", "CANCELLED" }
        [] s = "RUNNING"           -> { "SUCCEEDED", "PARTIAL_SUCCEEDED",
                                        "FAILED", "RETRY_WAITING", "CANCELLED" }
        [] s = "RETRY_WAITING"     -> { "RUNNING", "DEAD_LETTER", "CANCELLED" }
        [] s = "FAILED"            -> { "RETRY_WAITING", "DEAD_LETTER",
                                        "PENDING", "CANCELLED" }
        [] s = "PARTIAL_SUCCEEDED" -> { "PENDING" }
        [] OTHER                   -> {} ]

can_transition(from, to) ==
  /\ from \in TaskState
  /\ to \in ALLOWED_TRANSITIONS[from]

\* Task states that hold a slot of the tenant's active-task quota and that
\* the worker fleet still has to bring to an end.
ActiveStates == { "PENDING", "RUNNING", "RETRY_WAITING" }
=============================================================================
