---------------------------- MODULE MCTaskLease ----------------------------
(***************************************************************************)
(* TaskLease on a small instance.  Two tasks of one document race for its  *)
(* next generation, two workers let one be stale while the other runs.     *)
(***************************************************************************)
EXTENDS TaskLease, TLC

WorkerSymmetry == Permutations(Workers)
=============================================================================
