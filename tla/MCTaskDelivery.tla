--------------------------- MODULE MCTaskDelivery ---------------------------
(***************************************************************************)
(* TaskDelivery on small instances.  Workers and publishers are each       *)
(* interchangeable in the safety run; the liveness run uses no symmetry.   *)
(***************************************************************************)
EXTENDS TaskDelivery, TLC

ProcessSymmetry == Permutations(Workers) \cup Permutations(Publishers)
=============================================================================
