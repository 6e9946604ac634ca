------------------------ MODULE MCIndexGenerations ------------------------
(***************************************************************************)
(* IndexGenerations on small instances: one document and two parses of it, *)
(* a complete one and a partial one that finds fewer chunks and another    *)
(* relation.                                                               *)
(***************************************************************************)
EXTENDS IndexGenerations, TLC

MCParses ==
  { [ chunks |-> 2, relations |-> {"r1"}, partial |-> FALSE ],
    [ chunks |-> 1, relations |-> {"r2"}, partial |-> TRUE ] }

IdSymmetry == Permutations(Workers) \cup Permutations(Tasks)
=============================================================================
