------------------------- MODULE MCDocumentStorage -------------------------
(***************************************************************************)
(* DocumentStorage on small instances: a small file fits twice into the    *)
(* storage quota of 2, a small and a large one do not fit together.        *)
(***************************************************************************)
EXTENDS DocumentStorage, TLC

CONSTANTS small, large, kb,
  x, y,     \* the tenants
  d2        \* the request that is made in the race only

MCSize == (small :> 1) @@ (large :> 2)
MCKbOf == (small :> kb) @@ (large :> kb)

\* Documents and tenants are only compared for equality.
IdSymmetry == Permutations(Docs) \cup Permutations(Tenants)

\* Two situations.  The race: both requests are of tenant x, nobody
\* reconciles.  The audit: the other request alone, of either tenant.
Race == \A d \in Docs : upload[d].tenant = x

\* In both, only a knowledge base that a request is made for is deleted.
BasesInUse == { BaseOf(d) : d \in IF Race THEN Docs ELSE Docs \ {d2} }

MCInit == Init /\ (Race \/ (upload[d2].tenant = y /\ upload[d2].file = small))
MCNext == /\ Next
          /\ IF Race THEN report' = report ELSE upload'[d2] = upload[d2]
          /\ dropped' \subseteq BasesInUse
MCSpec == MCInit /\ [][MCNext]_vars
=============================================================================
