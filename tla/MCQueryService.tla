--------------------------- MODULE MCQueryService --------------------------
(***************************************************************************)
(* QueryService on a small instance.  Questions that have not been asked   *)
(* yet differ in their number only and are asked in its order, the first   *)
(* by a given owner, since owners are alike; one of the first two may be   *)
(* answered as a stream, a third one is asked once a knowledge base has    *)
(* been deleted and is not answered.  One of two knowledge bases may be    *)
(* deleted: after the second there is no owner left to find anything.      *)
(***************************************************************************)
EXTENDS QueryService

CONSTANT FirstOwner  \* the owner who asks the first question

QuestionsNext ==
  /\ QueryNext
  /\ \A q \in Queries : query'[q].pc # "idle" => \A r \in 1..q : query'[r].pc # "idle"
  /\ query'[1].owner \in {Nobody, FirstOwner}
  /\ Cardinality({q \in Queries : query'[q].streams}) <= 1
  /\ Cardinality(deleted') <= 1
  /\ query'[3].role = "user" /\ ~query'[3].streams
  /\ query'[3].pc # "idle" => deleted # {}
QuestionsSpec == QueryInit /\ [][QuestionsNext]_queryVars
=============================================================================
