------------------------------ MODULE MCServices ----------------------------
(***************************************************************************)
(* What shares no state with the documents and their tasks: either one of  *)
(* the parts of MCPlatform, or the questions of MCQueryService.  A         *)
(* behaviour is of one of them, the others stand still.  Tenants are       *)
(* alike, and so are the scopes of the limiter: which of them the first    *)
(* request is for is given.                                                *)
(***************************************************************************)
EXTENDS MCPlatform, MCQueryService

CONSTANTS FirstTenant, FirstScope

VARIABLE side

partVars == <<part, cacheVars, limiterVars, thinkVars, settingVars, backupVars>>

ServicesInit ==
  /\ MCInit /\ QueryInit
  /\ side \in {"parts", "questions"}
  /\ side = "questions" => part = "cache"

ServicesNext ==
  /\ side' = side
  /\ \/ /\ side = "parts" /\ MCNext
        /\ op'[1].tenant \in {None, FirstTenant}
        /\ acq'[1].scope \in {"none", FirstScope}
        /\ UNCHANGED queryVars
     \/ /\ side = "questions" /\ QuestionsNext
        /\ UNCHANGED partVars

ServicesSpec == ServicesInit /\ [][ServicesNext]_<<side, partVars, queryVars>>
=============================================================================
