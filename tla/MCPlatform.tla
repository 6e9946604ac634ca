----------------------------- MODULE MCPlatform ----------------------------
(***************************************************************************)
(* The parts of the platform that keep state of their own and do not touch *)
(* each other's, on small instances: the tenant cache, the rate limiter,   *)
(* the thinking filter, the tenants' settings and the backup script.  A    *)
(* behaviour picks one part and runs it, the others stand still, so the    *)
(* parts' state spaces add up instead of multiplying.                      *)
(***************************************************************************)
EXTENDS TenantCache, RateLimiter, ThinkingFilter, TenantConfig, MCBackupExport

CONSTANTS lt, gt, slash, letter        \* symbols of the provider's text

VARIABLE part

MCOpening == <<lt, letter, gt>>
MCClosing == <<lt, slash, gt>>

\* Calls that have not started yet differ in nothing but their number: they
\* start in its order.
InOrder(started) == \A n \in started : 1..n \subseteq started

Parts == {"cache", "limiter", "filter", "settings", "backup"}

MCInit ==
  /\ part \in Parts
  /\ CacheInit /\ LimiterInit /\ FilterInit /\ SettingsInit /\ BackupInit

MCNext ==
  /\ part' = part
  /\ \/ part = "cache" /\ CacheNext /\ InOrder({c \in Callers : call'[c].pc # "idle"})
        /\ UNCHANGED <<limiterVars, thinkVars, settingVars, backupVars>>
     \/ part = "limiter" /\ LimiterNext /\ InOrder({r \in Requests : acq'[r].pc # "idle"})
        /\ UNCHANGED <<cacheVars, thinkVars, settingVars, backupVars>>
     \/ part = "filter" /\ FilterNext
        /\ UNCHANGED <<cacheVars, limiterVars, settingVars, backupVars>>
     \/ part = "settings" /\ SettingsNext /\ InOrder({o \in Ops : op'[o].pc # "idle"})
        /\ UNCHANGED <<cacheVars, limiterVars, thinkVars, backupVars>>
     \/ part = "backup" /\ BackupNext
        /\ UNCHANGED <<cacheVars, limiterVars, thinkVars, settingVars>>

MCSpec == MCInit /\ [][MCNext]_<<part, cacheVars, limiterVars, thinkVars, settingVars, backupVars>>

\* Every part keeps its types and its bounds: the capacities of the caches, the
\* scopes and events of the limiter, the length of the filter's buffer, the
\* constraints of the database.
TypeOK == CacheTypeOK /\ LimiterTypeOK /\ FilterTypeOK /\ SettingsTypeOK /\ BackupTypeOK
=============================================================================
