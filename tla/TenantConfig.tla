---------------------------- MODULE TenantConfig ---------------------------
(***************************************************************************)
(* The settings of a tenant that requests of several API processes publish *)
(* and load: versioned runtime configurations (src/src/core/tenant/        *)
(* config_manager.py) and prompt overlays of the tenant and of its         *)
(* knowledge bases (prompts.py), each with its cache per process.  A step  *)
(* is what happens between two awaits.                                     *)
(*                                                                         *)
(* Settings are [field -> value] with None for the default; a publication  *)
(* sets one field to the name of its request.                              *)
(***************************************************************************)
EXTENDS Naturals, SequencesExt

CONSTANTS
  Ops,          \* requests, each publishes or loads once
  Procs,        \* API processes
  TenantIds,
  KbIds,        \* knowledge bases of the tenants
  Fields,       \* configuration fields, or the parts of an overlay
  MaxTenants,   \* MAX_CACHED_TENANTS
  MaxVersions,  \* MAX_VERSIONS_PER_TENANT
  MaxOverlays,  \* MAX_CACHED_OVERLAYS
  None          \* no knowledge base (tenant-wide), or a default value

ASSUME SettingsAssumption ==
  /\ {MaxTenants, MaxVersions, MaxOverlays} \subseteq Nat \ {0}
  /\ Procs # {}
  /\ None \notin [Fields -> Ops \cup {None}]

VARIABLES
  versions,   \* tenant_configs: tenant -> its rows, [version, data]
  overlays,   \* tenant_prompts: rows [tenant, kb, data, by]
  configs,    \* process -> _active_configs, oldest first
  archive,    \* process -> _version_history: {[tenant, version, data]}
  prompts,    \* process -> _tenant_overlays, oldest first
  op,         \* request -> where it is
  truth       \* history: scope -> what the committed publications come to

settingVars == <<versions, overlays, configs, archive, prompts, op, truth>>

Defaults == [f \in Fields |-> None]
Scopes == TenantIds \X (KbIds \cup {None})
NotStarted == [pc |-> "idle", kind |-> "load", proc |-> CHOOSE p \in Procs : TRUE,
  tenant |-> None, kb |-> None, field |-> None, rows |-> {}, expected |-> Defaults,
  result |-> Defaults]
Kinds == {"publish", "load", "set_prompt", "load_prompt"}
Data == [Fields -> Ops \cup {None}]

SettingsTypeOK ==
  /\ \A t \in TenantIds : \A r \in versions[t] : r.version \in Nat \ {0} /\ r.data \in Data
  /\ \A r \in overlays : r.tenant \in TenantIds /\ r.kb \in KbIds \cup {None} /\ r.data \in Data
  /\ \A p \in Procs : Len(configs[p]) <= MaxTenants /\ Len(prompts[p]) <= MaxOverlays
  /\ \A p \in Procs, t \in TenantIds :
       Cardinality({e \in archive[p] : e.tenant = t}) <= MaxVersions
  /\ \A o \in Ops : op[o].kind \in Kinds /\ op[o].result \in Data

SettingsInit ==
  /\ versions = [t \in TenantIds |-> {}] /\ overlays = {}
  /\ configs = [p \in Procs |-> <<>>] /\ prompts = [p \in Procs |-> <<>>]
  /\ archive = [p \in Procs |-> {}]
  /\ op = [o \in Ops |-> NotStarted]
  /\ truth = [s \in {"config"} \X TenantIds \cup {"prompt"} \X Scopes |-> None]

(***************************************************************************)
(* The caches.  A dictionary keeps its insertion order, an overwritten key *)
(* keeps its place; what is inserted over the limit drops the oldest.      *)
(***************************************************************************)
Has(cache, k) == \E i \in DOMAIN cache : cache[i].key = k
Get(cache, k) == cache[CHOOSE i \in DOMAIN cache : cache[i].key = k].data
Pop(cache, k) ==
  IF Has(cache, k) THEN RemoveAt(cache, CHOOSE i \in DOMAIN cache : cache[i].key = k) ELSE cache
Put(cache, k, d, limit) ==
  IF Has(cache, k)
  THEN [i \in DOMAIN cache |-> IF cache[i].key = k THEN [key |-> k, data |-> d] ELSE cache[i]]
  ELSE Append(IF Len(cache) >= limit THEN Tail(cache) ELSE cache, [key |-> k, data |-> d])

Latest(rows) == CHOOSE r \in rows : \A q \in rows : q.version <= r.version

\* _cache_config: the active configuration and its version, both bounded.
CacheConfig(p, t, c) ==
  LET evicted == IF ~Has(configs[p], t) /\ Len(configs[p]) >= MaxTenants
                 THEN {configs[p][1].key} ELSE {}
      kept == {e \in archive[p] : e.tenant \notin evicted
                 /\ ~(e.tenant = t /\ e.version = c.version)}
                \cup {[tenant |-> t, version |-> c.version, data |-> c.data]}
      Newer(e) == {d \in kept : d.tenant = t /\ d.version > e.version}
  IN  /\ configs' = [configs EXCEPT ![p] = Put(@, t, c, MaxTenants)]
      /\ archive' = [archive EXCEPT ![p] =
           {e \in kept : e.tenant # t \/ Cardinality(Newer(e)) < MaxVersions}]

(***************************************************************************)
(* publish_config_db, set_tenant_overlay_db: the advisory lock of the      *)
(* scope, the row as it is then, the commit that frees the lock, the cache.*)
(***************************************************************************)
Start(o, kind, p, t, kb, f) ==
  /\ op[o].pc = "idle"
  /\ kind \in {"publish", "load"} => kb = None
  /\ (kind \in {"load", "load_prompt"}) <=> (f = None)
  /\ op' = [op EXCEPT ![o] = [NotStarted EXCEPT !.pc = "begun", !.kind = kind, !.proc = p,
                                !.tenant = t, !.kb = kb, !.field = f]]
  /\ UNCHANGED <<versions, overlays, configs, archive, prompts, truth>>

\* What is left of a request that has ended: what a load answered.
Finished(o, pc, result) == [op EXCEPT ![o] =
  [NotStarted EXCEPT !.pc = pc, !.result = result,
                     !.expected = IF pc = "loaded" THEN op[o].expected ELSE Defaults]]

ScopeOf(o) == IF op[o].kind \in {"publish", "load"} THEN <<"config", op[o].tenant>>
              ELSE <<"prompt", <<op[o].tenant, op[o].kb>>>>

\* pg_advisory_xact_lock: held to the end of the transaction.
\* Mutant: only the row lock is left, which does not cover a row that is not there yet.
HoldersByRow(o) == {}
Holders(o) == {q \in Ops \ {o} : op[q].pc \in {"locked", "read"} /\ ScopeOf(q) = ScopeOf(o)}

Lock(o) ==
  /\ op[o].pc = "begun" /\ op[o].kind \in {"publish", "set_prompt"}
  /\ Holders(o) = {}
  /\ op' = [op EXCEPT ![o].pc = "locked"]
  /\ UNCHANGED <<versions, overlays, configs, archive, prompts, truth>>

RowsFor(o) ==
  IF op[o].kind = "publish" THEN versions[op[o].tenant]
  ELSE {r \in overlays : r.tenant = op[o].tenant /\ r.kb = op[o].kb}

\* The row is read; scalar_one_or_none raises on two overlays of one scope.
ReadRow(o) ==
  /\ op[o].pc = "locked"
  /\ op' = IF op[o].kind = "set_prompt" /\ Cardinality(RowsFor(o)) > 1
           THEN Finished(o, "failed", Defaults)
           ELSE [op EXCEPT ![o].pc = "read", ![o].rows = RowsFor(o)]
  /\ UNCHANGED <<versions, overlays, configs, archive, prompts, truth>>

\* The first publication is version 1, the number of the unpublished default.
NewVersion(o) ==
  LET base == IF op[o].rows = {} THEN [version |-> 0, data |-> Defaults] ELSE Latest(op[o].rows)
  IN  [version |-> base.version + 1, data |-> [base.data EXCEPT ![op[o].field] = o]]

Committed(o) ==
  truth' = [truth EXCEPT ![ScopeOf(o)] =
              [IF @ = None THEN Defaults ELSE @ EXCEPT ![op[o].field] = o]]

\* ix_tenant_config_version: a version that exists already is refused.
CommitConfig(o) ==
  /\ op[o].pc = "read" /\ op[o].kind = "publish"
  /\ ~\E r \in versions[op[o].tenant] : r.version = NewVersion(o).version
  /\ versions' = [versions EXCEPT ![op[o].tenant] = @ \cup {NewVersion(o)}]
  /\ Committed(o)
  /\ op' = [op EXCEPT ![o].pc = "committed", ![o].rows = {NewVersion(o)}]
  /\ UNCHANGED <<overlays, configs, archive, prompts>>

\* An overlay is inserted, or the row that was read is overwritten in place.  A
\* second overlay of a scope is refused: ix_tenant_prompts_scope for a knowledge
\* base, uq_tenant_prompts_tenant_scope_null, which init_db adds, for the tenant.
CommitPrompt(o) ==
  LET q == op[o]
      row == IF q.rows = {} THEN [tenant |-> q.tenant, kb |-> q.kb, by |-> o,
                                  data |-> [Defaults EXCEPT ![q.field] = o]]
             ELSE LET r == CHOOSE r \in q.rows : TRUE IN [r EXCEPT !.data[q.field] = o]
  IN
  /\ q.pc = "read" /\ q.kind = "set_prompt"
  /\ q.rows = {} => RowsFor(o) = {}
  /\ overlays' = (overlays \ {r \in overlays : r.by = row.by}) \cup {row}
  /\ Committed(o)
  /\ op' = [op EXCEPT ![o].pc = "committed"]
  /\ UNCHANGED <<versions, configs, archive, prompts>>

\* The update is not valid, or the commit fails: everything is as before.
PublishFails(o) ==
  /\ op[o].pc = "read"
  /\ op' = Finished(o, "failed", Defaults)
  /\ UNCHANGED <<versions, overlays, configs, archive, prompts, truth>>

\* The cache of the process follows after the commit.
CacheCommitted(o) ==
  /\ op[o].pc = "committed"
  /\ op' = Finished(o, "done", Defaults)
  /\ IF op[o].kind = "publish"
     THEN /\ CacheConfig(op[o].proc, op[o].tenant, Latest(op[o].rows))
          /\ UNCHANGED prompts
     ELSE LET cache == prompts[op[o].proc]
              k == <<op[o].tenant, op[o].kb>>
              old == IF Has(cache, k) THEN Get(cache, k) ELSE Defaults
          IN  /\ prompts' = [prompts EXCEPT ![op[o].proc] =
                   Put(cache, k, [old EXCEPT ![op[o].field] = o], MaxOverlays)]
              /\ UNCHANGED <<configs, archive>>
  /\ UNCHANGED <<versions, overlays, truth>>

(***************************************************************************)
(* load_latest_config_db, load_snapshot_db: the select, then, later, the   *)
(* cache and the answer in one go.                                         *)
(***************************************************************************)
OrDefaults(d) == IF d = None THEN Defaults ELSE d

\* An overlay of the knowledge base replaces the tenant's as a whole.
ExpectedNow(o) ==
  LET t == op[o].tenant IN
  IF op[o].kind = "load" THEN OrDefaults(truth[<<"config", t>>])
  ELSE IF truth[ScopeOf(o)] # None THEN truth[ScopeOf(o)]
  ELSE OrDefaults(truth[<<"prompt", <<t, None>>>>])

Select(o) ==
  /\ op[o].pc = "begun" /\ op[o].kind \in {"load", "load_prompt"}
  /\ op' = [op EXCEPT ![o].pc = "selected", ![o].expected = ExpectedNow(o),
       ![o].rows = IF op[o].kind = "load" THEN versions[op[o].tenant]
                   ELSE {r \in overlays : r.tenant = op[o].tenant /\ r.kb \in {op[o].kb, None}}]
  /\ UNCHANGED <<versions, overlays, configs, archive, prompts, truth>>

LoadConfig(o) ==
  LET c == IF op[o].rows = {} THEN [version |-> 1, data |-> Defaults] ELSE Latest(op[o].rows) IN
  /\ op[o].pc = "selected" /\ op[o].kind = "load"
  /\ CacheConfig(op[o].proc, op[o].tenant, c)
  /\ op' = Finished(o, "loaded", c.data)
  /\ UNCHANGED <<versions, overlays, prompts, truth>>

\* get_snapshot
Snapshot(cache, t, kb) ==
  IF kb # None /\ Has(cache, <<t, kb>>) THEN Get(cache, <<t, kb>>)
  ELSE IF Has(cache, <<t, None>>) THEN Get(cache, <<t, None>>)
  ELSE Defaults

\* The row of a scope, if there is one; were there two, either may come last.
Overwrite(cache, t, kb, rows) ==
  IF \E r \in rows : r.kb = kb
  THEN Put(cache, <<t, kb>>, (CHOOSE r \in rows : r.kb = kb).data, MaxOverlays)
  ELSE cache

\* Both scopes are dropped from the cache; the rows come with kb_id IS NULL first.
LoadPrompt(o) ==
  LET q == op[o]
      cleared == Pop(Pop(prompts[q.proc], <<q.tenant, None>>), <<q.tenant, q.kb>>)
      cache == Overwrite(Overwrite(cleared, q.tenant, None, q.rows), q.tenant, q.kb, q.rows)
  IN
  /\ q.pc = "selected" /\ q.kind = "load_prompt"
  /\ prompts' = [prompts EXCEPT ![q.proc] = cache]
  /\ op' = Finished(o, "loaded", Snapshot(cache, q.tenant, q.kb))
  /\ UNCHANGED <<versions, overlays, configs, archive, truth>>

SettingsNext ==
  \/ \E o \in Ops, kind \in Kinds, p \in Procs, t \in TenantIds,
        f \in Fields \cup {None}, kb \in KbIds \cup {None} : Start(o, kind, p, t, kb, f)
  \/ \E o \in Ops :
       \/ Lock(o) \/ ReadRow(o) \/ CommitConfig(o) \/ CommitPrompt(o) \/ PublishFails(o)
       \/ CacheCommitted(o) \/ Select(o) \/ LoadConfig(o) \/ LoadPrompt(o)

SettingsSpec == SettingsInit /\ [][SettingsNext]_settingVars

(***************************************************************************)
(* Properties                                                              *)
(***************************************************************************)

\* Every load answers with all updates committed before its select and nothing
\* else, whichever process published them, whatever the caches hold, lag behind
\* or have evicted, and also when two first publications race.  And what a
\* publication has read, of versions or of an overlay, is still what the table
\* holds until it commits: it neither overwrites an update it has not seen nor
\* runs into a version or an overlay that another one has created since.
LoadsSeeEveryUpdate ==
  /\ \A o \in Ops : op[o].pc = "loaded" => op[o].result = op[o].expected
  /\ \A o \in Ops : op[o].pc = "read" => RowsFor(o) = op[o].rows
=============================================================================
