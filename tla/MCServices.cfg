\* Each part of the platform on a small instance of its own, or three questions of
\* two owners who use one session id.
CONSTANTS
  None = None
  NoCall = NoCall

  Callers = {1, 2, 3, 4}
  Users = {u1, u2}
  Keys = {k1, k2}
  Capacity = 1

  Requests = {1, 2, 3}
  QuotaScopes = {s1, s2}
  FirstScope = s1
  MaxRpm = 2
  MaxTpm = 3
  Window = 3
  MaxScopes = 1
  TokenCosts = {1, 2, 4}
  Timeouts = {1, 3}
  MaxTime = 5

  lt = lt
  gt = gt
  slash = slash
  letter = letter
  Symbols = {lt, gt, slash, letter}
  Opening <- MCOpening
  Closing <- MCClosing
  MaxDelta = 3
  MaxText = 7

  Ops = {1, 2, 3}
  Procs = {p1}
  TenantIds = {t1, t2}
  FirstTenant = t1
  KbIds = {b1}
  Fields = {f1, f2}
  MaxTenants = 1
  MaxVersions = 1
  MaxOverlays = 1

  kb = kb
  doc = doc
  same_name = same_name
  task = task
  outbox_event = outbox_event
  Rows = {kb, same_name, doc, task, outbox_event}
  TableOf <- MCTableOf
  ParentsOf <- MCParentsOf
  KeyOf <- MCKeyOf
  Related <- MCRelated
  ReadOrder <- MCReadOrder
  MaxChanges = 7

  Queries = {1, 2, 3}
  Sessions = {s}
  Owners = {ann, bob}
  FirstOwner = ann
  Processes = {p1}
  Modes = {"hybrid"}
  MaxCached = 2
  MaxTokens = 1
  Nobody = Nobody

SPECIFICATION ServicesSpec

INVARIANTS
  TypeOK
  PinnedEntriesStay
  WaitersHaveACreator
  LimitsHold
  ThinkingIsRemoved
  LoadsSeeEveryUpdate
  QueryTypeOK
  AnswersAreComplete
  ContextIsOwn

PROPERTIES
  RefusalsAreJustified
  RestoreFailureHasACause
  HistoryOnlyGrows

CHECK_DEADLOCK FALSE
