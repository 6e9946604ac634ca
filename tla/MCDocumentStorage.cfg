\* Two upload requests of one tenant that race, or one upload request with
\* reconciliations of its tenant, of another and of all.
CONSTANTS
  d1 = d1
  d2 = d2
  small = small
  large = large
  x = x
  y = y
  kb = kb
  None = None
  Docs = {d1, d2}
  Files = {small, large}
  KnowledgeBases = {kb}
  KbOf <- MCKbOf
  Tenants = {x, y}
  Scopes = {None, x, y}
  Size <- MCSize
  MaxStorage = 2
  MaxDocuments = 2
  MaxActiveTasks = 2

SPECIFICATION MCSpec

INVARIANTS
  TypeOK
  OneDocumentPerFile
  QuotasHold
  DeletedFileIsGone

PROPERTY DataLossHasACause

CHECK_DEADLOCK FALSE
