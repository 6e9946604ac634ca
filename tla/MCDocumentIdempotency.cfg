\* The second duplicate check is to rule out an IntegrityError.
CONSTANTS
  d1 = d1
  d2 = d2
  small = small
  large = large
  x = x
  y = y
  kb = kb
  None = None
  Docs = {d1, d2}
  Files = {small, large}
  KnowledgeBases = {kb}
  KbOf <- MCKbOf
  Tenants = {x}
  Scopes = {}
  Size <- MCSize
  MaxStorage = 2
  MaxDocuments = 2
  MaxActiveTasks = 2

SPECIFICATION Spec
SYMMETRY IdSymmetry

INVARIANT NoIntegrityError

CHECK_DEADLOCK FALSE
