\* A repair, asked for one of two tenants, is to take data of no document in the
\* table.
CONSTANTS
  d1 = d1
  d2 = d2
  small = small
  large = large
  x = x
  y = y
  kb = kb
  None = None
  Docs = {d1}
  Files = {small, large}
  KnowledgeBases = {kb}
  KbOf <- MCKbOf
  Tenants = {x, y}
  Scopes = {x}
  Size <- MCSize
  MaxStorage = 2
  MaxDocuments = 2
  MaxActiveTasks = 2

SPECIFICATION Spec
PROPERTY RepairTakesOrphansOnly

CHECK_DEADLOCK FALSE
