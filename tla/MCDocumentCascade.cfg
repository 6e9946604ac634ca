\* The row of a document is to outlive the document's file.
CONSTANTS
  d1 = d1
  d2 = d2
  small = small
  large = large
  x = x
  y = y
  kb = kb
  None = None
  Docs = {d1}
  Files = {small, large}
  KnowledgeBases = {kb}
  KbOf <- MCKbOf
  Tenants = {x}
  Scopes = {}
  Size <- MCSize
  MaxStorage = 2
  MaxDocuments = 2
  MaxActiveTasks = 2

SPECIFICATION Spec
PROPERTY RowOutlivesFile

CHECK_DEADLOCK FALSE
