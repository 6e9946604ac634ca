\* One upload of one document, attempted once.
CONSTANTS
  t1 = t1
  t2 = t2
  d1 = d1
  w1 = w1
  w2 = w2
  None = None
  Tasks = {t1}
  Docs = {d1}
  Workers = {w1}
  MaxAttempts = 1
  MaxActiveTasks = 1
  MaxRetries = 0
  Parses <- MCParses

SPECIFICATION Spec

INVARIANT ReadyIsPublished

CHECK_DEADLOCK FALSE
