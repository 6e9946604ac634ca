\* Does the index of a published re-ingestion stay as it is?  It does not.
CONSTANTS
  t1 = t1
  t2 = t2
  d1 = d1
  w1 = w1
  w2 = w2
  None = None
  Tasks = {t1, t2}
  Docs = {d1}
  Workers = {w1, w2}
  MaxAttempts = 3
  MaxActiveTasks = 1
  MaxRetries = 0
  Parses <- MCParses

SPECIFICATION Spec

PROPERTY PublishedIsFinal

CHECK_DEADLOCK FALSE
