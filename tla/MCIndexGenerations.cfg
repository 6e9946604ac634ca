\* An upload and a re-ingestion of one document, two workers, two parses that differ.
CONSTANTS
  t1 = t1
  t2 = t2
  d1 = d1
  w1 = w1
  w2 = w2
  None = None
  Tasks = {t1, t2}
  Docs = {d1}
  Workers = {w1, w2}
  MaxAttempts = 3
  MaxActiveTasks = 1
  MaxRetries = 0
  Parses <- MCParses

SPECIFICATION Spec
SYMMETRY IdSymmetry

INVARIANTS
  TypeOK
  PublishedIsSearchable
  QueriesSeePublishedOnly
  ExactUnlessParsesDiffer
  ReadyMeansSearchable

CHECK_DEADLOCK FALSE
