\* Ownership, fencing and publication: safety and refinement.
CONSTANTS
  t1 = t1
  t2 = t2
  d1 = d1
  w1 = w1
  w2 = w2
  None = None
  Tasks = {t1, t2}
  Docs = {d1}
  Workers = {w1, w2}
  MaxAttempts = 3
  MaxActiveTasks = 2
  MaxRetries = 1

SPECIFICATION Spec
SYMMETRY WorkerSymmetry

INVARIANTS
  TypeOK
  TokenCountsEpochs
  ExecutionsAreFenced
  RunningHasLease
  AttemptBudget
  SuccessIsPublished
  ActiveIsBacked

PROPERTIES
  GenerationNeverDecreases
  StaleWorkerIsHarmless
  LeaseIsRespected
  OnlyKnownBypasses
  ImplementsVersions

CHECK_DEADLOCK FALSE
