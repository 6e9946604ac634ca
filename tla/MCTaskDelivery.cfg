\* Outbox, stream and message loop with two workers and two publishers: safety.
CONSTANTS
  t1 = t1
  d1 = d1
  w1 = w1
  w2 = w2
  p1 = p1
  p2 = p2
  None = None
  Tasks = {t1}
  Docs = {d1}
  Workers = {w1, w2}
  Publishers = {p1, p2}
  MaxAttempts = 3
  MaxActiveTasks = 1
  MaxRetries = 0
  MaxFaults = 0

SPECIFICATION Spec
SYMMETRY ProcessSymmetry

INVARIANTS
  TypeOK
  NoLostWakeup

PROPERTY ImplementsLease

CHECK_DEADLOCK FALSE
