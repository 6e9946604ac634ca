\* One worker that crashes and restarts, a manual retry, one fault: liveness.
CONSTANTS
  t1 = t1
  d1 = d1
  w1 = w1
  p1 = p1
  None = None
  Tasks = {t1}
  Docs = {d1}
  Workers = {w1}
  Publishers = {p1}
  MaxAttempts = 3
  MaxActiveTasks = 1
  MaxRetries = 1
  MaxFaults = 1

SPECIFICATION LiveSpec

INVARIANT NoLostWakeup

PROPERTIES
  EveryTaskSettles
  StreamDrains

CHECK_DEADLOCK FALSE
