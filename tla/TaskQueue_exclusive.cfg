SPECIFICATION Spec
CONSTANTS
  t1 = t1  t2 = t2  t3 = t3  t4 = t4
  container = container  repository = repository  mirror = mirror
  Task = {t1, t2, t3, t4}
  Key = {container, repository, mirror}
  KeysOf <- Contended
  MaxRunning = 2
  Rollback = {}
  Restored = {}
  Calls <- UserCalls
  StoreMayFail = FALSE
INVARIANTS TypeOK BodiesExclusive IdleMeansIdle
PROPERTIES GateImplemented
CHECK_DEADLOCK FALSE
