SPECIFICATION Spec
CONSTANTS
  t1 = t1  t2 = t2  t3 = t3  t4 = t4
  container = container  repository = repository  mirror = mirror
  Task = {t1, t2, t3}
  Key = {container, repository, mirror}
  KeysOf <- Contended
  MaxRunning = 2
  Rollback = {}
  Restored = {}
  Calls <- AllCalls
  StoreMayFail = TRUE
INVARIANTS Accounting
PROPERTIES ClosedStays CancelWins
CHECK_DEADLOCK FALSE
