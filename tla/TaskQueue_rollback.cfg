SPECIFICATION FairSpec
CONSTANTS
  t1 = t1  t2 = t2  t3 = t3  t4 = t4
  container = container  repository = repository  mirror = mirror
  Task = {t1}
  Key = {container, repository, mirror}
  KeysOf <- Contended
  MaxRunning = 2
  Rollback = {t1}
  Restored = {}
  Calls = {}
  StoreMayFail = FALSE
PROPERTIES FailedBodyIsUndone
CHECK_DEADLOCK FALSE
