SPECIFICATION Spec
CONSTANTS
  t1 = t1  t2 = t2  daemon = daemon  desktop = desktop  d1 = d1  d2 = d2  u1 = u1
  Task = {t1, t2}
  Process = {daemon, desktop}
  Thread = {d1, u1}
  ProcessOf <- Home
  Targets = {"running", "failed", "rolling_back"}
  StoreMayFail = TRUE
  MaxCrashes = 2
INVARIANTS TypeOK AcknowledgedSurvives NoZombies
CHECK_DEADLOCK FALSE
