SPECIFICATION Spec
CONSTANTS
  MaxPid = 2  MaxGen = 3  MaxTasks = 2  MaxRpcs = 0  MaxCrashes = 2
  Tasks = {"start", "stop", "restart"}
  Rpcs = {}
  Faults = {"hang", "crash", "reboot", "shutdown"}
  Recycled = {"mine", "theirs"}
INVARIANTS NoStaleRunning
CHECK_DEADLOCK FALSE
