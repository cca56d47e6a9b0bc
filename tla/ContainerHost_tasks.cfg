SPECIFICATION Spec
CONSTANTS
  MaxPid = 3  MaxGen = 2  MaxTasks = 3  MaxRpcs = 0  MaxCrashes = 0
  Tasks = {"start", "stop", "restart", "rebuild"}
  Rpcs = {}
  Faults = {"die", "hang", "bind"}
  Recycled = {}
INVARIANTS OneHost 
CHECK_DEADLOCK FALSE
