SPECIFICATION FairSpec
CONSTANTS
  MaxPid = 2  MaxGen = 2  MaxTasks = 2  MaxRpcs = 1  MaxCrashes = 1
  Tasks = {"start"}
  Rpcs = {"delete"}
  Faults = {"die", "reboot"}
  Recycled = {}
INVARIANTS TypeOK NoOrphanHost
PROPERTIES DeadHostReported CallsEnd
CHECK_DEADLOCK FALSE
