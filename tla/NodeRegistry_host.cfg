SPECIFICATION Spec
CONSTANTS
  host = host  vm = vm  g1 = g1  g2 = g2  g3 = g3  NoToken = NoToken
  Node = {host, vm}
  Host = host
  Token = {g1, g2, g3}
  NodeOf <- Asked
  OfflineAfter = 1
  MaxClock = 2
  MaxCrashes = 1
  Calls = {"heartbeat", "deregister", "sweep"}
INVARIANTS TypeOK HostProtected
CHECK_DEADLOCK FALSE
