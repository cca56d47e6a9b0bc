SPECIFICATION FairSpec
CONSTANTS
  host = host  vm = vm  g1 = g1  g2 = g2  g3 = g3  NoToken = NoToken
  Node = {host, vm}
  Host = host
  Token = {g1, g2}
  NodeOf <- Asked
  OfflineAfter = 1
  MaxClock = 3
  MaxCrashes = 1
  Calls = {"heartbeat", "sweep", "stream"}
INVARIANTS OnlineHasSession
PROPERTIES RegisteringEnds RevokedStreamsClose
CHECK_DEADLOCK FALSE
