SPECIFICATION FairSpec
CONSTANTS
  Thread = {1, 2}
  Container = {1, 2}
  MaxBrowsers = 2
  MaxCalls = 2
  SectionCalls = 1
  MaxEvents = 2
  EventCap = 1
  Ops <- ToolsAndOpens
  Faults = {"die", "close", "stop", "exit"}
  Driven = {1}
INVARIANTS TypeOK  BrowsersOwned
PROPERTIES OwnAnswer  
CHECK_DEADLOCK FALSE
