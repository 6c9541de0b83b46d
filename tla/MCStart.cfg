SPECIFICATION StartFairSpec
CONSTANTS
  Root = root
  Children = {a, b}
  api = api
  web = web
  Order <- TwoProcesses
  Operators = {c1, c2}
  MaxTabs = 5
  MaxPanes = 10
  MaxFaults = 3
  FaultCases = {{"overlap", "calls", "lost", "stops", "writers"}, {"runtime", "calls", "lost", "stops", "exits", "writers"}, {"calls", "lost", "stops"}, {"closes", "calls", "lost", "stops"}}
  Nothing = Nothing
INVARIANTS OneAgentAtHome GroupIsReconcilable
PROPERTIES RerunsConverge
CHECK_DEADLOCK FALSE
