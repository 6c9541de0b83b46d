SPECIFICATION FairSpec
CONSTANTS
  Delegations = {d1, d2}
  Remediations = {r1, r2}
  Handoffs = {h1, h2}
  Releases = {x1}
  Capacity = 1
  Turns = 1
  FaultCases <- Cases
  None = None
INVARIANTS ChildrenAreCounted LeasesCoverWork
PROPERTIES ResultsStand LeftoverIsFreed
CHECK_DEADLOCK FALSE
