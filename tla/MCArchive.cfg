SPECIFICATION FairSpec
CONSTANTS
  r1 = r1
  r2 = r2
  w1 = w1
  Runs = {r1, r2}
  Trees = {w1}
  Records <- SharedTree
  Later = {r2}
  Operators = {p1, p2}
  MaxCommits = 1
  MaxIgnored = 1
  FaultCases <- Cases
  None = None
CHECK_DEADLOCK FALSE
INVARIANTS MarksAreTrue
PROPERTIES RemovalsAreSafe ArchiveFinishes
