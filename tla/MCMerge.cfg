SPECIFICATION FairSpec
CONSTANTS
  a = a
  b = b
  Order <- TwoRepositories
  Clones = {b}
  Clash <- OneConflict
  Operators = {o1, o2}
  MaxWork = 2
  MaxOthers = 1
  MaxEvidence = 2
  MaxFaults = 1
  FaultCases = {{"others", "amid"}, {"moves", "timeouts", "readback", "second"}, {"moves", "dirties"}, {"moves", "again"}, {"verifying", "again"}, {"edits"}, {"overlap", "timeouts"}, {"dirties", "timeouts", "readback", "lock", "killed"}}
  None = None
INVARIANTS ReportsAreTrue EvidenceIsCurrent
PROPERTIES MergeFinishes
