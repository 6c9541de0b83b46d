SPECIFICATION SumSpec
CONSTANTS
  Runs = {w1}
  Foreign = {}
  MaxGeneration = 2
  MaxPosts = 2
  MaxPending = 1
  Statuses = {"completed"}
  FaultCases <- WatcherCases
  Garbage = Garbage
  None = None
  Delegations = {d1, d2}
  Origin = origin
  Adopters = {other}
  Turns = 1
  ResultFaultCases <- ResultCases
  Calls = {c1, c2, c3}
  Kinds = {"launch", "delegation"}
  MaxWorld = 2
  MaxSessions = 2
  ApprovalFaultCases <- ApprovalCases
INVARIANTS NothingTwice NothingLost ApprovalsAreSpent
PROPERTIES TakenOnce EverythingIsTold
CHECK_DEADLOCK FALSE
