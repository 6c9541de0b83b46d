SPECIFICATION FairSpec
CONSTANTS
  Sessions = {s1}
  First = s1
  None = None
  ContinuationPrompts = TRUE
  Contention = FALSE
  MaxGeneration = 2
  Submitters = {c1}
  Readers = {v1}
  Statuses = {"completed", "blocked"}
  MaxEdits = 1
INVARIANTS CompletedHasResult ReportsAreCurrent
PROPERTIES StaleMarksAreDue FollowUpOpensGeneration TurnsEnd
CHECK_DEADLOCK FALSE
