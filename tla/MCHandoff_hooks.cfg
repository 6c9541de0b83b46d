SPECIFICATION Spec
CONSTANTS
  Sessions = {s1}
  First = s1
  None = None
  ContinuationPrompts = TRUE
  Contention = TRUE
  MaxGeneration = 2
  Submitters = {c1, c2}
  Readers = {}
  Statuses = {"completed", "blocked", "needs-input", "failed"}
  MaxEdits = 0
INVARIANTS StopBudget
PROPERTIES OneHandoffPerPrompt FinishedRunReopensOnPrompt
SYMMETRY Symmetry
CHECK_DEADLOCK FALSE
