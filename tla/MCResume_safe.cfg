SPECIFICATION ResumeSpec
CONSTANTS
  Sessions = {s1, s2, s3}
  First = s1
  None = None
  ContinuationPrompts = TRUE
  Contention = FALSE
  MaxGeneration = 3
  Resumers = {o1, o2, o3}
  FocusFails = FALSE
  Killed = FALSE
  Slow = FALSE
INVARIANTS OneWorkerAtATime
PROPERTIES ManualOnlyWhenAsked OneGenerationPerRelaunch
CHECK_DEADLOCK FALSE
SYMMETRY Symmetry
