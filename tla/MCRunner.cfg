SPECIFICATION SumSpec
CONSTANTS
  a = a
  b = b
  None = None
  Callers = {a, b}
  Steps <- StepsTwoOne
  Timed = {a}
  Rests = {"none", "plain", "deaf", "quiet deaf", "left"}
  Schedules <- TogetherOrInTurn
  MayFail = TRUE
  MaxSignals = 2
  Checks = 2
  SweepRests = {"none", "plain", "quiet", "deaf", "quiet deaf"}
INVARIANTS ResultsAreComplete NothingLeftBehind
PROPERTIES WaitersStay EverythingEnds
CHECK_DEADLOCK FALSE
