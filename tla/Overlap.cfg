\* Two traces whose events may overlap; Trace/MaxHops is raised and lowered
\* at any time.
SPECIFICATION Spec
CONSTANTS
  MaxHops = 2
  StartHops = 1
  HopChoices = {1, 2}
  RestartEarly = TRUE
  Answers <- NearTarget
  Rows = FALSE
  MaxRetries = 0
  MaxRuns = 2
INVARIANTS
  IndInv
  WorkersInsideRun
  NoUseAfterFree
\* A program that used an invalid pointer stops.
CHECK_DEADLOCK FALSE
