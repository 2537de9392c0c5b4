\* The user raises Trace/MaxHops and aborts a trace.
SPECIFICATION Spec
CONSTANTS
  MaxHops = 2
  StartHops = 1
  HopChoices = {2}
  RestartEarly = FALSE
  Answers <- AnyAnswer
  Rows = FALSE
  MaxRetries = 0
  MaxRuns = 1
INVARIANTS
  ArrayCleared
\* A program that used an invalid pointer stops.
CHECK_DEADLOCK FALSE
