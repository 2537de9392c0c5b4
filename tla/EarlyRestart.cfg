\* The user starts a trace before the events of the last are handled.
SPECIFICATION Spec
CONSTANTS
  MaxHops = 2
  StartHops = 2
  HopChoices = {}
  RestartEarly = TRUE
  Answers <- AnyAnswer
  Rows = FALSE
  MaxRetries = 0
  MaxRuns = 2
INVARIANTS
  FinFindsWorker
\* A program that used an invalid pointer stops.
CHECK_DEADLOCK FALSE
