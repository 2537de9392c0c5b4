\* The user aborts while workers are being started.
SPECIFICATION FairSpec
CONSTANTS
  MaxHops = 2
  StartHops = 2
  HopChoices = {}
  RestartEarly = FALSE
  Answers <- SilentFirst
  Rows = FALSE
  MaxRetries = 0
  MaxRuns = 2
PROPERTIES
  AbortEnds
