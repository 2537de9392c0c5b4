\* Two traces over a path whose first hop never answers.
SPECIFICATION AnsweringSpec
CONSTANTS
  MaxHops = 2
  StartHops = 2
  HopChoices = {}
  RestartEarly = FALSE
  Answers <- SilentFirst
  Rows = FALSE
  MaxRetries = 0
  MaxRuns = 2
PROPERTIES
  DrainedUnlocks
  AnsweringHopFinishes
