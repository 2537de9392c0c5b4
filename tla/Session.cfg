\* One trace of three hops with timeouts; the target may be the second or the third.
SPECIFICATION Spec
CONSTANTS
  MaxHops = 3
  StartHops = 3
  HopChoices = {}
  RestartEarly = FALSE
  Answers <- TwoAway
  Rows = FALSE
  MaxRetries = 1
  MaxRuns = 1
INVARIANTS
  PoolHasRoom
  OnlyBeyondTargetStopped
  CompleteTrace
PROPERTIES
  ImplementsSession
