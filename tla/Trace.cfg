\* Two traces, any interleaving, a fixed configuration, with the events that
\* only fill the result table.
SPECIFICATION Spec
CONSTANTS
  MaxHops = 2
  StartHops = 2
  HopChoices = {}
  RestartEarly = FALSE
  Answers <- AnyAnswer
  Rows = TRUE
  MaxRetries = 0
  MaxRuns = 2
INVARIANTS
  WaitingInv
  NoFault
  EndMeansReclaimed
  NothingLeaks
  LockedWhileTracing
  NoOrphanLock
PROPERTIES
  StopReachesProbing
