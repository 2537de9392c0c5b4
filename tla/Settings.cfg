\* Two threads that log, a user who edits the settings and clears the table
\* when nobody logs, and any number of starts.
SPECIFICATION MCFairSpec
CONSTANTS
  Settings <- SomeSettings
  Highest <- SmallHighest
  Default <- SmallDefault
  FileValues <- OddFiles
  Turned <- SomeTurns
  ULong = 8
  Absent = Absent
  Unchecked = Unchecked
  Threads = {"gui", "tracing"}
  GUIThread = "gui"
  MaxLogs <- FewLogs
  ClearAnyTime = FALSE
INVARIANTS
  LogsTypeOK
  DialogTellsTruth
  SavedComesBack
  NothingLost
PROPERTIES
  StaysValid
  ApplyRepairs
  HandlerReturns
