\* The user clears the table while another thread logs.
SPECIFICATION MCSpec
CONSTANTS
  Settings <- OnlyLevel
  Highest <- SmallHighest
  Default <- SmallDefault
  FileValues <- OddFiles
  Turned <- SomeTurns
  ULong = 8
  Absent = Absent
  Unchecked = Unchecked
  Threads = {"gui", "tracing"}
  GUIThread = "gui"
  MaxLogs <- FewLogs
  ClearAnyTime = TRUE
INVARIANTS
  OneWriter
\* A program that wrote to the table from two threads stops.
CHECK_DEADLOCK FALSE
