---------------------------- MODULE MCSettings ----------------------------
(* Small settings, files and users for NyaTraceLogs and Configs.           *)
EXTENDS NyaTraceLogs, FiniteSets

SomeSettings == {"LogLevel", "Timeout", "DoubleClickAction"}

OnlyLevel == {"LogLevel"}

SmallHighest ==
  [k \in Settings |-> IF k = "Timeout" THEN 2 ELSE 1]

SmallDefault ==
  [k \in Settings |-> IF k = "DoubleClickAction" THEN 0 ELSE 1]

\* Too large, or negative; a missing entry is always possible.
OddFiles ==
  [k \in Settings |-> IF k = "Timeout" THEN {-1, 3} ELSE {2}]

SomeTurns ==
  [k \in Settings |-> IF k = "Timeout" THEN {0, 2} ELSE 0 .. 1]

FewLogs == [t \in Threads |-> 1]

\* At most one entry of the first file is not missing.
MCInit ==
  /\ LogsInit
  /\ Cardinality({k \in Settings : ini[k] # Absent}) <= 1

MCSpec == MCInit /\ [][LogsNext]_logAll

MCFairSpec == MCSpec /\ LogsFairness
=============================================================================
