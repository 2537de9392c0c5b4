---------------------------- MODULE NyaTraceLogs ----------------------------
(***************************************************************************)
(* The message handler of main.cpp and the table of logs                   *)
(* (nyatrace_logs.cpp).  The handler runs in the thread that logs, any of  *)
(* them, under a mutex; the user clears the table in the GUI thread,       *)
(* without it; and the level below which nothing is shown is a setting the *)
(* GUI thread may change (module Configs).                                 *)
(***************************************************************************)
EXTENDS Configs, SequencesExt

CONSTANTS
  Threads,     \* the threads that log, the GUI thread among them
  GUIThread,
  MaxLogs,     \* bound: per thread, the messages it logs
  ClearAnyTime \* the user may clear the table while another thread logs

Nobody == "nobody"

ASSUME LogsAssumption ==
  /\ GUIThread \in Threads
  /\ Nobody \notin Threads
  /\ "LogLevel" \in Settings
  /\ MaxLogs \in [Threads -> Nat]
  /\ ClearAnyTime \in BOOLEAN

VARIABLES
  hpc,       \* per thread, where it is in the message handler
  msg,       \* per thread, the message it logs or logged last
  at,        \* per thread, the row that appendRow is about to fill
  logMutex,  \* the thread that holds it, or Nobody
  logsModel, \* the rows of the table
  handler,   \* customMessageHandler is installed
  torn,      \* the table was cleared while a thread appended to it
  due        \* history: per thread, its messages at or above the level since a clear

handlerVars == <<hpc, msg, at, logMutex>>
logVars == <<handlerVars, logsModel, handler, torn, due>>
logAll == <<configVars, logVars>>

Critical == Highest["LogLevel"]
Levels == 0 .. Critical

NoMsg == [of |-> Nobody, number |-> 0, level |-> 0]

\* The threads between the lock and the unlock.
Appending == {t \in Threads : hpc[t] \in {"append", "insert", "unlock"}}

Clearing == hpc[GUIThread] = "clear"

-----------------------------------------------------------------------------
\* Nothing is logged and nobody is in the handler.
NewTable ==
  /\ hpc = [t \in Threads |-> "idle"]
  /\ msg = [t \in Threads |-> NoMsg]
  /\ at = [t \in Threads |-> 0]
  /\ logMutex = Nobody
  /\ logsModel = <<>>
  /\ handler = FALSE
  /\ torn = FALSE
  /\ due = [t \in Threads |-> {}]

LogsInit == ConfigsInit /\ NewTable

\* main, from the settings to the message handler.  Until then nothing that
\* is logged gets into the table.
Boot ==
  /\ ~handler
  /\ handler' = TRUE
  /\ UNCHANGED <<configVars, handlerVars, logsModel, torn, due>>

Undisturbed == ClearAnyTime \/ ~Clearing

PrintToLogsTable(level) == settings["LogLevel"] <= level

\* Shown is what is at least as grave as the level.
Due(level) == level \in settings["LogLevel"] .. Critical

\* A thread logs its next message.  Whether it is shown is settled here,
\* before the lock.
Log(t) ==
  /\ handler
  /\ hpc[t] = "idle"
  /\ Undisturbed
  /\ msg[t].number < MaxLogs[t]
  /\ \E level \in Levels :
       LET m == [of |-> t, number |-> msg[t].number + 1, level |-> level]
       IN /\ msg' = [msg EXCEPT ![t] = m]
          /\ hpc' = [hpc EXCEPT ![t] = IF PrintToLogsTable(level) THEN "lock" ELSE "idle"]
          /\ due' = IF Due(level) THEN [due EXCEPT ![t] = @ \union {m}] ELSE due
  /\ UNCHANGED <<configVars, at, logMutex, logsModel, handler, torn>>

\* Faulty: the mutex is not waited for.
LockAnyway(t) ==
  /\ hpc[t] = "lock"
  /\ hpc' = [hpc EXCEPT ![t] = "append"]
  /\ logMutex' = t
  /\ UNCHANGED <<configVars, msg, at, logsModel, handler, torn, due>>

Lock(t) ==
  /\ hpc[t] = "lock"
  /\ logMutex = Nobody
  /\ hpc' = [hpc EXCEPT ![t] = "append"]
  /\ logMutex' = t
  /\ UNCHANGED <<configVars, msg, at, logsModel, handler, torn, due>>

\* AppendLog, appendRow: the number of rows is read, the row is inserted.
AppendLog(t) ==
  /\ hpc[t] = "append"
  /\ hpc' = [hpc EXCEPT ![t] = "insert"]
  /\ at' = [at EXCEPT ![t] = Len(logsModel) + 1]
  /\ torn' = (torn \/ Clearing)
  /\ UNCHANGED <<configVars, msg, logMutex, logsModel, handler, due>>

InsertRow(t) ==
  /\ hpc[t] = "insert"
  /\ hpc' = [hpc EXCEPT ![t] = "unlock"]
  /\ logsModel' = [r \in 1 .. at[t] |-> IF r = at[t] THEN msg[t] ELSE logsModel[r]]
  /\ at' = [at EXCEPT ![t] = 0]
  /\ UNCHANGED <<configVars, msg, logMutex, handler, torn, due>>

\* Faulty: the mutex is not released.
ReturnLocked(t) ==
  /\ hpc[t] = "unlock"
  /\ hpc' = [hpc EXCEPT ![t] = "idle"]
  /\ UNCHANGED <<configVars, msg, at, logMutex, logsModel, handler, torn, due>>

Unlock(t) ==
  /\ hpc[t] = "unlock"
  /\ hpc' = [hpc EXCEPT ![t] = "idle"]
  /\ logMutex' = Nobody
  /\ UNCHANGED <<configVars, msg, at, logsModel, handler, torn, due>>

Handle(t) == Lock(t) \/ AppendLog(t) \/ InsertRow(t) \/ Unlock(t)

\* on_clearAll_clicked, Initialize: the rows go, then the header is set.
\* The handler of a thread that has yet to append puts its row in the empty table.
Clear ==
  /\ handler
  /\ hpc[GUIThread] = "idle"
  /\ ClearAnyTime \/ \A t \in Threads : hpc[t] = "idle"
  /\ hpc' = [hpc EXCEPT ![GUIThread] = "clear"]
  /\ logsModel' = <<>>
  /\ torn' = (torn \/ Appending # {})
  /\ due' = [t \in Threads |-> IF hpc[t] = "idle" THEN {} ELSE {msg[t]}]
  /\ UNCHANGED <<configVars, msg, at, logMutex, handler>>

SetHeader ==
  /\ Clearing
  /\ hpc' = [hpc EXCEPT ![GUIThread] = "idle"]
  /\ UNCHANGED <<configVars, msg, at, logMutex, logsModel, handler, torn, due>>

\* The GUI thread edits the settings when it is not logging.
EditSettings ==
  /\ handler
  /\ hpc[GUIThread] = "idle"
  /\ Dialog
  /\ UNCHANGED logVars

\* A fatal message aborts the program, whatever the threads are doing, and
\* the user may end it at rest; it is started again.
Again ==
  /\ Restart
  /\ hpc' = [t \in Threads |-> "idle"]
  /\ msg' = [t \in Threads |-> NoMsg]
  /\ at' = [t \in Threads |-> 0]
  /\ logMutex' = Nobody
  /\ logsModel' = <<>>
  /\ handler' = FALSE
  /\ torn' = FALSE
  /\ due' = [t \in Threads |-> {}]

LogsNext ==
  /\ ~torn
  /\ \/ Boot \/ Clear \/ SetHeader \/ EditSettings \/ Again
     \/ \E t \in Threads : Log(t) \/ Handle(t)

LogsSpec == LogsInit /\ [][LogsNext]_logAll

\* The threads go on, and the GUI thread finishes what it began.
LogsFairness ==
  /\ \A t \in Threads : WF_logAll(~torn /\ Handle(t))
  /\ WF_logAll(~torn /\ SetHeader)
-----------------------------------------------------------------------------
Message == [of : Threads \union {Nobody}, number : Nat, level : Levels]

(* Every variable has its type.                                            *)
LogsTypeOK ==
  /\ ConfigsTypeOK
  /\ hpc \in [Threads -> {"idle", "lock", "append", "insert", "unlock", "clear"}]
  /\ msg \in [Threads -> Message]
  /\ at \in [Threads -> Nat]
  /\ logMutex \in Threads \union {Nobody}
  /\ logsModel \in Seq(Message)
  /\ {handler, torn} \subseteq BOOLEAN
  /\ due \in [Threads -> SUBSET Message]

RowsOf(t) == {m \in ToSet(logsModel) : m.of = t}

(* The messages at or above the level that a thread logged since the table *)
(* was cleared are in the table, once and in order, however the threads    *)
(* interleave and whenever the level is changed; no other message is.      *)
NothingLost ==
  /\ \A t \in Threads : hpc[t] \in {"idle", "unlock"} => RowsOf(t) = due[t]
  /\ \A r, s \in DOMAIN logsModel :
       r < s /\ logsModel[r].of = logsModel[s].of => logsModel[r].number < logsModel[s].number

(* A thread that logs gets out of the handler: nobody waits for ever for   *)
(* the mutex.                                                              *)
HandlerReturns ==
  \A t \in Threads : hpc[t] # "idle" ~> hpc[t] = "idle"

-----------------------------------------------------------------------------
(* What a comment promises and the code does not keep: the mutex keeps     *)
(* writes to the table apart, also those of a user who clears it.          *)
OneWriter == ~torn
=============================================================================
