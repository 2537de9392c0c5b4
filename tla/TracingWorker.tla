--------------------------- MODULE TracingWorker ---------------------------
(***************************************************************************)
(* The pool threads of a trace: TracingWorker::run (tracing_worker.cpp).   *)
(* One worker object serves one hop (one TTL) of one trace: it probes      *)
(* until something answers or it is told to stop, looks the answer up in   *)
(* the IP database, asks for the host name, and says that it is finished.  *)
(*                                                                         *)
(* Everything a worker emits goes to a TracingCore object that lives in    *)
(* the GUI thread, so every signal is a queued one: it is appended to the  *)
(* posted-event queue of the GUI thread and handled there later, in the    *)
(* order of posting.  `events' is that queue.                              *)
(*                                                                         *)
(* GetIPv4 and GetIPv6 have the same control and are one set of actions.   *)
(* incProgress, which only moves the progress bar, is left out.            *)
(***************************************************************************)
EXTENDS Integers, Sequences

CONSTANTS
  MaxHops,     \* DEF_TRACE_MAX_HOPs, the length of the array of workers
  Answers,     \* Answers[h]: who may answer a probe of TTL h; {} is a silent hop
  Rows,        \* bound: are events that only fill the result table posted?
  MaxRetries,  \* bound: timeouts of one worker that are still posted
  MaxRuns      \* bound: number of traces

ASSUME WorkerAssumption ==
  /\ MaxHops \in Nat \ {0}
  /\ Answers \in [1 .. MaxHops -> SUBSET {"router", "target"}]
  /\ Rows \in BOOLEAN
  /\ MaxRetries \in Nat
  /\ MaxRuns \in Nat

Hops == 1 .. MaxHops

VARIABLES
  trace,       \* how many traces were started; names the objects of the latest
  events,      \* the posted events of the GUI thread
  wpc,         \* per hop: where the worker of this trace is
  wStopping,   \* per hop: TracingWorker::isStopping
  wAnswer,     \* per hop: currentHopIPAddress; "none" while isIPValid is false
  wRetries     \* per hop: timeoutCount

workerVars == <<wpc, wStopping, wAnswer, wRetries>>

(***************************************************************************)
(* The program points of run().  "created" is an object that the pool was  *)
(* not given a thread for yet; "returning" has emitted fin and still has   *)
(* to leave run(); "done" has given its thread back.                       *)
(***************************************************************************)
Running ==
  {"probe", "wait", "report", "info", "name", "resolve", "fin", "returning"}

WorkerPC == {"none", "created", "done"} \union Running

(***************************************************************************)
(* A reportIPAndTimeConsumption is "timeout", "router" or "target" by its  *)
(* isValid and isTargetHost arguments; "end" is TracingCore's.             *)
(***************************************************************************)
EventKind ==
  {"timeout", "router", "target", "information", "hostname", "fin", "end"}

Event ==
  [kind : EventKind \ {"end"}, trace : 0 .. MaxRuns, hop : Hops]
    \union [kind : {"end"}, trace : 0 .. MaxRuns, hop : {0}]

Post(kind, h) ==
  events' = Append(events, [kind |-> kind, trace |-> trace, hop |-> h])

\* An event that only fills the result table: nothing of the tracing core
\* depends on when it is handled.
PostRow(kind, h) == IF Rows THEN Post(kind, h) ELSE UNCHANGED events

Goto(h, pc) == wpc' = [wpc EXCEPT ![h] = pc]

WorkerInit ==
  /\ wpc = [h \in Hops |-> "none"]
  /\ wStopping = [h \in Hops |-> FALSE]
  /\ wAnswer = [h \in Hops |-> "none"]
  /\ wRetries = [h \in Hops |-> 0]

\* The objects of a new trace are still to be made.
NoWorkersYet ==
  /\ wpc' = [h \in Hops |-> "none"]
  /\ wStopping' = [h \in Hops |-> FALSE]
  /\ wAnswer' = [h \in Hops |-> "none"]
  /\ wRetries' = [h \in Hops |-> 0]

-----------------------------------------------------------------------------
(* The steps of run().  isStopping is written by the GUI thread, so a step *)
(* reads it at most once.                                                  *)

\* A pool thread enters run(): isStopping, isIPValid and timeoutCount are
\* set, whatever they were.
WorkerBegin(h) ==
  /\ wpc[h] = "created"
  /\ Goto(h, "probe")
  /\ wStopping' = [wStopping EXCEPT ![h] = FALSE]
  /\ wAnswer' = [wAnswer EXCEPT ![h] = "none"]
  /\ wRetries' = [wRetries EXCEPT ![h] = 0]
  /\ UNCHANGED events

\* Faulty: the loop does not test isStopping.
ProbeForever(h) ==
  /\ wpc[h] = "probe"
  /\ Goto(h, "wait")
  /\ UNCHANGED <<events, wStopping, wAnswer, wRetries>>

\* The test of the while loop: send another probe, or give up.
Probe(h) ==
  /\ wpc[h] = "probe"
  /\ IF wStopping[h]
       THEN /\ Goto(h, "report")
            /\ wRetries' = [wRetries EXCEPT ![h] = 0]
       ELSE /\ Goto(h, "wait")
            /\ UNCHANGED wRetries
  /\ UNCHANGED <<events, wStopping, wAnswer>>

\* IcmpSendEcho2 returns a reply: the loop is left.
ProbeReply(h) ==
  /\ wpc[h] = "wait"
  /\ \E who \in Answers[h] : wAnswer' = [wAnswer EXCEPT ![h] = who]
  /\ Goto(h, "report")
  /\ wRetries' = [wRetries EXCEPT ![h] = 0]
  /\ UNCHANGED <<events, wStopping>>

\* Faulty: a probe that fails ends the loop.
ProbeOnce(h) ==
  /\ wpc[h] = "wait"
  /\ Goto(h, "report")
  /\ UNCHANGED <<events, wStopping, wAnswer, wRetries>>

\* IcmpSendEcho2 returns 0: reported whether or not a stop was requested,
\* then the loop goes on.
ProbeTimeout(h) ==
  /\ wpc[h] = "wait"
  /\ Goto(h, "probe")
  /\ IF wRetries[h] < MaxRetries
       THEN /\ wRetries' = [wRetries EXCEPT ![h] = @ + 1]
            /\ PostRow("timeout", h)
       ELSE UNCHANGED <<wRetries, events>>
  /\ UNCHANGED <<wStopping, wAnswer>>

\* A condition run() tests before each of its tasks.
GoesOn(h) == wAnswer[h] # "none" /\ ~wStopping[h]

\* The end of GetIPv4 / GetIPv6: report the answer unless stopped.
Report(h) ==
  /\ wpc[h] = "report"
  /\ IF GoesOn(h) THEN Post(wAnswer[h], h) ELSE UNCHANGED events
  /\ Goto(h, "info")
  /\ UNCHANGED <<wStopping, wAnswer, wRetries>>

\* GetInfo: the lookup reads no shared state and always reports, with fill-in
\* texts when it fails.
GetInfo(h) ==
  /\ wpc[h] = "info"
  /\ IF GoesOn(h) THEN PostRow("information", h) ELSE UNCHANGED events
  /\ Goto(h, "name")
  /\ UNCHANGED <<wStopping, wAnswer, wRetries>>

\* The test before GetHostname.  getnameinfo blocks for long, so what was
\* tested may be out of date when it returns.
NameTest(h) ==
  /\ wpc[h] = "name"
  /\ Goto(h, IF GoesOn(h) THEN "resolve" ELSE "fin")
  /\ UNCHANGED <<events, wStopping, wAnswer, wRetries>>

\* getnameinfo returns with a name or without one.
GetHostname(h) ==
  /\ wpc[h] = "resolve"
  /\ Goto(h, "fin")
  /\ \/ PostRow("hostname", h)
     \/ UNCHANGED events
  /\ UNCHANGED <<wStopping, wAnswer, wRetries>>

\* emit fin(iTTL)
Finish(h) ==
  /\ wpc[h] = "fin"
  /\ Goto(h, "returning")
  /\ Post("fin", h)
  /\ UNCHANGED <<wStopping, wAnswer, wRetries>>

\* run() returns to the pool, which keeps the object: setAutoDelete(false).
Return(h) ==
  /\ wpc[h] = "returning"
  /\ Goto(h, "done")
  /\ UNCHANGED <<events, wStopping, wAnswer, wRetries>>

\* What a worker that has a thread does next.
WorkerRun(h) ==
  \/ Probe(h) \/ ProbeReply(h) \/ ProbeTimeout(h)
  \/ Report(h) \/ GetInfo(h) \/ NameTest(h) \/ GetHostname(h)
  \/ Finish(h) \/ Return(h)

-----------------------------------------------------------------------------
WorkerTypeOK ==
  /\ trace \in 0 .. MaxRuns
  /\ events \in Seq(Event)
  /\ wpc \in [Hops -> WorkerPC]
  /\ wStopping \in [Hops -> BOOLEAN]
  /\ wAnswer \in [Hops -> {"none", "router", "target"}]
  /\ wRetries \in [Hops -> 0 .. MaxRetries]
=============================================================================
