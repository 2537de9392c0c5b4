---------------------------- MODULE TracingCore ----------------------------
(***************************************************************************)
(* One trace after another: TracingCore (tracing_core.cpp), the threads of *)
(* its pool (module TracingWorker), and the part of NyaTraceGUI that       *)
(* starts, aborts and cleans up a trace (nyatrace_gui.cpp).                *)
(*                                                                         *)
(* Three kinds of thread act here:                                         *)
(*   - the tracing thread executes TracingCore::run;                       *)
(*   - pool threads execute TracingWorker::run, one per hop;               *)
(*   - the GUI thread executes the user's clicks and, one by one, the      *)
(*     events the other threads posted to it: the lambdas run() connects   *)
(*     have `this' as context, and TracingCore lives in the GUI thread.    *)
(* The array of workers, maxHop and the two isStopping flags are shared    *)
(* between them without a lock.                                            *)
(***************************************************************************)
EXTENDS TracingWorker, FiniteSets

CONSTANTS
  StartHops,    \* Trace/MaxHops when the program starts
  HopChoices,   \* values the user may give it while the program runs
  RestartEarly  \* may the user start a trace while events of the last one wait?

ASSUME CoreAssumption ==
  /\ StartHops \in Hops
  /\ HopChoices \subseteq Hops
  /\ RestartEarly \in BOOLEAN

VARIABLES
  tpc,           \* where the tracing thread is; "idle" when not isRunning()
  i,             \* the loop counter of run(): workers created so far
  isStopping,    \* TracingCore::isStopping
  maxHop,        \* hops beyond this one are dropped
  oldMaxHop,
  poolMax,       \* maxThreadCount of the pool
  workers,       \* the array of pointers, by hop
  deferred,      \* worker objects with a DeferredDelete event pending
  freed,         \* worker objects that were deleted
  traceMaxHops,  \* gCfg->GetTraceMaxHops()
  buttonLocked,  \* startStopTracingButton is disabled
  tableLocked,   \* resolveTable is disabled
  fault          \* the invalid pointer the program used, if it did

threadVars == <<tpc, i, isStopping, maxHop, oldMaxHop, poolMax>>
arrayVars  == <<workers, deferred, freed>>
guiVars    == <<traceMaxHops, buttonLocked, tableLocked>>
vars == <<trace, events, workerVars, threadVars, arrayVars, guiVars, fault>>

\* A pointer of the array is NULL, was never initialised, or points to the
\* worker object that the named trace created for this hop.
Null    == 0
Wild    == -1
Pointer == {Wild} \union 0 .. MaxRuns

ThreadPC ==
  {"idle", "begin", "max", "old", "pool", "test", "create", "join", "ending"}

\* run() has its stack frame: the workers read its two local addresses.
InRun == tpc \notin {"idle", "ending"}

\* Faulty: the constructor does not touch the array.
NotCleared == {[h \in Hops |-> Wild]}

(***************************************************************************)
(* The constructor sets as many pointers to NULL as the configuration      *)
(* allows hops; the rest of the array is what the allocator left there.    *)
(***************************************************************************)
Constructed ==
  {w \in [Hops -> {Null, Wild}] : \A h \in 1 .. StartHops : w[h] = Null}

Init ==
  /\ WorkerInit
  /\ trace = 0
  /\ events = <<>>
  /\ tpc = "idle"
  /\ i = 0
  /\ isStopping = FALSE
  /\ maxHop = StartHops
  /\ oldMaxHop = StartHops
  /\ poolMax = StartHops
  /\ workers \in Constructed
  /\ deferred = {}
  /\ freed = {}
  /\ traceMaxHops = StartHops
  /\ buttonLocked = FALSE
  /\ tableLocked = FALSE
  /\ fault = "none"

(***************************************************************************)
(* requestStop() called through the pointers of the hops in S.  A pointer  *)
(* to an object of an earlier trace reaches a worker that has finished.    *)
(***************************************************************************)
StopWorkers(S) ==
  /\ wStopping' = [h \in Hops |-> wStopping[h] \/ (h \in S /\ workers[h] = trace)]
  /\ fault' = IF \E h \in S : workers[h] = Wild THEN "wild" ELSE fault

-----------------------------------------------------------------------------
(* The tracing thread: TracingCore::run.                                   *)

RunBegin ==
  /\ tpc = "begin"
  /\ tpc' = "max"
  /\ isStopping' = FALSE
  /\ UNCHANGED <<trace, events, workerVars, i, maxHop, oldMaxHop, poolMax>>
  /\ UNCHANGED <<arrayVars, guiVars, fault>>

ReadMaxHop ==
  /\ tpc = "max"
  /\ tpc' = "old"
  /\ maxHop' = traceMaxHops
  /\ UNCHANGED <<trace, events, workerVars, i, isStopping, oldMaxHop, poolMax>>
  /\ UNCHANGED <<arrayVars, guiVars, fault>>

ReadOldMaxHop ==
  /\ tpc = "old"
  /\ tpc' = "pool"
  /\ oldMaxHop' = traceMaxHops
  /\ UNCHANGED <<trace, events, workerVars, i, isStopping, maxHop, poolMax>>
  /\ UNCHANGED <<arrayVars, guiVars, fault>>

\* Faulty: one thread too few.
PoolSizeShort(n) == n - 1

PoolSize(n) == n

SizePool ==
  /\ tpc = "pool"
  /\ tpc' = "test"
  /\ poolMax' = PoolSize(traceMaxHops)
  /\ i' = 0
  /\ UNCHANGED <<trace, events, workerVars, isStopping, maxHop, oldMaxHop>>
  /\ UNCHANGED <<arrayVars, guiVars, fault>>

\* The condition of the for loop; what it saw may be out of date when the
\* body runs.
LoopTest ==
  /\ tpc = "test"
  /\ tpc' = IF i < maxHop /\ ~isStopping THEN "create" ELSE "join"
  /\ UNCHANGED <<trace, events, workerVars, i, isStopping, maxHop, oldMaxHop, poolMax>>
  /\ UNCHANGED <<arrayVars, guiVars, fault>>

\* The body: a new worker is put into the array and given to the pool.
CreateWorker ==
  /\ tpc = "create"
  /\ tpc' = "test"
  /\ i' = i + 1
  /\ workers' = [workers EXCEPT ![i + 1] = trace]
  /\ Goto(i + 1, "created")
  /\ UNCHANGED <<trace, events, wStopping, wAnswer, wRetries>>
  /\ UNCHANGED <<isStopping, maxHop, oldMaxHop, poolMax, deferred, freed>>
  /\ UNCHANGED <<guiVars, fault>>

\* Faulty: run() does not wait.
AnyReturned == TRUE

AllReturned == \A h \in Hops : wpc[h] \in {"none", "done"}

\* Faulty: an aborted trace says nothing.
EmitEndUnlessStopped == IF isStopping THEN UNCHANGED events ELSE Post("end", 0)

EmitEnd == Post("end", 0)

\* tracingPool->waitForDone(); emit end(true)
WaitForDone ==
  /\ tpc = "join"
  /\ AllReturned
  /\ tpc' = "ending"
  /\ EmitEnd
  /\ UNCHANGED <<trace, workerVars, i, isStopping, maxHop, oldMaxHop, poolMax>>
  /\ UNCHANGED <<arrayVars, guiVars, fault>>

\* External: QThread leaves run() and deletes the objects of this thread
\* that deleteLater() was called for.
ThreadFinish ==
  /\ tpc = "ending"
  /\ tpc' = "idle"
  /\ freed' = freed \union deferred
  /\ deferred' = {}
  /\ UNCHANGED <<trace, events, workerVars, i, isStopping, maxHop, oldMaxHop>>
  /\ UNCHANGED <<poolMax, workers, guiVars, fault>>

TracingThread ==
  \/ RunBegin \/ ReadMaxHop \/ ReadOldMaxHop \/ SizePool
  \/ LoopTest \/ CreateWorker \/ WaitForDone \/ ThreadFinish

-----------------------------------------------------------------------------
(* The pool: external, it runs at most poolMax workers at a time.          *)

Busy == {h \in Hops : wpc[h] \in Running}

PoolThread(h) ==
  /\ \/ WorkerBegin(h) /\ Cardinality(Busy) < poolMax
     \/ WorkerRun(h)
  /\ UNCHANGED <<trace, threadVars, arrayVars, guiVars, fault>>

-----------------------------------------------------------------------------
(* The GUI thread: what the user does.                                     *)

\* Faulty: the table stays as it is.
InitializeNothing == UNCHANGED tableLocked

\* InitializeTracing locks the table of addresses.
InitializeTracing == tableLocked' = TRUE

(***************************************************************************)
(* StartTracing is reached by the button, which asks isRunning(), and from *)
(* the table of addresses, which asks nothing.  It locks the inputs; the   *)
(* start() of a thread that still runs does nothing.                       *)
(***************************************************************************)
MayStart ==
  /\ \/ RestartEarly
     \/ tpc = "idle" /\ events = <<>>
  /\ \/ ~buttonLocked /\ tpc = "idle"
     \/ ~tableLocked

StartTracing ==
  /\ MayStart
  /\ InitializeTracing
  /\ IF tpc = "idle"
       THEN /\ trace < MaxRuns
            /\ trace' = trace + 1
            /\ tpc' = "begin"
            /\ NoWorkersYet
       ELSE UNCHANGED <<trace, tpc, workerVars>>
  /\ UNCHANGED events
  /\ UNCHANGED <<i, isStopping, maxHop, oldMaxHop, poolMax>>
  /\ UNCHANGED <<arrayVars, traceMaxHops, buttonLocked, fault>>

\* Faulty: the last hop is forgotten.
AbortedHopsShort == 1 .. traceMaxHops - 1

\* TracingCore::requestStop tells every worker up to the configured number
\* of hops.
AbortedHops == 1 .. traceMaxHops

\* AbortTracing, by the button while isRunning().
AbortTracing ==
  /\ ~buttonLocked
  /\ tpc # "idle"
  /\ isStopping' = TRUE
  /\ StopWorkers(AbortedHops)
  /\ buttonLocked' = TRUE
  /\ UNCHANGED <<trace, events, wpc, wAnswer, wRetries>>
  /\ UNCHANGED <<tpc, i, maxHop, oldMaxHop, poolMax>>
  /\ UNCHANGED <<arrayVars, traceMaxHops, tableLocked>>

\* The user applies another value of Trace/MaxHops, at any time.
Configure ==
  /\ \E n \in HopChoices \ {traceMaxHops} : traceMaxHops' = n
  /\ UNCHANGED <<trace, events, workerVars, threadVars, arrayVars>>
  /\ UNCHANGED <<buttonLocked, tableLocked, fault>>

-----------------------------------------------------------------------------
(* The GUI thread: the posted events, in order.                            *)

Delivered(kinds) ==
  /\ events # <<>>
  /\ Head(events).kind \in kinds
  /\ events' = Tail(events)

\* Faulty: the worker of the target itself is stopped too.
HopsFrom(h) == h .. oldMaxHop

\* The hops whose workers are told to stop when the target answered at h.
HopsBeyond(h) == h + 1 .. oldMaxHop

\* Faulty: the hop is taken for an array index.
TargetFoundLate(h) ==
  /\ maxHop' = h + 1
  /\ StopWorkers(HopsBeyond(h))
  /\ oldMaxHop' = h

TargetFound(h) ==
  /\ maxHop' = h
  /\ StopWorkers(HopsBeyond(h))
  /\ oldMaxHop' = h

\* The lambda of reportIPAndTimeConsumption.
HandleReport ==
  /\ Delivered({"timeout", "router", "target"})
  /\ LET e == Head(events)
     IN IF e.kind = "target" /\ e.hop <= maxHop
          THEN TargetFound(e.hop)
          ELSE UNCHANGED <<maxHop, oldMaxHop, wStopping, fault>>
  /\ UNCHANGED <<trace, wpc, wAnswer, wRetries, tpc, i, isStopping, poolMax>>
  /\ UNCHANGED <<arrayVars, guiVars>>

\* The lambdas of reportInformation and reportHostname: passed on to the
\* tables, without an effect here.
HandleDetail ==
  /\ Delivered({"information", "hostname"})
  /\ UNCHANGED <<trace, workerVars, threadVars, arrayVars, guiVars, fault>>

\* Faulty: the object is deleted at once.
ReclaimNow(h) ==
  /\ freed' = freed \union {<<workers[h], h>>}
  /\ workers' = [workers EXCEPT ![h] = Null]
  /\ UNCHANGED deferred

\* Faulty: the pointer is kept.
ReclaimOnly(h) ==
  /\ deferred' = deferred \union {<<workers[h], h>>}
  /\ UNCHANGED <<workers, freed>>

\* Faulty: the object is forgotten.
ReclaimNothing(h) ==
  /\ workers' = [workers EXCEPT ![h] = Null]
  /\ UNCHANGED <<deferred, freed>>

\* deleteLater() on whatever the array holds for the hop.  The object lives
\* in the tracing thread, which runs no event loop: it is deleted when that
\* thread finishes.
Reclaim(h) ==
  /\ deferred' = deferred \union {<<workers[h], h>>}
  /\ workers' = [workers EXCEPT ![h] = Null]
  /\ UNCHANGED freed

\* The lambda of fin.
HandleFin ==
  /\ Delivered({"fin"})
  /\ LET h == Head(events).hop
     IN IF workers[h] = Null
          THEN fault' = "null" /\ UNCHANGED arrayVars
          ELSE Reclaim(h) /\ UNCHANGED fault
  /\ UNCHANGED <<trace, workerVars, threadVars, guiVars>>

\* CleanUpTracing enables what was disabled.
CleanUpTracing == buttonLocked' = FALSE /\ tableLocked' = FALSE

\* The lambda of end.
HandleEnd ==
  /\ Delivered({"end"})
  /\ CleanUpTracing
  /\ UNCHANGED <<trace, workerVars, threadVars, arrayVars, traceMaxHops, fault>>

HandleEvent == HandleReport \/ HandleDetail \/ HandleFin \/ HandleEnd

\* The event loop sleeps: no trace, nothing posted.
Sleep ==
  /\ tpc = "idle"
  /\ events = <<>>
  /\ UNCHANGED vars

-----------------------------------------------------------------------------
\* A program that used an invalid pointer has crashed.
Next ==
  /\ fault = "none"
  /\ \/ TracingThread
     \/ \E h \in Hops : PoolThread(h)
     \/ HandleEvent
     \/ StartTracing \/ AbortTracing \/ Configure
     \/ Sleep

Spec == Init /\ [][Next]_vars

(***************************************************************************)
(* The threads are scheduled and IcmpSendEcho2 returns within its timeout; *)
(* the user need not do anything.                                          *)
(***************************************************************************)
Fairness ==
  /\ WF_vars(fault = "none" /\ TracingThread)
  /\ WF_vars(fault = "none" /\ HandleEvent)
  /\ \A h \in Hops : WF_vars(fault = "none" /\ PoolThread(h))

FairSpec == Spec /\ Fairness

\* A hop that may answer does, if it is probed again and again.
AnsweringSpec ==
  /\ FairSpec
  /\ \A h \in Hops : SF_vars(fault = "none" /\ PoolThread(h) /\ ProbeReply(h))

-----------------------------------------------------------------------------
TypeOK ==
  /\ WorkerTypeOK
  /\ tpc \in ThreadPC
  /\ i \in 0 .. MaxHops
  /\ isStopping \in BOOLEAN
  /\ maxHop \in Hops
  /\ oldMaxHop \in Hops
  /\ poolMax \in Hops
  /\ workers \in [Hops -> Pointer]
  /\ deferred \subseteq Pointer \X Hops
  /\ freed \subseteq Pointer \X Hops
  /\ traceMaxHops \in Hops
  /\ buttonLocked \in BOOLEAN
  /\ tableLocked \in BOOLEAN
  /\ fault \in {"none", "null", "wild"}

-----------------------------------------------------------------------------
(* Safety, whatever the user and the scheduler do.                         *)

Alive(h) == wpc[h] \in {"created"} \union Running

(* The workers hold the addresses of two local variables of run(): none    *)
(* may live when run() has returned.                                       *)
WorkersInsideRun == (\E h \in Hops : Alive(h)) => InRun

(* No object is deleted while its run() executes, and requestStop() is     *)
(* never called on a deleted one: what the array holds is not freed.       *)
NoUseAfterFree ==
  \A h \in Hops : /\ Alive(h) => <<trace, h>> \notin freed
                  /\ <<workers[h], h>> \notin freed

(* The fan-out of a target's answer never stops a worker that the result   *)
(* table still needs: only an abort does.                                  *)
OnlyBeyondTargetStopped ==
  \A h \in Hops : wpc[h] \in Running /\ wStopping[h] => isStopping \/ h > maxHop

(* A trace that nobody aborted ends with an answer of every hop up to the  *)
(* target.                                                                 *)
CompleteTrace ==
  tpc = "ending" /\ ~isStopping =>
    \A h \in 1 .. maxHop : wpc[h] = "done" /\ wAnswer[h] # "none"

-----------------------------------------------------------------------------
(* Safety, when the user leaves Trace/MaxHops alone and waits for the      *)
(* events of a trace before the next.                                      *)

(* No pointer is used that is NULL or was never initialised.               *)
NoFault == fault = "none"

(* When the GUI is told that the trace ended, the fin of every worker was  *)
(* handled: the array points to no object and is free for the next trace.  *)
EndMeansReclaimed ==
  events # <<>> /\ Head(events).kind = "end" => \A h \in Hops : workers[h] \in {Null, Wild}

(* Every worker that a trace made is deleted, at the end of that trace or  *)
(* of the next: Qt deletes it when the tracing thread finishes.            *)
NothingLeaks ==
  tpc = "idle" /\ events = <<>> =>
    \A h \in Hops : wpc[h] = "done" => <<trace, h>> \in deferred \union freed

(* Every hop is probed at once: a created worker finds a free thread, so   *)
(* a silent hop cannot keep the hops behind it from starting.              *)
PoolHasRoom == (\E h \in Hops : wpc[h] = "created") => Cardinality(Busy) < poolMax

(* While a trace runs the table of addresses takes no double click, so     *)
(* StartTracing cannot clear the results of a trace that is still running. *)
LockedWhileTracing == InRun => tableLocked

(* The table is never left locked with nothing to unlock it.               *)
NoOrphanLock ==
  tableLocked =>
    \/ tpc # "idle"
    \/ \E k \in 1 .. Len(events) : events[k].kind = "end" /\ events[k].trace = trace

(* An abort reaches every worker that is sending probes.                   *)
StopReachesProbing ==
  [][AbortTracing =>
       \A h \in Hops : wpc[h] \in {"probe", "wait"} => wStopping'[h]]_vars

-----------------------------------------------------------------------------
(* The inductive invariant behind the first four safety properties.  Its   *)
(* parts say what holds between two steps of the three kinds of thread.    *)

(* Before its loop run() has made no worker; in the loop, those up to i.   *)
LoopInv ==
  /\ tpc = "create" => i < MaxHops
  /\ tpc # "idle" => trace > 0
  /\ tpc \in {"begin", "max", "old", "pool"} => \A h \in Hops : wpc[h] = "none"
  /\ tpc \in {"test", "create"} => \A h \in Hops : wpc[h] = "none" <=> h > i
  /\ ~InRun => AllReturned

(* An object is in one place only: pointed to, to be deleted, or deleted;  *)
(* one of the latest trace is deleted only when that trace is over.        *)
ObjectInv ==
  /\ \A h \in Hops : workers[h] <= trace
  /\ \A h \in Hops : workers[h] = trace /\ trace > 0 => wpc[h] # "none"
  /\ \A h \in Hops : <<workers[h], h>> \notin deferred \union freed
  /\ \A h \in Hops : <<Null, h>> \notin deferred \union freed
  /\ \A o \in deferred \union freed :
       o[1] < trace \/ (o[1] = trace /\ wpc[o[2]] # "none")
  /\ \A o \in freed : o[1] = trace => tpc = "idle"

Probed ==
  {"report", "info", "name", "resolve", "fin", "returning", "done"}

(* A worker that stopped probing has an answer, unless nobody waits for it. *)
AnswerInv ==
  /\ \A h \in Hops :
       wpc[h] \in Probed => wAnswer[h] # "none" \/ isStopping \/ h > maxHop
  /\ tpc \in {"join", "ending"} /\ ~isStopping =>
       \A h \in 1 .. maxHop : wpc[h] # "none"

IndInv ==
  TypeOK /\ LoopInv /\ ObjectInv /\ OnlyBeyondTargetStopped /\ AnswerInv

-----------------------------------------------------------------------------
(* The handler of fin finds the worker that finished.                      *)
FinFindsWorker == fault # "null"

(* The inductive invariant of a user who waits: what is posted, and what   *)
(* is not handled yet, matches what the threads have done.                 *)

Queued(kind, h) ==
  \E k \in 1 .. Len(events) : events[k].kind = kind /\ events[k].hop = h

\* The worker has emitted fin.
Emitted(h) == wpc[h] \in {"returning", "done"}

(* Every posted event is of the latest trace and came after its start; end *)
(* is posted when run() is over and stays the last.                        *)
QueueInv ==
  /\ tpc \in {"begin", "max", "old", "pool"} => events = <<>>
  /\ \A k \in 1 .. Len(events) :
       /\ events[k].trace = trace /\ trace > 0
       /\ events[k].kind = "end" => k = Len(events) /\ ~InRun

(* The array points to a worker from its creation until its fin is         *)
(* handled; from then on the object is to be deleted, or deleted.          *)
ArrayInv ==
  \A h \in Hops :
    /\ workers[h] \in {Null, Wild, trace}
    /\ wpc[h] \notin {"none", "returning", "done"} => workers[h] = trace
    /\ Emitted(h) => \/ workers[h] = trace /\ Queued("fin", h)
                     \/ workers[h] # trace /\ <<trace, h>> \in deferred \union freed

(* A fin that waits to be handled is the only one of a worker that the     *)
(* array still points to.                                                  *)
FinInv ==
  \A k \in 1 .. Len(events) :
    events[k].kind = "fin" =>
      /\ Emitted(events[k].hop) /\ workers[events[k].hop] = trace
      /\ \A l \in 1 .. Len(events) :
           events[l].kind = "fin" /\ events[l].hop = events[k].hop => l = k

(* A report of the target that waits to be handled is what the worker of   *)
(* that hop still knows; a worker that has not got a reply knows nothing.  *)
ReportInv ==
  /\ \A h \in Hops : wpc[h] \in {"none", "created", "probe", "wait"} => wAnswer[h] = "none"
  /\ \A k \in 1 .. Len(events) :
       events[k].kind = "target" => wAnswer[events[k].hop] = "target"

(* The table is locked until the posted end is handled.                    *)
LockInv ==
  /\ InRun => tableLocked
  /\ tableLocked /\ ~InRun => Queued("end", 0)

PostedInv ==
  QueueInv /\ ArrayInv /\ FinInv /\ ReportInv /\ LockInv /\ FinFindsWorker

WaitingInv == IndInv /\ PostedInv

(* While nobody raises Trace/MaxHops over the value the program started    *)
(* with, run() and the stops stay in the part of the array that the        *)
(* constructor cleared.                                                    *)
ClearedInv ==
  /\ \A h \in 1 .. StartHops : workers[h] # Wild
  /\ traceMaxHops <= StartHops /\ maxHop <= StartHops /\ oldMaxHop <= StartHops
  /\ tpc = "create" => i < StartHops
  /\ \A h \in Hops : wpc[h] # "none" => h <= StartHops
  /\ fault # "wild"

(* While nobody changes it, the pool has a thread for every worker, and an *)
(* abort reaches as far as the loop of run() went.                         *)
FixedInv == traceMaxHops = StartHops /\ poolMax = StartHops

-----------------------------------------------------------------------------
(* The trace as its user sees it.  A stop asked for before run() has set   *)
(* isStopping is no abort: the code forgets it.                            *)

SessionPhase ==
  CASE tpc = "idle" -> "ready"
    [] tpc \in {"begin", "max"} -> "starting"
    [] tpc = "ending" -> "over"
    [] OTHER -> "tracing"

SessionLimit == IF tpc \in {"idle", "begin", "max"} THEN 0 ELSE maxHop

SessionAnswer == IF tpc = "idle" THEN [h \in Hops |-> "none"] ELSE wAnswer

SessionAborted == tpc \notin {"idle", "begin"} /\ isStopping

Session ==
  INSTANCE TraceSession WITH
    phase <- SessionPhase, limit <- SessionLimit,
    answer <- SessionAnswer, aborted <- SessionAborted

(* TracingCore, the pool and the GUI implement TraceSession, when the user *)
(* waits for the events of a trace before the next.                        *)
ImplementsSession == Session!Spec

-----------------------------------------------------------------------------
(* Liveness.                                                               *)

(* Once the loop of run() is over and every worker has an answer or runs   *)
(* with its stop flag set, the trace ends and the table is unlocked, silent *)
(* hops or not.                                                            *)
Drained ==
  /\ tableLocked
  /\ tpc \in {"join", "ending"}
  /\ \A h \in Hops : Alive(h) => wpc[h] \in Running /\ (wStopping[h] \/ wAnswer[h] # "none")

DrainedUnlocks == Drained ~> ~tableLocked

(* A hop that answers is finished with, whatever the other hops do.        *)
AnsweringHopFinishes ==
  \A h \in Hops : Answers[h] # {} => (Alive(h) ~> ~Alive(h))

-----------------------------------------------------------------------------
(* What comments of the code promise and the code does not keep.           *)

(* An abort ends the trace.                                                *)
AbortEnds == buttonLocked /\ tpc # "idle" ~> tpc = "idle"

(* The constructor cleared the array of workers.                           *)
ArrayCleared == fault # "wild"
=============================================================================
