------------------------- MODULE TracingCoreProofs -------------------------
(***************************************************************************)
(* What TracingCore guarantees whatever the number of hops, the answers of *)
(* the network, the number of traces, and whatever the user does to the    *)
(* configuration and the buttons, at whatever moment; and more for a user  *)
(* who starts no trace before the events of the last one are handled.      *)
(***************************************************************************)
EXTENDS TracingCore, FiniteSetTheorems, TLAPS

(* Appending a well-formed event, and dropping the first one, keeps the    *)
(* queue well-formed.                                                      *)
LEMMA PostType ==
  ASSUME events \in Seq(Event), trace \in 0 .. MaxRuns,
         NEW kind \in EventKind \ {"end"}, NEW h \in Hops, Post(kind, h)
  PROVE  events' \in Seq(Event)
BY DEF Post, Event

LEMMA DeliveredType ==
  ASSUME events \in Seq(Event), NEW kinds, Delivered(kinds)
  PROVE  /\ events' \in Seq(Event)
         /\ Head(events) \in Event
BY DEF Delivered

-----------------------------------------------------------------------------
LEMMA InitInv == Init => IndInv
<1> SUFFICES ASSUME Init PROVE IndInv
  OBVIOUS
<1> USE WorkerAssumption, CoreAssumption
        DEF WorkerAssumption, CoreAssumption, Init, WorkerInit
<1>1. TypeOK
  <2>1. WorkerTypeOK
    BY DEF WorkerTypeOK, WorkerPC
  <2>2. workers \in [Hops -> Pointer]
    BY DEF Constructed, Pointer, Null, Wild
  <2>3. StartHops \in Hops /\ 0 \in 0 .. MaxHops
    BY DEF Hops
  <2> QED BY <2>1, <2>2, <2>3 DEF TypeOK, ThreadPC
<1>2. LoopInv
  BY DEF LoopInv, InRun, AllReturned
<1>3. ObjectInv
  BY DEF ObjectInv, Constructed, Null, Wild
<1>4. OnlyBeyondTargetStopped
  BY DEF OnlyBeyondTargetStopped
<1>5. AnswerInv
  BY DEF AnswerInv, Probed
<1> QED BY <1>1, <1>2, <1>3, <1>4, <1>5 DEF IndInv

-----------------------------------------------------------------------------
(* The pool threads.                                                       *)

(* A step of a worker moves that worker only, from a point where it holds  *)
(* or awaits a thread, and changes nothing but its own variables and the   *)
(* event queue.                                                            *)
LEMMA WorkerMoves ==
  ASSUME TypeOK, NEW h \in Hops, PoolThread(h)
  PROVE  /\ wpc[h] \notin {"none", "done"}
         /\ \E pc \in Running \union {"done"} : wpc' = [wpc EXCEPT ![h] = pc]
         /\ UNCHANGED <<trace, threadVars, arrayVars, guiVars, fault>>
BY DEF PoolThread, WorkerBegin, WorkerRun, Probe, ProbeReply, ProbeTimeout, Report, GetInfo, NameTest, GetHostname, Finish, Return, Goto, Running, TypeOK, WorkerTypeOK

LEMMA WorkerType ==
  ASSUME TypeOK, NEW h \in Hops, PoolThread(h)
  PROVE  TypeOK'
<1> USE WorkerAssumption DEF WorkerAssumption
<1>1. WorkerTypeOK
  BY DEF TypeOK
<1>2. UNCHANGED <<trace, threadVars, arrayVars, guiVars, fault>>
  BY DEF PoolThread
<1>3. wpc' \in [Hops -> WorkerPC]
  <2>1. PICK pc \in Running \union {"done"} : wpc' = [wpc EXCEPT ![h] = pc]
    BY WorkerMoves
  <2> QED BY <1>1, <2>1 DEF WorkerTypeOK, WorkerPC
<1>4. events' \in Seq(Event)
  <2>1. \A kind \in EventKind \ {"end"} : Post(kind, h) => events' \in Seq(Event)
    BY <1>1, PostType DEF WorkerTypeOK
  <2>2. \/ UNCHANGED events
        \/ \E kind \in EventKind \ {"end"} : Post(kind, h)
    BY <1>1 DEF PoolThread, WorkerBegin, WorkerRun, Probe, ProbeReply, ProbeTimeout, Report,
                GetInfo, NameTest, GetHostname, Finish, Return, PostRow, GoesOn,
                EventKind, WorkerTypeOK
  <2> QED BY <1>1, <2>1, <2>2 DEF WorkerTypeOK
<1>5. wStopping' \in [Hops -> BOOLEAN]
  BY <1>1 DEF PoolThread, WorkerBegin, WorkerRun, Probe, ProbeReply, ProbeTimeout, Report,
              GetInfo, NameTest, GetHostname, Finish, Return, WorkerTypeOK
<1>6. wAnswer' \in [Hops -> {"none", "router", "target"}]
  <2>1. Answers[h] \subseteq {"router", "target"}
    BY DEF Hops
  <2> QED
    BY <1>1, <2>1
       DEF PoolThread, WorkerBegin, WorkerRun, Probe, ProbeReply, ProbeTimeout, Report,
           GetInfo, NameTest, GetHostname, Finish, Return, WorkerTypeOK
<1>7. wRetries' \in [Hops -> 0 .. MaxRetries]
  <2>1. 0 \in 0 .. MaxRetries
    OBVIOUS
  <2>2. wRetries[h] < MaxRetries => wRetries[h] + 1 \in 0 .. MaxRetries
    BY <1>1 DEF WorkerTypeOK
  <2>3. \/ UNCHANGED wRetries
        \/ wRetries' = [wRetries EXCEPT ![h] = 0]
        \/ /\ wRetries[h] < MaxRetries
           /\ wRetries' = [wRetries EXCEPT ![h] = wRetries[h] + 1]
    BY DEF PoolThread, WorkerBegin, WorkerRun, Probe, ProbeReply, ProbeTimeout, Report,
           GetInfo, NameTest, GetHostname, Finish, Return
  <2> QED BY <1>1, <2>1, <2>2, <2>3 DEF WorkerTypeOK
<1>8. WorkerTypeOK'
  BY <1>1, <1>2, <1>3, <1>4, <1>5, <1>6, <1>7 DEF WorkerTypeOK
<1> QED
  BY <1>2, <1>8 DEF TypeOK, threadVars, arrayVars, guiVars

LEMMA WorkerLoop ==
  ASSUME IndInv, NEW h \in Hops, PoolThread(h)
  PROVE  LoopInv' /\ ObjectInv'
<1> USE DEF IndInv
<1>1. PICK pc \in Running \union {"done"} : wpc' = [wpc EXCEPT ![h] = pc]
  BY WorkerMoves
<1>2. /\ wpc[h] \notin {"none", "done"}
      /\ UNCHANGED <<trace, threadVars, arrayVars>>
  BY WorkerMoves
<1>3. /\ pc # "none" /\ h \in Hops
      /\ wpc \in [Hops -> WorkerPC]
      /\ InRun
  BY <1>2 DEF Running, LoopInv, AllReturned, TypeOK, WorkerTypeOK
<1>4. LoopInv'
  BY <1>1, <1>2, <1>3 DEF LoopInv, InRun, threadVars
<1>5. ObjectInv'
  <2>1. \A g \in Hops : wpc'[g] = "none" <=> wpc[g] = "none"
    BY <1>1, <1>2, <1>3
  <2>2. \A o \in deferred \union freed : o[2] \in Hops
    BY DEF TypeOK
  <2> QED BY <1>2, <2>1, <2>2 DEF ObjectInv, threadVars, arrayVars
<1> QED BY <1>4, <1>5

LEMMA WorkerStops ==
  ASSUME IndInv, NEW h \in Hops, PoolThread(h)
  PROVE  OnlyBeyondTargetStopped'
<1>1. /\ wpc[h] \notin {"none", "done"}
      /\ \E pc \in Running \union {"done"} : wpc' = [wpc EXCEPT ![h] = pc]
      /\ UNCHANGED <<isStopping, maxHop>>
  BY WorkerMoves DEF IndInv, threadVars
<1>2. \/ wpc[h] \in Running /\ UNCHANGED wStopping
      \/ wStopping' = [wStopping EXCEPT ![h] = FALSE]
  BY DEF PoolThread, WorkerBegin, WorkerRun, Probe, ProbeReply, ProbeTimeout, Report,
         GetInfo, NameTest, GetHostname, Finish, Return, Running
<1>3. wpc \in [Hops -> WorkerPC] /\ wStopping \in [Hops -> BOOLEAN]
  BY DEF IndInv, TypeOK, WorkerTypeOK
<1>4. \A g \in Hops : wpc'[g] \in Running /\ wStopping'[g] => wpc[g] \in Running /\ wStopping[g]
  BY <1>1, <1>2, <1>3
<1> QED BY <1>1, <1>4 DEF IndInv, OnlyBeyondTargetStopped

LEMMA WorkerAnswers ==
  ASSUME IndInv, NEW h \in Hops, PoolThread(h)
  PROVE  AnswerInv'
<1>1. /\ wpc[h] \notin {"none", "done"}
      /\ \E pc \in Running \union {"done"} : wpc' = [wpc EXCEPT ![h] = pc]
      /\ UNCHANGED <<tpc, isStopping, maxHop>>
  BY WorkerMoves DEF IndInv, threadVars
<1>2. /\ wpc \in [Hops -> WorkerPC]
      /\ wAnswer \in [Hops -> {"none", "router", "target"}]
      /\ Answers[h] \subseteq {"router", "target"}
  BY WorkerAssumption DEF WorkerAssumption, Hops, IndInv, TypeOK, WorkerTypeOK
<1>3. wpc'[h] \in Probed => wAnswer'[h] # "none" \/ isStopping \/ h > maxHop
  <2>1. CASE WorkerBegin(h) \/ ProbeTimeout(h)
    BY <1>2, <2>1 DEF WorkerBegin, ProbeTimeout, Goto, Probed
  <2>2. CASE Probe(h)
    BY <1>2, <2>2 DEF Probe, Goto, Probed, IndInv, OnlyBeyondTargetStopped, Running
  <2>3. CASE ProbeReply(h)
    BY <1>2, <2>3 DEF ProbeReply
  <2>4. CASE \/ Report(h) \/ GetInfo(h) \/ NameTest(h) \/ GetHostname(h)
             \/ Finish(h) \/ Return(h)
    BY <2>4 DEF Report, GetInfo, NameTest, GetHostname, Finish, Return, Probed, IndInv, AnswerInv
  <2> QED BY <2>1, <2>2, <2>3, <2>4 DEF PoolThread, WorkerRun
<1>4. \A g \in Hops \ {h} : wpc'[g] = wpc[g] /\ wAnswer'[g] = wAnswer[g]
  BY <1>1, <1>2
     DEF PoolThread, WorkerBegin, WorkerRun, Probe, ProbeReply, ProbeTimeout, Report,
         GetInfo, NameTest, GetHostname, Finish, Return
<1>5. \A g \in Hops : wpc'[g] = "none" <=> wpc[g] = "none"
  BY <1>1, <1>2 DEF Running
<1>6. 1 .. maxHop \subseteq Hops
  BY WorkerAssumption DEF WorkerAssumption, IndInv, TypeOK, Hops
<1> QED BY <1>1, <1>3, <1>4, <1>5, <1>6 DEF IndInv, AnswerInv

LEMMA WorkerStep ==
  ASSUME IndInv, NEW h \in Hops, PoolThread(h)
  PROVE  IndInv'
BY WorkerType, WorkerLoop, WorkerStops, WorkerAnswers DEF IndInv

-----------------------------------------------------------------------------
(* The tracing thread.                                                     *)

LEMMA ThreadType ==
  ASSUME IndInv, TracingThread
  PROVE  TypeOK'
<1> USE WorkerAssumption DEF WorkerAssumption, Hops
<1> USE DEF IndInv, TypeOK, ThreadPC, arrayVars, guiVars, workerVars
<1>1. CASE RunBegin
  BY <1>1 DEF RunBegin, WorkerTypeOK
<1>2. CASE ReadMaxHop
  BY <1>2 DEF ReadMaxHop, WorkerTypeOK
<1>3. CASE ReadOldMaxHop
  BY <1>3 DEF ReadOldMaxHop, WorkerTypeOK
<1>4. CASE SizePool
  BY <1>4 DEF SizePool, PoolSize, WorkerTypeOK
<1>5. CASE LoopTest
  BY <1>5 DEF LoopTest, WorkerTypeOK
<1>6. CASE CreateWorker
  <2>1. i + 1 \in Hops
    BY <1>6 DEF CreateWorker, LoopInv
  <2>2. WorkerTypeOK'
    BY <1>6, <2>1 DEF CreateWorker, Goto, WorkerTypeOK, WorkerPC
  <2>3. workers' \in [Hops -> Pointer]
    BY <1>6, <2>1 DEF CreateWorker, Pointer, WorkerTypeOK
  <2> QED BY <1>6, <2>1, <2>2, <2>3 DEF CreateWorker
<1>7. CASE WaitForDone
  <2>1. events' \in Seq(Event)
    BY <1>7 DEF WaitForDone, EmitEnd, Post, Event, WorkerTypeOK
  <2> QED BY <1>7, <2>1 DEF WaitForDone, WorkerTypeOK
<1>8. CASE ThreadFinish
  BY <1>8 DEF ThreadFinish, WorkerTypeOK
<1> QED
  BY <1>1, <1>2, <1>3, <1>4, <1>5, <1>6, <1>7, <1>8 DEF TracingThread

LEMMA ThreadLoop ==
  ASSUME IndInv, TracingThread
  PROVE  LoopInv'
<1> USE DEF IndInv, LoopInv, InRun, AllReturned, workerVars
<1>1. CASE RunBegin \/ ReadMaxHop \/ ReadOldMaxHop
  BY <1>1 DEF RunBegin, ReadMaxHop, ReadOldMaxHop
<1>2. CASE SizePool
  BY <1>2 DEF SizePool, Hops
<1>3. CASE LoopTest
  <2>1. i \in Nat /\ maxHop \in 1 .. MaxHops /\ MaxHops \in Nat
    BY WorkerAssumption DEF WorkerAssumption, TypeOK, Hops
  <2> QED BY <1>3, <2>1 DEF LoopTest
<1>4. CASE CreateWorker
  <2>1. i \in Nat /\ i + 1 \in Hops /\ wpc \in [Hops -> WorkerPC]
    BY <1>4, WorkerAssumption DEF WorkerAssumption, CreateWorker, TypeOK, WorkerTypeOK, Hops
  <2>2. \A h \in Hops : wpc'[h] = "none" <=> h > i + 1
    BY <1>4, <2>1 DEF CreateWorker, Goto, Hops
  <2> QED BY <1>4, <2>2 DEF CreateWorker
<1>5. CASE WaitForDone \/ ThreadFinish
  BY <1>5 DEF WaitForDone, ThreadFinish
<1> QED
  BY <1>1, <1>2, <1>3, <1>4, <1>5 DEF TracingThread

LEMMA ThreadObjects ==
  ASSUME IndInv, TracingThread
  PROVE  ObjectInv'
<1> USE DEF IndInv, ObjectInv, arrayVars, workerVars
<1>1. CASE \/ RunBegin \/ ReadMaxHop \/ ReadOldMaxHop \/ SizePool \/ LoopTest
           \/ WaitForDone
  BY <1>1 DEF RunBegin, ReadMaxHop, ReadOldMaxHop, SizePool, LoopTest, WaitForDone
<1>2. CASE CreateWorker
  <2>1. /\ i + 1 \in Hops /\ wpc \in [Hops -> WorkerPC] /\ workers \in [Hops -> Pointer]
        /\ wpc[i + 1] = "none" /\ trace \in Nat /\ trace > 0
    BY <1>2, WorkerAssumption
       DEF WorkerAssumption, CreateWorker, LoopInv, TypeOK, WorkerTypeOK, Hops
  <2>2. \A o \in deferred \union freed : o[2] \in Hops /\ o[1] \in Int
    BY WorkerAssumption DEF WorkerAssumption, TypeOK, Pointer, Wild
  <2>3. <<trace, i + 1>> \notin deferred \union freed
    BY <2>1, <2>2
  <2>4. \A h \in Hops : wpc'[h] = IF h = i + 1 THEN "created" ELSE wpc[h]
    BY <1>2, <2>1 DEF CreateWorker, Goto
  <2>5. \A h \in Hops : workers'[h] = IF h = i + 1 THEN trace ELSE workers[h]
    BY <1>2, <2>1 DEF CreateWorker
  <2> QED BY <1>2, <2>1, <2>2, <2>3, <2>4, <2>5 DEF CreateWorker
<1>3. CASE ThreadFinish
  BY <1>3 DEF ThreadFinish
<1> QED
  BY <1>1, <1>2, <1>3 DEF TracingThread

LEMMA ThreadStops ==
  ASSUME IndInv, TracingThread
  PROVE  OnlyBeyondTargetStopped'
<1> USE DEF IndInv, OnlyBeyondTargetStopped, workerVars
<1>1. CASE RunBegin \/ ReadMaxHop
  <2>1. \A h \in Hops : wpc'[h] = "none"
    BY <1>1 DEF RunBegin, ReadMaxHop, LoopInv
  <2> QED BY <2>1 DEF Running
<1>2. CASE \/ ReadOldMaxHop \/ SizePool \/ LoopTest \/ WaitForDone \/ ThreadFinish
  BY <1>2 DEF ReadOldMaxHop, SizePool, LoopTest, WaitForDone, ThreadFinish
<1>3. CASE CreateWorker
  <2>1. wpc \in [Hops -> WorkerPC]
    BY DEF TypeOK, WorkerTypeOK
  <2>2. \A h \in Hops : wpc'[h] \in Running => wpc[h] \in Running
    BY <1>3, <2>1 DEF CreateWorker, Goto, Running
  <2> QED BY <1>3, <2>2 DEF CreateWorker
<1> QED
  BY <1>1, <1>2, <1>3 DEF TracingThread

LEMMA ThreadAnswers ==
  ASSUME IndInv, TracingThread
  PROVE  AnswerInv'
<1> USE DEF IndInv, AnswerInv, workerVars
<1>1. CASE RunBegin \/ ReadMaxHop
  <2>1. \A h \in Hops : wpc'[h] = "none"
    BY <1>1 DEF RunBegin, ReadMaxHop, LoopInv
  <2> QED BY <1>1, <2>1 DEF Probed, RunBegin, ReadMaxHop
<1>2. CASE \/ ReadOldMaxHop \/ SizePool \/ WaitForDone \/ ThreadFinish
  BY <1>2 DEF ReadOldMaxHop, SizePool, WaitForDone, ThreadFinish
<1>3. CASE LoopTest
  <2>1. i \in Nat /\ maxHop \in 1 .. MaxHops /\ MaxHops \in Nat
    BY WorkerAssumption DEF WorkerAssumption, TypeOK, Hops
  <2> QED BY <1>3, <2>1 DEF LoopTest, LoopInv, Hops
<1>4. CASE CreateWorker
  <2>1. wpc \in [Hops -> WorkerPC]
    BY DEF TypeOK, WorkerTypeOK
  <2>2. \A h \in Hops : wpc'[h] \in Probed => wpc[h] \in Probed
    BY <1>4, <2>1 DEF CreateWorker, Goto, Probed
  <2> QED BY <1>4, <2>2 DEF CreateWorker
<1> QED
  BY <1>1, <1>2, <1>3, <1>4 DEF TracingThread

LEMMA ThreadStep ==
  ASSUME IndInv, TracingThread
  PROVE  IndInv'
BY ThreadType, ThreadLoop, ThreadObjects, ThreadStops, ThreadAnswers DEF IndInv

-----------------------------------------------------------------------------
(* The GUI thread.                                                         *)

(* A stop of some workers changes no more than their flags, each upwards.  *)
LEMMA StopWorkersSets ==
  ASSUME TypeOK, NEW S \in SUBSET Hops, StopWorkers(S)
  PROVE  /\ wStopping' \in [Hops -> BOOLEAN]
         /\ \A h \in Hops \ S : wStopping'[h] = wStopping[h]
         /\ fault' \in {"none", "null", "wild"}
BY DEF StopWorkers, TypeOK, WorkerTypeOK

LEMMA StartStep ==
  ASSUME IndInv, StartTracing
  PROVE  IndInv'
<1> USE DEF IndInv
<1>1. CASE tpc # "idle"
  <2>1. UNCHANGED <<trace, events, workerVars, threadVars, arrayVars, traceMaxHops,
                    buttonLocked, fault>>
        /\ tableLocked' = TRUE
    BY <1>1 DEF StartTracing, InitializeTracing, threadVars
  <2>2. TypeOK'
    BY <2>1 DEF TypeOK, WorkerTypeOK, workerVars, threadVars, arrayVars
  <2> QED
    BY <2>1, <2>2 DEF LoopInv, AllReturned, InRun, ObjectInv, OnlyBeyondTargetStopped, AnswerInv,
                      workerVars, threadVars, arrayVars
<1>2. CASE tpc = "idle"
  <2>1. /\ trace < MaxRuns /\ trace' = trace + 1
        /\ tpc' = "begin"
        /\ NoWorkersYet
        /\ UNCHANGED <<events, i, isStopping, maxHop, oldMaxHop, poolMax, arrayVars,
                      traceMaxHops, buttonLocked, fault>>
        /\ tableLocked' = TRUE
    BY <1>2 DEF StartTracing, InitializeTracing
  <2>2. trace \in Nat /\ trace' \in 0 .. MaxRuns
    BY <2>1, WorkerAssumption DEF WorkerAssumption, TypeOK, WorkerTypeOK
  <2>3. 0 \in 0 .. MaxRetries
    BY WorkerAssumption DEF WorkerAssumption
  <2>4. TypeOK'
    BY <2>1, <2>2, <2>3 DEF TypeOK, WorkerTypeOK, NoWorkersYet, WorkerPC, ThreadPC, arrayVars
  <2>5. \A h \in Hops : wpc'[h] = "none"
    BY <2>1 DEF NoWorkersYet
  <2>6. LoopInv'
    BY <2>1, <2>2, <2>5 DEF LoopInv, InRun
  <2>7. ObjectInv'
    <3>1. /\ \A h \in Hops : workers[h] \in Int
          /\ \A o \in deferred \union freed : o[1] \in Int
      BY WorkerAssumption DEF WorkerAssumption, TypeOK, Pointer, Wild
    <3> QED BY <2>1, <2>2, <3>1 DEF ObjectInv, arrayVars
  <2>8. OnlyBeyondTargetStopped' /\ AnswerInv'
    BY <2>1, <2>5 DEF OnlyBeyondTargetStopped, AnswerInv, Running, Probed
  <2> QED BY <2>4, <2>6, <2>7, <2>8
<1> QED BY <1>1, <1>2

LEMMA AbortStep ==
  ASSUME IndInv, AbortTracing
  PROVE  IndInv'
<1> USE DEF IndInv
<1>1. AbortedHops \in SUBSET Hops
  BY WorkerAssumption DEF WorkerAssumption, AbortedHops, TypeOK, Hops
<1>2. /\ wStopping' \in [Hops -> BOOLEAN]
      /\ fault' \in {"none", "null", "wild"}
  BY <1>1, StopWorkersSets DEF AbortTracing
<1>3. TypeOK'
  BY <1>2 DEF TypeOK, WorkerTypeOK, AbortTracing, arrayVars
<1>4. LoopInv' /\ ObjectInv'
  BY DEF AbortTracing, LoopInv, AllReturned, InRun, ObjectInv, arrayVars
<1>5. OnlyBeyondTargetStopped' /\ AnswerInv'
  BY DEF AbortTracing, OnlyBeyondTargetStopped, AnswerInv
<1> QED BY <1>3, <1>4, <1>5

LEMMA ReportStep ==
  ASSUME IndInv, HandleReport
  PROVE  IndInv'
<1> USE DEF IndInv
<1> DEFINE e == Head(events)
<1>1. events' \in Seq(Event) /\ e \in Event
  BY DeliveredType DEF HandleReport, TypeOK, WorkerTypeOK
<1>2. /\ UNCHANGED <<trace, wpc, wAnswer, wRetries, tpc, i, isStopping, poolMax>>
      /\ UNCHANGED <<arrayVars, guiVars>>
  BY DEF HandleReport
<1>3. LoopInv' /\ ObjectInv'
  BY <1>2 DEF LoopInv, AllReturned, InRun, ObjectInv, arrayVars
<1>4. CASE e.kind = "target" /\ e.hop <= maxHop
  <2>1. e.hop \in Hops /\ maxHop \in Hops
    BY <1>1, <1>4 DEF Event, TypeOK
  <2>2. maxHop' = e.hop /\ oldMaxHop' = e.hop /\ StopWorkers(HopsBeyond(e.hop))
    BY <1>4 DEF HandleReport, TargetFound
  <2>3. HopsBeyond(e.hop) \in SUBSET Hops
    BY <2>1, WorkerAssumption DEF WorkerAssumption, HopsBeyond, TypeOK, Hops
  <2>4. /\ wStopping' \in [Hops -> BOOLEAN]
        /\ \A h \in Hops \ HopsBeyond(e.hop) : wStopping'[h] = wStopping[h]
        /\ fault' \in {"none", "null", "wild"}
    BY <2>2, <2>3, StopWorkersSets
  <2>5. TypeOK'
    BY <1>1, <1>2, <2>1, <2>2, <2>4 DEF TypeOK, WorkerTypeOK, arrayVars, guiVars
  <2>6. \A h \in Hops : h > maxHop \/ h \in HopsBeyond(e.hop) => h > e.hop
    BY <1>4, <2>1, WorkerAssumption DEF WorkerAssumption, HopsBeyond, TypeOK, Hops
  <2>7. OnlyBeyondTargetStopped'
    BY <1>2, <2>2, <2>4, <2>6 DEF OnlyBeyondTargetStopped
  <2>8. 1 .. e.hop \subseteq 1 .. maxHop
    BY <1>4, <2>1, WorkerAssumption DEF WorkerAssumption, Hops
  <2>9. AnswerInv'
    BY <1>2, <2>2, <2>6, <2>8 DEF AnswerInv
  <2> QED BY <1>3, <2>5, <2>7, <2>9
<1>5. CASE ~(e.kind = "target" /\ e.hop <= maxHop)
  <2>1. UNCHANGED <<maxHop, oldMaxHop, wStopping, fault>>
    BY <1>5 DEF HandleReport
  <2>2. TypeOK'
    BY <1>1, <1>2, <2>1 DEF TypeOK, WorkerTypeOK, arrayVars, guiVars
  <2> QED BY <1>2, <1>3, <2>1, <2>2 DEF OnlyBeyondTargetStopped, AnswerInv
<1> QED BY <1>4, <1>5

LEMMA FinStep ==
  ASSUME IndInv, HandleFin
  PROVE  IndInv'
<1> USE DEF IndInv
<1> DEFINE h == Head(events).hop
<1>1. /\ events' \in Seq(Event)
      /\ h \in Hops
  <2>1. Head(events).kind = "fin"
    BY DEF HandleFin, Delivered
  <2> QED BY <2>1, DeliveredType DEF HandleFin, TypeOK, WorkerTypeOK, Event
<1>2. UNCHANGED <<trace, workerVars, threadVars, guiVars>>
  BY DEF HandleFin
<1>3. LoopInv' /\ OnlyBeyondTargetStopped' /\ AnswerInv'
  BY <1>2 DEF workerVars, threadVars, LoopInv, AllReturned, InRun, OnlyBeyondTargetStopped, AnswerInv
<1>4. CASE workers[h] = Null
  <2>1. fault' = "null" /\ UNCHANGED arrayVars
    BY <1>4 DEF HandleFin
  <2>2. TypeOK' /\ ObjectInv'
    BY <1>1, <1>2, <2>1
       DEF TypeOK, WorkerTypeOK, ObjectInv, workerVars, threadVars, guiVars, arrayVars
  <2> QED BY <1>3, <2>2
<1>5. CASE workers[h] # Null
  <2>1. Reclaim(h) /\ UNCHANGED fault
    BY <1>5 DEF HandleFin
  <2>2. workers \in [Hops -> Pointer] /\ Null \in Pointer
    BY WorkerAssumption DEF WorkerAssumption, TypeOK, Pointer, Null
  <2>3. TypeOK'
    BY <1>1, <1>2, <2>1, <2>2
       DEF Reclaim, TypeOK, WorkerTypeOK, workerVars, threadVars, guiVars
  <2>4. \A g \in Hops : workers'[g] = IF g = h THEN Null ELSE workers[g]
    BY <2>1, <2>2 DEF Reclaim
  <2>5. /\ deferred' \union freed' = deferred \union freed \union {<<workers[h], h>>}
        /\ freed' = freed
    BY <2>1 DEF Reclaim
  <2>6. trace \in Nat /\ \A g \in Hops : workers[g] \in Int
    BY WorkerAssumption, <2>2 DEF WorkerAssumption, TypeOK, WorkerTypeOK, Pointer, Wild
  <2>7. workers[h] < trace \/ (workers[h] = trace /\ wpc[h] # "none")
    BY <1>1, <1>5, <2>6 DEF ObjectInv, Null
  <2>8. \A g \in Hops : workers'[g] <= trace
    BY <2>4, <2>6 DEF ObjectInv, Null
  <2>9. \A g \in Hops : workers'[g] = trace /\ trace > 0 => wpc[g] # "none"
    BY <2>4, <2>6 DEF ObjectInv, Null
  <2>10. \A g \in Hops : /\ <<workers'[g], g>> \notin deferred' \union freed'
                         /\ <<Null, g>> \notin deferred' \union freed'
    BY <1>5, <2>4, <2>5 DEF ObjectInv
  <2>11. \A o \in deferred' \union freed' :
           o[1] < trace \/ (o[1] = trace /\ wpc[o[2]] # "none")
    BY <2>5, <2>7 DEF ObjectInv
  <2>12. ObjectInv'
    BY <1>2, <2>5, <2>8, <2>9, <2>10, <2>11 DEF ObjectInv, workerVars, threadVars
  <2> QED BY <1>3, <2>3, <2>12
<1> QED BY <1>4, <1>5

(* The other steps of the GUI thread touch nothing but the queue and what  *)
(* the user sees.                                                          *)
LEMMA OtherStep ==
  ASSUME IndInv, Configure \/ HandleDetail \/ HandleEnd \/ Sleep
  PROVE  IndInv'
<1>1. UNCHANGED <<trace, workerVars, threadVars, arrayVars, fault>>
  BY DEF Configure, HandleDetail, HandleEnd, Sleep, vars, workerVars, threadVars, arrayVars
<1>2. events' \in Seq(Event)
  BY DeliveredType DEF Configure, HandleDetail, HandleEnd, Sleep, vars, IndInv, TypeOK, WorkerTypeOK
<1>3. traceMaxHops' \in Hops /\ buttonLocked' \in BOOLEAN /\ tableLocked' \in BOOLEAN
  BY CoreAssumption
     DEF CoreAssumption, Configure, HandleDetail, HandleEnd, CleanUpTracing, Sleep, vars, guiVars,
         IndInv, TypeOK
<1>4. TypeOK'
  BY <1>1, <1>2, <1>3 DEF IndInv, TypeOK, WorkerTypeOK, workerVars, threadVars, arrayVars
<1> QED
  BY <1>1, <1>4
     DEF IndInv, LoopInv, AllReturned, InRun, ObjectInv, OnlyBeyondTargetStopped, AnswerInv,
         workerVars, threadVars, arrayVars

-----------------------------------------------------------------------------
LEMMA NextInv == IndInv /\ [Next]_vars => IndInv'
<1> SUFFICES ASSUME IndInv, [Next]_vars PROVE IndInv'
  OBVIOUS
<1>1. CASE TracingThread
  BY <1>1, ThreadStep
<1>2. CASE \E h \in Hops : PoolThread(h)
  BY <1>2, WorkerStep
<1>3. CASE HandleReport
  BY <1>3, ReportStep
<1>4. CASE HandleFin
  BY <1>4, FinStep
<1>5. CASE StartTracing
  BY <1>5, StartStep
<1>6. CASE AbortTracing
  BY <1>6, AbortStep
<1>7. CASE Configure \/ HandleDetail \/ HandleEnd \/ Sleep
  BY <1>7, OtherStep
<1>8. CASE UNCHANGED vars
  BY <1>8
     DEF vars, workerVars, threadVars, arrayVars, guiVars, IndInv, TypeOK, WorkerTypeOK, LoopInv,
         AllReturned, InRun, ObjectInv, OnlyBeyondTargetStopped, AnswerInv
<1> QED
  BY <1>1, <1>2, <1>3, <1>4, <1>5, <1>6, <1>7, <1>8 DEF Next, HandleEvent

(* The inductive invariant holds of every behaviour.                       *)
THEOREM Inductive == Spec => []IndInv
<1>1. Init => IndInv
  BY InitInv
<1>2. IndInv /\ [Next]_vars => IndInv'
  BY NextInv
<1> QED BY <1>1, <1>2, PTL DEF Spec

(* Every variable keeps its type: no hop outside the array is ever written *)
(* or stopped, and the limit of a trace stays a hop.                       *)
THEOREM TypeCorrect == Spec => []TypeOK
<1>1. IndInv => TypeOK
  BY DEF IndInv
<1> QED BY <1>1, Inductive, PTL

(* No worker outlives the stack frame of run(), whose variables it reads.  *)
THEOREM WorkersInside == Spec => []WorkersInsideRun
<1>1. IndInv => WorkersInsideRun
  BY DEF IndInv, LoopInv, AllReturned, WorkersInsideRun, Alive, Running
<1> QED BY <1>1, Inductive, PTL

(* No worker object is used after its deletion.                            *)
THEOREM MemorySafe == Spec => []NoUseAfterFree
<1>1. IndInv => NoUseAfterFree
  <2> SUFFICES ASSUME IndInv, NEW h \in Hops
               PROVE  /\ Alive(h) => <<trace, h>> \notin freed
                      /\ <<workers[h], h>> \notin freed
    BY DEF NoUseAfterFree
  <2>1. <<workers[h], h>> \notin freed
    BY DEF IndInv, ObjectInv
  <2>2. Alive(h) => tpc # "idle"
    BY DEF IndInv, LoopInv, InRun, AllReturned, Alive, Running
  <2>3. <<trace, h>> \in freed => tpc = "idle"
    BY DEF IndInv, ObjectInv
  <2> QED BY <2>1, <2>2, <2>3
<1> QED BY <1>1, Inductive, PTL

(* The answer of the target stops no worker of a hop up to the target.     *)
THEOREM FanOutExact == Spec => []OnlyBeyondTargetStopped
<1>1. IndInv => OnlyBeyondTargetStopped
  BY DEF IndInv
<1> QED BY <1>1, Inductive, PTL

(* A trace that ends without an abort has an answer of every hop up to the *)
(* target.                                                                 *)
THEOREM TraceComplete == Spec => []CompleteTrace
<1>1. IndInv => CompleteTrace
  <2> SUFFICES ASSUME IndInv, tpc = "ending", ~isStopping, NEW h \in 1 .. maxHop
               PROVE  wpc[h] = "done" /\ wAnswer[h] # "none"
    BY DEF CompleteTrace
  <2>1. h \in Hops /\ ~(h > maxHop)
    BY WorkerAssumption DEF WorkerAssumption, IndInv, TypeOK, Hops
  <2>2. wpc[h] = "done"
    BY <2>1 DEF IndInv, LoopInv, InRun, AllReturned, AnswerInv
  <2> QED BY <2>1, <2>2 DEF IndInv, AnswerInv, Probed
<1> QED BY <1>1, Inductive, PTL

-----------------------------------------------------------------------------
(***************************************************************************)
(* From here on: what holds for a user who starts no trace before the      *)
(* events of the last one are handled.                                     *)
(***************************************************************************)
-----------------------------------------------------------------------------
(* The event queue.                                                        *)

(* What is posted becomes the last event.                                  *)
LEMMA Appended ==
  ASSUME events \in Seq(Event), NEW e, events' = Append(events, e)
  PROVE  /\ Len(events) \in Nat /\ Len(events') = Len(events) + 1
         /\ \A k \in 1 .. Len(events) : events'[k] = events[k]
         /\ events'[Len(events) + 1] = e
OBVIOUS

(* What is delivered was the first event; the others move up by one.       *)
LEMMA MovedUp ==
  ASSUME events \in Seq(Event), NEW kinds, Delivered(kinds)
  PROVE  /\ Len(events) \in Nat \ {0} /\ Len(events') = Len(events) - 1
         /\ \A k \in 1 .. Len(events') : k + 1 \in 1 .. Len(events) /\ events'[k] = events[k + 1]
         /\ 1 \in 1 .. Len(events) /\ Head(events) = events[1]
         /\ events[1] \in Event /\ events[1].kind \in kinds
         /\ \A k \in 1 .. Len(events) : k # 1 => k - 1 \in 1 .. Len(events')
BY DEF Delivered

(* A step of a worker posts nothing or one event of its own: fin on its    *)
(* way out, the report of the target while it knows that answer.           *)
LEMMA WorkerPosts ==
  ASSUME TypeOK, NEW h \in Hops, PoolThread(h)
  PROVE  \/ UNCHANGED events /\ (Emitted(h)' => Emitted(h))
         \/ \E kind \in EventKind \ {"end"} :
              /\ Post(kind, h)
              /\ kind = "fin" => wpc[h] = "fin" /\ wpc' = [wpc EXCEPT ![h] = "returning"]
              /\ kind # "fin" => ~Emitted(h)'
              /\ kind = "target" => wAnswer[h] = "target" /\ UNCHANGED wAnswer
<1>1. /\ wpc \in [Hops -> WorkerPC]
      /\ wAnswer \in [Hops -> {"none", "router", "target"}]
  BY DEF TypeOK, WorkerTypeOK
<1>2. CASE WorkerBegin(h) \/ Probe(h) \/ ProbeReply(h)
  BY <1>1, <1>2 DEF WorkerBegin, Probe, ProbeReply, Goto, Emitted
<1>3. CASE ProbeTimeout(h)
  BY <1>1, <1>3 DEF ProbeTimeout, PostRow, EventKind, Goto, Emitted
<1>4. CASE Report(h)
  BY <1>1, <1>4 DEF Report, GoesOn, EventKind, Goto, Emitted
<1>5. CASE GetInfo(h)
  BY <1>1, <1>5 DEF GetInfo, PostRow, EventKind, Goto, Emitted
<1>6. CASE NameTest(h)
  BY <1>1, <1>6 DEF NameTest, Goto, Emitted
<1>7. CASE GetHostname(h)
  BY <1>1, <1>7 DEF GetHostname, PostRow, EventKind, Goto, Emitted
<1>8. CASE Finish(h)
  BY <1>1, <1>8 DEF Finish, EventKind, Goto, Emitted
<1>9. CASE Return(h)
  BY <1>1, <1>9 DEF Return, Goto, Emitted
<1> QED
  BY <1>2, <1>3, <1>4, <1>5, <1>6, <1>7, <1>8, <1>9 DEF PoolThread, WorkerRun

-----------------------------------------------------------------------------
LEMMA InitWaiting == Init => WaitingInv
<1> SUFFICES ASSUME Init PROVE WaitingInv
  OBVIOUS
<1>1. IndInv
  BY InitInv
<1>2. Len(events) = 0
  BY DEF Init
<1>3. \A h \in Hops : wpc[h] = "none" /\ wAnswer[h] = "none" /\ workers[h] \in {Null, Wild}
  BY DEF Init, WorkerInit, Constructed
<1>4. QueueInv /\ ArrayInv /\ FinInv /\ ReportInv
  BY <1>2, <1>3 DEF Init, QueueInv, ArrayInv, FinInv, ReportInv, Emitted
<1>5. LockInv /\ FinFindsWorker
  BY DEF Init, LockInv, InRun, FinFindsWorker
<1> QED BY <1>1, <1>4, <1>5 DEF WaitingInv, PostedInv

-----------------------------------------------------------------------------
(* The pool threads.                                                       *)

(* Where a worker is when it posts.                                        *)
LEMMA WorkerPlace ==
  ASSUME WaitingInv, NEW h \in Hops, PoolThread(h)
  PROVE  /\ InRun /\ tpc \notin {"begin", "max", "old", "pool"} /\ trace > 0
         /\ ~Emitted(h) \/ wpc[h] = "returning"
         /\ UNCHANGED <<trace, threadVars, arrayVars, guiVars, fault>>
         /\ \A g \in Hops \ {h} : wpc'[g] = wpc[g] /\ wAnswer'[g] = wAnswer[g]
         /\ events \in Seq(Event)
         /\ wpc'[h] \in Running \union {"done"}
         /\ wpc[h] \notin {"none", "done"}
<1>1. /\ wpc[h] \notin {"none", "done"}
      /\ \E pc \in Running \union {"done"} : wpc' = [wpc EXCEPT ![h] = pc]
      /\ UNCHANGED <<trace, threadVars, arrayVars, guiVars, fault>>
  BY WorkerMoves DEF WaitingInv, IndInv
<1>2. /\ wpc \in [Hops -> WorkerPC]
      /\ wAnswer \in [Hops -> {"none", "router", "target"}]
      /\ events \in Seq(Event)
  BY DEF WaitingInv, IndInv, TypeOK, WorkerTypeOK
<1>3. \A g \in Hops \ {h} : wAnswer'[g] = wAnswer[g]
  BY <1>2
     DEF PoolThread, WorkerBegin, WorkerRun, Probe, ProbeReply, ProbeTimeout, Report,
         GetInfo, NameTest, GetHostname, Finish, Return
<1>4. InRun /\ tpc \notin {"begin", "max", "old", "pool"} /\ trace > 0
  BY <1>1 DEF WaitingInv, IndInv, LoopInv, AllReturned, InRun
<1> QED BY <1>1, <1>2, <1>3, <1>4 DEF Emitted

LEMMA WorkerQueue ==
  ASSUME WaitingInv, NEW h \in Hops, PoolThread(h)
  PROVE  QueueInv'
<1>1. /\ InRun /\ tpc \notin {"begin", "max", "old", "pool"} /\ trace > 0
      /\ UNCHANGED <<trace, tpc>>
      /\ events \in Seq(Event)
  BY WorkerPlace DEF threadVars
<1>2. QueueInv /\ TypeOK
  BY DEF WaitingInv, PostedInv, IndInv
<1>3. CASE UNCHANGED events
  BY <1>1, <1>2, <1>3 DEF QueueInv, InRun
<1>4. ASSUME NEW kind \in EventKind \ {"end"}, Post(kind, h) PROVE QueueInv'
  <2>1. /\ Len(events) \in Nat /\ Len(events') = Len(events) + 1
        /\ \A k \in 1 .. Len(events) : events'[k] = events[k]
        /\ events'[Len(events) + 1] = [kind |-> kind, trace |-> trace, hop |-> h]
    BY <1>1, <1>4, Appended DEF Post
  <2>2. \A k \in 1 .. Len(events) : events[k].trace = trace /\ events[k].kind # "end"
    BY <1>1, <1>2 DEF QueueInv
  <2>3. \A k \in 1 .. Len(events') : events'[k].trace = trace /\ events'[k].kind # "end"
    BY <2>1, <2>2
  <2> QED BY <1>1, <2>3 DEF QueueInv
<1> QED BY <1>2, <1>3, <1>4, WorkerPosts

(* A worker that emitted fin stays past it.                                *)
LEMMA WorkerEmits ==
  ASSUME WaitingInv, NEW h \in Hops, PoolThread(h)
  PROVE  /\ \A g \in Hops : Emitted(g) => Emitted(g)'
         /\ \A g \in Hops \ {h} : Emitted(g)' <=> Emitted(g)
         /\ \A k \in 1 .. Len(events) : events[k].kind = "fin" => events[k].hop \in Hops
         /\ UNCHANGED <<trace, workers, deferred, freed>>
         /\ events \in Seq(Event)
<1>1. /\ \A g \in Hops \ {h} : wpc'[g] = wpc[g]
      /\ ~Emitted(h) \/ wpc[h] = "returning"
      /\ UNCHANGED <<trace, workers, deferred, freed>>
      /\ events \in Seq(Event)
      /\ wpc \in [Hops -> WorkerPC]
  BY WorkerPlace DEF arrayVars, WaitingInv, IndInv, TypeOK, WorkerTypeOK
<1>2. wpc[h] = "returning" => wpc'[h] = "done"
  BY <1>1 DEF PoolThread, WorkerBegin, WorkerRun, Probe, ProbeReply, ProbeTimeout, Report,
              GetInfo, NameTest, GetHostname, Finish, Return, Goto
<1>3. \A k \in 1 .. Len(events) : events[k].kind = "fin" => events[k].hop \in Hops
  <2>1. \A k \in 1 .. Len(events) : events[k] \in Event
    BY <1>1
  <2> QED BY <2>1 DEF Event
<1> QED BY <1>1, <1>2, <1>3 DEF Emitted

LEMMA WorkerArray ==
  ASSUME WaitingInv, NEW h \in Hops, PoolThread(h)
  PROVE  ArrayInv'
<1>1. ArrayInv /\ TypeOK
  BY DEF WaitingInv, PostedInv, IndInv
<1>2. /\ \A g \in Hops : Emitted(g) => Emitted(g)'
      /\ \A g \in Hops \ {h} : Emitted(g)' <=> Emitted(g)
      /\ UNCHANGED <<trace, workers, deferred, freed>>
      /\ events \in Seq(Event)
  BY WorkerEmits
<1>3. \A g \in Hops : wpc'[g] = "none" <=> wpc[g] = "none"
  BY WorkerPlace DEF Running
<1>4. \A g \in Hops :
        /\ workers'[g] \in {Null, Wild, trace'}
        /\ wpc'[g] \notin {"none", "returning", "done"} => workers'[g] = trace'
  BY <1>1, <1>2, <1>3 DEF ArrayInv, Emitted
<1>5. CASE UNCHANGED events /\ (Emitted(h)' => Emitted(h))
  <2>1. \A g \in Hops : Emitted(g)' <=> Emitted(g)
    BY <1>2, <1>5
  <2> QED BY <1>1, <1>2, <1>4, <1>5, <2>1 DEF ArrayInv, Queued
<1>6. ASSUME NEW kind \in EventKind \ {"end"}, Post(kind, h),
             kind = "fin" => wpc[h] = "fin", kind # "fin" => ~Emitted(h)'
      PROVE  ArrayInv'
  <2>1. /\ Len(events) \in Nat /\ Len(events') = Len(events) + 1
        /\ \A k \in 1 .. Len(events) : events'[k] = events[k]
        /\ events'[Len(events) + 1] = [kind |-> kind, trace |-> trace, hop |-> h]
    BY <1>2, <1>6, Appended DEF Post
  <2>2. \A g \in Hops : Queued("fin", g) => Queued("fin", g)'
    BY <2>1 DEF Queued
  <2>3. Emitted(h)' => workers[h] = trace /\ Queued("fin", h)'
    <3>1. kind = "fin" => workers[h] = trace
      BY <1>1, <1>6 DEF ArrayInv
    <3>2. kind = "fin" => Queued("fin", h)'
      BY <2>1 DEF Queued
    <3> QED BY <1>6, <3>1, <3>2
  <2>4. \A g \in Hops : Emitted(g)' =>
           \/ workers'[g] = trace' /\ Queued("fin", g)'
           \/ workers'[g] # trace' /\ <<trace', g>> \in deferred' \union freed'
    BY <1>1, <1>2, <2>2, <2>3 DEF ArrayInv
  <2> QED BY <1>4, <2>4 DEF ArrayInv, Emitted
<1> QED BY <1>1, <1>5, <1>6, WorkerPosts

LEMMA WorkerFin ==
  ASSUME WaitingInv, NEW h \in Hops, PoolThread(h)
  PROVE  FinInv'
<1>1. FinInv /\ ArrayInv /\ TypeOK
  BY DEF WaitingInv, PostedInv, IndInv
<1>2. /\ \A g \in Hops : Emitted(g) => Emitted(g)'
      /\ \A k \in 1 .. Len(events) : events[k].kind = "fin" => events[k].hop \in Hops
      /\ UNCHANGED <<trace, workers>>
      /\ events \in Seq(Event)
  BY WorkerEmits
<1>3. CASE UNCHANGED events
  BY <1>1, <1>2, <1>3 DEF FinInv, Emitted
<1>4. ASSUME NEW kind \in EventKind \ {"end"}, Post(kind, h),
             kind = "fin" => wpc[h] = "fin" /\ wpc' = [wpc EXCEPT ![h] = "returning"]
      PROVE  FinInv'
  <2> DEFINE n == Len(events) + 1
  <2>1. /\ Len(events) \in Nat /\ Len(events') = n
        /\ \A k \in 1 .. Len(events) : events'[k] = events[k]
        /\ events'[n] = [kind |-> kind, trace |-> trace, hop |-> h]
    BY <1>2, <1>4, Appended DEF Post
  <2>2. \A k \in 1 .. Len(events') : k \in 1 .. Len(events) \/ k = n
    BY <2>1
  <2>3. events'[n].kind = "fin" =>
          /\ wpc'[h] \in {"returning", "done"} /\ workers[h] = trace
          /\ \A l \in 1 .. Len(events) : ~(events[l].kind = "fin" /\ events[l].hop = h)
    <3> SUFFICES ASSUME kind = "fin"
                 PROVE  /\ wpc'[h] \in {"returning", "done"} /\ workers[h] = trace
                        /\ \A l \in 1 .. Len(events) :
                             ~(events[l].kind = "fin" /\ events[l].hop = h)
      BY <2>1
    <3>1. wpc[h] = "fin" /\ wpc'[h] = "returning"
      BY <1>1, <1>4 DEF TypeOK, WorkerTypeOK
    <3> QED BY <1>1, <3>1 DEF ArrayInv, FinInv, Emitted
  <2> SUFFICES ASSUME NEW k \in 1 .. Len(events'), events'[k].kind = "fin"
               PROVE  /\ wpc'[events'[k].hop] \in {"returning", "done"}
                      /\ workers'[events'[k].hop] = trace'
                      /\ \A l \in 1 .. Len(events') :
                           events'[l].kind = "fin" /\ events'[l].hop = events'[k].hop => l = k
    BY DEF FinInv, Emitted
  <2>4. CASE k = n
    BY <1>2, <2>1, <2>2, <2>3, <2>4
  <2>5. CASE k \in 1 .. Len(events)
    <3>1. events'[k] = events[k] /\ events[k].hop \in Hops
      BY <1>2, <2>1, <2>5
    <3>2. events'[n].kind = "fin" => events[k].hop # h
      BY <2>3, <2>5, <3>1
    <3>3. /\ wpc'[events[k].hop] \in {"returning", "done"}
          /\ workers[events[k].hop] = trace
      BY <1>1, <1>2, <2>5, <3>1 DEF FinInv, Emitted
    <3>4. \A l \in 1 .. Len(events) :
            events[l].kind = "fin" /\ events[l].hop = events[k].hop => l = k
      BY <1>1, <2>5, <3>1 DEF FinInv
    <3> QED BY <1>2, <2>1, <2>2, <3>1, <3>2, <3>3, <3>4
  <2> QED BY <2>2, <2>4, <2>5
<1> QED BY <1>1, <1>3, <1>4, WorkerPosts

LEMMA WorkerReport ==
  ASSUME WaitingInv, NEW h \in Hops, PoolThread(h)
  PROVE  ReportInv'
<1>1. /\ \A g \in Hops \ {h} : wpc'[g] = wpc[g] /\ wAnswer'[g] = wAnswer[g]
      /\ wpc'[h] \in Running \union {"done"} /\ wpc[h] \notin {"none", "done"}
      /\ events \in Seq(Event)
      /\ wpc \in [Hops -> WorkerPC]
      /\ wAnswer \in [Hops -> {"none", "router", "target"}]
  BY WorkerPlace DEF WaitingInv, IndInv, TypeOK, WorkerTypeOK
<1>2. ReportInv /\ TypeOK
  BY DEF WaitingInv, PostedInv, IndInv
<1>3. wpc'[h] \in {"none", "created", "probe", "wait"} =>
        wpc[h] \in {"created", "probe", "wait"} /\ wAnswer'[h] = "none"
  BY <1>1, <1>2
     DEF PoolThread, WorkerBegin, WorkerRun, Probe, ProbeReply, ProbeTimeout, Report,
         GetInfo, NameTest, GetHostname, Finish, Return, Goto, ReportInv
<1>4. wAnswer[h] = "target" => wAnswer'[h] = "target"
  BY <1>1, <1>2
     DEF PoolThread, WorkerBegin, WorkerRun, Probe, ProbeReply, ProbeTimeout, Report,
         GetInfo, NameTest, GetHostname, Finish, Return, ReportInv
<1>5. \A g \in Hops : wAnswer[g] = "target" => wAnswer'[g] = "target"
  BY <1>1, <1>4
<1>6. \A k \in 1 .. Len(events) :
        events[k].kind = "target" => events[k].hop \in Hops /\ wAnswer'[events[k].hop] = "target"
  <2>1. \A k \in 1 .. Len(events) : events[k] \in Event
    BY <1>1
  <2> QED BY <1>2, <1>5, <2>1 DEF ReportInv, Event
<1>7. CASE UNCHANGED events
  BY <1>1, <1>2, <1>3, <1>6, <1>7 DEF ReportInv
<1>8. ASSUME NEW kind \in EventKind \ {"end"}, Post(kind, h),
             kind = "target" => wAnswer[h] = "target" /\ UNCHANGED wAnswer
      PROVE  ReportInv'
  <2>1. /\ Len(events) \in Nat /\ Len(events') = Len(events) + 1
        /\ \A k \in 1 .. Len(events) : events'[k] = events[k]
        /\ events'[Len(events) + 1] = [kind |-> kind, trace |-> trace, hop |-> h]
    BY <1>1, <1>8, Appended DEF Post
  <2>2. \A k \in 1 .. Len(events') :
          events'[k].kind = "target" => wAnswer'[events'[k].hop] = "target"
    BY <1>6, <1>8, <2>1
  <2> QED BY <1>1, <1>2, <1>3, <2>2 DEF ReportInv
<1> QED BY <1>2, <1>7, <1>8, WorkerPosts

LEMMA WorkerWaiting ==
  ASSUME WaitingInv, NEW h \in Hops, PoolThread(h)
  PROVE  WaitingInv'
<1>1. LockInv' /\ FinFindsWorker'
  <2>1. InRun /\ UNCHANGED <<tpc, tableLocked, fault>>
    BY WorkerPlace DEF threadVars, guiVars
  <2> QED BY <2>1 DEF WaitingInv, PostedInv, LockInv, InRun, FinFindsWorker
<1>2. IndInv'
  BY WorkerStep DEF WaitingInv
<1> QED
  BY <1>1, <1>2, WorkerQueue, WorkerArray, WorkerFin, WorkerReport DEF WaitingInv, PostedInv

-----------------------------------------------------------------------------
(* The tracing thread.                                                     *)

LEMMA ThreadWaiting ==
  ASSUME WaitingInv, TracingThread
  PROVE  PostedInv'
<1> USE DEF WaitingInv, PostedInv, InRun, workerVars, arrayVars, guiVars
<1>1. CASE RunBegin \/ ReadMaxHop \/ ReadOldMaxHop \/ SizePool \/ LoopTest
  <2>1. /\ UNCHANGED <<trace, events, wpc, wAnswer, workers, deferred, freed, tableLocked, fault>>
        /\ InRun /\ InRun'
        /\ tpc' \in {"begin", "max", "old", "pool"} => tpc \in {"begin", "max", "old", "pool"}
    BY <1>1 DEF RunBegin, ReadMaxHop, ReadOldMaxHop, SizePool, LoopTest
  <2>2. QueueInv' /\ LockInv'
    BY <2>1 DEF QueueInv, LockInv
  <2>3. ArrayInv' /\ FinInv' /\ ReportInv' /\ FinFindsWorker'
    BY <2>1 DEF ArrayInv, FinInv, ReportInv, FinFindsWorker, Emitted, Queued
  <2> QED BY <2>2, <2>3
<1>2. CASE CreateWorker
  <2>1. /\ UNCHANGED <<trace, events, wAnswer, deferred, freed, tableLocked, fault>>
        /\ tpc = "create" /\ tpc' = "test"
        /\ workers' = [workers EXCEPT ![i + 1] = trace]
        /\ wpc' = [wpc EXCEPT ![i + 1] = "created"]
    BY <1>2 DEF CreateWorker, Goto
  <2>2. /\ i + 1 \in Hops /\ wpc[i + 1] = "none"
        /\ wpc \in [Hops -> WorkerPC] /\ workers \in [Hops -> Pointer]
        /\ events \in Seq(Event)
    BY <2>1, WorkerAssumption
       DEF WorkerAssumption, IndInv, LoopInv, TypeOK, WorkerTypeOK, Hops
  <2>3. QueueInv' /\ LockInv'
    BY <2>1 DEF QueueInv, LockInv
  <2>4. \A h \in Hops : Emitted(h)' <=> Emitted(h)
    BY <2>1, <2>2 DEF Emitted
  <2>5. \A h \in Hops : Emitted(h) => h # i + 1
    BY <2>2 DEF Emitted
  <2>6. ArrayInv'
    BY <2>1, <2>2, <2>4, <2>5 DEF ArrayInv, Queued
  <2>7. FinInv'
    <3>1. \A k \in 1 .. Len(events) : events[k].kind = "fin" => events[k].hop \in Hops
      <4>1. \A k \in 1 .. Len(events) : events[k] \in Event
        BY <2>2
      <4> QED BY <4>1 DEF Event
    <3> QED BY <2>1, <2>2, <2>4, <2>5, <3>1 DEF FinInv, Emitted
  <2>8. ReportInv' /\ FinFindsWorker'
    BY <2>1, <2>2 DEF ReportInv, FinFindsWorker
  <2> QED BY <2>3, <2>6, <2>7, <2>8
<1>3. CASE WaitForDone
  <2> DEFINE n == Len(events) + 1
  <2>1. /\ UNCHANGED <<trace, wpc, wAnswer, workers, deferred, freed, tableLocked, fault>>
        /\ tpc = "join" /\ tpc' = "ending"
        /\ events' = Append(events, [kind |-> "end", trace |-> trace, hop |-> 0])
        /\ events \in Seq(Event) /\ trace > 0
    BY <1>3 DEF WaitForDone, EmitEnd, Post, IndInv, LoopInv, TypeOK, WorkerTypeOK
  <2>2. /\ Len(events) \in Nat /\ Len(events') = n
        /\ \A k \in 1 .. Len(events) : events'[k] = events[k]
        /\ events'[n] = [kind |-> "end", trace |-> trace, hop |-> 0]
    BY <2>1, Appended
  <2>3. \A k \in 1 .. Len(events') : k \in 1 .. Len(events) \/ k = n
    BY <2>2
  <2>4. \A k \in 1 .. Len(events) : events[k].trace = trace /\ events[k].kind # "end"
    BY <2>1 DEF QueueInv
  <2>5. QueueInv'
    <3>1. \A k \in 1 .. Len(events') :
            /\ events'[k].trace = trace
            /\ events'[k].kind = "end" => k = n
      BY <2>2, <2>3, <2>4
    <3> QED BY <2>1, <2>2, <3>1 DEF QueueInv
  <2>6. LockInv'
    BY <2>1, <2>2 DEF LockInv, Queued
  <2>7. \A h : Queued("fin", h) => Queued("fin", h)'
    BY <2>2 DEF Queued
  <2>8. ArrayInv'
    BY <2>1, <2>7 DEF ArrayInv, Emitted
  <2>9. \A k \in 1 .. Len(events') :
          events'[k].kind \in {"fin", "target"} => k \in 1 .. Len(events) /\ events'[k] = events[k]
    BY <2>2, <2>3
  <2>10. FinInv'
    BY <2>1, <2>9 DEF FinInv, Emitted
  <2>11. ReportInv' /\ FinFindsWorker'
    BY <2>1, <2>9 DEF ReportInv, FinFindsWorker
  <2> QED BY <2>5, <2>6, <2>8, <2>10, <2>11
<1>4. CASE ThreadFinish
  <2>1. /\ UNCHANGED <<trace, events, wpc, wAnswer, workers, tableLocked, fault>>
        /\ ~InRun /\ tpc' = "idle"
        /\ deferred' \union freed' = deferred \union freed
    BY <1>4 DEF ThreadFinish
  <2>2. QueueInv' /\ LockInv'
    BY <2>1 DEF QueueInv, LockInv, Queued
  <2>3. ArrayInv'
    BY <2>1 DEF ArrayInv, Emitted, Queued
  <2>4. FinInv' /\ ReportInv' /\ FinFindsWorker'
    BY <2>1 DEF FinInv, ReportInv, FinFindsWorker, Emitted
  <2> QED BY <2>2, <2>3, <2>4
<1> QED BY <1>1, <1>2, <1>3, <1>4 DEF TracingThread

-----------------------------------------------------------------------------
(* The GUI thread.                                                         *)

(* A user who waits starts a trace only when the last one left nothing     *)
(* behind: no event, and no object in the array.                           *)
LEMMA StartWaiting ==
  ASSUME WaitingInv, StartTracing, ~RestartEarly
  PROVE  PostedInv'
<1>1. /\ tpc = "idle" /\ events = <<>>
      /\ tpc' = "begin" /\ tableLocked' = TRUE /\ trace' = trace + 1
      /\ \A h \in Hops : wpc'[h] = "none" /\ wAnswer'[h] = "none"
      /\ UNCHANGED <<events, workers, fault>>
  BY DEF StartTracing, MayStart, InitializeTracing, NoWorkersYet, arrayVars
<1>2. events' = <<>> /\ Len(events') = 0 /\ Len(events) = 0
  BY <1>1
<1>3. \A h \in Hops : workers[h] \in {Null, Wild}
  <2> SUFFICES ASSUME NEW h \in Hops PROVE workers[h] \in {Null, Wild}
    OBVIOUS
  <2>1. workers[h] \in {Null, Wild, trace}
    BY DEF WaitingInv, PostedInv, ArrayInv
  <2>2. CASE Emitted(h)
    <3>1. ~Queued("fin", h)
      BY <1>2 DEF Queued
    <3> QED BY <2>1, <2>2, <3>1 DEF WaitingInv, PostedInv, ArrayInv
  <2>3. CASE ~Emitted(h)
    <3>1. wpc[h] = "none"
      BY <1>1, <2>3 DEF WaitingInv, IndInv, LoopInv, InRun, AllReturned, Emitted
    <3>2. trace \in Nat /\ (trace > 0 => workers[h] # trace)
      BY <3>1, WorkerAssumption
         DEF WorkerAssumption, WaitingInv, IndInv, TypeOK, WorkerTypeOK, ObjectInv
    <3> QED BY <2>1, <3>2 DEF Null
  <2> QED BY <2>2, <2>3
<1>4. QueueInv' /\ FinInv'
  BY <1>2 DEF QueueInv, FinInv
<1>5. ArrayInv' /\ ReportInv'
  BY <1>1, <1>2, <1>3 DEF ArrayInv, ReportInv, Emitted
<1>6. LockInv' /\ FinFindsWorker'
  BY <1>1 DEF LockInv, InRun, WaitingInv, PostedInv, FinFindsWorker
<1> QED BY <1>4, <1>5, <1>6 DEF PostedInv

(* Handling an event keeps what is known of the others.                    *)
LEMMA DeliveredQueue ==
  ASSUME WaitingInv, NEW kinds, Delivered(kinds), UNCHANGED <<trace, tpc, wpc, wAnswer>>
  PROVE  /\ QueueInv' /\ ReportInv'
         /\ \A k \in 1 .. Len(events') : k + 1 \in 1 .. Len(events) /\ events'[k] = events[k + 1]
         /\ \A kind, h : Queued(kind, h)' => Queued(kind, h)
         /\ \A kind, h : Queued(kind, h) =>
              Queued(kind, h)' \/ (Head(events).kind = kind /\ Head(events).hop = h)
<1>1. events \in Seq(Event) /\ QueueInv /\ ReportInv
  BY DEF WaitingInv, PostedInv, IndInv, TypeOK, WorkerTypeOK
<1>2. /\ Len(events) \in Nat \ {0} /\ Len(events') = Len(events) - 1
      /\ \A k \in 1 .. Len(events') : k + 1 \in 1 .. Len(events) /\ events'[k] = events[k + 1]
      /\ Head(events) = events[1]
      /\ \A k \in 1 .. Len(events) : k # 1 => k - 1 \in 1 .. Len(events')
  BY <1>1, MovedUp
<1>3. QueueInv'
  BY <1>1, <1>2 DEF QueueInv, InRun
<1>4. ReportInv'
  BY <1>1, <1>2 DEF ReportInv
<1>5. \A kind, h : Queued(kind, h)' => Queued(kind, h)
  BY <1>2 DEF Queued
<1>6. \A k \in 1 .. Len(events) : k # 1 => events'[k - 1] = events[k]
  BY <1>2
<1>7. \A kind, h : Queued(kind, h) =>
        Queued(kind, h)' \/ (Head(events).kind = kind /\ Head(events).hop = h)
  BY <1>2, <1>6 DEF Queued
<1> QED BY <1>2, <1>3, <1>4, <1>5, <1>7

LEMMA DeliveredWaiting ==
  ASSUME WaitingInv, HandleReport \/ HandleDetail
  PROVE  PostedInv'
<1> DEFINE kinds == {"timeout", "router", "target", "information", "hostname"}
<1>1. /\ Delivered(kinds)
      /\ UNCHANGED <<trace, tpc, wpc, wAnswer, workers, deferred, freed, tableLocked>>
      /\ fault' \in {fault, "wild"}
  BY DEF HandleReport, HandleDetail, Delivered, TargetFound, StopWorkers,
         workerVars, threadVars, arrayVars, guiVars
<1>2. /\ QueueInv' /\ ReportInv'
      /\ \A k \in 1 .. Len(events') : k + 1 \in 1 .. Len(events) /\ events'[k] = events[k + 1]
      /\ \A kind, h : Queued(kind, h) => Queued(kind, h)' \/ Head(events).kind = kind
  BY <1>1, DeliveredQueue
<1>3. Len(events) \in Nat /\ Len(events') \in Nat
  BY <1>1, MovedUp DEF WaitingInv, IndInv, TypeOK, WorkerTypeOK
<1>4. \A h : Queued("fin", h) => Queued("fin", h)'
  BY <1>1, <1>2 DEF Delivered
<1>5. ArrayInv'
  BY <1>1, <1>4 DEF WaitingInv, PostedInv, ArrayInv, Emitted
<1>6. FinInv'
  BY <1>1, <1>2, <1>3, SMTT(30) DEF WaitingInv, PostedInv, FinInv, Emitted
<1>7. LockInv' /\ FinFindsWorker'
  BY <1>1, <1>2 DEF WaitingInv, PostedInv, LockInv, InRun, Delivered, FinFindsWorker
<1> QED BY <1>2, <1>5, <1>6, <1>7 DEF PostedInv

LEMMA FinWaiting ==
  ASSUME WaitingInv, HandleFin
  PROVE  PostedInv'
<1> DEFINE h == Head(events).hop
<1>1. Delivered({"fin"}) /\ UNCHANGED <<trace, tpc, wpc, wAnswer, tableLocked>>
  BY DEF HandleFin, workerVars, threadVars, guiVars
<1>2. /\ events \in Seq(Event) /\ workers \in [Hops -> Pointer]
      /\ QueueInv /\ ArrayInv /\ FinInv /\ ReportInv /\ LockInv /\ FinFindsWorker
  BY DEF WaitingInv, PostedInv, IndInv, TypeOK, WorkerTypeOK
<1>3. /\ Len(events) \in Nat \ {0} /\ 1 \in 1 .. Len(events)
      /\ Head(events) = events[1] /\ events[1].kind = "fin" /\ h \in Hops
  BY <1>1, <1>2, MovedUp DEF Event
<1>4. /\ QueueInv' /\ ReportInv'
      /\ \A k \in 1 .. Len(events') : k + 1 \in 1 .. Len(events) /\ events'[k] = events[k + 1]
      /\ \A g : Queued("fin", g) => Queued("fin", g)' \/ g = h
      /\ Queued("end", 0) => Queued("end", 0)'
  BY <1>1, <1>3, DeliveredQueue
<1>5. Emitted(h) /\ workers[h] = trace /\ trace > 0
  BY <1>2, <1>3 DEF FinInv, QueueInv
<1>6. Reclaim(h) /\ UNCHANGED fault
  BY <1>5 DEF HandleFin, Null
<1>7. \A g \in Hops : workers'[g] = IF g = h THEN Null ELSE workers[g]
  BY <1>2, <1>3, <1>6 DEF Reclaim
<1>8. deferred' = deferred \union {<<trace, h>>} /\ freed' = freed
  BY <1>5, <1>6 DEF Reclaim
<1>9. ArrayInv'
  <2> SUFFICES ASSUME NEW g \in Hops
               PROVE  /\ workers'[g] \in {Null, Wild, trace}
                      /\ wpc[g] \notin {"none", "returning", "done"} => workers'[g] = trace
                      /\ Emitted(g) =>
                           \/ workers'[g] = trace /\ Queued("fin", g)'
                           \/ workers'[g] # trace /\ <<trace, g>> \in deferred' \union freed'
    BY <1>1 DEF ArrayInv, Emitted
  <2>1. CASE g = h
    BY <1>5, <1>7, <1>8, <2>1 DEF Null, Emitted
  <2>2. CASE g # h
    BY <1>2, <1>4, <1>7, <1>8, <2>2 DEF ArrayInv
  <2> QED BY <2>1, <2>2
<1>10. FinInv'
  <2> SUFFICES ASSUME NEW k \in 1 .. Len(events'), events'[k].kind = "fin"
               PROVE  /\ wpc[events'[k].hop] \in {"returning", "done"}
                      /\ workers'[events'[k].hop] = trace
                      /\ \A l \in 1 .. Len(events') :
                           events'[l].kind = "fin" /\ events'[l].hop = events'[k].hop => l = k
    BY <1>1 DEF FinInv, Emitted
  <2>1. k + 1 \in 1 .. Len(events) /\ events'[k] = events[k + 1] /\ k \in Nat /\ k > 0
    BY <1>3, <1>4
  <2>2. /\ wpc[events'[k].hop] \in {"returning", "done"} /\ workers[events'[k].hop] = trace
        /\ \A l \in 1 .. Len(events) :
             events[l].kind = "fin" /\ events[l].hop = events'[k].hop => l = k + 1
    BY <1>2, <2>1 DEF FinInv, Emitted
  <2>3. events'[k].hop # h /\ events'[k].hop \in Hops
    BY <1>2, <1>3, <2>1, <2>2 DEF Event
  <2>4. \A l \in 1 .. Len(events') :
          events'[l].kind = "fin" /\ events'[l].hop = events'[k].hop => l + 1 = k + 1 /\ l \in Nat
    BY <1>4, <2>2
  <2> QED BY <1>7, <2>1, <2>2, <2>3, <2>4, SMTT(30)
<1>11. LockInv' /\ FinFindsWorker'
  BY <1>1, <1>2, <1>4, <1>6 DEF LockInv, InRun, FinFindsWorker
<1> QED BY <1>4, <1>9, <1>10, <1>11 DEF PostedInv

LEMMA EndWaiting ==
  ASSUME WaitingInv, HandleEnd
  PROVE  PostedInv'
<1>1. /\ Delivered({"end"})
      /\ UNCHANGED <<trace, tpc, wpc, wAnswer, workers, deferred, freed, fault>>
      /\ tableLocked' = FALSE
  BY DEF HandleEnd, CleanUpTracing, workerVars, threadVars, arrayVars
<1>2. /\ QueueInv' /\ ReportInv'
      /\ \A k \in 1 .. Len(events') : k + 1 \in 1 .. Len(events) /\ events'[k] = events[k + 1]
      /\ \A h : Queued("fin", h) => Queued("fin", h)' \/ Head(events).kind = "fin"
  BY <1>1, DeliveredQueue
<1>3. Len(events) \in Nat \ {0} /\ Head(events) = events[1] /\ events[1].kind = "end"
  BY <1>1, MovedUp DEF WaitingInv, IndInv, TypeOK, WorkerTypeOK
<1>4. ~InRun
  BY <1>3 DEF WaitingInv, PostedInv, QueueInv
<1>5. ArrayInv'
  BY <1>1, <1>2, <1>3 DEF WaitingInv, PostedInv, ArrayInv, Emitted
<1>6. FinInv'
  <2>1. Len(events') \in Nat
    BY <1>1, MovedUp DEF WaitingInv, IndInv, TypeOK, WorkerTypeOK
  <2> QED BY <1>1, <1>2, <2>1, SMTT(30) DEF WaitingInv, PostedInv, FinInv, Emitted
<1>7. LockInv' /\ FinFindsWorker'
  BY <1>1, <1>4 DEF WaitingInv, PostedInv, LockInv, InRun, FinFindsWorker
<1> QED BY <1>2, <1>5, <1>6, <1>7 DEF PostedInv

(* An abort sets flags; the other steps change nothing that is posted or   *)
(* handled.                                                                *)
LEMMA OtherWaiting ==
  ASSUME WaitingInv, AbortTracing \/ Configure \/ UNCHANGED vars
  PROVE  PostedInv'
<1>1. /\ UNCHANGED <<trace, events, wpc, wAnswer, tpc, workers, deferred, freed, tableLocked>>
      /\ fault' \in {fault, "wild"}
  BY DEF AbortTracing, StopWorkers, Configure, vars, workerVars, threadVars, arrayVars, guiVars
<1> QED
  BY <1>1 DEF WaitingInv, PostedInv, QueueInv, ArrayInv, FinInv, ReportInv, LockInv, InRun,
              Emitted, Queued, FinFindsWorker

-----------------------------------------------------------------------------
LEMMA NextWaiting ==
  ASSUME ~RestartEarly, WaitingInv, [Next]_vars
  PROVE  WaitingInv'
<1>1. IndInv'
  BY NextInv DEF WaitingInv
<1>2. CASE TracingThread
  BY <1>1, <1>2, ThreadWaiting DEF WaitingInv
<1>3. CASE \E h \in Hops : PoolThread(h)
  BY <1>3, WorkerWaiting
<1>4. CASE StartTracing
  BY <1>1, <1>4, StartWaiting DEF WaitingInv
<1>5. CASE HandleReport \/ HandleDetail
  BY <1>1, <1>5, DeliveredWaiting DEF WaitingInv
<1>6. CASE HandleFin
  BY <1>1, <1>6, FinWaiting DEF WaitingInv
<1>7. CASE HandleEnd
  BY <1>1, <1>7, EndWaiting DEF WaitingInv
<1>8. CASE AbortTracing \/ Configure \/ Sleep \/ UNCHANGED vars
  BY <1>1, <1>8, OtherWaiting DEF WaitingInv, Sleep
<1> QED
  BY <1>2, <1>3, <1>4, <1>5, <1>6, <1>7, <1>8 DEF Next, HandleEvent

(* The inductive invariant of a user who waits holds of every behaviour.   *)
THEOREM WaitingInductive ==
  ASSUME ~RestartEarly
  PROVE  Spec => []WaitingInv
<1>1. Init => WaitingInv
  BY InitWaiting
<1>2. WaitingInv /\ [Next]_vars => WaitingInv'
  BY NextWaiting
<1> QED BY <1>1, <1>2, PTL DEF Spec

-----------------------------------------------------------------------------
(* The part of the array that the constructor cleared.                     *)

LEMMA InitCleared == Init => ClearedInv /\ FixedInv
BY WorkerAssumption, CoreAssumption
   DEF WorkerAssumption, CoreAssumption, Hops, Init, WorkerInit, Constructed, Null, Wild,
       ClearedInv, FixedInv

(* A stop that stays in the cleared part meets no wild pointer.            *)
LEMMA StopsCleared ==
  ASSUME ClearedInv, NEW S \in SUBSET (1 .. StartHops), StopWorkers(S)
  PROVE  fault' # "wild"
BY DEF StopWorkers, ClearedInv

LEMMA ThreadCleared ==
  ASSUME IndInv, ClearedInv, TracingThread
  PROVE  ClearedInv'
<1> USE DEF ClearedInv, workerVars, arrayVars, guiVars
<1>1. CASE \/ RunBegin \/ ReadMaxHop \/ ReadOldMaxHop \/ SizePool \/ WaitForDone
           \/ ThreadFinish
  BY <1>1 DEF RunBegin, ReadMaxHop, ReadOldMaxHop, SizePool, WaitForDone, ThreadFinish
<1>2. CASE LoopTest
  <2>1. i \in Int /\ maxHop \in Int /\ StartHops \in Int
    BY WorkerAssumption, CoreAssumption
       DEF WorkerAssumption, CoreAssumption, IndInv, TypeOK, Hops
  <2> QED BY <1>2, <2>1 DEF LoopTest
<1>3. CASE CreateWorker
  <2>1. /\ wpc \in [Hops -> WorkerPC] /\ workers \in [Hops -> Pointer]
        /\ i \in Int /\ StartHops \in Hops /\ Hops \subseteq Int /\ i < StartHops
        /\ trace # Wild /\ 1 .. StartHops \subseteq Hops
    BY <1>3, WorkerAssumption, CoreAssumption
       DEF WorkerAssumption, CoreAssumption, CreateWorker, IndInv, TypeOK, WorkerTypeOK, Hops, Wild
  <2>2. \A h \in Hops : wpc'[h] # "none" => wpc[h] # "none" \/ h = i + 1
    BY <1>3, <2>1 DEF CreateWorker, Goto
  <2>3. \A h \in Hops : workers'[h] \in {workers[h], trace}
    BY <1>3, <2>1 DEF CreateWorker
  <2> QED BY <1>3, <2>1, <2>2, <2>3 DEF CreateWorker
<1> QED BY <1>1, <1>2, <1>3 DEF TracingThread

LEMMA FinCleared ==
  ASSUME IndInv, ClearedInv, HandleFin
  PROVE  ClearedInv'
<1>1. /\ UNCHANGED <<wpc, tpc, i, maxHop, oldMaxHop, traceMaxHops>>
      /\ \/ UNCHANGED workers /\ fault' = "null"
         \/ UNCHANGED fault /\ workers' = [workers EXCEPT ![Head(events).hop] = Null]
  BY DEF HandleFin, Reclaim, workerVars, threadVars, arrayVars, guiVars
<1>2. workers \in [Hops -> Pointer] /\ 1 .. StartHops \subseteq Hops
  BY WorkerAssumption, CoreAssumption DEF WorkerAssumption, CoreAssumption, IndInv, TypeOK, Hops
<1>3. \A h \in 1 .. StartHops : workers'[h] \in {workers[h], Null}
  BY <1>1, <1>2
<1> QED BY <1>1, <1>3 DEF ClearedInv, Null, Wild

LEMMA ReportCleared ==
  ASSUME IndInv, ClearedInv, HandleReport
  PROVE  ClearedInv'
<1> DEFINE e == Head(events)
<1>1. /\ UNCHANGED <<wpc, tpc, i, traceMaxHops, workers>>
      /\ \/ UNCHANGED <<maxHop, oldMaxHop, fault>>
         \/ e.kind = "target" /\ e.hop <= maxHop /\ TargetFound(e.hop)
  BY DEF HandleReport, arrayVars, guiVars
<1>2. CASE UNCHANGED <<maxHop, oldMaxHop, fault>>
  BY <1>1, <1>2 DEF ClearedInv
<1>3. CASE e.kind = "target" /\ e.hop <= maxHop /\ TargetFound(e.hop)
  <2>1. e \in Event
    BY DeliveredType DEF HandleReport, IndInv, TypeOK, WorkerTypeOK
  <2>2. /\ e.hop \in Int /\ e.hop > 0 /\ maxHop \in Int /\ oldMaxHop \in Int
        /\ StartHops \in Int
    BY <1>3, <2>1, WorkerAssumption, CoreAssumption
       DEF WorkerAssumption, CoreAssumption, Event, IndInv, TypeOK, Hops
  <2>3. HopsBeyond(e.hop) \in SUBSET (1 .. StartHops)
    BY <2>2 DEF HopsBeyond, ClearedInv
  <2>4. fault' # "wild" /\ maxHop' = e.hop /\ oldMaxHop' = e.hop
    BY <1>3, <2>3, StopsCleared DEF TargetFound
  <2> QED BY <1>1, <1>3, <2>2, <2>4 DEF ClearedInv
<1> QED BY <1>1, <1>2, <1>3

LEMMA OtherCleared ==
  ASSUME IndInv, ClearedInv, HopChoices \subseteq 1 .. StartHops,
         \/ StartTracing \/ AbortTracing \/ Configure
         \/ HandleDetail \/ HandleEnd \/ UNCHANGED vars
  PROVE  ClearedInv'
<1> USE DEF ClearedInv
<1>1. CASE StartTracing
  BY <1>1 DEF StartTracing, NoWorkersYet, workerVars, arrayVars
<1>2. CASE AbortTracing
  <2>1. AbortedHops \in SUBSET (1 .. StartHops)
    BY WorkerAssumption, CoreAssumption
       DEF WorkerAssumption, CoreAssumption, AbortedHops, IndInv, TypeOK, Hops
  <2>2. fault' # "wild"
    BY <1>2, <2>1, StopsCleared DEF AbortTracing
  <2> QED BY <1>2, <2>2 DEF AbortTracing, arrayVars
<1>3. CASE Configure
  <2>1. traceMaxHops' \in 1 .. StartHops
    BY <1>3 DEF Configure
  <2> QED BY <1>3, <2>1 DEF Configure, workerVars, threadVars, arrayVars
<1>4. CASE HandleDetail \/ HandleEnd \/ UNCHANGED vars
  BY <1>4 DEF HandleDetail, HandleEnd, vars, workerVars, threadVars, arrayVars, guiVars
<1> QED BY <1>1, <1>2, <1>3, <1>4

LEMMA NextCleared ==
  ASSUME HopChoices \subseteq 1 .. StartHops, IndInv, ClearedInv, [Next]_vars
  PROVE  ClearedInv'
<1>1. CASE TracingThread
  BY <1>1, ThreadCleared
<1>2. CASE \E h \in Hops : PoolThread(h)
  <2>1. PICK h \in Hops : PoolThread(h)
    BY <1>2
  <2>2. /\ wpc[h] # "none"
        /\ \E pc \in Running \union {"done"} : wpc' = [wpc EXCEPT ![h] = pc]
        /\ UNCHANGED <<tpc, i, maxHop, oldMaxHop, workers, traceMaxHops, fault>>
    BY <2>1, WorkerMoves DEF IndInv, threadVars, arrayVars, guiVars
  <2>3. \A g \in Hops : wpc'[g] # "none" => wpc[g] # "none"
    BY <2>2 DEF IndInv, TypeOK, WorkerTypeOK
  <2> QED BY <2>2, <2>3 DEF ClearedInv
<1>3. CASE HandleReport
  BY <1>3, ReportCleared
<1>4. CASE HandleFin
  BY <1>4, FinCleared
<1>5. CASE \/ StartTracing \/ AbortTracing \/ Configure
           \/ HandleDetail \/ HandleEnd \/ Sleep \/ UNCHANGED vars
  BY <1>5, OtherCleared DEF Sleep
<1> QED BY <1>1, <1>2, <1>3, <1>4, <1>5 DEF Next, HandleEvent

LEMMA NextFixed ==
  ASSUME HopChoices = {}, FixedInv, [Next]_vars
  PROVE  FixedInv'
BY DEF FixedInv, Next, vars, TracingThread, RunBegin, ReadMaxHop, ReadOldMaxHop, SizePool,
       PoolSize, LoopTest, CreateWorker, WaitForDone, ThreadFinish, PoolThread, HandleEvent,
       HandleReport, HandleDetail, HandleFin, HandleEnd, StartTracing, AbortTracing, Configure,
       Sleep, threadVars, guiVars

THEOREM ClearedInductive ==
  ASSUME HopChoices \subseteq 1 .. StartHops
  PROVE  Spec => []ClearedInv
<1>1. Init => ClearedInv
  BY InitCleared
<1>2. IndInv /\ ClearedInv /\ [Next]_vars => ClearedInv'
  BY NextCleared
<1> QED BY <1>1, <1>2, Inductive, PTL DEF Spec

THEOREM FixedInductive ==
  ASSUME HopChoices = {}
  PROVE  Spec => [](ClearedInv /\ FixedInv)
<1>1. Init => FixedInv
  BY InitCleared
<1>2. FixedInv /\ [Next]_vars => FixedInv'
  BY NextFixed
<1>3. Spec => []ClearedInv
  BY ClearedInductive
<1> QED BY <1>1, <1>2, <1>3, PTL DEF Spec

-----------------------------------------------------------------------------
(* The properties.                                                         *)

(* The handler of fin never meets a NULL pointer: the fin it is given is   *)
(* of the worker that the array points to.                                 *)
THEOREM FinFinds ==
  ASSUME ~RestartEarly
  PROVE  Spec => []FinFindsWorker
<1>1. WaitingInv => FinFindsWorker
  BY DEF WaitingInv, PostedInv
<1> QED BY <1>1, WaitingInductive, PTL

(* No invalid pointer is used while, moreover, nobody raises Trace/MaxHops *)
(* over its value at the start of the program.                             *)
THEOREM PointersValid ==
  ASSUME ~RestartEarly, HopChoices \subseteq 1 .. StartHops
  PROVE  Spec => []NoFault
<1>1. IndInv /\ ClearedInv /\ FinFindsWorker => NoFault
  BY DEF IndInv, TypeOK, ClearedInv, FinFindsWorker, NoFault
<1> QED BY <1>1, Inductive, FinFinds, ClearedInductive, PTL

(* When the GUI handles the end of a trace, the array points to no worker. *)
THEOREM EndReclaimed ==
  ASSUME ~RestartEarly
  PROVE  Spec => []EndMeansReclaimed
<1>1. WaitingInv => EndMeansReclaimed
  <2> SUFFICES ASSUME WaitingInv, events # <<>>, Head(events).kind = "end", NEW h \in Hops
               PROVE  workers[h] \in {Null, Wild}
    BY DEF EndMeansReclaimed
  <2>1. /\ Len(events) \in Nat \ {0} /\ 1 \in 1 .. Len(events)
        /\ events[1].kind = "end"
    BY DEF WaitingInv, IndInv, TypeOK, WorkerTypeOK
  <2>2. Len(events) = 1 /\ ~InRun /\ trace > 0
    BY <2>1 DEF WaitingInv, PostedInv, QueueInv
  <2>3. workers[h] \in {Null, Wild, trace}
    BY DEF WaitingInv, PostedInv, ArrayInv
  <2>4. CASE Emitted(h)
    <3>1. ~Queued("fin", h)
      BY <2>1, <2>2 DEF Queued
    <3> QED BY <2>3, <2>4, <3>1 DEF WaitingInv, PostedInv, ArrayInv
  <2>5. CASE ~Emitted(h)
    <3>1. wpc[h] = "none"
      BY <2>2, <2>5 DEF WaitingInv, IndInv, LoopInv, AllReturned, Emitted
    <3> QED BY <2>2, <2>3, <3>1 DEF WaitingInv, IndInv, ObjectInv
  <2> QED BY <2>4, <2>5
<1> QED BY <1>1, WaitingInductive, PTL

(* Every worker object of a trace that is over, its events handled, is     *)
(* deleted or will be.                                                     *)
THEOREM NoLeak ==
  ASSUME ~RestartEarly
  PROVE  Spec => []NothingLeaks
<1>1. WaitingInv => NothingLeaks
  <2> SUFFICES ASSUME WaitingInv, events = <<>>, NEW h \in Hops, wpc[h] = "done"
               PROVE  <<trace, h>> \in deferred \union freed
    BY DEF NothingLeaks
  <2>1. Len(events) = 0
    OBVIOUS
  <2>2. Emitted(h) /\ ~Queued("fin", h)
    BY <2>1 DEF Emitted, Queued
  <2> QED BY <2>2 DEF WaitingInv, PostedInv, ArrayInv
<1> QED BY <1>1, WaitingInductive, PTL

(* The table of addresses is locked while run() executes.                  *)
THEOREM LockedInRun ==
  ASSUME ~RestartEarly
  PROVE  Spec => []LockedWhileTracing
<1>1. WaitingInv => LockedWhileTracing
  BY DEF WaitingInv, PostedInv, LockInv, LockedWhileTracing
<1> QED BY <1>1, WaitingInductive, PTL

(* When run() is over and the table still locked, the event that unlocks   *)
(* it is posted.                                                           *)
THEOREM LockHasEnd ==
  ASSUME ~RestartEarly
  PROVE  Spec => []NoOrphanLock
<1>1. WaitingInv => NoOrphanLock
  <2> SUFFICES ASSUME WaitingInv, tableLocked, tpc = "idle"
               PROVE  \E k \in 1 .. Len(events) : events[k].kind = "end" /\ events[k].trace = trace
    BY DEF NoOrphanLock
  <2>1. Queued("end", 0)
    BY DEF WaitingInv, PostedInv, LockInv, InRun
  <2> QED BY <2>1 DEF Queued, WaitingInv, PostedInv, QueueInv
<1> QED BY <1>1, WaitingInductive, PTL

(* A created worker finds a free thread: the pool was sized for the number *)
(* of hops and that number did not change since.                           *)
THEOREM RoomForAll ==
  ASSUME HopChoices = {}
  PROVE  Spec => []PoolHasRoom
<1>1. IndInv /\ ClearedInv /\ FixedInv => PoolHasRoom
  <2> SUFFICES ASSUME IndInv, ClearedInv, FixedInv, NEW h \in Hops, wpc[h] = "created"
               PROVE  Cardinality(Busy) < poolMax
    BY DEF PoolHasRoom
  <2>1. StartHops \in Nat /\ 1 .. StartHops \subseteq Hops
    BY WorkerAssumption, CoreAssumption DEF WorkerAssumption, CoreAssumption, Hops
  <2>2. h \in 1 .. StartHops /\ h \notin Busy
    BY <2>1 DEF ClearedInv, Busy, Running, Hops
  <2>3. Busy \subseteq (1 .. StartHops) \ {h}
    BY <2>1, <2>2 DEF ClearedInv, Busy, Running, Hops
  <2>4. IsFiniteSet(1 .. StartHops) /\ Cardinality(1 .. StartHops) = StartHops
    BY <2>1, FS_Interval
  <2>5. /\ IsFiniteSet((1 .. StartHops) \ {h})
        /\ Cardinality((1 .. StartHops) \ {h}) = StartHops - 1
    BY <2>2, <2>4, FS_RemoveElement
  <2>6. IsFiniteSet(Busy) /\ Cardinality(Busy) <= Cardinality((1 .. StartHops) \ {h})
    BY <2>3, <2>5, FS_Subset
  <2>7. Cardinality(Busy) \in Nat
    BY <2>6, FS_CardinalityType
  <2> QED BY <2>1, <2>5, <2>6, <2>7 DEF FixedInv
<1> QED BY <1>1, Inductive, FixedInductive, PTL

(* An abort sets the flag of every worker that sends probes.               *)
THEOREM AbortReaches ==
  ASSUME ~RestartEarly, HopChoices = {}
  PROVE  Spec => StopReachesProbing
<1>1. WaitingInv /\ ClearedInv /\ FixedInv /\ [Next]_vars =>
        [AbortTracing => \A h \in Hops : wpc[h] \in {"probe", "wait"} => wStopping'[h]]_vars
  <2> SUFFICES ASSUME WaitingInv, ClearedInv, FixedInv, AbortTracing,
                      NEW h \in Hops, wpc[h] \in {"probe", "wait"}
               PROVE  wStopping'[h]
    OBVIOUS
  <2>1. workers[h] = trace
    BY DEF WaitingInv, PostedInv, ArrayInv
  <2>2. h \in AbortedHops
    BY WorkerAssumption, CoreAssumption
       DEF WorkerAssumption, CoreAssumption, AbortedHops, ClearedInv, FixedInv, Hops
  <2> QED BY <2>1, <2>2 DEF AbortTracing, StopWorkers
<1> QED BY <1>1, WaitingInductive, FixedInductive, PTL DEF Spec, StopReachesProbing

-----------------------------------------------------------------------------
(* The refinement: TracingCore, with the threads of its pool and the GUI   *)
(* that starts and aborts it, implements TraceSession.                     *)

(* A trace is ready before the first one.                                  *)
LEMMA SessionInit == Init => Session!Init
BY DEF Init, WorkerInit, Session!Init, Session!NoAnswer, Session!Hops, Hops,
       SessionPhase, SessionLimit, SessionAnswer, SessionAborted

-----------------------------------------------------------------------------
(* The tracing thread starts, begins, ends and resets the trace; its loop  *)
(* changes nothing of what the user sees.                                  *)
LEMMA ThreadSession ==
  ASSUME WaitingInv, TracingThread
  PROVE  [Session!Next]_Session!vars
<1> USE DEF SessionPhase, SessionLimit, SessionAnswer, SessionAborted
<1>1. maxHop \in Hops /\ traceMaxHops \in Hops /\ tpc \in ThreadPC
  BY DEF WaitingInv, IndInv, TypeOK
<1>2. CASE RunBegin
  BY <1>2 DEF RunBegin, workerVars, Session!vars
<1>3. CASE ReadMaxHop
  <2>1. Session!Begin
    BY <1>1, <1>3 DEF ReadMaxHop, workerVars, Session!Begin, Session!Hops, Hops
  <2> QED BY <2>1 DEF Session!Next
<1>4. CASE ReadOldMaxHop \/ SizePool \/ LoopTest \/ CreateWorker
  BY <1>4 DEF ReadOldMaxHop, SizePool, LoopTest, CreateWorker, workerVars, Session!vars
<1>5. CASE WaitForDone
  <2>1. isStopping \/ \A h \in 1 .. maxHop : wAnswer[h] # "none"
    <3> SUFFICES ASSUME ~isStopping, NEW h \in 1 .. maxHop PROVE wAnswer[h] # "none"
      OBVIOUS
    <3>1. h \in Hops /\ ~(h > maxHop)
      BY <1>1, WorkerAssumption DEF WorkerAssumption, Hops
    <3>2. wpc[h] = "done"
      BY <1>5, <3>1 DEF WaitForDone, AllReturned, WaitingInv, IndInv, AnswerInv
    <3> QED BY <3>1, <3>2 DEF WaitingInv, IndInv, AnswerInv, Probed
  <2>2. Session!End
    BY <1>5, <2>1 DEF WaitForDone, workerVars, Session!End
  <2> QED BY <2>2 DEF Session!Next
<1>6. CASE ThreadFinish
  <2>1. Session!Reset
    BY <1>6 DEF ThreadFinish, Session!Reset, Session!NoAnswer, Session!Hops, Hops
  <2> QED BY <2>1 DEF Session!Next
<1> QED BY <1>2, <1>3, <1>4, <1>5, <1>6 DEF TracingThread

(* A worker answers once, while the trace is traced.                       *)
LEMMA WorkerSession ==
  ASSUME WaitingInv, NEW h \in Hops, PoolThread(h)
  PROVE  [Session!Next]_Session!vars
<1> USE DEF SessionPhase, SessionLimit, SessionAnswer, SessionAborted
<1>1. /\ InRun /\ tpc \notin {"begin", "max", "old", "pool"}
      /\ UNCHANGED <<tpc, maxHop, isStopping>>
  BY WorkerPlace DEF threadVars
<1>2. /\ wAnswer \in [Hops -> {"none", "router", "target"}]
      /\ Answers[h] \subseteq {"router", "target"}
  BY WorkerAssumption DEF WorkerAssumption, Hops, WaitingInv, IndInv, TypeOK, WorkerTypeOK
<1>3. CASE ProbeReply(h)
  <2>1. wAnswer[h] = "none"
    BY <1>3 DEF ProbeReply, WaitingInv, PostedInv, ReportInv
  <2>2. \E who \in {"router", "target"} : wAnswer' = [wAnswer EXCEPT ![h] = who]
    BY <1>2, <1>3 DEF ProbeReply
  <2>3. h \in Session!Hops
    BY DEF Session!Hops, Hops
  <2>4. Session!Answer(h)
    BY <1>1, <2>1, <2>2 DEF InRun, Session!Answer
  <2> QED BY <2>3, <2>4 DEF Session!Next
<1>4. CASE WorkerBegin(h)
  <2>1. wAnswer[h] = "none"
    BY <1>4 DEF WorkerBegin, WaitingInv, PostedInv, ReportInv
  <2>2. UNCHANGED wAnswer
    BY <1>2, <1>4, <2>1 DEF WorkerBegin
  <2> QED BY <1>1, <2>2 DEF Session!vars
<1>5. CASE \/ Probe(h) \/ ProbeTimeout(h) \/ Report(h) \/ GetInfo(h)
           \/ NameTest(h) \/ GetHostname(h) \/ Finish(h) \/ Return(h)
  BY <1>1, <1>5 DEF Probe, ProbeTimeout, Report, GetInfo, NameTest, GetHostname, Finish, Return,
                    Session!vars
<1> QED BY <1>3, <1>4, <1>5 DEF PoolThread, WorkerRun

-----------------------------------------------------------------------------
(* The limit falls only to a hop whose worker knows that it is the target. *)
LEMMA ReportSession ==
  ASSUME WaitingInv, HandleReport
  PROVE  [Session!Next]_Session!vars
<1> USE DEF SessionPhase, SessionLimit, SessionAnswer, SessionAborted
<1> DEFINE e == Head(events)
<1>1. UNCHANGED <<wAnswer, tpc, isStopping>>
  BY DEF HandleReport
<1>2. CASE UNCHANGED maxHop \/ tpc \in {"idle", "begin", "max"}
  BY <1>1, <1>2 DEF Session!vars
<1>3. CASE ~UNCHANGED maxHop /\ tpc \notin {"idle", "begin", "max"}
  <2>1. e.kind = "target" /\ e.hop <= maxHop /\ maxHop' = e.hop
    BY <1>3 DEF HandleReport, TargetFound
  <2>2. /\ events \in Seq(Event) /\ Delivered({"timeout", "router", "target"})
    BY DEF HandleReport, WaitingInv, IndInv, TypeOK, WorkerTypeOK
  <2>3. e = events[1] /\ 1 \in 1 .. Len(events) /\ e \in Event
    BY <2>2, MovedUp
  <2>4. wAnswer[e.hop] = "target"
    BY <2>1, <2>3 DEF WaitingInv, PostedInv, ReportInv
  <2>5. e.hop \in Session!Hops
    BY <2>1, <2>3 DEF Event, Session!Hops, Hops
  <2>6. Session!Shorten(e.hop)
    BY <1>1, <1>3, <2>1, <2>4 DEF Session!Shorten
  <2> QED BY <2>5, <2>6 DEF Session!Next
<1> QED BY <1>2, <1>3

LEMMA UserSession ==
  ASSUME WaitingInv, ~RestartEarly, StartTracing \/ AbortTracing
  PROVE  [Session!Next]_Session!vars
<1> USE DEF SessionPhase, SessionLimit, SessionAnswer, SessionAborted
<1>1. CASE StartTracing
  <2>1. /\ tpc = "idle" /\ tpc' = "begin"
        /\ wAnswer' = [h \in Hops |-> "none"]
    BY <1>1 DEF StartTracing, MayStart, NoWorkersYet
  <2>2. Session!Start
    BY <2>1 DEF Session!Start
  <2> QED BY <2>2 DEF Session!Next
<1>2. CASE AbortTracing
  <2>1. /\ tpc # "idle" /\ isStopping' = TRUE
        /\ UNCHANGED <<tpc, maxHop, wAnswer>>
    BY <1>2 DEF AbortTracing
  <2>2. CASE tpc = "begin"
    BY <2>1, <2>2 DEF Session!vars
  <2>3. CASE tpc # "begin"
    <3>1. Session!Abort
      BY <2>1, <2>3 DEF Session!Abort
    <3> QED BY <3>1 DEF Session!Next
  <2> QED BY <2>2, <2>3
<1> QED BY <1>1, <1>2

LEMMA NextSession ==
  ASSUME ~RestartEarly, WaitingInv, [Next]_vars
  PROVE  [Session!Next]_Session!vars
<1>1. CASE TracingThread
  BY <1>1, ThreadSession
<1>2. CASE \E h \in Hops : PoolThread(h)
  BY <1>2, WorkerSession
<1>3. CASE HandleReport
  BY <1>3, ReportSession
<1>4. CASE StartTracing \/ AbortTracing
  BY <1>4, UserSession
<1>5. CASE Configure \/ HandleDetail \/ HandleFin \/ HandleEnd \/ Sleep \/ UNCHANGED vars
  <2>1. UNCHANGED <<tpc, maxHop, isStopping, wAnswer>>
    BY <1>5 DEF Configure, HandleDetail, HandleFin, HandleEnd, Sleep, vars, workerVars, threadVars
  <2> QED
    BY <2>1 DEF Session!vars, SessionPhase, SessionLimit, SessionAnswer, SessionAborted
<1> QED BY <1>1, <1>2, <1>3, <1>4, <1>5 DEF Next, HandleEvent

(* Every behaviour of the threads, the queue and the GUI is one of the     *)
(* abstract trace: answers come once and in any order, the limit falls     *)
(* only to the target, and only an aborted trace is over before its hops   *)
(* have answered.                                                          *)
THEOREM Implements ==
  ASSUME ~RestartEarly
  PROVE  Spec => ImplementsSession
<1>1. Init => Session!Init
  BY SessionInit
<1>2. WaitingInv /\ [Next]_vars => [Session!Next]_Session!vars
  BY NextSession
<1> QED BY <1>1, <1>2, WaitingInductive, PTL DEF Spec, ImplementsSession, Session!Spec
=============================================================================
