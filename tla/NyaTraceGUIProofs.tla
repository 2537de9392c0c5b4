------------------------- MODULE NyaTraceGUIProofs -------------------------
(***************************************************************************)
(* Why the window comes back and shows the latest, for a user who is not   *)
(* careless.  WindowInv: a lookup and a trace are never open at the same   *)
(* time, and the queued events are those of the one that is.  From that    *)
(* follow six kinds of steps, and by these steps what is shown (ShownInv), *)
(* where the entries of the two arrays come from (PlacesInv), and what is  *)
(* drawn (MapInv).                                                         *)
(***************************************************************************)
EXTENDS NyaTraceGUI, NyaTraceMapProofs, SequenceTheorems, TLAPS

\* The last of the queued events.
Ends(kind) == guiEvents # <<>> /\ guiEvents[Len(guiEvents)].kind = kind

\* A lookup is open from the click until its end is handled, and so a trace.
LookupOpen == rpc \in {"begin", "resolve", "loop"} \/ Ends("resolved")
TraceOpen  == tpc \in {"begin", "run"} \/ Ends("traced")

OneOpen ==
  /\ LookupOpen => tpc = "idle" /\ lookup > 0
  /\ TraceOpen => rpc \in {"idle", "ending"} /\ asked > 0
  /\ ~LookupOpen /\ ~TraceOpen => guiEvents = <<>>

\* The first n events are the last n addresses, and the table has the others.
Reported(n) ==
  /\ n < idCounter
  /\ \A k \in 1 .. n :
       /\ guiEvents[k].kind = "address"
       /\ guiEvents[k].run = lookup
       /\ guiEvents[k].at = idCounter - (n + 1 - k)
  /\ \A j \in IDs : resolveResults[j] = IF j < idCounter - n THEN lookup ELSE 0

LookupInv ==
  /\ rpc \in {"begin", "resolve"} => guiEvents = <<>> /\ resolveResults = EmptyTable(IDs)
  /\ rpc \in {"resolve", "loop"} => resolving = lookup
  /\ rpc = "loop" => Reported(Len(guiEvents)) /\ addresses > 0 /\ idCounter <= addresses + 1
  /\ Ends("resolved") =>
       /\ rpc \in {"idle", "ending"}
       /\ IF guiEvents[Len(guiEvents)].says
            THEN Reported(Len(guiEvents) - 1) /\ idCounter > 1
            ELSE Len(guiEvents) = 1 /\ resolveResults = EmptyTable(IDs)

\* The first n events are rows of the trace.
HopsQueued(n) ==
  \A k \in 1 .. n :
    /\ guiEvents[k].kind = "hop"
    /\ guiEvents[k].run = asked
    /\ guiEvents[k].at <= traceMaxHops

TraceInv ==
  /\ tpc = "begin" => guiEvents = <<>>
  /\ tpc = "run" =>
       tracing = asked /\ silent \subseteq 1 .. traceMaxHops /\ HopsQueued(Len(guiEvents))
  /\ Ends("traced") => tpc \in {"idle", "ending"} /\ HopsQueued(Len(guiEvents) - 1)

\* The tables show the last lookup and trace, the addresses without gaps.
RowsInv ==
  /\ \A k \in IDs : resolveResults[k] \in {0, lookup}
  /\ \A k \in IDs : resolveResults[k] # 0 => \A j \in 1 .. k : resolveResults[j] # 0
  /\ \A h \in Hops : traceResults[h] \in {0, asked}

WidgetsInv ==
  /\ LookupOpen => {"hostInput", "resolveButton", "startStopTracingButton"} \subseteq disabled
  /\ TraceOpen => LockForTrace \subseteq disabled
  /\ {"hostInput", "resolveButton"} \cap disabled # {} => LookupOpen \/ TraceOpen
  /\ "resolveTable" \in disabled => TraceOpen
  /\ "startStopTracingButton" \in disabled /\ ~LookupOpen /\ ~TraceOpen =>
       resolveResults = EmptyTable(IDs)

PickInv ==
  clicked => currentSelectedIPNo \in IDs /\ resolveResults[currentSelectedIPNo] # 0

ControlInv == OneOpen /\ LookupInv /\ TraceInv /\ RowsInv /\ WidgetsInv /\ PickInv

WindowInv == WindowTypeOK /\ ControlInv

-----------------------------------------------------------------------------
(* What a step does to the tables and the map.  A lookup or a trace starts *)
(* with an empty table and an empty map.                                   *)
LookupStarts ==
  /\ lookup < MaxLookups /\ lookup' = lookup + 1
  /\ ClearAll /\ ClearResolveGeoInfo
  /\ resolveResults' = EmptyTable(IDs)
  /\ LookupOpen' /\ ~TraceOpen /\ ~TraceOpen'
  /\ UNCHANGED <<asked, traceResults, traceMaxHops, nullItem>>

TraceStarts ==
  /\ asked < MaxTraces /\ asked' = asked + 1
  /\ ClearAll /\ ClearTraceGeoInfo
  /\ ClearHops
  /\ TraceOpen' /\ ~LookupOpen'
  /\ tpc = "idle" /\ "startStopTracingButton" \notin disabled'
  /\ nullItem' = FALSE
  /\ UNCHANGED <<lookup, resolveResults, traceMaxHops>>

\* A row is filled while its lookup or its trace is open, and only then.
AddressShown ==
  /\ LookupOpen /\ LookupOpen' /\ ~TraceOpen /\ ~TraceOpen'
  /\ \E k \in IDs, city \in Locations :
       /\ resolveResults' = [resolveResults EXCEPT ![k] = lookup]
       /\ Locate(k, <<"lookup", lookup, city>>)
  /\ UNCHANGED <<lookup, asked, traceResults, tracingLine, mapTooltip, traceMaxHops, nullItem>>

HopShown ==
  /\ TraceOpen /\ TraceOpen' /\ ~LookupOpen /\ ~LookupOpen'
  /\ \E h \in Hops, city \in Locations :
       /\ h <= traceMaxHops
       /\ traceResults' = [traceResults EXCEPT ![h] = asked]
       /\ Locate(Slot(h), <<"trace", asked, city>>)
  /\ UNCHANGED <<lookup, tpc, asked, disabled, resolveResults, tracingLine, mapTooltip>>
  /\ UNCHANGED <<traceMaxHops, nullItem>>

TraceShown ==
  /\ TraceOpen /\ ~TraceOpen' /\ ~LookupOpen /\ ~LookupOpen'
  /\ tracingLine' = LineThroughHops
  /\ UNCHANGED <<lookup, asked, tableVars, drewPoints, points, mapTooltip>>
  /\ UNCHANGED <<traceMaxHops, nullItem>>

\* Nothing new is open, and what is on the map stays there.
NothingOpens ==
  /\ LookupOpen' => LookupOpen
  /\ TraceOpen' <=> TraceOpen
  /\ TraceRuns' => TraceRuns

NothingShown ==
  /\ NothingOpens
  /\ TraceOpen => UNCHANGED traceMaxHops
  /\ TraceOpen => UNCHANGED disabled \/ AbortTracing
  /\ UNCHANGED <<lookup, asked, tableVars, drewPoints, points, tracingLine>>
  /\ \/ UNCHANGED <<mapTooltip, nullItem>>
     \/ \E k \in IDs :
          HasRow(resolveResults, k) /\ GoTo(<<"lookup", resolveResults[k]>>, geoInfo[k])
     \/ \E h \in Hops :
          HasRow(traceResults, h) /\ GoTo(<<"trace", traceResults[h]>>, geoInfo[Slot(h)])

WindowStep ==
  LookupStarts \/ TraceStarts \/ AddressShown \/ HopShown \/ TraceShown \/ NothingShown

-----------------------------------------------------------------------------
(* What is known of the queue after an event is posted or handled.         *)
LEMMA EventPosted ==
  ASSUME WindowTypeOK, NEW e \in GUIEvent, guiEvents' = Append(guiEvents, e)
  PROVE  /\ guiEvents' \in Seq(GUIEvent) /\ guiEvents' # <<>>
         /\ Len(guiEvents) \in Nat /\ Len(guiEvents') = Len(guiEvents) + 1
         /\ \A k \in 1 .. Len(guiEvents) : guiEvents'[k] = guiEvents[k]
         /\ guiEvents'[Len(guiEvents')] = e
BY DEF WindowTypeOK

LEMMA EventHandled ==
  ASSUME WindowTypeOK, NEW kind, Delivered(kind)
  PROVE  /\ guiEvents' \in Seq(GUIEvent)
         /\ Head(guiEvents) = guiEvents[1] /\ guiEvents[1] \in GUIEvent
         /\ guiEvents[1].kind = kind /\ guiEvents # <<>>
         /\ Len(guiEvents) \in Nat \ {0} /\ Len(guiEvents') = Len(guiEvents) - 1
         /\ \A k \in 1 .. Len(guiEvents') : guiEvents'[k] = guiEvents[k + 1]
         /\ Len(guiEvents) = 1 <=> guiEvents' = <<>>
<1>1. guiEvents \in Seq(GUIEvent) /\ guiEvents # <<>> /\ guiEvents' = Tail(guiEvents)
  BY DEF WindowTypeOK, Delivered
<1>2. /\ guiEvents' \in Seq(GUIEvent)
      /\ Head(guiEvents) = guiEvents[1] /\ guiEvents[1] \in GUIEvent
      /\ Len(guiEvents) \in Nat \ {0} /\ Len(guiEvents') = Len(guiEvents) - 1
      /\ \A k \in 1 .. Len(guiEvents') : guiEvents'[k] = guiEvents[k + 1]
  BY <1>1
<1>3. Len(guiEvents) = 1 <=> guiEvents' = <<>>
  BY <1>2, EmptySeq
<1> QED BY <1>1, <1>2, <1>3 DEF Delivered

LEMMA EmptyQueue ==
  ASSUME guiEvents = <<>>
  PROVE  Len(guiEvents) = 0
OBVIOUS

(* No thread opens or closes anything; what the window shows stays.        *)
LEMMA ThreadFrame ==
  ASSUME WindowInv, UNCHANGED <<lookup, guiVars>>,
         LookupOpen' <=> LookupOpen, TraceOpen' <=> TraceOpen, TraceRuns' => TraceRuns,
         ResolveTypeOK', guiEvents' \in Seq(GUIEvent),
         tpc' \in {"idle", "begin", "run", "ending"},
         tracing' \in 0 .. MaxTraces, silent' \in SUBSET Hops,
         OneOpen', LookupInv', TraceInv'
  PROVE  WindowInv' /\ NothingShown
<1>1. WindowTypeOK'
  BY DEF WindowInv, WindowTypeOK, guiVars, tableVars, pickVars, mapVars, IDs, Hops
<1>2. RowsInv'
  BY DEF WindowInv, ControlInv, RowsInv, guiVars, tableVars
<1>3. WidgetsInv'
  BY DEF WindowInv, ControlInv, WidgetsInv, guiVars, tableVars
<1>4. PickInv'
  BY DEF WindowInv, ControlInv, PickInv, guiVars, tableVars, pickVars
<1>5. NothingShown
  BY DEF NothingShown, NothingOpens, guiVars, tableVars, mapVars
<1> QED BY <1>1, <1>2, <1>3, <1>4, <1>5 DEF WindowInv, ControlInv

(* While one of them is open, nothing is asked of the other.               *)
LEMMA OnlyLookup ==
  ASSUME OneOpen', LookupOpen'
  PROVE  TraceInv' /\ ~TraceOpen'
BY DEF OneOpen, TraceInv, LookupOpen, TraceOpen, Ends

LEMMA OnlyTrace ==
  ASSUME OneOpen', TraceOpen'
  PROVE  LookupInv' /\ ~LookupOpen'
BY DEF OneOpen, LookupInv, LookupOpen, TraceOpen, Ends

-----------------------------------------------------------------------------
(* The resolving thread.                                                   *)
LEMMA ResolveBeginControl ==
  ASSUME WindowInv, ResolveBegin, UNCHANGED <<lookup, traceVars, guiVars>>
  PROVE  WindowInv' /\ NothingShown
<1>1. /\ rpc = "begin" /\ rpc' = "resolve" /\ resolving' = lookup
      /\ UNCHANGED <<guiEvents, lookup, tpc, tracing, silent, asked, resolveResults>>
  BY DEF ResolveBegin, traceVars, guiVars, tableVars
<1>2. (LookupOpen' <=> LookupOpen) /\ (TraceOpen' <=> TraceOpen)
  BY <1>1 DEF LookupOpen, TraceOpen, Ends
<1>3. OneOpen'
  BY <1>1, <1>2 DEF WindowInv, ControlInv, OneOpen, LookupOpen
<1>4. LookupInv'
  BY <1>1 DEF WindowInv, ControlInv, LookupInv, Ends
<1>5. TraceInv'
  BY <1>1, <1>2 DEF WindowInv, ControlInv, TraceInv, OneOpen, LookupOpen, TraceOpen
<1> QED
  BY <1>1, <1>2, <1>3, <1>4, <1>5, ThreadFrame
  DEF TraceRuns, WindowInv, WindowTypeOK, ResolveTypeOK, ResolveBegin


LEMMA ResolveFoundControl ==
  ASSUME WindowInv, ResolveFound, UNCHANGED <<lookup, traceVars, guiVars>>
  PROVE  WindowInv' /\ NothingShown
<1>1. /\ rpc = "resolve" /\ rpc' = "loop" /\ idCounter' = 1 /\ addresses' \in 1 .. MaxAddresses
      /\ UNCHANGED <<guiEvents, lookup, resolving, tpc, tracing, silent, asked, resolveResults>>
  BY DEF ResolveFound, FirstID, traceVars, guiVars, tableVars
<1>2. (LookupOpen' <=> LookupOpen) /\ (TraceOpen' <=> TraceOpen) /\ LookupOpen'
  BY <1>1 DEF LookupOpen, TraceOpen, Ends
<1>3. OneOpen'
  BY <1>1, <1>2 DEF WindowInv, ControlInv, OneOpen, LookupOpen
<1>4. LookupInv'
  <2>1. guiEvents' = <<>> /\ resolveResults' = EmptyTable(IDs) /\ resolving' = lookup'
    BY <1>1 DEF WindowInv, ControlInv, LookupInv
  <2>2. Reported(Len(guiEvents))'
    BY <1>1, <2>1, ResolveAssumption DEF Reported, EmptyTable, IDs
  <2>3. \A n \in 1 .. MaxAddresses : n > 0 /\ 1 <= n + 1
    BY ResolveAssumption
  <2>4. ~Ends("resolved")'
    BY <2>1 DEF Ends
  <2>5. addresses' > 0 /\ idCounter' <= addresses' + 1
    BY <1>1, <2>3
  <2> QED BY <1>1, <2>1, <2>2, <2>4, <2>5 DEF LookupInv
<1>5. TraceInv'
  BY <1>2, <1>3, OnlyLookup
<1> QED
  BY <1>1, <1>2, <1>3, <1>4, <1>5, ThreadFrame, ResolveAssumption
  DEF TraceRuns, WindowInv, WindowTypeOK, ResolveTypeOK

LEMMA ResolveFailedControl ==
  ASSUME WindowInv, ResolveFailed, UNCHANGED <<lookup, traceVars, guiVars>>
  PROVE  WindowInv' /\ NothingShown
<1> DEFINE e == [kind |-> "resolved", run |-> resolving, at |-> 0, says |-> FALSE]
<1>1. /\ rpc = "resolve" /\ rpc' = "ending" /\ guiEvents' = Append(guiEvents, e)
      /\ UNCHANGED <<lookup, resolving, idCounter, addresses, tpc, tracing, silent, asked>>
      /\ UNCHANGED resolveResults
  BY DEF ResolveFailed, Emit, traceVars, guiVars, tableVars
<1>2. e \in GUIEvent
  BY DEF WindowInv, WindowTypeOK, ResolveTypeOK, GUIEvent
<1>3. guiEvents = <<>> /\ resolveResults' = EmptyTable(IDs)
  BY <1>1 DEF WindowInv, ControlInv, LookupInv
<1>4. guiEvents' \in Seq(GUIEvent) /\ Len(guiEvents') = 1 /\ guiEvents'[1] = e
  BY <1>1, <1>2, <1>3
<1>5. /\ LookupOpen /\ LookupOpen' /\ (TraceOpen' <=> TraceOpen)
      /\ guiEvents'[Len(guiEvents')].says = FALSE
  BY <1>1, <1>3, <1>4 DEF LookupOpen, TraceOpen, Ends
<1>6. OneOpen'
  BY <1>1, <1>5 DEF WindowInv, ControlInv, OneOpen, LookupOpen
<1>7. LookupInv'
  BY <1>1, <1>3, <1>4, <1>5 DEF LookupInv
<1>8. TraceInv'
  BY <1>5, <1>6, OnlyLookup
<1> QED
  BY <1>1, <1>4, <1>5, <1>6, <1>7, <1>8, ThreadFrame
  DEF TraceRuns, WindowInv, WindowTypeOK, ResolveTypeOK

LEMMA GetInfoControl ==
  ASSUME WindowInv, GetInfo, UNCHANGED <<lookup, traceVars, guiVars>>
  PROVE  WindowInv' /\ NothingShown
<1>0. PICK city \in Locations : Emit("address", resolving, idCounter, city)
  BY DEF GetInfo
<1> DEFINE e == [kind |-> "address", run |-> resolving, at |-> idCounter, says |-> city]
<1>1. /\ rpc = "loop" /\ idCounter <= addresses /\ idCounter' = idCounter + 1
      /\ guiEvents' = Append(guiEvents, e)
      /\ UNCHANGED <<lookup, rpc, resolving, addresses, tpc, tracing, silent, asked>>
      /\ UNCHANGED resolveResults
  BY <1>0 DEF GetInfo, Emit, traceVars, guiVars, tableVars
<1>2. idCounter \in IDs /\ idCounter' \in 1 .. MaxAddresses + 1
  BY <1>1, ResolveAssumption DEF WindowInv, WindowTypeOK, ResolveTypeOK, IDs
<1>3. e \in GUIEvent
  BY <1>2 DEF WindowInv, WindowTypeOK, ResolveTypeOK, GUIEvent
<1>4. e.kind = "address" /\ e.run = resolving /\ e.at = idCounter
  OBVIOUS
<1> HIDE DEF e
<1>5. /\ guiEvents' \in Seq(GUIEvent)
      /\ Len(guiEvents) \in Nat /\ Len(guiEvents') = Len(guiEvents) + 1
      /\ \A k \in 1 .. Len(guiEvents) : guiEvents'[k] = guiEvents[k]
      /\ guiEvents'[Len(guiEvents')] = e
  BY <1>1, <1>3, EventPosted DEF WindowInv
<1>6. /\ LookupOpen /\ LookupOpen' /\ ~TraceOpen /\ ~TraceOpen'
  BY <1>1, <1>4, <1>5 DEF WindowInv, ControlInv, OneOpen, LookupOpen, TraceOpen, Ends
<1>7. OneOpen'
  BY <1>1, <1>6 DEF WindowInv, ControlInv, OneOpen
<1>8. LookupInv'
  <2>1. /\ Reported(Len(guiEvents)) /\ resolving = lookup /\ addresses > 0
        /\ idCounter \in Nat /\ addresses \in Nat
    BY <1>1, ResolveAssumption
    DEF WindowInv, ControlInv, LookupInv, WindowTypeOK, ResolveTypeOK
  <2>2. Reported(Len(guiEvents))'
    <3>1. Len(guiEvents') < idCounter' /\ Len(guiEvents) < idCounter
      BY <1>1, <1>5, <2>1 DEF Reported
    <3>2. ASSUME NEW k \in 1 .. Len(guiEvents')
          PROVE  /\ guiEvents'[k].kind = "address"
                 /\ guiEvents'[k].run = lookup'
                 /\ guiEvents'[k].at = idCounter' - (Len(guiEvents') + 1 - k)
      <4>1. CASE k = Len(guiEvents')
        BY <1>1, <1>4, <1>5, <2>1, <4>1
      <4>2. CASE k # Len(guiEvents')
        <5>1. k \in 1 .. Len(guiEvents) /\ guiEvents'[k] = guiEvents[k]
          BY <1>5, <4>2
        <5>2. /\ guiEvents[k].kind = "address" /\ guiEvents[k].run = lookup
              /\ guiEvents[k].at = idCounter - (Len(guiEvents) + 1 - k)
          BY <2>1, <5>1 DEF Reported
        <5> QED BY <1>1, <1>5, <2>1, <5>1, <5>2
      <4> QED BY <4>1, <4>2
    <3>3. ASSUME NEW j \in IDs
          PROVE  resolveResults'[j] = IF j < idCounter' - Len(guiEvents') THEN lookup' ELSE 0
      <4>1. idCounter' - Len(guiEvents') = idCounter - Len(guiEvents)
        BY <1>1, <1>5, <2>1
      <4> QED BY <1>1, <2>1, <4>1 DEF Reported
    <3> QED BY <3>1, <3>2, <3>3 DEF Reported
  <2> QED BY <1>1, <1>4, <1>5, <2>1, <2>2 DEF LookupInv, Ends
<1>9. TraceInv'
  BY <1>6, <1>7, OnlyLookup
<1> QED
  BY <1>1, <1>2, <1>5, <1>6, <1>7, <1>8, <1>9, ThreadFrame
  DEF TraceRuns, WindowInv, WindowTypeOK, ResolveTypeOK

LEMMA ResolveDoneControl ==
  ASSUME WindowInv, ResolveDone, UNCHANGED <<lookup, traceVars, guiVars>>
  PROVE  WindowInv' /\ NothingShown
<1> DEFINE e == [kind |-> "resolved", run |-> resolving, at |-> 0, says |-> TRUE]
<1>1. /\ rpc = "loop" /\ idCounter > addresses /\ rpc' = "ending"
      /\ guiEvents' = Append(guiEvents, e)
      /\ UNCHANGED <<lookup, resolving, idCounter, addresses, tpc, tracing, silent, asked>>
      /\ UNCHANGED resolveResults
  BY DEF ResolveDone, Emit, traceVars, guiVars, tableVars
<1>2. e \in GUIEvent
  BY DEF WindowInv, WindowTypeOK, ResolveTypeOK, GUIEvent
<1>3. e.kind = "resolved" /\ e.says = TRUE
  OBVIOUS
<1> HIDE DEF e
<1>4. /\ guiEvents' \in Seq(GUIEvent) /\ guiEvents' # <<>>
      /\ Len(guiEvents) \in Nat /\ Len(guiEvents') = Len(guiEvents) + 1
      /\ \A k \in 1 .. Len(guiEvents) : guiEvents'[k] = guiEvents[k]
      /\ guiEvents'[Len(guiEvents')] = e
  BY <1>1, <1>2, EventPosted DEF WindowInv
<1>5. /\ LookupOpen /\ LookupOpen' /\ ~TraceOpen /\ ~TraceOpen'
  BY <1>1, <1>3, <1>4 DEF WindowInv, ControlInv, OneOpen, LookupOpen, TraceOpen, Ends
<1>6. OneOpen'
  BY <1>1, <1>5 DEF WindowInv, ControlInv, OneOpen
<1>7. LookupInv'
  <2>1. Reported(Len(guiEvents)) /\ addresses > 0 /\ idCounter \in Nat /\ addresses \in Nat
    BY <1>1, ResolveAssumption
    DEF WindowInv, ControlInv, LookupInv, WindowTypeOK, ResolveTypeOK
  <2>2. Reported(Len(guiEvents) - 1)'
    BY <1>1, <1>4, <2>1 DEF Reported
  <2> QED BY <1>1, <1>3, <1>4, <2>1, <2>2 DEF LookupInv
<1>8. TraceInv'
  BY <1>5, <1>6, OnlyLookup
<1> QED
  BY <1>1, <1>4, <1>5, <1>6, <1>7, <1>8, ThreadFrame
  DEF TraceRuns, WindowInv, WindowTypeOK, ResolveTypeOK

LEMMA ResolveFinishControl ==
  ASSUME WindowInv, ResolveFinish, UNCHANGED <<lookup, traceVars, guiVars>>
  PROVE  WindowInv' /\ NothingShown
<1>1. /\ rpc = "ending" /\ rpc' = "idle"
      /\ UNCHANGED <<guiEvents, lookup, resolving, idCounter, addresses>>
      /\ UNCHANGED <<tpc, tracing, silent, asked, traceMaxHops, resolveResults>>
  BY DEF ResolveFinish, traceVars, guiVars, tableVars
<1>2. (LookupOpen' <=> LookupOpen) /\ (TraceOpen' <=> TraceOpen)
  BY <1>1 DEF LookupOpen, TraceOpen, Ends
<1>3. OneOpen'
  BY <1>1, <1>2 DEF WindowInv, ControlInv, OneOpen
<1>4. LookupInv'
  BY <1>1 DEF WindowInv, ControlInv, LookupInv, Reported, Ends
<1>5. TraceInv'
  BY <1>1 DEF WindowInv, ControlInv, TraceInv, HopsQueued, Ends
<1> QED
  BY <1>1, <1>2, <1>3, <1>4, <1>5, ThreadFrame
  DEF TraceRuns, WindowInv, WindowTypeOK, ResolveTypeOK

-----------------------------------------------------------------------------
(* The tracing thread.                                                     *)
LEMMA TraceBeginControl ==
  ASSUME WindowInv, TraceBegin
  PROVE  WindowInv' /\ NothingShown
<1>1. /\ tpc = "begin" /\ tpc' = "run" /\ tracing' = asked /\ silent' = 1 .. traceMaxHops
      /\ UNCHANGED <<guiEvents, lookup, resolveVars, asked, traceMaxHops, guiVars>>
  BY DEF TraceBegin, guiVars
<1>2. TraceOpen /\ TraceOpen' /\ (LookupOpen' <=> LookupOpen)
  BY <1>1 DEF LookupOpen, TraceOpen, Ends, resolveVars
<1>3. OneOpen'
  BY <1>1, <1>2 DEF WindowInv, ControlInv, OneOpen, resolveVars
<1>4. LookupInv'
  BY <1>2, <1>3, OnlyTrace
<1>5. TraceInv'
  BY <1>1 DEF WindowInv, ControlInv, TraceInv, HopsQueued, Ends
<1>6. silent' \in SUBSET Hops
  BY <1>1, GUIAssumption DEF WindowInv, WindowTypeOK, Hops
<1> QED
  BY <1>1, <1>2, <1>3, <1>4, <1>5, <1>6, ThreadFrame
  DEF TraceRuns, WindowInv, WindowTypeOK, ResolveTypeOK, resolveVars

LEMMA TraceHopControl ==
  ASSUME WindowInv, NEW h \in Hops, TraceHop(h)
  PROVE  WindowInv' /\ NothingShown
<1>0. PICK city \in Locations : Emit("hop", tracing, h, city)
  BY DEF TraceHop
<1> DEFINE e == [kind |-> "hop", run |-> tracing, at |-> h, says |-> city]
<1>1. /\ tpc = "run" /\ h \in silent /\ silent' = silent \ {h}
      /\ guiEvents' = Append(guiEvents, e)
      /\ UNCHANGED <<lookup, resolveVars, tpc, tracing, asked, traceMaxHops, guiVars>>
  BY <1>0 DEF TraceHop, Emit, guiVars
<1>2. e \in GUIEvent
  BY DEF WindowInv, WindowTypeOK, GUIEvent
<1>3. e.kind = "hop" /\ e.run = tracing /\ e.at = h
  OBVIOUS
<1> HIDE DEF e
<1>4. /\ guiEvents' \in Seq(GUIEvent)
      /\ Len(guiEvents) \in Nat /\ Len(guiEvents') = Len(guiEvents) + 1
      /\ \A k \in 1 .. Len(guiEvents) : guiEvents'[k] = guiEvents[k]
      /\ guiEvents'[Len(guiEvents')] = e
  BY <1>1, <1>2, EventPosted DEF WindowInv
<1>5. TraceOpen /\ TraceOpen' /\ ~LookupOpen /\ ~LookupOpen'
  BY <1>1, <1>3, <1>4
  DEF WindowInv, ControlInv, OneOpen, LookupOpen, TraceOpen, Ends, resolveVars
<1>6. OneOpen'
  BY <1>1, <1>5 DEF WindowInv, ControlInv, OneOpen, resolveVars
<1>7. LookupInv'
  BY <1>5, <1>6, OnlyTrace
<1>8. TraceInv'
  <2>1. tracing = asked /\ silent \subseteq 1 .. traceMaxHops /\ HopsQueued(Len(guiEvents))
    BY <1>1 DEF WindowInv, ControlInv, TraceInv
  <2>2. HopsQueued(Len(guiEvents))'
    BY <1>1, <1>3, <1>4, <2>1 DEF HopsQueued
  <2> QED BY <1>1, <1>3, <1>4, <2>1, <2>2 DEF TraceInv, Ends
<1> QED
  BY <1>1, <1>4, <1>5, <1>6, <1>7, <1>8, ThreadFrame
  DEF TraceRuns, WindowInv, WindowTypeOK, ResolveTypeOK, resolveVars

LEMMA TraceEndControl ==
  ASSUME WindowInv, TraceEnd
  PROVE  WindowInv' /\ NothingShown
<1> DEFINE e == [kind |-> "traced", run |-> tracing, at |-> 0, says |-> TRUE]
<1>1. /\ tpc = "run" /\ tpc' = "ending" /\ guiEvents' = Append(guiEvents, e)
      /\ UNCHANGED <<lookup, resolveVars, tracing, silent, asked, traceMaxHops, guiVars>>
  BY DEF TraceEnd, Emit, guiVars
<1>2. e \in GUIEvent
  BY DEF WindowInv, WindowTypeOK, GUIEvent
<1>3. e.kind = "traced"
  OBVIOUS
<1> HIDE DEF e
<1>4. /\ guiEvents' \in Seq(GUIEvent) /\ guiEvents' # <<>>
      /\ Len(guiEvents) \in Nat /\ Len(guiEvents') = Len(guiEvents) + 1
      /\ \A k \in 1 .. Len(guiEvents) : guiEvents'[k] = guiEvents[k]
      /\ guiEvents'[Len(guiEvents')] = e
  BY <1>1, <1>2, EventPosted DEF WindowInv
<1>5. TraceOpen /\ TraceOpen' /\ ~LookupOpen /\ ~LookupOpen'
  BY <1>1, <1>3, <1>4
  DEF WindowInv, ControlInv, OneOpen, LookupOpen, TraceOpen, Ends, resolveVars
<1>6. OneOpen'
  BY <1>1, <1>5 DEF WindowInv, ControlInv, OneOpen, resolveVars
<1>7. LookupInv'
  BY <1>5, <1>6, OnlyTrace
<1>8. TraceInv'
  BY <1>1, <1>4 DEF WindowInv, ControlInv, TraceInv, HopsQueued
<1> QED
  BY <1>1, <1>4, <1>5, <1>6, <1>7, <1>8, ThreadFrame
  DEF TraceRuns, WindowInv, WindowTypeOK, ResolveTypeOK, resolveVars

LEMMA TraceFinishControl ==
  ASSUME WindowInv, TraceFinish
  PROVE  WindowInv' /\ NothingShown
<1>1. /\ tpc = "ending" /\ tpc' = "idle"
      /\ UNCHANGED <<guiEvents, lookup, resolveVars, tracing, silent, asked, traceMaxHops>>
      /\ UNCHANGED guiVars
  BY DEF TraceFinish, guiVars
<1>2. (LookupOpen' <=> LookupOpen) /\ (TraceOpen' <=> TraceOpen)
  BY <1>1 DEF LookupOpen, TraceOpen, Ends, resolveVars
<1>3. OneOpen'
  BY <1>1, <1>2 DEF WindowInv, ControlInv, OneOpen, resolveVars
<1>4. LookupInv'
  BY <1>1 DEF WindowInv, ControlInv, LookupInv, Reported, Ends, resolveVars, guiVars, tableVars
<1>5. TraceInv'
  BY <1>1 DEF WindowInv, ControlInv, TraceInv, HopsQueued, Ends
<1> QED
  BY <1>1, <1>2, <1>3, <1>4, <1>5, ThreadFrame
  DEF TraceRuns, WindowInv, WindowTypeOK, ResolveTypeOK, resolveVars

-----------------------------------------------------------------------------
(* The handlers of the posted events.                                      *)

\* A location is recorded and drawn.
LEMMA LocateTyped ==
  ASSUME WindowTypeOK, NEW slot \in Slots, NEW place, City(place) \in Locations,
         City(place) # Nowhere => place \in Located, Locate(slot, place)
  PROVE  /\ geoInfo' \in [Slots -> Located \union {Invalid, Garbage}]
         /\ drewPoints' \in SUBSET Cities
         /\ points' \in SUBSET Located
BY DEF WindowTypeOK, Locate, DrawPoint, Locations

LEMMA RowsLocated ==
  ASSUME NEW city \in Cities
  PROVE  /\ \A n \in 0 .. MaxLookups : <<"lookup", n, city>> \in Located
         /\ \A n \in 0 .. MaxTraces : <<"trace", n, city>> \in Located
BY DEF Located, OfLookup, OfTrace

LEMMA HandleAddressControl ==
  ASSUME WindowInv, HandleAddress
  PROVE  WindowInv' /\ AddressShown
<1> DEFINE e == guiEvents[1]
<1>1. /\ guiEvents' \in Seq(GUIEvent) /\ Head(guiEvents) = e /\ e \in GUIEvent
      /\ e.kind = "address" /\ guiEvents # <<>>
      /\ Len(guiEvents) \in Nat \ {0} /\ Len(guiEvents') = Len(guiEvents) - 1
      /\ \A k \in 1 .. Len(guiEvents') : guiEvents'[k] = guiEvents[k + 1]
      /\ Len(guiEvents) = 1 <=> guiEvents' = <<>>
  BY EventHandled DEF HandleAddress, WindowInv
<1>2. e.run \in 0 .. MaxLookups /\ e.at \in IDs /\ e.says \in Locations
  BY <1>1 DEF GUIEvent
<1>3. /\ resolveResults' = [resolveResults EXCEPT ![e.at] = e.run]
      /\ Locate(e.at, <<"lookup", e.run, e.says>>)
      /\ UNCHANGED <<lookup, rpc, resolving, idCounter, addresses, tpc, tracing, silent>>
      /\ UNCHANGED <<asked, disabled, traceResults, currentSelectedIPNo, clicked>>
      /\ UNCHANGED <<traceMaxHops, nullItem>>
  BY <1>1 DEF HandleAddress, resolveVars, traceVars, pickVars
<1>4. LookupOpen /\ ~TraceOpen
  BY <1>1
  DEF WindowInv, ControlInv, OneOpen, TraceInv, HopsQueued, LookupOpen, TraceOpen, Ends
<1>5. LookupOpen'
  BY <1>1, <1>3, <1>4 DEF LookupOpen, Ends
<1>6. OneOpen'
  BY <1>1, <1>3, <1>4, <1>5 DEF WindowInv, ControlInv, OneOpen, TraceOpen, Ends
<1>7. TraceInv' /\ ~TraceOpen'
  BY <1>5, <1>6, OnlyLookup
<1>8. rpc # "loop" => Ends("resolved") /\ Len(guiEvents) # 1 /\ Reported(Len(guiEvents) - 1)
  BY <1>1, <1>4 DEF WindowInv, ControlInv, LookupInv, LookupOpen, Ends
<1>9. PICK n \in Nat : n > 0 /\ n = IF rpc = "loop" THEN Len(guiEvents) ELSE Len(guiEvents) - 1
  BY <1>1, <1>8
<1>e. n \in Nat /\ n > 0 /\ 1 \in 1 .. n
  BY <1>9
<1>a. Reported(n)
  BY <1>8, <1>9 DEF WindowInv, ControlInv, LookupInv
<1>b. idCounter \in Nat /\ lookup > 0
  BY <1>4, ResolveAssumption
  DEF WindowInv, ControlInv, OneOpen, WindowTypeOK, ResolveTypeOK
<1>c. e.run = lookup /\ e.at = idCounter - n
  <2>1. e.run = lookup /\ e.at = idCounter - (n + 1 - 1)
    BY <1>a, <1>e DEF Reported
  <2>2. n + 1 - 1 = n
    BY <1>e
  <2> QED BY <2>1, <2>2
<1> HIDE DEF e
<1>10. \A j \in IDs : resolveResults'[j] = IF j < idCounter - (n - 1) THEN lookup ELSE 0
  <2>1. SUFFICES ASSUME NEW j \in IDs
                 PROVE  resolveResults'[j] = IF j < idCounter - (n - 1) THEN lookup ELSE 0
    OBVIOUS
  <2>2. resolveResults'[j] = IF j = e.at THEN lookup ELSE resolveResults[j]
    BY <1>2, <1>3, <1>c DEF WindowInv, WindowTypeOK
  <2>3. resolveResults[j] = IF j < idCounter - n THEN lookup ELSE 0
    BY <1>a DEF Reported
  <2>4. j < idCounter - (n - 1) <=> j < idCounter - n \/ j = idCounter - n
    BY <1>e, <1>b, ResolveAssumption DEF IDs
  <2> QED BY <1>c, <2>2, <2>3, <2>4
<1>11. Reported(n - 1)'
  <2>1. ASSUME NEW k \in 1 .. n - 1
        PROVE  /\ guiEvents'[k].kind = "address" /\ guiEvents'[k].run = lookup
               /\ guiEvents'[k].at = idCounter - ((n - 1) + 1 - k)
    <3>1. k \in Nat /\ k + 1 \in 1 .. n /\ n + 1 - (k + 1) = (n - 1) + 1 - k
      BY <1>e
    <3>2. n - 1 <= Len(guiEvents') /\ Len(guiEvents') \in Nat
      BY <1>1, <1>9
    <3>3. k \in 1 .. Len(guiEvents')
      BY <1>e, <3>1, <3>2
    <3>4. /\ guiEvents[k + 1].kind = "address" /\ guiEvents[k + 1].run = lookup
          /\ guiEvents[k + 1].at = idCounter - (n + 1 - (k + 1))
      BY <1>a, <3>1 DEF Reported
    <3> QED BY <1>1, <3>1, <3>3, <3>4
  <2>2. n - 1 < idCounter
    BY <1>9, <1>a, <1>b DEF Reported
  <2> QED BY <1>3, <1>10, <2>1, <2>2 DEF Reported
<1>d. LookupInv'
  BY <1>1, <1>3, <1>4, <1>9, <1>b, <1>11 DEF LookupInv, LookupOpen, Ends, WindowInv, ControlInv
<1>12. RowsInv' /\ PickInv'
  <2>1. \A k \in IDs : k \in Nat \ {0} /\ k < idCounter - (n - 1) =>
          \A j \in 1 .. k : j \in IDs /\ j < idCounter - (n - 1)
    BY <1>e, <1>b, ResolveAssumption DEF IDs
  <2>2. IDs \subseteq Nat \ {0} /\ \A k \in IDs : \A j \in 1 .. k : j \in IDs
    BY ResolveAssumption DEF IDs
  <2>3. \A k \in IDs : resolveResults[k] # 0 => resolveResults'[k] # 0
    BY <1>2, <1>3, <1>b, <1>c DEF WindowInv, WindowTypeOK
  <2> QED
    BY <1>3, <1>10, <1>b, <2>1, <2>2, <2>3 DEF WindowInv, ControlInv, RowsInv, PickInv
<1>13. WidgetsInv'
  BY <1>3, <1>4, <1>5, <1>7 DEF WindowInv, ControlInv, WidgetsInv
<1>14. WindowTypeOK'
  <2>1. e.at \in Slots
    BY <1>2, GUIAssumption, ResolveAssumption DEF IDs, Slots
  <2>2. LET place == <<"lookup", e.run, e.says>>
        IN  City(place) \in Locations /\ (City(place) # Nowhere => place \in Located)
    BY <1>2, RowsLocated DEF City, Locations
  <2>3. /\ geoInfo' \in [Slots -> Located \union {Invalid, Garbage}]
        /\ drewPoints' \in SUBSET Cities /\ points' \in SUBSET Located
    BY <1>3, <2>1, <2>2, LocateTyped DEF WindowInv
  <2> QED
    BY <1>1, <1>2, <1>3, <2>3 DEF WindowInv, WindowTypeOK, ResolveTypeOK, IDs, Hops
<1>15. AddressShown
  BY <1>2, <1>3, <1>4, <1>5, <1>7, <1>c DEF AddressShown, HandleAddress
<1> QED
  BY <1>6, <1>7, <1>d, <1>12, <1>13, <1>14, <1>15 DEF WindowInv, ControlInv

LEMMA HandleHopControl ==
  ASSUME WindowInv, HandleHop
  PROVE  WindowInv' /\ HopShown
<1> DEFINE e == guiEvents[1]
<1>1. /\ guiEvents' \in Seq(GUIEvent) /\ Head(guiEvents) = e /\ e \in GUIEvent
      /\ e.kind = "hop" /\ guiEvents # <<>>
      /\ Len(guiEvents) \in Nat \ {0} /\ Len(guiEvents') = Len(guiEvents) - 1
      /\ \A k \in 1 .. Len(guiEvents') : guiEvents'[k] = guiEvents[k + 1]
      /\ Len(guiEvents) = 1 <=> guiEvents' = <<>>
  BY EventHandled DEF HandleHop, WindowInv
<1>2. e.run \in 0 .. MaxTraces /\ e.at \in Hops /\ e.says \in Locations
  BY <1>1 DEF GUIEvent
<1>3. /\ traceResults' = [traceResults EXCEPT ![e.at] = e.run]
      /\ Locate(Slot(e.at), <<"trace", e.run, e.says>>)
      /\ UNCHANGED <<lookup, rpc, resolving, idCounter, addresses, tpc, tracing, silent>>
      /\ UNCHANGED <<asked, disabled, resolveResults, currentSelectedIPNo, clicked>>
      /\ UNCHANGED <<traceMaxHops, nullItem>>
  BY <1>1 DEF HandleHop, resolveVars, traceVars, pickVars
<1>4. TraceOpen /\ ~LookupOpen
  BY <1>1
  DEF WindowInv, ControlInv, OneOpen, LookupInv, Reported, LookupOpen, TraceOpen, Ends
<1>5. TraceOpen'
  BY <1>1, <1>3, <1>4 DEF TraceOpen, Ends
<1>6. OneOpen'
  BY <1>1, <1>3, <1>4, <1>5 DEF WindowInv, ControlInv, OneOpen, LookupOpen, Ends
<1>7. LookupInv' /\ ~LookupOpen'
  BY <1>5, <1>6, OnlyTrace
<1>8. e.run = asked
  BY <1>1, <1>4 DEF WindowInv, ControlInv, TraceInv, HopsQueued, TraceOpen, Ends
<1>a. e.at <= traceMaxHops
  BY <1>1, <1>4 DEF WindowInv, ControlInv, TraceInv, HopsQueued, TraceOpen, Ends
<1>9. TraceInv'
  <2>1. tpc = "run" => HopsQueued(Len(guiEvents)) /\ HopsQueued(Len(guiEvents))'
    BY <1>1, <1>3 DEF WindowInv, ControlInv, TraceInv, HopsQueued
  <2>2. Ends("traced") => HopsQueued(Len(guiEvents) - 1)'
    BY <1>1, <1>3 DEF WindowInv, ControlInv, TraceInv, HopsQueued
  <2> QED
    BY <1>1, <1>3, <1>4, <2>1, <2>2 DEF TraceInv, TraceOpen, Ends, WindowInv, ControlInv
<1> HIDE DEF e
<1>10. RowsInv' /\ PickInv'
  BY <1>2, <1>3, <1>8 DEF WindowInv, ControlInv, RowsInv, PickInv, WindowTypeOK
<1>11. WidgetsInv'
  BY <1>3, <1>4, <1>5, <1>7 DEF WindowInv, ControlInv, WidgetsInv
<1>12. WindowTypeOK'
  <2>1. Slot(e.at) \in Slots
    BY <1>2, GUIAssumption DEF Hops, Slot, Slots
  <2>2. LET place == <<"trace", e.run, e.says>>
        IN  City(place) \in Locations /\ (City(place) # Nowhere => place \in Located)
    BY <1>2, RowsLocated DEF City, Locations
  <2>3. /\ geoInfo' \in [Slots -> Located \union {Invalid, Garbage}]
        /\ drewPoints' \in SUBSET Cities /\ points' \in SUBSET Located
    BY <1>3, <2>1, <2>2, LocateTyped DEF WindowInv
  <2> QED
    BY <1>1, <1>2, <1>3, <2>3 DEF WindowInv, WindowTypeOK, ResolveTypeOK, IDs, Hops
<1>13. HopShown
  BY <1>2, <1>3, <1>4, <1>5, <1>7, <1>8, <1>a DEF HopShown, HandleHop
<1> QED
  BY <1>6, <1>7, <1>9, <1>10, <1>11, <1>12, <1>13 DEF WindowInv, ControlInv

LEMMA HandleResolvedControl ==
  ASSUME WindowInv, HandleResolved
  PROVE  WindowInv' /\ NothingShown
<1> DEFINE e == guiEvents[1]
<1>1. /\ guiEvents' \in Seq(GUIEvent) /\ Head(guiEvents) = e /\ e \in GUIEvent
      /\ e.kind = "resolved" /\ guiEvents # <<>>
      /\ Len(guiEvents) \in Nat \ {0} /\ Len(guiEvents') = Len(guiEvents) - 1
      /\ Len(guiEvents) = 1 <=> guiEvents' = <<>>
  BY EventHandled DEF HandleResolved, WindowInv
<1>2. /\ disabled' = disabled \ Resolved(e.says)
      /\ UNCHANGED <<lookup, rpc, resolving, idCounter, addresses, tpc, tracing, silent>>
      /\ UNCHANGED <<asked, resolveResults, traceResults, geoInfo, currentSelectedIPNo>>
      /\ UNCHANGED <<clicked, drewPoints, points, traceMaxHops, nullItem>>
  BY <1>1 DEF HandleResolved, resolveVars, traceVars, tableVars, pickVars, mapVars
<1>3. Ends("resolved") /\ guiEvents' = <<>> /\ Len(guiEvents) = 1
  BY <1>1
  DEF WindowInv, ControlInv, OneOpen, LookupInv, TraceInv, Reported, HopsQueued,
      LookupOpen, TraceOpen, Ends
<1>4. /\ rpc' \in {"idle", "ending"} /\ tpc' = "idle" /\ lookup > 0
      /\ LookupOpen /\ ~TraceOpen /\ ~LookupOpen' /\ ~TraceOpen'
  BY <1>2, <1>3 DEF WindowInv, ControlInv, OneOpen, LookupInv, LookupOpen, TraceOpen, Ends
<1>5. OneOpen' /\ LookupInv' /\ TraceInv'
  BY <1>3, <1>4 DEF OneOpen, LookupInv, TraceInv, Ends
<1>6. RowsInv' /\ PickInv'
  BY <1>2 DEF WindowInv, ControlInv, RowsInv, PickInv
<1>7. WidgetsInv'
  BY <1>2, <1>3, <1>4
  DEF WindowInv, ControlInv, WidgetsInv, LookupInv, Resolved
<1>8. WindowTypeOK'
  BY <1>1, <1>2 DEF WindowInv, WindowTypeOK, ResolveTypeOK, IDs, Hops
<1>9. UNCHANGED <<mapTooltip, tracingLine>>
  BY DEF HandleResolved, mapVars
<1>10. NothingShown
  BY <1>2, <1>4, <1>9 DEF NothingShown, NothingOpens, TraceRuns, tableVars
<1> QED BY <1>5, <1>6, <1>7, <1>8, <1>10 DEF WindowInv, ControlInv

LEMMA HandleTracedControl ==
  ASSUME WindowInv, HandleTraced
  PROVE  WindowInv' /\ TraceShown
<1>1. /\ guiEvents' \in Seq(GUIEvent) /\ guiEvents[1].kind = "traced" /\ guiEvents # <<>>
      /\ Len(guiEvents) \in Nat \ {0} /\ Len(guiEvents') = Len(guiEvents) - 1
      /\ Len(guiEvents) = 1 <=> guiEvents' = <<>>
  BY EventHandled DEF HandleTraced, WindowInv
<1>2. /\ disabled' = {}
      /\ UNCHANGED <<lookup, rpc, resolving, idCounter, addresses, tpc, tracing, silent>>
      /\ UNCHANGED <<asked, resolveResults, traceResults, geoInfo, currentSelectedIPNo>>
      /\ UNCHANGED <<clicked, drewPoints, points, traceMaxHops, nullItem>>
  BY DEF HandleTraced, Traced, WindowInv, WindowTypeOK, resolveVars, traceVars, tableVars,
         pickVars, mapVars
<1>3. Ends("traced") /\ guiEvents' = <<>>
  BY <1>1
  DEF WindowInv, ControlInv, OneOpen, LookupInv, TraceInv, Reported, HopsQueued,
      LookupOpen, TraceOpen, Ends
<1>4. /\ rpc' \in {"idle", "ending"} /\ tpc' \in {"idle", "ending"}
      /\ ~LookupOpen' /\ ~TraceOpen'
  BY <1>2, <1>3 DEF WindowInv, ControlInv, OneOpen, TraceInv, LookupOpen, TraceOpen, Ends
<1>5. OneOpen' /\ LookupInv' /\ TraceInv'
  BY <1>3, <1>4 DEF OneOpen, LookupInv, TraceInv, Ends
<1>6. RowsInv' /\ PickInv'
  BY <1>2 DEF WindowInv, ControlInv, RowsInv, PickInv
<1>7. WidgetsInv'
  BY <1>2, <1>4 DEF WidgetsInv
<1>8. WindowTypeOK'
  BY <1>1, <1>2 DEF WindowInv, WindowTypeOK, ResolveTypeOK, IDs, Hops
<1>9. TraceOpen /\ ~LookupOpen
  BY <1>3 DEF TraceOpen, WindowInv, ControlInv, OneOpen, LookupOpen, Ends
<1>10. TraceShown
  BY <1>2, <1>4, <1>9 DEF TraceShown, HandleTraced, tableVars
<1> QED BY <1>5, <1>6, <1>7, <1>8, <1>10 DEF WindowInv, ControlInv

-----------------------------------------------------------------------------
(* The start of a trace, from a row that shows an address when nothing is  *)
(* open any more.                                                          *)
LEMMA StartTracingControl ==
  ASSUME WindowInv, NEW free, NEW row \in IDs, StartTracing(free, row),
         resolveResults[row] # 0, tpc = "idle", rpc \in {"idle", "ending"}, guiEvents' = <<>>,
         UNCHANGED <<lookup, resolveVars>>, "startStopTracingButton" \notin disabled',
         currentSelectedIPNo' \in 0 .. MaxAddresses, clicked' \in BOOLEAN, PickInv'
  PROVE  WindowInv' /\ TraceStarts
<1>1. /\ asked < MaxTraces /\ asked' = asked + 1 /\ LockForTrace \subseteq disabled'
      /\ disabled' \subseteq disabled \union LockForTrace
      /\ traceResults' = EmptyTable(Hops) /\ nullItem' = FALSE /\ tpc' = "begin"
      /\ UNCHANGED <<tracing, silent, resolveResults, traceMaxHops>>
  BY DEF StartTracing, ClearHops
<1>2. ~LookupOpen' /\ TraceOpen' /\ asked' > 0
  BY <1>1, GUIAssumption
  DEF LookupOpen, TraceOpen, Ends, resolveVars, WindowInv, WindowTypeOK
<1>3. OneOpen' /\ LookupInv' /\ TraceInv'
  BY <1>1, <1>2 DEF OneOpen, LookupInv, TraceInv, Ends, resolveVars
<1>4. RowsInv'
  BY <1>1 DEF WindowInv, ControlInv, RowsInv, EmptyTable
<1>5. WidgetsInv'
  BY <1>1, <1>2 DEF WidgetsInv, LockForTrace
<1>6. WindowTypeOK'
  <2>1. asked' \in 0 .. MaxTraces /\ tracing \in 0 .. MaxTraces
    BY <1>1, GUIAssumption DEF WindowInv, WindowTypeOK
  <2>2. guiEvents' \in Seq(GUIEvent)
    OBVIOUS
  <2>3. traceResults' \in [Hops -> 0 .. MaxTraces]
    BY <1>1, GUIAssumption DEF EmptyTable
  <2>4. disabled' \in SUBSET Widgets
    BY <1>1 DEF WindowInv, WindowTypeOK, LockForTrace, Widgets
  <2>5. geoInfo' \in [Slots -> Located \union {Invalid, Garbage}]
    BY DEF StartTracing, ClearTraceGeoInfo, WindowInv, WindowTypeOK
  <2>6. drewPoints' = {} /\ points' = {}
    BY DEF StartTracing, ClearAll, ForgetDrawn
  <2> QED
    BY <1>1, <2>1, <2>2, <2>3, <2>4, <2>5, <2>6
    DEF WindowInv, WindowTypeOK, ResolveTypeOK, resolveVars, IDs, Hops
<1>7. TraceStarts
  BY <1>1, <1>2 DEF StartTracing, TraceStarts
<1> QED BY <1>3, <1>4, <1>5, <1>6, <1>7 DEF WindowInv, ControlInv

LEMMA HandleResolvedAutoControl ==
  ASSUME WindowInv, HandleResolvedAuto
  PROVE  WindowInv' /\ TraceStarts
<1> DEFINE e == guiEvents[1]
<1>1. /\ Head(guiEvents) = e /\ e \in GUIEvent /\ e.kind = "resolved" /\ guiEvents # <<>>
      /\ guiEvents' \in Seq(GUIEvent)
      /\ Len(guiEvents) \in Nat \ {0} /\ Len(guiEvents') = Len(guiEvents) - 1
      /\ Len(guiEvents) = 1 <=> guiEvents' = <<>>
  BY EventHandled DEF HandleResolvedAuto, WindowInv
<1>2. e.says
  BY <1>1 DEF HandleResolvedAuto
<1>3. Ends("resolved") /\ guiEvents' = <<>> /\ Len(guiEvents) = 1
  BY <1>1
  DEF WindowInv, ControlInv, OneOpen, LookupInv, TraceInv, Reported, HopsQueued,
      LookupOpen, TraceOpen, Ends
<1>4. rpc \in {"idle", "ending"} /\ tpc = "idle" /\ lookup > 0
  BY <1>3 DEF WindowInv, ControlInv, OneOpen, LookupInv, LookupOpen
<1>5. 1 \in IDs /\ resolveResults[1] # 0
  <2>1. Reported(Len(guiEvents) - 1) /\ idCounter > 1
    BY <1>2, <1>3 DEF WindowInv, ControlInv, LookupInv
  <2>2. Reported(0)
    BY <1>3, <2>1
  <2>3. 1 \in IDs /\ 1 < idCounter - 0
    BY <2>1, ResolveAssumption DEF IDs, WindowInv, WindowTypeOK, ResolveTypeOK
  <2> QED BY <1>4, <2>2, <2>3 DEF Reported
<1>6. currentSelectedIPNo' = 1 /\ clicked' = TRUE
  BY DEF HandleResolvedAuto, AutoSelect, Pick
<1>7. PickInv'
  BY <1>5, <1>6 DEF PickInv, HandleResolvedAuto, StartTracing
<1>8. StartTracing(Resolved(TRUE), 1) /\ UNCHANGED <<lookup, resolveVars>>
  BY <1>6 DEF HandleResolvedAuto
<1>9. currentSelectedIPNo' \in 0 .. MaxAddresses /\ clicked' \in BOOLEAN
  BY <1>6, ResolveAssumption
<1>10. tpc' # "idle" /\ "startStopTracingButton" \notin LockForTrace
  BY <1>4, <1>5, <1>8 DEF StartTracing, LockForTrace
<1>11. "startStopTracingButton" \notin disabled'
  BY <1>8, <1>10 DEF StartTracing, Resolved
<1> QED BY <1>3, <1>4, <1>5, <1>7, <1>8, <1>9, <1>11, StartTracingControl

-----------------------------------------------------------------------------
(* The user.                                                               *)

\* A row that can be clicked shows an address.
LEMMA RowsWithoutGaps ==
  ASSUME WindowInv, NEW k \in IDs, HasRow(resolveResults, k)
  PROVE  resolveResults[k] # 0
<1>1. PICK j \in IDs : j >= k /\ resolveResults[j] # 0
  BY DEF HasRow, WindowInv, WindowTypeOK
<1>2. k \in 1 .. j
  BY <1>1, ResolveAssumption DEF IDs
<1> QED BY <1>1, <1>2 DEF WindowInv, ControlInv, RowsInv

\* Nothing is open when all is handled and the widgets for a new start are enabled.
LEMMA NothingOpen ==
  ASSUME WindowInv, Careless = {}, InTime
  PROVE  /\ guiEvents = <<>> /\ rpc # "ending" /\ tpc # "ending"
         /\ {"hostInput", "resolveButton"} \cap disabled = {} =>
              ~LookupOpen /\ ~TraceOpen /\ rpc = "idle" /\ tpc = "idle"
<1>1. guiEvents = <<>> /\ rpc # "ending" /\ tpc # "ending"
  BY DEF InTime, Quiet
<1>2. ASSUME {"hostInput", "resolveButton"} \cap disabled = {}
      PROVE  ~LookupOpen /\ ~TraceOpen
  BY <1>2 DEF WindowInv, ControlInv, WidgetsInv, LockForTrace
<1>3. ~LookupOpen => rpc = "idle"
  BY <1>1 DEF LookupOpen, WindowInv, WindowTypeOK, ResolveTypeOK
<1>4. ~TraceOpen => tpc = "idle"
  BY <1>1 DEF TraceOpen, WindowInv, WindowTypeOK
<1> QED BY <1>1, <1>2, <1>3, <1>4

LEMMA StartResolvingControl ==
  ASSUME WindowInv, Careless = {}, StartResolving
  PROVE  WindowInv' /\ LookupStarts
<1>1. /\ guiEvents' = <<>> /\ guiEvents = <<>>
      /\ rpc = "idle" /\ tpc = "idle" /\ ~LookupOpen /\ ~TraceOpen
  BY NothingOpen DEF StartResolving
<1>2. /\ lookup < MaxLookups /\ lookup' = lookup + 1 /\ rpc' = "begin"
      /\ disabled' = disabled \union {"hostInput", "resolveButton", "startStopTracingButton"}
      /\ resolveResults' = EmptyTable(IDs) /\ clicked' = FALSE
      /\ UNCHANGED <<resolving, idCounter, addresses, tpc, tracing, silent, asked>>
      /\ UNCHANGED <<traceResults, currentSelectedIPNo, traceMaxHops, nullItem>>
  BY <1>1 DEF StartResolving, InitializeResolving, traceVars
<1>3. /\ LookupOpen' /\ ~TraceOpen'
  BY <1>1, <1>2 DEF LookupOpen, TraceOpen, Ends
<1>4. OneOpen' /\ LookupInv' /\ TraceInv'
  BY <1>1, <1>2, <1>3, ResolveAssumption
  DEF OneOpen, LookupInv, TraceInv, Ends, WindowInv, WindowTypeOK, ResolveTypeOK
<1>5. RowsInv' /\ PickInv'
  BY <1>2 DEF WindowInv, ControlInv, RowsInv, PickInv, EmptyTable
<1>6. WidgetsInv'
  BY <1>1, <1>2, <1>3 DEF WindowInv, ControlInv, WidgetsInv
<1>7. WindowTypeOK'
  <2>1. lookup' \in 0 .. MaxLookups /\ resolveResults' \in [IDs -> 0 .. MaxLookups]
    BY <1>2, ResolveAssumption DEF WindowInv, WindowTypeOK, ResolveTypeOK, EmptyTable
  <2>2. clicked' \in BOOLEAN
    BY <1>2
  <2>3. geoInfo' \in [Slots -> Located \union {Invalid, Garbage}]
    BY DEF StartResolving, InitializeResolving, ClearResolveGeoInfo, WindowInv, WindowTypeOK
  <2>4. drewPoints' = {} /\ points' = {}
    BY DEF StartResolving, InitializeResolving, ClearAll, ForgetDrawn
  <2>5. guiEvents' \in Seq(GUIEvent)
    BY <1>1
  <2>6. disabled' \in SUBSET Widgets
    BY <1>2 DEF WindowInv, WindowTypeOK, Widgets
  <2> QED
    BY <1>2, <2>1, <2>2, <2>3, <2>4, <2>5, <2>6
    DEF WindowInv, WindowTypeOK, ResolveTypeOK, IDs, Hops
<1>8. LookupStarts
  BY <1>1, <1>2, <1>3 DEF LookupStarts, StartResolving, InitializeResolving
<1> QED BY <1>4, <1>5, <1>6, <1>7, <1>8 DEF WindowInv, ControlInv

\* What the invariant is about, a click leaves alone.
LEMMA ClickFrame ==
  ASSUME WindowInv, UNCHANGED <<guiEvents, lookup, resolveVars, traceVars, asked>>,
         UNCHANGED <<tableVars, drewPoints, points>>,
         disabled' \in SUBSET Widgets, WidgetsInv', PickInv',
         currentSelectedIPNo' \in 0 .. MaxAddresses, clicked' \in BOOLEAN,
         traceMaxHops' \in Hops, nullItem' \in BOOLEAN,
         traceMaxHops' = traceMaxHops \/ (guiEvents = <<>> /\ tpc = "idle")
  PROVE  WindowInv' /\ NothingOpens
<1>1. OneOpen' /\ RowsInv' /\ (LookupOpen' <=> LookupOpen) /\ (TraceOpen' <=> TraceOpen)
  BY DEF WindowInv, ControlInv, OneOpen, RowsInv, LookupOpen, TraceOpen, Ends,
         resolveVars, traceVars, tableVars
<1>2. LookupInv'
  BY DEF WindowInv, ControlInv, LookupInv, Ends, Reported, resolveVars, tableVars
<1>3. TraceInv'
  BY DEF WindowInv, ControlInv, TraceInv, Ends, HopsQueued, traceVars
<1>4. WindowTypeOK'
  BY DEF WindowInv, WindowTypeOK, ResolveTypeOK, resolveVars, traceVars, tableVars, IDs
<1> QED BY <1>1, <1>2, <1>3, <1>4 DEF WindowInv, ControlInv, NothingOpens, TraceRuns, traceVars

LEMMA ClickAddressControl ==
  ASSUME WindowInv, NEW k \in IDs, ClickAddress(k)
  PROVE  WindowInv' /\ NothingShown
<1>1. resolveResults[k] # 0
  BY RowsWithoutGaps DEF ClickAddress
<1>2. currentSelectedIPNo' = k /\ clicked' = TRUE /\ nullItem' = FALSE
      /\ UNCHANGED <<guiEvents, lookup, resolveVars, traceVars, asked, disabled>>
      /\ UNCHANGED <<tableVars, drewPoints, points, traceMaxHops>>
  BY <1>1 DEF ClickAddress, Pick, GoTo
<1>3. PickInv'
  BY <1>1, <1>2 DEF PickInv, tableVars, IDs
<1>4. WidgetsInv'
  BY <1>2 DEF WindowInv, ControlInv, WidgetsInv, LookupOpen, TraceOpen, Ends, resolveVars,
              traceVars, tableVars
<1>5. k \in 0 .. MaxAddresses
  BY ResolveAssumption DEF IDs
<1>6. WindowInv' /\ NothingOpens
  BY <1>2, <1>3, <1>4, <1>5, ClickFrame DEF WindowInv, WindowTypeOK
<1> QED BY <1>2, <1>6 DEF ClickAddress, NothingShown

LEMMA ClickHopControl ==
  ASSUME WindowInv, NEW h \in Hops, ClickHop(h)
  PROVE  WindowInv' /\ NothingShown
<1>1. /\ UNCHANGED <<guiEvents, lookup, resolveVars, traceVars, asked, disabled>>
      /\ UNCHANGED <<tableVars, pickVars, drewPoints, points, traceMaxHops>>
      /\ nullItem' \in BOOLEAN
  BY DEF ClickHop, GoTo
<1>2. PickInv'
  BY <1>1 DEF WindowInv, ControlInv, PickInv, pickVars, tableVars, IDs
<1>3. WidgetsInv'
  BY <1>1 DEF WindowInv, ControlInv, WidgetsInv, LookupOpen, TraceOpen, Ends, resolveVars,
              traceVars, tableVars
<1>4. WindowInv' /\ NothingOpens
  BY <1>1, <1>2, <1>3, ClickFrame DEF WindowInv, WindowTypeOK, pickVars
<1> QED BY <1>1, <1>4 DEF ClickHop, NothingShown

LEMMA ConfigureControl ==
  ASSUME WindowInv, Careless = {}, Configure
  PROVE  WindowInv' /\ NothingShown
<1>1. /\ guiEvents = <<>> /\ tpc = "idle" /\ traceMaxHops' \in Hops
      /\ UNCHANGED <<guiEvents, lookup, resolveVars, traceVars, asked, disabled>>
      /\ UNCHANGED <<tableVars, pickVars, drewPoints, points, nullItem>>
  BY GUIAssumption DEF Configure, Quiet, mapVars, Hops
<1>2. PickInv'
  BY <1>1 DEF WindowInv, ControlInv, PickInv, pickVars, tableVars, IDs
<1>3. WidgetsInv'
  BY <1>1 DEF WindowInv, ControlInv, WidgetsInv, LookupOpen, TraceOpen, Ends, resolveVars,
              traceVars, tableVars
<1>4. WindowInv' /\ NothingOpens
  BY <1>1, <1>2, <1>3, ClickFrame DEF WindowInv, WindowTypeOK, pickVars
<1>5. ~TraceOpen
  BY <1>1 DEF TraceOpen, Ends
<1> QED BY <1>1, <1>4, <1>5 DEF Configure, NothingShown, mapVars

LEMMA AbortTracingControl ==
  ASSUME WindowInv, Careless = {}, AbortTracing
  PROVE  WindowInv' /\ NothingShown
<1>1. /\ disabled' = disabled \union {"startStopTracingButton"}
      /\ tpc \in {"begin", "run"}
      /\ UNCHANGED <<guiEvents, lookup, resolveVars, traceVars, asked>>
      /\ UNCHANGED <<tableVars, pickVars, drewPoints, points, traceMaxHops, nullItem>>
  BY DEF AbortTracing, mapVars, WindowInv, WindowTypeOK
<1>2. PickInv'
  BY <1>1 DEF WindowInv, ControlInv, PickInv, pickVars, tableVars, IDs
<1>3. TraceOpen /\ TraceOpen' /\ (LookupOpen' <=> LookupOpen)
  BY <1>1 DEF LookupOpen, TraceOpen, Ends, resolveVars, traceVars
<1>4. WidgetsInv'
  BY <1>1, <1>3 DEF WindowInv, ControlInv, WidgetsInv
<1>5. disabled' \in SUBSET Widgets
  BY <1>1 DEF WindowInv, WindowTypeOK, Widgets
<1>6. WindowInv' /\ NothingOpens
  BY <1>1, <1>2, <1>4, <1>5, ClickFrame DEF WindowInv, WindowTypeOK, pickVars
<1> QED BY <1>1, <1>6 DEF AbortTracing, NothingShown, mapVars

LEMMA TraceFromTableControl ==
  ASSUME WindowInv, Careless = {}, NEW k \in IDs, TraceFromTable(k)
  PROVE  WindowInv' /\ TraceStarts
<1>1. resolveResults[k] # 0
  BY RowsWithoutGaps DEF TraceFromTable
<1>2. guiEvents = <<>> /\ rpc = "idle" /\ "resolveTable" \notin disabled
  BY NothingOpen DEF TraceFromTable
<1>3. tpc = "idle"
  BY <1>2, NothingOpen
  DEF TraceFromTable, WindowInv, ControlInv, WidgetsInv, LockForTrace, TraceOpen, WindowTypeOK
<1>4. /\ currentSelectedIPNo' = k /\ clicked' = TRUE /\ StartTracing({}, k)
      /\ guiEvents' = <<>> /\ UNCHANGED <<lookup, resolveVars>>
  BY <1>2 DEF TraceFromTable, Pick
<1>5. PickInv'
  BY <1>1, <1>4 DEF PickInv, StartTracing
<1>6. k \in 0 .. MaxAddresses
  BY ResolveAssumption DEF IDs
<1>7. "startStopTracingButton" \notin disabled
  <2>1. ~LookupOpen /\ ~TraceOpen
    BY <1>2, <1>3 DEF LookupOpen, TraceOpen, Ends
  <2>2. resolveResults # EmptyTable(IDs)
    BY <1>1 DEF EmptyTable
  <2> QED BY <2>1, <2>2 DEF WindowInv, ControlInv, WidgetsInv
<1>8. "startStopTracingButton" \notin disabled'
  BY <1>4, <1>7 DEF StartTracing, LockForTrace
<1> QED BY <1>1, <1>2, <1>3, <1>4, <1>5, <1>6, <1>8, StartTracingControl

LEMMA TraceFromButtonControl ==
  ASSUME WindowInv, Careless = {}, TraceFromButton
  PROVE  WindowInv' /\ TraceStarts
<1>1. /\ clicked /\ tpc = "idle" /\ "startStopTracingButton" \notin disabled
      /\ StartTracing({}, currentSelectedIPNo)
      /\ UNCHANGED <<guiEvents, lookup, resolveVars, clicked, currentSelectedIPNo>>
  BY DEF TraceFromButton, pickVars
<1>2. currentSelectedIPNo \in IDs /\ resolveResults[currentSelectedIPNo] # 0
  BY <1>1 DEF WindowInv, ControlInv, PickInv
<1>3. guiEvents = <<>> /\ rpc # "ending"
  BY NothingOpen DEF TraceFromButton
<1>4. rpc = "idle"
  BY <1>1, <1>3
  DEF WindowInv, ControlInv, WidgetsInv, LookupOpen, WindowTypeOK, ResolveTypeOK
<1>5. PickInv'
  BY <1>1, <1>2 DEF PickInv, StartTracing
<1>6. "startStopTracingButton" \notin disabled'
  BY <1>1 DEF StartTracing, LockForTrace
<1> QED
  BY <1>1, <1>2, <1>3, <1>4, <1>5, <1>6, StartTracingControl DEF WindowInv, WindowTypeOK

-----------------------------------------------------------------------------
LEMMA WindowInit ==
  ASSUME GUIInit
  PROVE  WindowInv
<1>1. guiEvents \in Seq(GUIEvent) /\ Len(guiEvents) = 0
  BY DEF GUIInit
<1>2. WindowTypeOK
  <2>1. geoInfo \in [Slots -> Located \union {Invalid, Garbage}]
    BY DEF GUIInit
  <2>2. /\ EmptyTable(IDs) \in [IDs -> 0 .. MaxLookups]
        /\ EmptyTable(Hops) \in [Hops -> 0 .. MaxTraces]
    BY ResolveAssumption, GUIAssumption DEF EmptyTable
  <2>3. StartHops \in Hops
    BY GUIAssumption DEF Hops
  <2>4. /\ 0 \in 0 .. MaxLookups /\ 0 \in 0 .. MaxTraces /\ 0 \in 0 .. MaxAddresses
        /\ 1 \in 1 .. MaxAddresses + 1
    BY ResolveAssumption, GUIAssumption
  <2>5. ResolveTypeOK
    BY <2>4 DEF GUIInit, ResolveInit, FirstID, ResolveTypeOK
  <2> QED
    BY <1>1, <2>1, <2>2, <2>3, <2>4, <2>5 DEF GUIInit, MapInit, WindowTypeOK, Widgets
<1>3. ~LookupOpen /\ ~TraceOpen /\ ~Ends("resolved") /\ ~Ends("traced")
  BY DEF GUIInit, ResolveInit, LookupOpen, TraceOpen, Ends
<1>4. OneOpen /\ LookupInv /\ TraceInv
  BY <1>3 DEF GUIInit, ResolveInit, OneOpen, LookupInv, TraceInv
<1>5. RowsInv /\ WidgetsInv /\ PickInv
  BY <1>3 DEF GUIInit, EmptyTable, RowsInv, WidgetsInv, PickInv
<1> QED BY <1>2, <1>4, <1>5 DEF WindowInv, ControlInv

LEMMA WindowNext ==
  ASSUME WindowInv, Careless = {}, [GUINext]_guiAll
  PROVE  WindowInv' /\ WindowStep
<1>1. ASSUME StartResolving PROVE WindowInv' /\ WindowStep
  BY <1>1, StartResolvingControl DEF StartResolving, WindowStep
<1>2. ASSUME NEW k \in IDs, ClickAddress(k) PROVE WindowInv' /\ WindowStep
  BY <1>2, ClickAddressControl DEF ClickAddress, WindowStep
<1>3. ASSUME NEW k \in IDs, TraceFromTable(k) PROVE WindowInv' /\ WindowStep
  BY <1>3, TraceFromTableControl DEF WindowStep
<1>4. ASSUME NEW h \in Hops, ClickHop(h) PROVE WindowInv' /\ WindowStep
  BY <1>4, ClickHopControl DEF ClickHop, WindowStep
<1>5. ASSUME TraceFromButton PROVE WindowInv' /\ WindowStep
  BY <1>5, TraceFromButtonControl DEF WindowStep
<1>6. ASSUME AbortTracing PROVE WindowInv' /\ WindowStep
  BY <1>6, AbortTracingControl DEF AbortTracing, WindowStep
<1>7. ASSUME Configure PROVE WindowInv' /\ WindowStep
  BY <1>7, ConfigureControl DEF Configure, WindowStep
<1>8. ASSUME ResolvingThread, UNCHANGED <<lookup, traceVars, guiVars>>
      PROVE  WindowInv' /\ WindowStep
  <2>1. WindowInv' /\ NothingShown
    BY <1>8, ResolveBeginControl, ResolveFoundControl, ResolveFailedControl, GetInfoControl,
       ResolveDoneControl, ResolveFinishControl DEF ResolvingThread
  <2> QED BY <2>1 DEF WindowStep
<1>9. ASSUME TracingThread PROVE WindowInv' /\ WindowStep
  <2>1. WindowInv' /\ NothingShown
    BY <1>9, TraceBeginControl, TraceHopControl, TraceEndControl, TraceFinishControl
    DEF TracingThread
  <2> QED BY <2>1 DEF WindowStep
<1>10. ASSUME HandleAddress PROVE WindowInv' /\ WindowStep
  BY <1>10, HandleAddressControl DEF HandleAddress, WindowStep
<1>11. ASSUME HandleResolved PROVE WindowInv' /\ WindowStep
  BY <1>11, HandleResolvedControl DEF HandleResolved, WindowStep
<1>12. ASSUME HandleResolvedAuto PROVE WindowInv' /\ WindowStep
  BY <1>12, HandleResolvedAutoControl DEF WindowStep
<1>13. ASSUME HandleHop PROVE WindowInv' /\ WindowStep
  BY <1>13, HandleHopControl DEF HandleHop, WindowStep
<1>14. ASSUME HandleTraced PROVE WindowInv' /\ WindowStep
  BY <1>14, HandleTracedControl DEF HandleTraced, WindowStep
<1>15. ASSUME UNCHANGED guiAll PROVE WindowInv' /\ WindowStep
  <2>1. UNCHANGED <<guiEvents, lookup, resolveVars, traceVars, asked, disabled>>
        /\ UNCHANGED <<tableVars, pickVars, drewPoints, points, traceMaxHops, nullItem>>
    BY <1>15 DEF guiAll, guiVars, mapVars
  <2>2. PickInv'
    BY <2>1 DEF WindowInv, ControlInv, PickInv, pickVars, tableVars, IDs
  <2>3. WidgetsInv'
    BY <2>1 DEF WindowInv, ControlInv, WidgetsInv, LookupOpen, TraceOpen, Ends, resolveVars,
                traceVars, tableVars
  <2>4. WindowInv' /\ NothingOpens
    BY <2>1, <2>2, <2>3, ClickFrame DEF WindowInv, WindowTypeOK, pickVars
  <2> QED BY <1>15, <2>1, <2>4 DEF WindowStep, NothingShown, guiAll, guiVars, mapVars
<1> QED
  BY <1>1, <1>2, <1>3, <1>4, <1>5, <1>6, <1>7, <1>8, <1>9, <1>10, <1>11, <1>12, <1>13, <1>14,
     <1>15
  DEF GUINext

-----------------------------------------------------------------------------
(* Lookups and traces take turns, and the queue holds the events of the    *)
(* one that is open, as long as the user waits for what was started.       *)
THEOREM WindowInductive ==
  ASSUME Careless = {}
  PROVE  GUISpec => []WindowInv
<1>1. GUIInit => WindowInv
  BY WindowInit
<1>2. WindowInv /\ [GUINext]_guiAll => WindowInv'
  BY WindowNext
<1> QED BY <1>1, <1>2, PTL DEF GUISpec

(* After any sequence of aborts, failures and automatic starts the user    *)
(* can go on: the widgets come back.                                       *)
THEOREM WidgetsComeBack ==
  ASSUME Careless = {}
  PROVE  GUISpec => []AtRestEnabled
<1>1. WindowInv => AtRestEnabled
  <2>1. SUFFICES ASSUME WindowInv, Quiet, rpc = "idle", tpc = "idle"
                 PROVE  /\ disabled \subseteq {"startStopTracingButton"}
                        /\ HasRow(resolveResults, 1) => disabled = {}
    BY DEF AtRestEnabled
  <2>2. ~LookupOpen /\ ~TraceOpen
    BY <2>1 DEF LookupOpen, TraceOpen, Ends, Quiet
  <2>3. disabled \subseteq {"startStopTracingButton"}
    BY <2>1, <2>2 DEF WindowInv, ControlInv, WidgetsInv, WindowTypeOK, Widgets
  <2>4. HasRow(resolveResults, 1) => resolveResults # EmptyTable(IDs)
    BY <2>1 DEF HasRow, EmptyTable, WindowInv, WindowTypeOK
  <2> QED BY <2>1, <2>2, <2>3, <2>4 DEF WindowInv, ControlInv, WidgetsInv
<1> QED BY <1>1, WindowInductive, PTL

(* A trace can be aborted from its start until it was, and nothing else    *)
(* that is asked for and nothing it has filled in gets lost while it runs. *)
THEOREM Undisturbed ==
  ASSUME Careless = {}
  PROVE  GUISpec => TraceUndisturbed
<1>1. ASSUME WindowInv, WindowStep PROVE LeavesTrace
  <2>1. /\ TraceRuns => TraceOpen
        /\ TraceRuns' => TraceOpen'
    BY DEF TraceRuns, TraceOpen
  <2>2. CASE LookupStarts \/ AddressShown \/ TraceShown
    BY <2>1, <2>2 DEF LookupStarts, AddressShown, TraceShown, LeavesTrace
  <2>3. CASE TraceStarts
    BY <2>3 DEF TraceStarts, LeavesTrace, TraceRuns
  <2>4. CASE HopShown
    <3>1. \A h \in Hops : traceResults[h] # 0 => traceResults'[h] = traceResults[h]
      BY <1>1, <2>4 DEF HopShown, WindowInv, WindowTypeOK, ControlInv, RowsInv
    <3>2. points \subseteq points'
      BY <2>4 DEF HopShown, Locate, DrawPoint
    <3> QED BY <2>4, <3>1, <3>2 DEF HopShown, LeavesTrace, TraceRuns, TraceOpen
  <2>5. CASE NothingShown
    BY <2>1, <2>5 DEF NothingShown, NothingOpens, tableVars, LeavesTrace
  <2> QED BY <1>1, <2>2, <2>3, <2>4, <2>5 DEF WindowStep
<1>2. WindowInv /\ [GUINext]_guiAll => [LeavesTrace]_guiAll
  BY <1>1, WindowNext
<1> QED BY <1>2, WindowInductive, PTL DEF GUISpec, TraceUndisturbed


-----------------------------------------------------------------------------
(* What is on the map and in the arrays of locations.                      *)

\* What is on the map is of the last lookup or of the last trace.
ShownInv ==
  /\ points \subseteq OfLookup(lookup) \union OfTrace(asked)
  /\ mapTooltip # NoTip => mapTooltip.row \in {<<"lookup", lookup>>, <<"trace", asked>>}

\* A hop whose location StartTracing has forgotten for the last trace.
Emptied(h) == HasRow(traceResults, h) \/ (TraceOpen /\ h <= traceMaxHops)

PlacesInv ==
  /\ \A k \in 1 .. MaxIPs : geoInfo[k] \in OfLookup(lookup) \union {Invalid}
  /\ \A h \in Hops : geoInfo[Slot(h)] \notin UNION {OfLookup(n) : n \in 1 .. MaxLookups}
  /\ \A h \in Hops : Emptied(h) =>
       /\ geoInfo[Slot(h)] \in OfTrace(asked) \union {Invalid}
       /\ traceResults[h] = 0 => geoInfo[Slot(h)] = Invalid

\* A row of a trace that can be clicked and leads somewhere has its texts.
LEMMA HopRows ==
  ASSUME WindowInv, PlacesInv, NEW h \in Hops, HasRow(traceResults, h),
         geoInfo[Slot(h)] # Invalid
  PROVE  traceResults[h] = asked /\ asked # 0
<1>1. traceResults[h] # 0
  BY DEF PlacesInv, Emptied
<1> QED BY <1>1 DEF WindowInv, ControlInv, RowsInv

\* The tooltip of a row is shown, when it has the texts for one, or stays.
LEMMA GoesTo ==
  ASSUME NEW row, NEW place, GoTo(row, place)
  PROVE  \/ nullItem' = FALSE /\ mapTooltip' = mapTooltip
         \/ place # Invalid /\ row[2] = 0 /\ mapTooltip' = mapTooltip
         \/ row[2] # 0 /\ nullItem' = FALSE /\ mapTooltip'.row = row
<1>1. SetTextAndGoto(row, place) => mapTooltip'.row = row
  BY DEF SetTextAndGoto
<1> QED BY <1>1 DEF GoTo

LEMMA ShownStep ==
  ASSUME WindowInv, ShownInv, WindowStep
  PROVE  ShownInv'
<1>1. CASE LookupStarts \/ TraceStarts
  BY <1>1 DEF LookupStarts, TraceStarts, ClearAll, HideTooltip, ShownInv
<1>2. CASE AddressShown
  <2>1. PICK k \in IDs, city \in Locations : Locate(k, <<"lookup", lookup, city>>)
    BY <1>2 DEF AddressShown
  <2>2. points' \subseteq points \union OfLookup(lookup)
    BY <2>1 DEF Locate, DrawPoint, City, OfLookup, Locations
  <2> QED BY <1>2, <2>2 DEF AddressShown, ShownInv
<1>3. CASE HopShown
  <2>1. PICK h \in Hops, city \in Locations : Locate(Slot(h), <<"trace", asked, city>>)
    BY <1>3 DEF HopShown
  <2>2. points' \subseteq points \union OfTrace(asked)
    BY <2>1 DEF Locate, DrawPoint, City, OfTrace, Locations
  <2> QED BY <1>3, <2>2 DEF HopShown, ShownInv
<1>4. CASE TraceShown
  BY <1>4 DEF TraceShown, ShownInv
<1>5. CASE NothingShown
  <2>1. UNCHANGED <<lookup, asked, points>>
    BY <1>5 DEF NothingShown
  <2>3. \A k \in IDs : resolveResults[k] \in {0, lookup}
    BY DEF WindowInv, ControlInv, RowsInv
  <2>4. \A h \in Hops : traceResults[h] \in {0, asked}
    BY DEF WindowInv, ControlInv, RowsInv
  <2>5. mapTooltip' = mapTooltip
          \/ mapTooltip'.row \in {<<"lookup", lookup>>, <<"trace", asked>>}
    <3>1. ASSUME NEW k \in IDs, GoTo(<<"lookup", resolveResults[k]>>, geoInfo[k])
          PROVE  mapTooltip' = mapTooltip
                   \/ mapTooltip'.row \in {<<"lookup", lookup>>, <<"trace", asked>>}
      <4> DEFINE row == <<"lookup", resolveResults[k]>>
      <4>0. row[2] = resolveResults[k]
        OBVIOUS
      <4>2. GoTo(row, geoInfo[k])
        BY <3>1
      <4> HIDE DEF row
      <4>1. mapTooltip' = mapTooltip \/ (row[2] # 0 /\ mapTooltip'.row = row)
        BY <4>2, GoesTo, Zenon
      <4> QED BY <2>3, <4>0, <4>1 DEF row
    <3>2. ASSUME NEW h \in Hops, GoTo(<<"trace", traceResults[h]>>, geoInfo[Slot(h)])
          PROVE  mapTooltip' = mapTooltip
                   \/ mapTooltip'.row \in {<<"lookup", lookup>>, <<"trace", asked>>}
      <4> DEFINE row == <<"trace", traceResults[h]>>
      <4>0. row[2] = traceResults[h]
        OBVIOUS
      <4>2. GoTo(row, geoInfo[Slot(h)])
        BY <3>2
      <4> HIDE DEF row
      <4>1. mapTooltip' = mapTooltip \/ (row[2] # 0 /\ mapTooltip'.row = row)
        BY <4>2, GoesTo, Zenon
      <4> QED BY <2>4, <4>0, <4>1 DEF row
    <3> QED BY <1>5, <3>1, <3>2 DEF NothingShown
  <2> QED BY <2>1, <2>5 DEF ShownInv
<1> QED BY <1>1, <1>2, <1>3, <1>4, <1>5 DEF WindowStep

\* The entries of the addresses and of the hops do not overlap.
LEMMA SlotsApart ==
  ASSUME MaxAddresses <= MaxIPs
  PROVE  /\ \A k \in IDs : k \in 1 .. MaxIPs
         /\ \A k \in 1 .. MaxIPs : k \in Slots
         /\ \A h \in Hops : Slot(h) \in Slots /\ Slot(h) \notin 1 .. MaxIPs
         /\ \A h, i \in Hops : Slot(h) = Slot(i) => h = i
BY GUIAssumption, ResolveAssumption DEF IDs, Hops, Slot, Slots

LEMMA Kinds ==
  /\ \A n, place : place \in OfLookup(n) => place[1] = "lookup" /\ place[2] = n
  /\ \A n, place : place \in OfTrace(n) => place[1] = "trace" /\ place[2] = n
  /\ Invalid[1] = "invalid"
BY DEF OfLookup, OfTrace, Invalid

LEMMA LookupStartsPlaces ==
  ASSUME WindowInv, PlacesInv, MaxAddresses <= MaxIPs, LookupStarts
  PROVE  PlacesInv'
<1>1. \A s \in Slots : geoInfo'[s] = IF s <= MaxIPs THEN Invalid ELSE geoInfo[s]
  BY Zenon DEF LookupStarts, ClearResolveGeoInfo
<1>2. \A k \in 1 .. MaxIPs : geoInfo'[k] = Invalid
  BY <1>1, SlotsApart, GUIAssumption
<1>3. \A h \in Hops : geoInfo'[Slot(h)] = geoInfo[Slot(h)]
  BY <1>1, SlotsApart, GUIAssumption DEF Hops, Slot
<1>4. \A h \in Hops : Emptied(h)' => Emptied(h)
  BY DEF LookupStarts, Emptied
<1> QED BY <1>2, <1>3, <1>4 DEF LookupStarts, PlacesInv

LEMMA TraceStartsPlaces ==
  ASSUME WindowInv, PlacesInv, MaxAddresses <= MaxIPs, TraceStarts
  PROVE  PlacesInv'
<1>1. \A s \in Slots :
        geoInfo'[s] = IF s \in {Slot(h) : h \in 1 .. traceMaxHops} THEN Invalid ELSE geoInfo[s]
  BY Zenon DEF TraceStarts, ClearTraceGeoInfo
<1>2. traceMaxHops \in Hops /\ \A h \in 1 .. traceMaxHops : h \in Hops
  BY GUIAssumption DEF WindowInv, WindowTypeOK, Hops
<1>3. \A k \in 1 .. MaxIPs : geoInfo'[k] = geoInfo[k]
  BY <1>1, <1>2, SlotsApart
<1>4. \A h \in Hops : geoInfo'[Slot(h)] \in {Invalid, geoInfo[Slot(h)]}
  BY <1>1, SlotsApart
<1>5. \A h \in Hops : Emptied(h)' => geoInfo'[Slot(h)] = Invalid
  <2>1. SUFFICES ASSUME NEW h \in Hops, Emptied(h)' PROVE geoInfo'[Slot(h)] = Invalid
    OBVIOUS
  <2>2. ~HasRow(traceResults, h)'
    BY DEF TraceStarts, ClearHops, HasRow, EmptyTable
  <2>3. h \in 1 .. traceMaxHops
    BY <1>2, <2>1, <2>2, GUIAssumption DEF Emptied, TraceStarts, Hops
  <2> QED BY <1>1, <2>3, SlotsApart
<1>6. \A h \in Hops : geoInfo'[Slot(h)] \notin UNION {OfLookup(n) : n \in 1 .. MaxLookups}
  BY <1>4, Kinds DEF PlacesInv
<1> QED BY <1>3, <1>5, <1>6 DEF TraceStarts, PlacesInv

LEMMA AddressShownPlaces ==
  ASSUME WindowInv, PlacesInv, MaxAddresses <= MaxIPs, AddressShown
  PROVE  PlacesInv'
<1>1. PICK k \in IDs, city \in Locations : Locate(k, <<"lookup", lookup, city>>)
  BY DEF AddressShown
<1>2. \A s \in Slots :
        geoInfo'[s] = geoInfo[s] \/ (s = k /\ geoInfo'[s] \in OfLookup(lookup))
  BY <1>1 DEF Locate, City, OfLookup, Locations, WindowInv, WindowTypeOK
<1>3. \A h \in Hops : geoInfo'[Slot(h)] = geoInfo[Slot(h)]
  BY <1>2, SlotsApart
<1>4. \A h \in Hops : Emptied(h)' => Emptied(h)
  BY DEF AddressShown, Emptied
<1> QED BY <1>2, <1>3, <1>4, SlotsApart DEF AddressShown, PlacesInv

LEMMA HopShownPlaces ==
  ASSUME WindowInv, PlacesInv, MaxAddresses <= MaxIPs, HopShown
  PROVE  PlacesInv'
<1>1. PICK i \in Hops, city \in Locations :
        /\ i <= traceMaxHops
        /\ traceResults' = [traceResults EXCEPT ![i] = asked]
        /\ Locate(Slot(i), <<"trace", asked, city>>)
  BY DEF HopShown
<1>2. \A s \in Slots :
        geoInfo'[s] = geoInfo[s] \/ (s = Slot(i) /\ geoInfo'[s] \in OfTrace(asked))
  BY <1>1 DEF Locate, City, OfTrace, Locations, WindowInv, WindowTypeOK
<1>3. asked # 0 /\ traceMaxHops \in Hops
  BY DEF HopShown, WindowInv, WindowTypeOK, ControlInv, OneOpen
<1>4. \A k \in 1 .. MaxIPs : geoInfo'[k] = geoInfo[k]
  BY <1>1, <1>2, SlotsApart
<1>5. \A h \in Hops :
        \/ geoInfo'[Slot(h)] = geoInfo[Slot(h)]
        \/ h = i /\ geoInfo'[Slot(h)] \in OfTrace(asked)
  BY <1>1, <1>2, SlotsApart
<1>6. \A h \in Hops : traceResults'[h] = IF h = i THEN asked ELSE traceResults[h]
  BY <1>1 DEF WindowInv, WindowTypeOK
<1>7. \A h \in Hops : Emptied(h)' => Emptied(h)
  <2>1. SUFFICES ASSUME NEW h \in Hops, HasRow(traceResults, h)' PROVE Emptied(h)
    BY DEF HopShown, Emptied
  <2>2. DOMAIN traceResults' = Hops /\ DOMAIN traceResults = Hops
    BY <1>1 DEF WindowInv, WindowTypeOK
  <2>3. PICK j \in Hops : j >= h /\ traceResults'[j] # 0
    BY <2>1, <2>2 DEF HasRow
  <2>4. CASE j = i
    BY <1>1, <1>3, <2>3, <2>4, GUIAssumption DEF Emptied, HopShown, Hops
  <2>5. CASE j # i
    BY <1>6, <2>2, <2>3, <2>5 DEF Emptied, HasRow
  <2> QED BY <2>4, <2>5
<1>8. \A h \in Hops : geoInfo'[Slot(h)] \notin UNION {OfLookup(n) : n \in 1 .. MaxLookups}
  BY <1>5, Kinds DEF PlacesInv
<1> QED BY <1>3, <1>4, <1>5, <1>6, <1>7, <1>8 DEF HopShown, PlacesInv

LEMMA PlacesStep ==
  ASSUME WindowInv, PlacesInv, MaxAddresses <= MaxIPs, WindowStep
  PROVE  PlacesInv'
<1>1. CASE TraceShown \/ NothingShown
  <2>1. UNCHANGED <<lookup, asked, traceResults, geoInfo>>
    BY <1>1 DEF TraceShown, NothingShown, tableVars
  <2>2. \A h \in Hops : Emptied(h)' => Emptied(h)
    BY <1>1, <2>1 DEF TraceShown, NothingShown, NothingOpens, Emptied
  <2> QED BY <2>1, <2>2 DEF PlacesInv
<1> QED
  BY <1>1, LookupStartsPlaces, TraceStartsPlaces, AddressShownPlaces, HopShownPlaces
  DEF WindowStep

\* No texts are missing where a click leads to.
LEMMA NoNullStep ==
  ASSUME WindowInv, PlacesInv, WindowStep, ~nullItem
  PROVE  ~nullItem'
<1>1. ASSUME NothingShown PROVE ~nullItem'
  <2>1. ASSUME NEW k \in IDs, HasRow(resolveResults, k),
               GoTo(<<"lookup", resolveResults[k]>>, geoInfo[k])
        PROVE  ~nullItem'
    <3>1. <<"lookup", resolveResults[k]>>[2] # 0
      BY <2>1, RowsWithoutGaps
    <3> QED BY <2>1, <3>1 DEF GoTo
  <2>2. ASSUME NEW h \in Hops, HasRow(traceResults, h),
               GoTo(<<"trace", traceResults[h]>>, geoInfo[Slot(h)])
        PROVE  ~nullItem'
    <3>1. geoInfo[Slot(h)] # Invalid => <<"trace", traceResults[h]>>[2] # 0
      BY <2>2, HopRows
    <3> QED BY <2>2, <3>1 DEF GoTo
  <2> QED BY <1>1, <2>1, <2>2 DEF NothingShown
<1>2. ASSUME ~NothingShown PROVE ~nullItem'
  BY <1>2 DEF WindowStep, LookupStarts, TraceStarts, AddressShown, HopShown, TraceShown
<1> QED BY <1>1, <1>2

-----------------------------------------------------------------------------
(* The line and the points.                                                *)
LinePoint == [hop : Hops, place : Located]

LineTyped == tracingLine \in Seq(LinePoint)

PointsInv ==
  /\ drewPoints = {City(p) : p \in points}
  /\ \A p, q \in points : City(p) = City(q) => p = q

AddressesDrawn == \A k \in IDs : geoInfo[k] # Invalid => Drawn(geoInfo[k])

HopsDrawn ==
  \A h \in Hops : traceResults[h] # 0 /\ geoInfo[Slot(h)] # Invalid => Drawn(geoInfo[Slot(h)])

DrawnInv ==
  /\ AddressesDrawn \/ HopsDrawn
  /\ LookupOpen => AddressesDrawn
  /\ TraceOpen => HopsDrawn

LineInv ==
  /\ LookupOpen \/ TraceOpen => tracingLine = <<>>
  /\ \A i \in DOMAIN tracingLine :
       tracingLine[i].place \in OfTrace(asked) /\ Drawn(tracingLine[i].place)
  /\ \A i, j \in DOMAIN tracingLine : i < j => tracingLine[i].hop < tracingLine[j].hop

MapInv == LineTyped /\ PointsInv /\ DrawnInv /\ LineInv

\* What ClearAll does to a line.
LEMMA LineCleared ==
  ASSUME LineTyped, ClearAll
  PROVE  /\ points' = {} /\ drewPoints' = {}
         /\ LineTyped'
         /\ PathIsCopy => tracingLine' = <<>>
<1>1. points' = {} /\ drewPoints' = {} /\ tracingLine' = CutPath(tracingLine)
  BY DEF ClearAll, ForgetDrawn
<1>2. CutPath(tracingLine) \in Seq(LinePoint)
  BY CutRounds, LenProperties DEF LineTyped
<1>3. PathIsCopy => CutPath(tracingLine) = <<>>
  BY LineIsEmptied DEF LineTyped
<1> QED BY <1>1, <1>2, <1>3 DEF LineTyped

\* What recording a location does to the points.
LEMMA PointDrawn ==
  ASSUME PointsInv, NEW slot, NEW place, Locate(slot, place)
  PROVE  /\ PointsInv' /\ points \subseteq points'
         /\ City(place) # Nowhere => City(place) \in {City(p) : p \in points'}
<1>1. CASE City(place) = Nowhere
  BY <1>1 DEF Locate, PointsInv
<1>2. CASE City(place) # Nowhere /\ City(place) \in drewPoints
  BY <1>2 DEF Locate, DrawPoint, PointsInv
<1>3. CASE City(place) # Nowhere /\ City(place) \notin drewPoints
  <2>1. drewPoints' = drewPoints \union {City(place)} /\ points' = points \union {place}
    BY <1>3 DEF Locate, DrawPoint
  <2>2. \A p \in points : City(p) # City(place)
    BY <1>3 DEF PointsInv
  <2> QED BY <2>1, <2>2 DEF PointsInv
<1> QED BY <1>1, <1>2, <1>3

-----------------------------------------------------------------------------
\* The rounds of CleanUpTracing over the hops, with the places of the trace.
LEMMA LineRounds ==
  ASSUME WindowInv, PlacesInv, TraceOpen, LineTyped
  PROVE  \E f \in [0 .. traceMaxHops -> Seq(LinePoint)] :
           /\ f[0] = tracingLine
           /\ \A h \in 1 .. traceMaxHops :
                f[h] = IF geoInfo[Slot(h)] = Invalid THEN f[h - 1]
                       ELSE ConnectLine(f[h - 1], h, geoInfo[Slot(h)])
           /\ LineThroughHops = f[traceMaxHops]
<1> DEFINE Next1(p, h) ==
             IF h \in 1 .. traceMaxHops /\ geoInfo[Slot(h)] # Invalid
               THEN ConnectLine(p, h, geoInfo[Slot(h)]) ELSE p
           body == [h \in Nat |-> [p \in Seq(LinePoint) |-> Next1(p, h)]]
<1>1. PICK n \in Nat : n = traceMaxHops /\ \A h \in 1 .. n : h \in Hops
  BY GUIAssumption DEF WindowInv, WindowTypeOK, Hops
<1>2. \A h \in 1 .. n : geoInfo[Slot(h)] # Invalid => geoInfo[Slot(h)] \in Located
  <2>1. OfTrace(asked) \subseteq Located
    BY DEF WindowInv, WindowTypeOK, Located
  <2> QED BY <1>1, <2>1 DEF PlacesInv, Emptied
<1>3. \A h \in Nat, p \in Seq(LinePoint) : Next1(p, h) \in Seq(LinePoint)
  <2>1. SUFFICES ASSUME NEW h \in 1 .. n, NEW p \in Seq(LinePoint),
                        geoInfo[Slot(h)] # Invalid
                 PROVE  ConnectLine(p, h, geoInfo[Slot(h)]) \in Seq(LinePoint)
    BY <1>1
  <2>2. [hop |-> h, place |-> geoInfo[Slot(h)]] \in LinePoint
    BY <1>1, <1>2, <2>1 DEF LinePoint
  <2> QED BY <2>2 DEF ConnectLine
<1>4. body \in Bodies(Seq(LinePoint))
  BY <1>3 DEF Bodies
<1>5. \A h \in 1 .. n, p \in Seq(LinePoint) :
        body[h][p] = IF geoInfo[Slot(h)] = Invalid THEN p
                     ELSE ConnectLine(p, h, geoInfo[Slot(h)])
  BY <1>1
<1> HIDE DEF Next1, body
<1>6. PICK f \in [0 .. n -> Seq(LinePoint)] :
        f[0] = tracingLine /\ \A h \in 1 .. n : f[h] = body[h][f[h - 1]]
  <2>1. RoundsOf(Seq(LinePoint), tracingLine, body, n) # {}
    BY <1>4, Rounds DEF LineTyped
  <2> QED BY <2>1 DEF RoundsOf
<1>7. \A h \in 1 .. n : f[h] = IF geoInfo[Slot(h)] = Invalid THEN f[h - 1]
                               ELSE ConnectLine(f[h - 1], h, geoInfo[Slot(h)])
  <2>1. \A h \in 1 .. n : f[h - 1] \in Seq(LinePoint)
    BY <1>6
  <2> QED BY <1>5, <1>6, <2>1
<1>8. f = [h \in 0 .. traceMaxHops |->
             IF h = 0 THEN tracingLine
             ELSE IF geoInfo[Slot(h)] = Invalid THEN f[h - 1]
             ELSE ConnectLine(f[h - 1], h, geoInfo[Slot(h)])]
  BY <1>1, <1>6, <1>7
<1> DEFINE line[h \in 0 .. traceMaxHops] ==
             IF h = 0 THEN tracingLine
             ELSE IF geoInfo[Slot(h)] = Invalid THEN line[h - 1]
             ELSE ConnectLine(line[h - 1], h, geoInfo[Slot(h)])
<1>9. line = [h \in 0 .. traceMaxHops |->
                IF h = 0 THEN tracingLine
                ELSE IF geoInfo[Slot(h)] = Invalid THEN line[h - 1]
                ELSE ConnectLine(line[h - 1], h, geoInfo[Slot(h)])]
  BY <1>8, Zenon
<1>10. LineThroughHops = line[traceMaxHops]
  BY DEF LineThroughHops
<1> HIDE DEF line
<1>11. \A h \in 0 .. n :
         line[h] = IF h = 0 THEN tracingLine
                   ELSE IF geoInfo[Slot(h)] = Invalid THEN line[h - 1]
                   ELSE ConnectLine(line[h - 1], h, geoInfo[Slot(h)])
  BY <1>1, <1>9
<1> DEFINE T == {h \in Nat : h <= n => line[h] = f[h]}
<1>12. 0 \in T
  <2>1. 0 \in 0 .. n
    BY <1>1
  <2> QED BY <1>6, <1>11, <2>1
<1>13. ASSUME NEW h \in Nat, h \in T PROVE h + 1 \in T
  <2>1. SUFFICES ASSUME h + 1 <= n PROVE line[h + 1] = f[h + 1]
    OBVIOUS
  <2>2. h + 1 \in 1 .. n /\ h + 1 \in 0 .. n /\ h + 1 # 0 /\ (h + 1) - 1 = h /\ h <= n
    BY <2>1
  <2>3. line[h] = f[h]
    BY <1>13, <2>2
  <2>4. line[h + 1] = IF geoInfo[Slot(h + 1)] = Invalid THEN line[h]
                      ELSE ConnectLine(line[h], h + 1, geoInfo[Slot(h + 1)])
    BY <1>11, <2>2
  <2>5. f[h + 1] = IF geoInfo[Slot(h + 1)] = Invalid THEN f[h]
                   ELSE ConnectLine(f[h], h + 1, geoInfo[Slot(h + 1)])
    BY <1>7, <2>2
  <2> QED BY <2>3, <2>4, <2>5
<1> HIDE DEF T
<1>14. n \in T
  BY <1>12, <1>13, SetInduction
<1>15. line[n] = f[n]
  BY <1>14 DEF T
<1> QED BY <1>1, <1>6, <1>7, <1>10, <1>15

\* The line of a trace goes through the places of its rows, in their order.
LEMMA LineOfHops ==
  ASSUME WindowInv, PlacesInv, TraceOpen, LineTyped, tracingLine = <<>>
  PROVE  /\ LineThroughHops \in Seq(LinePoint)
         /\ \A i \in DOMAIN LineThroughHops :
              /\ LineThroughHops[i].hop \in Hops
              /\ LineThroughHops[i].place = geoInfo[Slot(LineThroughHops[i].hop)]
              /\ LineThroughHops[i].place # Invalid
              /\ Emptied(LineThroughHops[i].hop)
         /\ \A i, j \in DOMAIN LineThroughHops :
              i < j => LineThroughHops[i].hop < LineThroughHops[j].hop
<1>1. PICK n \in Nat : n = traceMaxHops /\ \A h \in 1 .. n : h \in Hops /\ Emptied(h)
  BY GUIAssumption DEF WindowInv, WindowTypeOK, Hops, Emptied
<1>2. PICK f \in [0 .. n -> Seq(LinePoint)] :
        /\ f[0] = <<>>
        /\ \A h \in 1 .. n : f[h] = IF geoInfo[Slot(h)] = Invalid THEN f[h - 1]
                                    ELSE ConnectLine(f[h - 1], h, geoInfo[Slot(h)])
        /\ LineThroughHops = f[n]
  BY <1>1, LineRounds
<1> DEFINE Through(line, h) ==
             /\ \A i \in 1 .. Len(line) :
                  /\ line[i].hop \in 1 .. h
                  /\ line[i].place = geoInfo[Slot(line[i].hop)] /\ line[i].place # Invalid
             /\ \A i, j \in 1 .. Len(line) : i < j => line[i].hop < line[j].hop
           T == {h \in Nat : h <= n => Through(f[h], h)}
<1>3. 0 \in T
  <2>1. 1 .. Len(<<>>) = {}
    OBVIOUS
  <2> QED BY <1>2, <2>1
<1>4. ASSUME NEW h \in Nat, h \in T PROVE h + 1 \in T
  <2>1. SUFFICES ASSUME h + 1 <= n PROVE Through(f[h + 1], h + 1)
    OBVIOUS
  <2>2. h + 1 \in 1 .. n /\ h \in 0 .. n /\ (h + 1) - 1 = h /\ h <= n
    BY <2>1
  <2> DEFINE line == f[h]
  <2>3. Through(line, h) /\ line \in Seq(LinePoint)
    BY <1>2, <1>4, <2>2
  <2>4. f[h + 1] = IF geoInfo[Slot(h + 1)] = Invalid THEN line
                   ELSE ConnectLine(line, h + 1, geoInfo[Slot(h + 1)])
    BY <1>2, <2>2
  <2> HIDE DEF line
  <2>5. CASE geoInfo[Slot(h + 1)] = Invalid
    <3>1. \A i \in 1 .. h : i \in 1 .. h + 1
      OBVIOUS
    <3> QED BY <2>3, <2>4, <2>5, <3>1
  <2>6. CASE geoInfo[Slot(h + 1)] # Invalid
    <3> DEFINE e == [hop |-> h + 1, place |-> geoInfo[Slot(h + 1)]]
               longer == f[h + 1]
    <3>1. e.hop = h + 1 /\ e.place = geoInfo[Slot(h + 1)]
      OBVIOUS
    <3>2. longer = Append(line, e)
      BY <2>4, <2>6 DEF ConnectLine
    <3> HIDE DEF e, longer
    <3>3. PICK l \in Nat : l = Len(line)
      BY <2>3, LenProperties
    <3>4. /\ Len(longer) = l + 1 /\ longer[l + 1] = e
          /\ \A i \in 1 .. l : longer[i] = line[i]
      BY <2>3, <3>2, <3>3, AppendProperties
    <3>5. \A i \in 1 .. l + 1 : i \in 1 .. l \/ i = l + 1
      OBVIOUS
    <3>6. ASSUME NEW i \in 1 .. l + 1
          PROVE  /\ longer[i].hop \in 1 .. h + 1
                 /\ longer[i].place = geoInfo[Slot(longer[i].hop)] /\ longer[i].place # Invalid
      <4>1. CASE i \in 1 .. l
        BY <2>3, <3>3, <3>4, <4>1
      <4>2. CASE i = l + 1
        BY <2>6, <3>1, <3>4, <4>2
      <4> QED BY <3>5, <4>1, <4>2
    <3>7. ASSUME NEW i \in 1 .. l + 1, NEW j \in 1 .. l + 1, i < j
          PROVE  longer[i].hop < longer[j].hop
      <4>1. i \in 1 .. l
        BY <3>7
      <4>2. line[i].hop \in 1 .. h /\ longer[i].hop = line[i].hop
        BY <2>3, <3>3, <3>4, <4>1
      <4>3. CASE j \in 1 .. l
        BY <2>3, <3>3, <3>4, <3>7, <4>1, <4>3
      <4>4. CASE j = l + 1
        BY <3>1, <3>4, <4>2, <4>4
      <4> QED BY <3>5, <4>3, <4>4
    <3>8. Through(longer, h + 1)
      BY <3>4, <3>6, <3>7
    <3> QED BY <3>8 DEF longer
  <2> QED BY <2>5, <2>6
<1> HIDE DEF T
<1>5. n \in T
  BY <1>3, <1>4, SetInduction
<1>6. Through(f[n], n) /\ f[n] \in Seq(LinePoint)
  BY <1>2, <1>5 DEF T
<1>7. DOMAIN f[n] = 1 .. Len(f[n])
  BY <1>6, LenProperties
<1> QED BY <1>1, <1>2, <1>6, <1>7

-----------------------------------------------------------------------------
LEMMA LineTypedStep ==
  ASSUME WindowInv, PlacesInv, LineTyped, WindowStep
  PROVE  LineTyped'
<1>1. ASSUME LookupStarts \/ TraceStarts PROVE LineTyped'
  BY <1>1, LineCleared DEF LookupStarts, TraceStarts
<1>2. ASSUME TraceShown PROVE LineTyped'
  <2>1. TraceOpen /\ tracingLine' = LineThroughHops
    BY <1>2 DEF TraceShown
  <2>2. PICK f \in [0 .. traceMaxHops -> Seq(LinePoint)] : LineThroughHops = f[traceMaxHops]
    BY <2>1, LineRounds
  <2>3. traceMaxHops \in 0 .. traceMaxHops
    BY GUIAssumption DEF WindowInv, WindowTypeOK, Hops
  <2> QED BY <2>1, <2>2, <2>3 DEF LineTyped
<1>3. ASSUME AddressShown \/ HopShown \/ NothingShown PROVE LineTyped'
  BY <1>3 DEF AddressShown, HopShown, NothingShown, LineTyped
<1> QED BY <1>1, <1>2, <1>3 DEF WindowStep

LEMMA ClearedMap ==
  ASSUME WindowInv, LineTyped, MaxAddresses <= MaxIPs, PathIsCopy, LookupStarts \/ TraceStarts
  PROVE  PointsInv' /\ DrawnInv' /\ LineInv'
<1>1. points' = {} /\ drewPoints' = {} /\ tracingLine' = <<>>
  BY LineCleared DEF LookupStarts, TraceStarts
<1>2. PointsInv' /\ LineInv'
  BY <1>1 DEF PointsInv, LineInv
<1>3. CASE LookupStarts
  <2>1. \A k \in IDs : geoInfo'[k] = Invalid
    BY <1>3, SlotsApart, GUIAssumption DEF LookupStarts, ClearResolveGeoInfo
  <2>2. AddressesDrawn'
    BY <2>1 DEF AddressesDrawn
  <2>3. ~TraceOpen'
    BY <1>3 DEF LookupStarts
  <2> QED BY <1>2, <2>2, <2>3 DEF DrawnInv
<1>4. CASE TraceStarts
  <2>1. \A h \in Hops : traceResults'[h] = 0
    BY <1>4 DEF TraceStarts, ClearHops, EmptyTable
  <2>2. HopsDrawn'
    BY <2>1 DEF HopsDrawn
  <2>3. ~LookupOpen'
    BY <1>4 DEF TraceStarts
  <2> QED BY <1>2, <2>2, <2>3 DEF DrawnInv
<1> QED BY <1>2, <1>3, <1>4

LEMMA AddressShownMap ==
  ASSUME WindowInv, MapInv, MaxAddresses <= MaxIPs, AddressShown
  PROVE  PointsInv' /\ DrawnInv' /\ LineInv'
<1>1. PICK k \in IDs, city \in Locations : Locate(k, <<"lookup", lookup, city>>)
  BY DEF AddressShown
<1> DEFINE place == <<"lookup", lookup, city>>
<1>2. City(place) = city
  BY DEF City
<1> HIDE DEF place
<1>3. /\ PointsInv' /\ points \subseteq points'
      /\ city # Nowhere => City(place) \in {City(p) : p \in points'}
  BY <1>1, <1>2, PointDrawn DEF MapInv, place
<1>4. \A j \in IDs : geoInfo'[j] = geoInfo[j] \/ (geoInfo'[j] = place /\ city # Nowhere)
  BY <1>1, <1>2, SlotsApart DEF Locate, place, WindowInv, WindowTypeOK
<1>5. AddressesDrawn
  BY DEF AddressShown, MapInv, DrawnInv
<1>6. AddressesDrawn'
  BY <1>3, <1>4, <1>5 DEF AddressesDrawn, Drawn
<1>7. tracingLine' = <<>>
  BY DEF AddressShown, MapInv, LineInv
<1> QED BY <1>3, <1>6, <1>7 DEF AddressShown, DrawnInv, LineInv

LEMMA HopShownMap ==
  ASSUME WindowInv, PlacesInv, MapInv, MaxAddresses <= MaxIPs, HopShown
  PROVE  PointsInv' /\ DrawnInv' /\ LineInv'
<1>1. PICK i \in Hops, city \in Locations :
        /\ i <= traceMaxHops
        /\ traceResults' = [traceResults EXCEPT ![i] = asked]
        /\ Locate(Slot(i), <<"trace", asked, city>>)
  BY DEF HopShown
<1> DEFINE place == <<"trace", asked, city>>
<1>2. City(place) = city
  BY DEF City
<1> HIDE DEF place
<1>3. /\ PointsInv' /\ points \subseteq points'
      /\ city # Nowhere => City(place) \in {City(p) : p \in points'}
  BY <1>1, <1>2, PointDrawn DEF MapInv, place
<1>4. \A h \in Hops :
        \/ geoInfo'[Slot(h)] = geoInfo[Slot(h)]
        \/ geoInfo'[Slot(h)] = place /\ city # Nowhere
  BY <1>1, <1>2, SlotsApart DEF Locate, place, WindowInv, WindowTypeOK
<1>5. HopsDrawn
  BY DEF HopShown, MapInv, DrawnInv
<1>6. \A h \in Hops :
        traceResults'[h] # 0 /\ geoInfo[Slot(h)] # Invalid => traceResults[h] # 0
  <2>1. \A h \in Hops : h # i => traceResults'[h] = traceResults[h]
    BY <1>1 DEF WindowInv, WindowTypeOK
  <2>2. Emptied(i)
    BY <1>1 DEF Emptied, HopShown
  <2> QED BY <2>1, <2>2 DEF PlacesInv
<1>7. HopsDrawn'
  BY <1>3, <1>4, <1>5, <1>6 DEF HopsDrawn, Drawn
<1>8. tracingLine' = <<>>
  BY DEF HopShown, MapInv, LineInv
<1> QED BY <1>3, <1>7, <1>8 DEF HopShown, DrawnInv, LineInv

LEMMA TraceShownMap ==
  ASSUME WindowInv, PlacesInv, MapInv, TraceShown
  PROVE  PointsInv' /\ DrawnInv' /\ LineInv'
<1>1. /\ TraceOpen /\ ~TraceOpen' /\ ~LookupOpen'
      /\ tracingLine' = LineThroughHops
      /\ UNCHANGED <<asked, traceResults, resolveResults, geoInfo, drewPoints, points>>
  BY DEF TraceShown, tableVars
<1>2. PointsInv' /\ DrawnInv'
  BY <1>1 DEF MapInv, PointsInv, DrawnInv, AddressesDrawn, HopsDrawn, Drawn
<1>3. tracingLine = <<>> /\ HopsDrawn
  BY <1>1 DEF MapInv, LineInv, DrawnInv
<1>4. /\ \A i \in DOMAIN LineThroughHops :
           /\ LineThroughHops[i].hop \in Hops
           /\ LineThroughHops[i].place = geoInfo[Slot(LineThroughHops[i].hop)]
           /\ LineThroughHops[i].place # Invalid
           /\ Emptied(LineThroughHops[i].hop)
      /\ \A i, j \in DOMAIN LineThroughHops :
           i < j => LineThroughHops[i].hop < LineThroughHops[j].hop
  BY <1>1, <1>3, LineOfHops DEF MapInv
<1>5. \A h \in Hops : Emptied(h) /\ geoInfo[Slot(h)] # Invalid =>
        geoInfo[Slot(h)] \in OfTrace(asked) /\ Drawn(geoInfo[Slot(h)])
  BY <1>3 DEF PlacesInv, HopsDrawn
<1>6. {City(p) : p \in points'} = {City(p) : p \in points}
  BY <1>1
<1>7. \A i \in DOMAIN LineThroughHops :
        /\ LineThroughHops[i].place \in OfTrace(asked)
        /\ City(LineThroughHops[i].place) \in {City(p) : p \in points'}
  BY <1>4, <1>5, <1>6 DEF Drawn
<1> QED BY <1>1, <1>2, <1>4, <1>7 DEF LineInv, Drawn

LEMMA NothingShownMap ==
  ASSUME MapInv, NothingShown, drewPoints' = drewPoints
  PROVE  PointsInv' /\ DrawnInv' /\ LineInv'
<1>1. /\ LookupOpen' => LookupOpen
      /\ TraceOpen' => TraceOpen
      /\ UNCHANGED <<asked, traceResults, resolveResults, geoInfo, points, tracingLine>>
  BY DEF NothingShown, NothingOpens, tableVars
<1>2. PointsInv' /\ DrawnInv'
  BY <1>1 DEF MapInv, PointsInv, DrawnInv, AddressesDrawn, HopsDrawn, Drawn
<1>3. LineInv'
  BY <1>1 DEF MapInv, LineInv, Drawn
<1> QED BY <1>2, <1>3

LEMMA MapStep ==
  ASSUME WindowInv, PlacesInv, MapInv, MaxAddresses <= MaxIPs, PathIsCopy, WindowStep
  PROVE  MapInv'
<1>1. LineTyped'
  BY LineTypedStep DEF MapInv
<1>2. NothingShown => drewPoints' = drewPoints
  BY DEF NothingShown
<1>3. PointsInv' /\ DrawnInv' /\ LineInv'
  BY <1>2, ClearedMap, AddressShownMap, HopShownMap, TraceShownMap, NothingShownMap
  DEF WindowStep, MapInv
<1> QED BY <1>1, <1>3 DEF MapInv

-----------------------------------------------------------------------------
(* What the tables, the points of the map and the tooltip show is of the   *)
(* last host and the last trace that were asked for.                       *)
THEOREM LatestShown ==
  ASSUME Careless = {}
  PROVE  GUISpec => []ShowsLatest
<1>1. GUIInit => ShownInv
  BY DEF GUIInit, MapInit, ShownInv
<1>2. WindowInv /\ ShownInv /\ [GUINext]_guiAll => ShownInv'
  BY WindowNext, ShownStep
<1>3. WindowInv /\ ShownInv => ShowsLatest
  BY DEF WindowInv, ControlInv, RowsInv, ShownInv, ShowsLatest
<1> QED BY <1>1, <1>2, <1>3, WindowInductive, PTL DEF GUISpec

(* As long as the addresses of a host fit resolveGeoInfo, an entry of the  *)
(* two arrays is what the last lookup or trace has put there, or nothing;  *)
(* and the entry of a hop without a row has been emptied.                  *)
THEOREM PlacesInductive ==
  ASSUME Careless = {}, MaxAddresses <= MaxIPs
  PROVE  GUISpec => []PlacesInv
<1>1. GUIInit => PlacesInv
  <2>1. SUFFICES ASSUME GUIInit PROVE PlacesInv
    OBVIOUS
  <2>2. \A k \in 1 .. MaxIPs : geoInfo[k] = Invalid
    BY <2>1, GUIAssumption DEF GUIInit
  <2>3. \A h \in Hops : geoInfo[Slot(h)] \in {Invalid, Garbage}
    BY <2>1, SlotsApart DEF GUIInit
  <2>4. \A h \in Hops : geoInfo[Slot(h)] \notin UNION {OfLookup(n) : n \in 1 .. MaxLookups}
    BY <2>3, Kinds DEF Garbage
  <2>5. \A h \in Hops : ~Emptied(h)
    BY <2>1 DEF GUIInit, Emptied, HasRow, EmptyTable, TraceOpen, Ends
  <2> QED BY <2>2, <2>4, <2>5 DEF PlacesInv
<1>2. WindowInv /\ PlacesInv /\ [GUINext]_guiAll => PlacesInv'
  BY WindowNext, PlacesStep
<1> QED BY <1>1, <1>2, WindowInductive, PTL DEF GUISpec

(* A row and the location a click on it goes to are of the same lookup or  *)
(* the same trace.                                                         *)
THEOREM RowsHavePlaces ==
  ASSUME Careless = {}, MaxAddresses <= MaxIPs
  PROVE  GUISpec => []RowsAndPlacesAgree
<1>1. WindowInv /\ PlacesInv => RowsAndPlacesAgree
  <2>1. SUFFICES ASSUME WindowInv, PlacesInv PROVE RowsAndPlacesAgree
    OBVIOUS
  <2>2. \A k \in IDs : resolveResults[k] # 0 => resolveResults[k] = lookup
    BY <2>1 DEF WindowInv, ControlInv, RowsInv
  <2>3. \A h \in Hops : traceResults[h] # 0 => traceResults[h] = asked /\ Emptied(h)
    BY <2>1, GUIAssumption
    DEF WindowInv, ControlInv, RowsInv, WindowTypeOK, Emptied, HasRow, Hops
  <2> QED BY <2>1, <2>2, <2>3, SlotsApart DEF PlacesInv, RowsAndPlacesAgree
<1> QED BY <1>1, WindowInductive, PlacesInductive, PTL

(* No click and no start of a trace reads the texts of a missing row.      *)
THEOREM NoNull ==
  ASSUME Careless = {}, MaxAddresses <= MaxIPs
  PROVE  GUISpec => []NoNullItem
<1>1. GUIInit => NoNullItem
  BY DEF GUIInit, NoNullItem
<1>2. WindowInv /\ PlacesInv /\ NoNullItem /\ [GUINext]_guiAll => NoNullItem'
  BY WindowNext, NoNullStep DEF NoNullItem
<1> QED BY <1>1, <1>2, WindowInductive, PlacesInductive, PTL DEF GUISpec

(* Every variable of the window and its map has its type, the line too,    *)
(* whether or not the loop that clears it runs over a copy.                *)
THEOREM WindowTyped ==
  ASSUME Careless = {}, MaxAddresses <= MaxIPs
  PROVE  GUISpec => []GUITypeOK
<1>1. GUIInit => LineTyped
  BY DEF GUIInit, MapInit, LineTyped
<1>2. WindowInv /\ PlacesInv /\ LineTyped /\ [GUINext]_guiAll => LineTyped'
  BY WindowNext, LineTypedStep
<1>3. WindowInv /\ LineTyped => GUITypeOK
  BY DEF WindowInv, LineTyped, LinePoint, GUITypeOK
<1> QED BY <1>1, <1>2, <1>3, WindowInductive, PlacesInductive, PTL DEF GUISpec

(* What drawHopPoint remembers is what is on the map, and the line that    *)
(* the end of a trace draws goes through what its rows have drawn.         *)
THEOREM MapInductive ==
  ASSUME Careless = {}, MaxAddresses <= MaxIPs, PathIsCopy
  PROVE  GUISpec => []MapInv
<1>1. GUIInit => MapInv
  <2>1. SUFFICES ASSUME GUIInit PROVE MapInv
    OBVIOUS
  <2>2. drewPoints = {} /\ points = {} /\ tracingLine = <<>>
    BY <2>1 DEF GUIInit, MapInit
  <2>3. AddressesDrawn
    BY <2>1, SlotsApart, GUIAssumption DEF GUIInit, AddressesDrawn
  <2>4. HopsDrawn
    BY <2>1 DEF GUIInit, HopsDrawn, EmptyTable
  <2> QED BY <2>2, <2>3, <2>4 DEF MapInv, LineTyped, PointsInv, DrawnInv, LineInv
<1>2. WindowInv /\ PlacesInv /\ MapInv /\ [GUINext]_guiAll => MapInv'
  BY WindowNext, MapStep
<1> QED BY <1>1, <1>2, WindowInductive, PlacesInductive, PTL DEF GUISpec

(* The line on the map is of the last trace, in the order of its hops,     *)
(* whatever number of hops the traces before it had.                       *)
THEOREM LineShowsTrace ==
  ASSUME Careless = {}, MaxAddresses <= MaxIPs, PathIsCopy
  PROVE  GUISpec => []LineOfTrace
<1>1. MapInv => LineOfTrace
  BY DEF MapInv, LineInv, LineOfTrace
<1> QED BY <1>1, MapInductive, PTL

(* The list of drawn cities and the items agree, the line goes through     *)
(* points that are there, and every located row of the table that was      *)
(* filled last has one.                                                    *)
THEOREM PlacesAreDrawn ==
  ASSUME Careless = {}, MaxAddresses <= MaxIPs, PathIsCopy
  PROVE  GUISpec => []PlacesDrawn
<1>1. MapInv => PlacesDrawn
  BY DEF MapInv, LineInv, PointsInv, DrawnInv, AddressesDrawn, HopsDrawn, PlacesDrawn
<1> QED BY <1>1, MapInductive, PTL
=============================================================================
