---------------------------- MODULE NyaTraceGUI ----------------------------
(***************************************************************************)
(* The main window (nyatrace_gui.cpp) between its user and its two         *)
(* threads: ResolveCore, which fills the table of addresses of a host, and *)
(* TracingCore, which fills the table of hops of a trace to one of them.   *)
(*                                                                         *)
(* TracingCore is reduced to what the window sees of it: rows of hops, in  *)
(* any order and not of every hop, and then an end (module TracingCore has *)
(* the rest).  A trace is named by the call of StartTracing that asked for *)
(* it, so two traces to one address are told apart.                        *)
(***************************************************************************)
EXTENDS ResolveCore, NyaTraceMap, FiniteSets

CONSTANTS
  MaxIPs,       \* DEF_RESOLVE_MAX_IPs, the length of resolveGeoInfo
  MaxHops,      \* DEF_TRACE_MAX_HOPs, the length of traceGeoInfo
  StartHops,    \* Trace/MaxHops when the program starts
  HopChoices,   \* values the user may give it while the program runs
  AutoChoices,  \* values Auto/StartTrace may have
  MaxTraces,    \* bound: calls of StartTracing
  Careless      \* what the user does not refrain from, see below

(***************************************************************************)
(* "quick": starts something before the program handled all that was       *)
(*   posted and the threads that posted it finished.                       *)
(* "overlap": starts a trace from the table while the host is resolved.    *)
(* "unclicked": presses the button for a trace without having clicked a    *)
(*   row of the table since the host was resolved.                         *)
(* "reconfigure": changes Trace/MaxHops while a trace runs.                *)
(***************************************************************************)
Carelessness == {"quick", "overlap", "unclicked", "reconfigure"}

ASSUME GUIAssumption ==
  /\ MaxIPs \in Nat \ {0}
  /\ MaxHops \in Nat \ {0}
  /\ MaxAddresses <= MaxIPs + MaxHops
  /\ StartHops \in 1 .. MaxHops
  /\ HopChoices \subseteq 1 .. MaxHops
  /\ AutoChoices \subseteq BOOLEAN /\ AutoChoices # {}
  /\ MaxTraces \in Nat
  /\ Careless \subseteq Carelessness

Hops == 1 .. MaxHops
IDs  == 1 .. MaxAddresses

Widgets == {"hostInput", "resolveButton", "resolveTable", "startStopTracingButton"}

VARIABLES
  asked,          \* TracingCore::hostname, written by the GUI thread
  tpc,            \* where the tracing thread is; "idle" when not isRunning()
  tracing,        \* the host name TracingCore::run has copied
  silent,         \* the hops that have not reported to it
  disabled,       \* the widgets that are disabled
  resolveResults, \* resolveResultsModel: per row the lookup it shows, or 0
  traceResults,   \* traceResultsModel: per row the trace it shows, or 0
  geoInfo,        \* resolveGeoInfo and, behind it, traceGeoInfo
  currentSelectedIPNo, \* a row of the table (one more than in the code) or 0
  traceMaxHops,   \* gCfg->GetTraceMaxHops()
  nullItem,       \* the program went through the NULL of a missing table item
  clicked         \* history: a row of the table as it is was picked by a click
                  \* or by the program

traceVars == <<tpc, tracing, silent>>
tableVars == <<resolveResults, traceResults, geoInfo>>
pickVars  == <<currentSelectedIPNo, clicked>>
guiVars == <<asked, disabled, tableVars, pickVars, mapVars, traceMaxHops, nullItem>>
guiAll == <<guiEvents, lookup, resolveVars, traceVars, guiVars>>

(***************************************************************************)
(* What an entry of geoInfo or a point of the map is about: nothing (not   *)
(* isValid), a row of a lookup or of a trace and the city it was located   *)
(* in, or memory nobody has initialised.  The two                          *)
(* arrays are members next to each other, so an index beyond the first is  *)
(* an entry of the second.                                                 *)
(***************************************************************************)
Invalid     == <<"invalid", 0, Nowhere>>
Garbage     == <<"garbage", 0, Nowhere>>
OfLookup(n) == {"lookup"} \X {n} \X Cities
OfTrace(n)  == {"trace"} \X {n} \X Cities

Located ==
  (UNION {OfLookup(n) : n \in 0 .. MaxLookups}) \union (UNION {OfTrace(n) : n \in 0 .. MaxTraces})

Slots   == 1 .. MaxIPs + MaxHops
Slot(h) == MaxIPs + h

EmptyTable(S) == [k \in S |-> 0]

\* A table has every row up to the last that was set.
HasRow(table, k) == \E j \in DOMAIN table : j >= k /\ table[j] # 0

-----------------------------------------------------------------------------
(* Parts of the handlers.                                                  *)

\* Faulty: the array keeps the locations of the last lookup.
KeepResolving == UNCHANGED geoInfo

ClearResolveGeoInfo ==
  geoInfo' = [s \in Slots |-> IF s <= MaxIPs THEN Invalid ELSE geoInfo[s]]

\* As many entries as hops are configured, not as the array has.
ClearTraceGeoInfo ==
  geoInfo' =
    [s \in Slots |-> IF s \in {Slot(h) : h \in 1 .. traceMaxHops} THEN Invalid ELSE geoInfo[s]]

\* InitializeResolving.  Clearing the model leaves currentSelectedIPNo.
InitializeResolving ==
  /\ disabled' = disabled \union {"hostInput", "resolveButton", "startStopTracingButton"}
  /\ resolveResults' = EmptyTable(IDs)
  /\ clicked' = FALSE
  /\ ClearAll
  /\ ClearResolveGeoInfo

\* Faulty: the user may ask for another host.
LockTable == {"resolveTable"}

LockForTrace == {"hostInput", "resolveButton", "resolveTable"}

ClearHops == traceResults' = EmptyTable(Hops)

\* StartTracing after the widgets `free' were enabled, with the given row of
\* the table of addresses.  start() of a thread that runs does nothing.
StartTracing(free, row) ==
  /\ asked < MaxTraces
  /\ asked' = asked + 1
  /\ disabled' = (disabled \ free) \union LockForTrace
  /\ ClearHops
  /\ ClearAll
  /\ ClearTraceGeoInfo
  /\ nullItem' = (row \notin IDs \/ resolveResults[row] = 0)
  /\ tpc' = IF tpc = "idle" /\ ~nullItem' THEN "begin" ELSE tpc
  /\ UNCHANGED <<tracing, silent, resolveResults, traceMaxHops>>

-----------------------------------------------------------------------------
(* The constructor.                                                        *)

GUIInit ==
  /\ ResolveInit
  /\ guiEvents = <<>>
  /\ lookup = 0
  /\ asked = 0
  /\ tpc = "idle"
  /\ tracing = 0
  /\ silent = {}
  /\ disabled = {"startStopTracingButton"}
  /\ resolveResults = EmptyTable(IDs)
  /\ traceResults = EmptyTable(Hops)
  /\ geoInfo \in [Slots -> {Invalid, Garbage}]
  /\ \A s \in 1 .. MaxIPs + StartHops : geoInfo[s] = Invalid
  /\ currentSelectedIPNo \in 0 .. MaxAddresses
  /\ clicked = FALSE
  /\ MapInit
  /\ traceMaxHops = StartHops
  /\ nullItem = FALSE

-----------------------------------------------------------------------------
(* The user.                                                               *)

\* All that was posted is handled and no thread is between its end and the
\* finish of the thread.
Quiet == guiEvents = <<>> /\ "ending" \notin {rpc, tpc}

InTime == Quiet \/ "quick" \in Careless

\* on_hostInput_returnPressed, on_resolveButton_clicked
StartResolving ==
  /\ InTime
  /\ {"hostInput", "resolveButton"} \cap disabled = {}
  /\ lookup < MaxLookups
  /\ lookup' = lookup + 1
  /\ InitializeResolving
  /\ rpc' = IF rpc = "idle" THEN "begin" ELSE rpc
  /\ UNCHANGED <<guiEvents, resolving, idCounter, addresses, asked, traceVars>>
  /\ UNCHANGED <<traceResults, currentSelectedIPNo, traceMaxHops, nullItem>>

\* What the view shows as selected is not a state of the program: a row that
\* is selected by its header, by dragging or from the keyboard is not picked.
Pick(k) == currentSelectedIPNo' = k /\ clicked' = TRUE

\* With a location to go to, the texts of a row are read, for the tooltip.
GoTo(row, place) ==
  \/ \* not visible
     nullItem' = FALSE /\ UNCHANGED mapTooltip
  \/ /\ place # Invalid
     /\ nullItem' = (row[2] = 0)
     /\ IF nullItem' THEN UNCHANGED mapTooltip ELSE SetTextAndGoto(row, place)

\* on_resolveTable_clicked
ClickAddress(k) ==
  /\ "resolveTable" \notin disabled
  /\ HasRow(resolveResults, k)
  /\ Pick(k)
  /\ GoTo(<<"lookup", resolveResults[k]>>, geoInfo[k])
  /\ UNCHANGED <<guiEvents, lookup, resolveVars, traceVars, asked, disabled>>
  /\ UNCHANGED <<tableVars, drewPoints, points, tracingLine, traceMaxHops>>

\* on_traceTable_clicked
ClickHop(h) ==
  /\ HasRow(traceResults, h)
  /\ GoTo(<<"trace", traceResults[h]>>, geoInfo[Slot(h)])
  /\ UNCHANGED <<guiEvents, lookup, resolveVars, traceVars, asked, disabled>>
  /\ UNCHANGED <<tableVars, pickVars, drewPoints, points, tracingLine, traceMaxHops>>

\* on_resolveTable_doubleClicked; the first click has picked the row.
TraceFromTable(k) ==
  /\ InTime
  /\ rpc = "idle" \/ "overlap" \in Careless
  /\ "resolveTable" \notin disabled
  /\ HasRow(resolveResults, k)
  /\ Pick(k)
  /\ StartTracing({}, currentSelectedIPNo')
  /\ UNCHANGED <<guiEvents, lookup, resolveVars>>

\* on_startStopTracingButton_clicked, when not isRunning()
TraceFromButton ==
  /\ InTime
  /\ clicked \/ "unclicked" \in Careless
  /\ "startStopTracingButton" \notin disabled
  /\ tpc = "idle"
  /\ StartTracing({}, currentSelectedIPNo)
  /\ UNCHANGED <<guiEvents, lookup, resolveVars, pickVars>>

\* on_startStopTracingButton_clicked, when isRunning()
AbortTracing ==
  /\ "startStopTracingButton" \notin disabled
  /\ tpc # "idle"
  /\ tpc = "ending" => "quick" \in Careless
  /\ disabled' = disabled \union {"startStopTracingButton"}
  /\ UNCHANGED <<guiEvents, lookup, resolveVars, traceVars, asked>>
  /\ UNCHANGED <<tableVars, pickVars, mapVars, traceMaxHops, nullItem>>

\* Configs::SetTraceMaxHops
Configure ==
  /\ (Quiet /\ tpc = "idle") \/ "reconfigure" \in Careless
  /\ traceMaxHops' \in HopChoices \ {traceMaxHops}
  /\ UNCHANGED <<guiEvents, lookup, resolveVars, traceVars, asked, disabled>>
  /\ UNCHANGED <<tableVars, pickVars, mapVars, nullItem>>

-----------------------------------------------------------------------------
(* The tracing thread, as the window sees it.                              *)

\* The host name is copied and the number of hops read.
TraceBegin ==
  /\ tpc = "begin"
  /\ tpc' = "run"
  /\ tracing' = asked
  /\ silent' = 1 .. traceMaxHops
  /\ UNCHANGED <<guiEvents, lookup, resolveVars, guiVars>>

\* A hop reports its address, host name and location.
TraceHop(h) ==
  /\ tpc = "run"
  /\ h \in silent
  /\ silent' = silent \ {h}
  /\ \E city \in Locations : Emit("hop", tracing, h, city)
  /\ UNCHANGED <<lookup, resolveVars, tpc, tracing, guiVars>>

\* All workers are done, after an abort or without one.
TraceEnd ==
  /\ tpc = "run"
  /\ tpc' = "ending"
  /\ Emit("traced", tracing, 0, TRUE)
  /\ UNCHANGED <<lookup, resolveVars, tracing, silent, guiVars>>

TraceFinish ==
  /\ tpc = "ending"
  /\ tpc' = "idle"
  /\ UNCHANGED <<guiEvents, lookup, resolveVars, tracing, silent, guiVars>>

TracingThread ==
  \/ TraceBegin
  \/ \E h \in Hops : TraceHop(h)
  \/ TraceEnd \/ TraceFinish

-----------------------------------------------------------------------------
(* The posted events, in order.                                            *)

Delivered(kind) ==
  /\ guiEvents # <<>>
  /\ Head(guiEvents).kind = kind
  /\ guiEvents' = Tail(guiEvents)

\* Record a location in a slot of the arrays and draw it.
Locate(slot, place) ==
  IF City(place) # Nowhere
    THEN /\ geoInfo' = [geoInfo EXCEPT ![slot] = place]
         /\ DrawPoint(place)
    ELSE UNCHANGED <<geoInfo, drewPoints, points>>

\* The lambda of ResolveCore::setInformation.
HandleAddress ==
  /\ Delivered("address")
  /\ LET e == Head(guiEvents)
     IN /\ resolveResults' = [resolveResults EXCEPT ![e.at] = e.run]
        /\ Locate(e.at, <<"lookup", e.run, e.says>>)
  /\ UNCHANGED <<lookup, resolveVars, traceVars, asked, disabled, traceResults>>
  /\ UNCHANGED <<pickVars, tracingLine, mapTooltip, traceMaxHops, nullItem>>

\* CleanUpResolving, and the button when there is something to trace.
Resolved(isSucceeded) ==
  {"hostInput", "resolveButton"}
    \union (IF isSucceeded THEN {"startStopTracingButton"} ELSE {})

\* The lambda of ResolveCore::end when it starts no trace.
HandleResolved ==
  /\ Delivered("resolved")
  /\ LET e == Head(guiEvents)
     IN /\ e.says => FALSE \in AutoChoices
        /\ disabled' = disabled \ Resolved(e.says)
  /\ UNCHANGED <<lookup, resolveVars, traceVars, asked, tableVars, pickVars>>
  /\ UNCHANGED <<mapVars, traceMaxHops, nullItem>>

\* Faulty: the row is selected in the view only.
AutoHighlight == clicked' = TRUE /\ UNCHANGED currentSelectedIPNo

\* currentSelectedIPNo = 0
AutoSelect == Pick(1)

\* The same lambda when Auto/StartTrace is set.
HandleResolvedAuto ==
  /\ Delivered("resolved")
  /\ Head(guiEvents).says
  /\ TRUE \in AutoChoices
  /\ AutoSelect
  /\ StartTracing(Resolved(TRUE), currentSelectedIPNo')
  /\ UNCHANGED <<lookup, resolveVars>>

\* The lambdas of TracingCore that fill a row.
HandleHop ==
  /\ Delivered("hop")
  /\ LET e == Head(guiEvents)
     IN /\ traceResults' = [traceResults EXCEPT ![e.at] = e.run]
        /\ Locate(Slot(e.at), <<"trace", e.run, e.says>>)
  /\ UNCHANGED <<lookup, resolveVars, traceVars, asked, disabled, resolveResults>>
  /\ UNCHANGED <<pickVars, tracingLine, mapTooltip, traceMaxHops, nullItem>>

\* Faulty: the table of addresses stays disabled.
TracedButTable == Widgets \ {"resolveTable"}

Traced == Widgets

\* Connect the located hops.
LineThroughHops ==
  LET line[h \in 0 .. traceMaxHops] ==
        IF h = 0 THEN tracingLine
        ELSE IF geoInfo[Slot(h)] = Invalid THEN line[h - 1]
        ELSE ConnectLine(line[h - 1], h, geoInfo[Slot(h)])
  IN line[traceMaxHops]

\* The lambda of TracingCore::end, CleanUpTracing.
HandleTraced ==
  /\ Delivered("traced")
  /\ disabled' = disabled \ Traced
  /\ tracingLine' = LineThroughHops
  /\ UNCHANGED <<lookup, resolveVars, traceVars, asked, tableVars, pickVars>>
  /\ UNCHANGED <<drewPoints, points, mapTooltip, traceMaxHops, nullItem>>

-----------------------------------------------------------------------------
GUINext ==
  /\ ~nullItem
  /\ \/ StartResolving
     \/ \E k \in IDs : ClickAddress(k) \/ TraceFromTable(k)
     \/ \E h \in Hops : ClickHop(h)
     \/ TraceFromButton \/ AbortTracing \/ Configure
     \/ ResolvingThread /\ UNCHANGED <<lookup, traceVars, guiVars>>
     \/ TracingThread
     \/ HandleAddress \/ HandleResolved \/ HandleResolvedAuto
     \/ HandleHop \/ HandleTraced

GUISpec == GUIInit /\ [][GUINext]_guiAll
-----------------------------------------------------------------------------
GUIEvent ==
  [kind : {"address"}, run : 0 .. MaxLookups, at : IDs, says : Locations]
    \union [kind : {"resolved"}, run : 0 .. MaxLookups, at : {0}, says : BOOLEAN]
    \union [kind : {"hop"}, run : 0 .. MaxTraces, at : Hops, says : Locations]
    \union [kind : {"traced"}, run : 0 .. MaxTraces, at : {0}, says : BOOLEAN]

\* The types of everything but the line on the map.
WindowTypeOK ==
  /\ ResolveTypeOK
  /\ guiEvents \in Seq(GUIEvent)
  /\ asked \in 0 .. MaxTraces
  /\ tpc \in {"idle", "begin", "run", "ending"}
  /\ tracing \in 0 .. MaxTraces
  /\ silent \in SUBSET Hops
  /\ disabled \in SUBSET Widgets
  /\ resolveResults \in [IDs -> 0 .. MaxLookups]
  /\ traceResults \in [Hops -> 0 .. MaxTraces]
  /\ geoInfo \in [Slots -> Located \union {Invalid, Garbage}]
  /\ currentSelectedIPNo \in 0 .. MaxAddresses
  /\ clicked \in BOOLEAN
  /\ drewPoints \in SUBSET Cities
  /\ points \in SUBSET Located
  /\ traceMaxHops \in Hops
  /\ nullItem \in BOOLEAN

(* Every variable has its type.                                            *)
GUITypeOK == WindowTypeOK /\ tracingLine \in Seq([hop : Hops, place : Located])

-----------------------------------------------------------------------------
(* Safety, for the user who is not careless.                               *)

(* No text is read from a table item that does not exist, by a click or at *)
(* the start of a trace.                                                   *)
NoNullItem == ~nullItem

(* When nothing is under way the user can ask for another host, choose a   *)
(* row, and trace to it, whatever sequence of aborts, failures and         *)
(* automatic starts came before.                                           *)
AtRestEnabled ==
  Quiet /\ rpc = "idle" /\ tpc = "idle" =>
    /\ disabled \subseteq {"startStopTracingButton"}
    /\ HasRow(resolveResults, 1) => disabled = {}

TraceRuns == tpc \in {"begin", "run"}

LeavesTrace ==
  TraceRuns' =>
    /\ "startStopTracingButton" \in disabled' =>
         AbortTracing \/ (TraceRuns /\ "startStopTracingButton" \in disabled)
    /\ TraceRuns =>
         /\ UNCHANGED <<lookup, asked, resolveResults>>
         /\ points \subseteq points'
         /\ \A h \in Hops : traceResults[h] # 0 => traceResults'[h] = traceResults[h]

(* A trace starts with the button that aborts it enabled, and as long as   *)
(* it runs nothing but an abort disables that button: it can be aborted    *)
(* until it was.  Meanwhile no lookup and no other trace is asked for, no  *)
(* address disappears, and no row or point the trace has filled in.        *)
TraceUndisturbed == [][LeavesTrace]_guiAll

(* Tables, points and tooltip show the last host and the last trace asked  *)
(* for, nothing of those before.                                           *)
ShowsLatest ==
  /\ \A k \in IDs : resolveResults[k] \in {0, lookup}
  /\ \A h \in Hops : traceResults[h] \in {0, asked}
  /\ points \subseteq OfLookup(lookup) \union OfTrace(asked)
  /\ mapTooltip # NoTip => mapTooltip.row \in {<<"lookup", lookup>>, <<"trace", asked>>}

(* A click on a row goes to the location of what that row shows; and for a *)
(* host with no more addresses than resolveGeoInfo has room for, none of   *)
(* its locations gets into the array behind it.                            *)
RowsAndPlacesAgree ==
  /\ \A k \in IDs : resolveResults[k] # 0 =>
       geoInfo[k] \in OfLookup(resolveResults[k]) \union {Invalid}
  /\ \A h \in Hops : traceResults[h] # 0 =>
       geoInfo[Slot(h)] \in OfTrace(traceResults[h]) \union {Invalid}
  /\ \A h \in Hops : geoInfo[Slot(h)] \notin UNION {OfLookup(n) : n \in 1 .. MaxLookups}

(* The line connects places of the last trace only, in the order of the    *)
(* hops, even when the number of hops was lowered and raised between       *)
(* traces and although clearMap changes the path that it walks through.    *)
LineOfTrace ==
  /\ \A i \in DOMAIN tracingLine : tracingLine[i].place \in OfTrace(asked)
  /\ \A i, j \in DOMAIN tracingLine : i < j => tracingLine[i].hop < tracingLine[j].hop

\* A city is drawn by the first row that is located there.
Drawn(place) == City(place) \in {City(p) : p \in points}

(* The list of what was drawn and the items of the map agree: the line     *)
(* goes through points that are there, one to a city, and of the table     *)
(* that was filled last every located row has one.                         *)
PlacesDrawn ==
  /\ \A i \in DOMAIN tracingLine : Drawn(tracingLine[i].place)
  /\ \A p, q \in points : City(p) = City(q) => p = q
  /\ \/ \A k \in IDs : resolveResults[k] # 0 /\ geoInfo[k] # Invalid => Drawn(geoInfo[k])
     \/ \A h \in Hops :
          traceResults[h] # 0 /\ geoInfo[Slot(h)] # Invalid => Drawn(geoInfo[Slot(h)])

-----------------------------------------------------------------------------
(* currentSelectedIPNo is the selected address of the table, so a trace    *)
(* that the enabled button starts has an address.                          *)
StartHasAddress == ~nullItem
=============================================================================
