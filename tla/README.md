# NyaTrace in TLA+

NyaTrace is a graphical traceroute for Windows (Qt 6, C++). It starts one
worker thread per hop, all at once, and fills a table and a map as the answers
come in; where an address lies it reads from two MaxMind databases. This
directory holds TLA+ models of its concurrent core, its settings, its logs, its
map and its databases, the TLC configurations that check them and TLAPS proofs
of what matters most.

## Inventory

| Component | State | Operations | Hard about it |
|---|---|---|---|
| `TracingCore` (tracing_core.cpp), a `QThread` object that lives in the GUI thread | array of 100 worker pointers, `maxHop`, `oldMaxHop`, `isStopping`, a thread pool | `run` (tracing thread), `requestStop` (GUI thread), five lambdas that handle worker signals (GUI thread) | shared without locks; queued signals are handled late; pointers are matched by hop number only |
| `TracingWorker` (tracing_worker.cpp), one per hop | `isStopping`, `isIPValid`, address of the hop | `run`: probe until answered, look up, resolve the name, `fin`; `requestStop` | the flag is reset when `run` starts; silent hops probe for ever; the worker reads locals of `TracingCore::run` |
| `NyaTraceGUI` (nyatrace_gui.cpp), main window | enabled widgets, two result tables, two arrays of locations, selected address | start/abort a trace, start a resolve, clean up, table clicks | asks `isRunning()` at a click; resolving and tracing overlap and share widgets |
| `ResolveCore` (resolve_core.cpp), second `QThread` | host name | `run`: one row per address, `end` | the number of addresses is not bounded |
| `Configs`, `NyaTraceConfigs` | seven settings, the widgets of the dialog, an ini file | load, save, setters, dialog | changed while a trace runs; loaded values are not checked; the dialog is hidden, not destroyed |
| `IPDB` (ipdb.cpp) | two databases, read-only | open, city and ISP lookup with replacements for what is missing | partial results; a database that failed to open is asked all the same |
| `NyaTraceMap`, nyatrace_map.qml | points drawn, line, tooltip | draw, connect, clear, fit | the path is changed while it is iterated; what is drawn is kept in two places |
| `NyaTraceLogs`, main.cpp | log table, a mutex | append from any thread under the mutex, clear in the GUI thread | clear takes no mutex; the level changes meanwhile |
| tracing_utils.cpp | none | parse, print, resolve addresses | - |
| about window, theme, installer | none | - | static content |
| libmaxminddb (C, in the tree) | a mapped file, its metadata, the start of IPv4 in its tree | open, search of the tree, values by path | all sizes, records and pointers come from the file; every step of opening may fail, and the cleanup goes by members of a handle that began uninitialised |

How they interact. The user's clicks start `TracingCore::run` in the tracing
thread. It creates the workers, gives each to the pool and waits for all of
them. Workers emit signals; `TracingCore` lives in the GUI thread, so each
signal is posted to the event queue of that thread and handled there in order
of posting. The handler of a report moves `maxHop` and calls `requestStop()` on
workers; the handler of `fin` calls `deleteLater()` and clears the pointer;
`end` unlocks the window. Worker objects belong to the tracing thread, which
has no event loop, so Qt deletes them when that thread finishes. The abort
button calls `TracingCore::requestStop`, which sets flags only.

What makes the core correct: no worker outlives the stack frame it reads; no
object is used after deletion and every one is deleted; the answer of the
target stops exactly the hops beyond it; a trace that ends by itself has an
answer of each hop up to the target; an abort ends a trace; the window is
unlocked when, and only when, the trace is over.

Of the window: whatever came before, an idle program can be asked for a host and
a trace; a trace that runs can be aborted and loses nothing it has shown; tables,
locations and line belong to the last host and trace. Of the settings: valid ones stay valid,
applying the dialog repairs others, what is saved comes back. Of the map: every
city with a located address has one point, and nothing outlives `ClearAll`. Of the
logs: every message that is grave enough is shown, once and in the order of its
thread, and no thread waits for ever. Of the databases: nothing is read outside
the file, every search ends, the answer is that of the network of the address,
and what opening took is released, and nothing else.

## Modules

| Module | Models |
|---|---|
| `TraceSession` | abstract: what one trace promises, without threads or objects |
| `TracingWorker` | `TracingWorker::run`, one action per step between two accesses to shared state |
| `TracingCore` | extends it with `TracingCore::run`, the queued lambdas, `requestStop`, and the start, abort and clean-up of a trace in `NyaTraceGUI`; states all properties and the refinement mapping |
| `MCTracingCore` | answer patterns of the network for TLC |
| `TracingCoreProofs` | TLAPS proofs about `TracingCore`: first those for every user, then those for a user who starts no trace before the last one is tidied up, and that `TracingCore` implements `TraceSession` |
| `ResolveCore` | `ResolveCore::run`: copy the host name, get its addresses, post a row for each, post the end |
| `NyaTraceMap` | the map window: points, line and tooltip, as operators that the handlers of the main window call |
| `NyaTraceGUI` | extends both with the main window: the user's clicks, the handlers of both threads, tables, location arrays and selection; the tracing thread is reduced to the rows and the end it posts |
| `Rounds` | lemmas about loops that are written as recursive functions, and about induction |
| `NyaTraceMapProofs` | TLAPS proof that `clearMap` empties the line |
| `NyaTraceGUIProofs` | TLAPS proofs about `NyaTraceGUI` |
| `Configs` | the settings, the ini file and the dialog |
| `NyaTraceLogs` | extends `Configs` with the message handler of main.cpp, which asks for the level, and the table of logs |
| `SettingsProofs` | TLAPS proofs about `Configs` and `NyaTraceLogs` |
| `MCSettings` | settings and files for `NyaTraceLogs` |
| `Bytes` | numbers in the bytes of a file |
| `SearchTree` | the tree of an open database: the walk for the start of IPv4, and the search for an address, one action per turn of a loop |
| `SearchTreeProofs` | TLAPS proofs about `SearchTree` |
| `DataSection` | how a value is decoded, followed, passed by and looked up by its path; pure operators on bytes |
| `MaxMindDB` | extends both with `MMDB_open`, one action per step that can fail |
| `Documents` | abstract: documents, and what it means that bytes are laid out as documents |
| `IPDB` | extends `MaxMindDB` with `LookUpIPCityInfo` and `LookUpIPISPInfo`, and states, with `Documents`, what a file was made to say |
| `DatabaseProofs` | TLAPS proofs about `DataSection`, `MaxMindDB` and `IPDB`, for a file of any bytes |
| `DocumentProofs` | TLAPS proofs that what is shown is what the file was made to say |
| `MCDatabase` | documents, an encoder that gives their bytes and their layout, and odd files |

### State and actions

`tpc` is the program point of the tracing thread ("idle" when `isRunning()` is
false, "ending" after `end` was emitted), `i` its loop counter. `wpc[h]` is the
program point of the worker of hop `h`. `events` is the posted-event queue of
the GUI thread. `workers[h]` is the pointer of the array: NULL, uninitialised
("wild"), or the number of the trace that created the object; the pair of that
number and the hop names a worker object. `deferred` and `freed` hold the
objects `deleteLater()` was called on and those deleted. `fault` is set when the
code goes through a NULL or an uninitialised pointer; nothing happens after.
Hops are numbered from 1 as in `iTTL`; the code's index is one less.

Steps of the threads are split at each access to shared state, where it can
matter: the loop tests, the read of `maxHop`, `oldMaxHop` and the pool size, the
creation of a worker, the test of `isStopping` before each task. Handlers of
the GUI thread are one action each: two handlers never overlap, and what a
handler shares with other threads is either read once or a flag that it only
raises. A step of another thread between two of a handler's writes reads one
flag, and gives what it would give before or after the handler. `GetIPv4` and
`GetIPv6` have the same control and are one set of actions. `new` and
`pool->start` are one action, because the pool thread cannot see the worker
before the second, and a stop that reaches it between the two is overwritten
like any stop before `run`.

In `NyaTraceGUI` a lookup is named by the call of `StartResolving` that asked
for it, a trace by the call of `StartTracing`; a row of a table, a location and
a point on the map carry that name, so what is stale can be told. `disabled` is
the set of disabled widgets. `geoInfo` is `resolveGeoInfo` followed by
`traceGeoInfo`, as the compiler lays the members out: the entry after the last of
the first is the first of the second. Entries the constructor leaves alone are
`Garbage` or happen to be invalid. `currentSelectedIPNo` is the member that a click
on a row sets, and row 0 an index outside the table; `clicked` is a history, whether
a row of the table as it is was clicked, which the user may forget (`Careless`).
The rows, location and host name of one hop are one event, as one worker
posts them in order. A lookup that succeeds has an address, since
`getaddrinfo` is asked for TCP over IPv4 and IPv6 only.
What the table widget highlights is not in this model, and no property speaks of
it: a row can be selected by its header, by a drag or with the keyboard, none of
which is a click, and only a click sets the member (nyatrace_gui.cpp:509).

In `NyaTraceMap` a place is a row of a lookup or of a trace together with the
city it is located in. The code looks at the city only, so two hops in one city
share a point, and `removeCoordinate` takes away the last point of the line at a
city. The two loops over a path are recursive functions, one entry per round:
`CutPath` of `clearMap` and, in `NyaTraceGUI`, `LineThroughHops` of `CleanUpTracing`.
`clearMap` removes from the path it iterates over: `PathIsCopy` says whether reading `path` gives a copy, as it does in Qt 6, and the line is then
empty after the loop. On a live path every other coordinate would stay, against
the comment at nyatrace_map.qml:123; run `window` with FALSE violates
`LineOfTrace`. The tooltip carries the row whose texts it was given.

In `Configs` a setting is a number, radio buttons and check boxes included. `ini`
is the file, a number or `Absent` for each; its first content is anything. `Load`
wraps a negative time as the conversion to `unsigned long` does, `Filled` puts a
value into the range of its widget. `Set` has the test of the old value that the
setter of the double-click action makes. A text in the file that is no number
reads as 0 and counts as one. A number of a check box (`Switches`) loads as 0 or 1.

In `NyaTraceLogs` `hpc[t]` is where thread `t` is in the message handler. A row is
numbered and inserted in two actions, as `appendRow` does, so that a second writer
would be seen. The level is read before the mutex is taken. `due` is a history: the
set of messages that the table owes to each thread. A fatal message ends the program at any
point; the crash report it writes is not modelled (main.cpp:53 constructs the
file and never opens it). `qDebug` inside the handler does not come back to it:
Qt's guard against recursion sends it to the default output.

In `SearchTree`, `DataSection` and `MaxMindDB` the file is a sequence of bytes,
`content`, and offsets are those of the code. `Word` is 2^32 in the code; TLC
computes with 32-bit integers, so the runs take 2^23, larger than any number in
their files, and `RecordOffset`, `DataOffset`, the sum that `Outcome` compares with,
and `Past` wrap there. `trail` and `startTrail` are the
records read from the root, a history. `furthest` is the end of what the last call
read of a section and the size of that section. `held` is what was taken from the
system and not given back, `faults` what was released or read without being held;
`described` stands for `description.count`, `mapped` for `file_content` and `placed`
for `data_section` of a file that is mapped. Like `recordLength` and `ipVersion` they
may be anything in a new handle: `MMDB_open` resets the three pointers and counts
(lines 247-252) and not the sizes. The data pool is the sequence `members`;
that it is limited, and that any allocation of the library or of `IPDB` itself fails,
are outcomes "out_of_memory", for a lookup too: `MMDB_vget_value` has no memory for the
path (`GetValue`), or `strndup` none for the copy, which then shows as an empty text.
`starved` is a history of the fields this happened to. (Where Qt has no memory it ends
the program.) The C stack is taken to be deep enough: `skip_map_or_array` calls itself
for each level of nesting, without a limit.

`LookUpUnopened` is a lookup in a database that failed to open, which `IPDB` does not
prevent. It is refused, finds nothing, or reads a tree that is not mapped (the fault
"tree"), depending on how far the open came and on what the handle held before.
`AnswerOfDocument` compares with the documents that the file was made of. `documents`
is a layout of them: which document begins where, what is behind it, and where its
members begin. `LaidOut` says that a section has them there, one `decode_one` deep for
each, and the program never looks at it. `Describes` says of a document that it is the
metadata of a database, and `WellMade` of a file that its last marker is followed by
such metadata and that the data are where these say. The layout is an assumption of the
properties, and `MCInit` asserts that each file which the runs have documents of is
well made, so it is not an empty one. The loops and recursive functions of the decoder are recursive functions
over the number of rounds left: the members of a map, the depth of a value (no
deeper than the section has bytes, as a member begins behind the control byte of
what it is in), the levels of a list (`MAXIMUM_DATA_STRUCTURE_DEPTH`). Assumed: the path
of the file is as configured.

Left out: `incProgress` and status messages (no control depends on them),
the `usleep` between workers (no order is assumed), closing the window (the
main window is never deleted, so `~TracingCore` does not run), the parse of the
address (its text was printed by `ResolveCore` from a valid one) and failures to
load the ICMP library. `getaddrinfo` returns addresses of IPv4 and IPv6 only. A reply is "router" or "target". In `TracingCore` the table
of addresses counts as filled with one address selected, and no lookup runs:
`NyaTraceGUI` has that side. `StartHops` is within the array; a
value that the ini file has out of bounds is a matter of `Configs`, where nothing
stops it until the dialog is applied (`ApplyRepairs`).

### Constants and bounds

`MaxHops` is the length of the array (100 in the code, 2 or 3 in the runs: two
hops suffice for one to be stopped by the other, three for a target in the
middle). `Answers[h]` is who may reply to a probe of TTL `h`; the empty set is a
hop that never replies. `StartHops` and `HopChoices` are the configured number of
hops at start and the values it may be changed to, at any time; that they are
valid is what `StaysValid` gives. `MaxRuns`
bounds the number of traces (two: enough for leftovers of one to meet the next).
`MaxRetries` bounds how many timeouts of a worker are posted; the worker goes on
probing beyond it. `Rows` says whether events that only fill the table are in
the queue at all: the core ignores them, and they multiply the states, so only
the run `trace` keeps them.

`RestartEarly` says whether the user may start a trace while events of the last
one still wait. Both starts are open then: the button asks only `isRunning()`,
and Qt on Windows may deliver a click before events that were posted earlier. With
FALSE the user waits until everything posted is handled.

`Careless` (in `NyaTraceGUI`) is what the user does not refrain from. All of it
is open to the user, and the list says which properties TLC finds violated when
one item is added to run `window` (of those it does not name, with the first, second
and last item TLC was stopped after some minutes without a violation):

| Item | The user | Then fails |
|---|---|---|
| `quick` | acts between the handling of an end and the finish of the thread, or before posted events are handled | all but `GUITypeOK` and `NoNullItem` |
| `overlap` | double-clicks a row before the lookup ended | all but `GUITypeOK` |
| `unclicked` | presses the button without having clicked a row since the host was resolved | `NoNullItem`, and with it `AtRestEnabled` |
| `reconfigure` | changes the number of hops while a trace runs | all but `AtRestEnabled`, `TraceUndisturbed` and `ShowsLatest` |

So a lookup that is started between the end of the last and the finish of its
thread leaves the window without an enabled input for good: `start()` does
nothing, and no end follows.

`MaxAddresses` and `MaxLookups` are 2 (a row can be left over from another host),
`MaxTraces` is 3 and `MaxHops` 3 (the number of hops can be high, low and
high again in three traces), `MaxIPs` is 2; `Cities` has two members, so that two
hops may or may not share a city. A host with more addresses than
`DEF_RESOLVE_MAX_IPs` (`MaxAddresses` above `MaxIPs`) breaks
`RowsAndPlacesAgree`: nothing limits them, although configs.h:6 calls that number
the most that a resolve yields.

The runs of the settings have three of the seven, one of each kind: the level, a
time and the action of the double click. `Highest` is 2 for the time and 1 for the
others, `ULong` 8 (a negative time wraps to one that is huge by comparison). The
first ini file is absent or has at most one entry, which is out of bounds: above,
or negative; the program writes every other. `settings` has two threads that log
one message each, which is all a mutex tells apart. `ClearAnyTime` says whether the user clears the table while
another thread is in the handler; `settings` has FALSE, `clear_race` TRUE.

The databases have one or two nodes, addresses of 2 and 3 bits, a separator of 1
byte, a marker of 2 and keys of 1 or 2 bytes, one of 30, which needs a size of
its own. The files are: documents of six forms with and without pointers, in
all record sizes and both IP versions; all trees of two nodes over five records;
data of three odd bytes; metadata with each key missing or of another type or
value. Three bytes or more follow every marker (`FullMetadata`, see "The databases"
below). So every branch of the decoder is taken; a size above 284 and a pointer of 19 or
27 bits are only met where they lead outside the section. One call of the program to each
file suffices: a lookup changes nothing of the database.

## Runs

| Run | Configuration | Shows |
|---|---|---|
| `trace` | 2 hops, 2 traces, settings fixed, orderly restart, all events | `WaitingInv`, `NoFault`, `EndMeansReclaimed`, `NothingLeaks`, `LockedWhileTracing`, `NoOrphanLock`, `StopReachesProbing` |
| `session` | 3 hops, 1 trace, target second or third, timeouts | `PoolHasRoom`, `OnlyBeyondTargetStopped`, `CompleteTrace`, `ImplementsSession` |
| `overlap` | 2 hops, 2 traces, early restart, settings raised and lowered, array half cleared | `IndInv`, `WorkersInsideRun`, `NoUseAfterFree` |
| `liveness` | 2 hops, the first silent | `DrainedUnlocks`, `AnsweringHopFinishes` |
| `window` | 2 lookups of up to 2 addresses, 3 traces, 2 cities, careful user | `GUITypeOK`, `NoNullItem`, `AtRestEnabled`, `TraceUndisturbed`, `ShowsLatest`, `RowsAndPlacesAgree`, `LineOfTrace`, `PlacesDrawn` |
| `settings` | a file with an odd value, dialogs, restarts, 2 threads that log | `LogsTypeOK`, `DialogTellsTruth`, `SavedComesBack`, `StaysValid`, `ApplyRepairs`, `NothingLost`, `HandlerReturns` |
| `database` | some 1,800 files, one call each, any call of the system and any allocation fails | `ReadsInsideTree`, `ReadsInsideSection`, `AnswerOfNetwork`, `AnswerOfDocument`, `WellMadeOpens`, `OpenReleases`, `ReleasesOnlyTaken`, `EverySearchEnds` |
| `lost_stop` | as `liveness` | violates `AbortEnds` |
| `wild_array` | setting raised from 1 to 2 | violates `ArrayCleared` |
| `early_restart` | early restart | violates `FinFindsWorker` |
| `no_row` | one lookup, then the button | violates `StartHasAddress` |
| `clear_race` | the user clears the table at any time | violates `OneWriter` |

Deadlock is checked wherever the program cannot stop: not where a fault or a torn
table ends it, nor in `database`, where no more than `MaxCalls` calls are asked. `Sleep` is the event loop
waiting with nothing to do, so a deadlock is a thread that waits for ever.

Fairness. Each thread that can step does (`WF` for the tracing thread, for the
handling of posted events, and for each pool thread): the scheduler runs every
thread, `IcmpSendEcho2` returns within its timeout and `getnameinfo` returns. No
fairness of the user. `AnsweringSpec` adds that a hop which replies at all
replies to one of infinitely many probes (`SF`); a silent hop never does, so a
trace over one need not end without an abort, and that is the design.
`LogsFairness` has each thread in the handler go on (`WF` is enough: the messages
are bounded, so a thread that waits for the mutex finds it free for good in the end),
and `MCDatabase` that a search in a tree does (`WF` on `Searches`: a loop without
waiting). Neither has fairness of the user or of the calls that open a file.

### Where the code does not keep its comments

* `lost_stop`. `isStopping` is reset by `TracingCore::run` (line 75) and by
  `TracingWorker::run` (line 30), and a worker created after `requestStop` read
  the array is not told. The trace then runs on with its abort button disabled,
  for ever if a hop is silent.
* `wild_array`. The constructor clears `GetTraceMaxHops()` pointers of 100.
* `no_row`. A successful lookup enables the start button, but
  `currentSelectedIPNo` is uninitialised until a row is clicked: the trace starts
  from a table item that may not exist.
* `early_restart`. A `fin` of the last trace, handled during the next, takes the
  new worker's pointer; the new `fin` dereferences NULL.
* `clear_race`. The mutex of main.cpp:14 keeps appending threads apart; the user's
  clearing (nyatrace_logs.cpp:38) does not take it.

Met on the way, without a run of their own:

* An abort between the handling of `end` and the finish of the thread disables the
  button for good (item `quick` above).
* A host may have more addresses than the array has room for.
* A row selected by its header, by a drag or with the keyboard is not the one that
  the button traces: `currentSelectedIPNo` is set by a click only
  (nyatrace_gui.cpp:509), although nyatrace_gui.ui:74-87 lets the table be selected
  in those ways.
* A failed `MMDB_open` loses the list of members when a value of `languages` or
  `description` is refused, or does not fit, and the array of descriptions when there
  is no memory for its first element: `OpenReleases` names both.
* A database that failed to open is asked all the same. Its handle may still say how
  its records are, and then the tree is read where the file was mapped, or at the
  pointer that was reset (`LookUpUnopened`).
* In a tree beyond 4 GiB the offset of a record, a product of 32 bits, wraps
  (maxminddb.c:964, 1038): the search stays in the tree and reads the records of
  another node. `AnswerOfNetwork` leaves such trees out.

The "corrupt" checks inside the loops (maxminddb.c:965, 1039) never fire in an open
database: that is `ReadsInsideTree`.

Early restart breaks `NoFault` and `ImplementsSession`, a setting raised above its
first value breaks `NoFault` too, and with the setting lowered during a trace an
abort skips the workers above it (`StopReachesProbing`): what the runs `trace` and
`session` leave out. The theorems below name for each property what it needs.
`OnlyBeyondTargetStopped` is one-sided on purpose: a worker beyond the target that
starts late is not stopped, it probes on until it is answered itself.

## Proofs

Eight modules hold proofs. A theorem is for every value of the constants that its
module's assumptions admit; what a theorem assumes beyond them is in its
statement and in the tables below.

### The trace

`TracingCoreProofs` shows, for every number of hops, every answer pattern, any
number of traces, early restarts and any change of the setting within the array:

| Theorem | Property |
|---|---|
| `Inductive` | `IndInv` |
| `TypeCorrect` | `TypeOK` |
| `WorkersInside` | `WorkersInsideRun` |
| `MemorySafe` | `NoUseAfterFree` |
| `FanOutExact` | `OnlyBeyondTargetStopped` |
| `TraceComplete` | `CompleteTrace` |

These use `WorkerAssumption` and `CoreAssumption` (sizes and types of the
constants) only. None of the properties is inductive. `IndInv` adds:

* `LoopInv`: outside `run` no worker is alive; before the loop there is none; in
  the loop those up to `i` exist and no other. It gives `WorkersInsideRun`,
  and the creation of a worker never overwrites one that exists.
* `ObjectInv`: an object is pointed to, waiting for deletion, or deleted, and
  only one of these; an object of the latest trace is deleted only when the
  thread is idle. With `LoopInv` it gives `NoUseAfterFree`.
* `OnlyBeyondTargetStopped` itself: `maxHop` only falls while workers exist.
* `AnswerInv`: a worker past its probing loop has an answer unless the trace
  was aborted or its hop is beyond the target. With the flag property above, as a
  worker leaves the loop unanswered only when its flag is set, it gives
  `CompleteTrace`.

One lemma per thread and part shows that a step keeps `IndInv`; `WorkerMoves`
reduces the ten steps of a worker to one move. TLC checks `IndInv` itself in
`overlap`.

The second part of `TracingCoreProofs` shows what holds of a user who waits
(`~RestartEarly`), for any number of traces:

| Theorem | Property | Assumed of the user |
|---|---|---|
| `WaitingInductive` | `WaitingInv` | waits |
| `FinFinds` | `FinFindsWorker` | waits |
| `EndReclaimed` | `EndMeansReclaimed` | waits |
| `NoLeak` | `NothingLeaks` | waits |
| `LockedInRun` | `LockedWhileTracing` | waits |
| `LockHasEnd` | `NoOrphanLock` | waits |
| `Implements` | `ImplementsSession` | waits |
| `ClearedInductive` | `ClearedInv` | never raises the setting above its first value |
| `PointersValid` | `NoFault` | both |
| `FixedInductive` | `FixedInv` | does not change the setting |
| `RoomForAll` | `PoolHasRoom` | does not change the setting |
| `AbortReaches` | `StopReachesProbing` | waits, and does not change the setting |

None of the assumptions can go. `early_restart` and `wild_array` are the
counterexamples to `FinFinds` and `PointersValid`. In the constants of
`WildArray.cfg`, TLC finds `PoolHasRoom` violated with `StartHops = 2` and
`HopChoices = {1}` (`run` reads the setting for its loop and again for the size of
the pool), and `StopReachesProbing` with the same, and with `HopChoices = {}`,
`RestartEarly` and two traces.

`WaitingInv` joins `IndInv` to what is in the queue. `QueueInv`: all of it is of the
latest trace, and `end`, once posted, is last. `ArrayInv`: a worker is in the array
from its creation until its `fin` is handled, so one that has emitted `fin` is
either in the array with `fin` queued, or given back. `FinInv`: a queued `fin` is
the only one of its worker, which the array still points to. `EndMeansReclaimed`
is then an argument of two lines: if `end` is first it is also last, so no `fin` is
queued, so every worker is given back. That argument found the property too
strong as it had been written: entries no worker ever filled may still be
uninitialised (`Wild`), which nothing goes through. `ReportInv` ties a queued report
to the worker that posted it; the refinement needs it, to see that `maxHop` falls
only to a hop where the target answered. The refinement maps every step of the
tracing thread, of a worker, of the GUI thread's handlers and of the user to a
step of `TraceSession` or to a stutter; the proof has a lemma for each of these.

### The settings and the logs

`SettingsProofs` shows of `Configs`, for any settings, bounds, defaults and content of the file:

| Theorem | Property |
|---|---|
| `ConfigsInductive` | `ConfigsInv` |
| `DialogTrue` | `DialogTellsTruth` |
| `SavedStays` | `SavedComesBack` |
| `Repairs` | `ApplyRepairs` |
| `ValidStays` | `StaysValid` |

From `ConfigsAssumption`: bounds and defaults are in order, twice the highest value
is less than the number of values of an `unsigned long` (so no valid value is
taken for a negative one), and a widget is only turned within its range.
`ConfigsInv` adds to the two invariants that every widget is in its range
(`WidgetsInRange`), which is why applying the dialog repairs, and that a radio
button is checked whenever the action is a valid one (`ActionShown`), which the
code does not say anywhere: checking one button unchecks the other, and nothing
else does. `ValidStays` has an invariant of its own, that settings and file
are valid, and needs both: `Set` does not look at the new action. The central
lemma, `AppliedLoads`, is that what is applied reads back as itself.

And of `NyaTraceLogs`, for any set of threads, numbers of messages and settings:

| Theorem | Property | Assumed |
|---|---|---|
| `LogsInductive` | `LogsInv` | - |
| `LogsTyped` | `LogsTypeOK` | - |
| `LogsKeepConfigs` | `ConfigsSpec` | - |
| `WritesApart` | `OneWriter` | the table is cleared only while nobody logs (`~ClearAnyTime`) |
| `LogsComplete` | `NothingLost` | the same |

`LogsKeepConfigs` is the refinement of the settings by the settings with loggers,
which carries each theorem about `Configs` over. `LogsInv` says, as long as the
table is not torn, who holds the mutex (`HandlerInv`: only a thread between lock and
unlock, whose row number is still right when it inserts), that the table lacks
exactly the messages in the handler (`RowsInv`), and that each thread's messages
have rising numbers (`OrderInv`). `clear_race` is the counterexample to the last two
theorems without their assumption.

### The main window and the map

`NyaTraceGUIProofs` shows, for any numbers of rows, hops, lookups and traces, any
cities, and any changes of the setting between traces, of a user who is not
`Careless`:

| Theorem | Property | Assumed beyond `Careless = {}` |
|---|---|---|
| `WindowInductive` | `WindowInv` | - |
| `WidgetsComeBack` | `AtRestEnabled` | - |
| `Undisturbed` | `TraceUndisturbed` | - |
| `LatestShown` | `ShowsLatest` | - |
| `PlacesInductive` | `PlacesInv` | `MaxAddresses <= MaxIPs` |
| `RowsHavePlaces` | `RowsAndPlacesAgree` | the same |
| `NoNull` | `NoNullItem` | the same |
| `WindowTyped` | `GUITypeOK` | the same |
| `MapInductive` | `MapInv` | the same, and `PathIsCopy` |
| `LineShowsTrace` | `LineOfTrace` | the same, and `PathIsCopy` |
| `PlacesAreDrawn` | `PlacesDrawn` | the same, and `PathIsCopy` |

`MaxAddresses <= MaxIPs` says that a host has no more addresses than the array has
entries, which nothing in the code ensures (see "Constants and bounds"), and
`PathIsCopy` is what Qt 6 does with `path`. The argument is in layers:

1. `WindowInv` is about control alone. `OneOpen`: a lookup and a trace are never
   open together, each from the click until its end is handled. `LookupInv`, `TraceInv`: the queue holds events of the open
   one only, at most one end, and that last. `RowsInv`: the rows of the tables are
   of the last lookup and trace. `WidgetsInv`: which widgets are disabled in each
   state. `PickInv`: while a click holds, the member variable is a row that the table has.
2. From it follows that every step of the program is, for tables, arrays and map,
   one of six (`WindowStep`): a lookup starts, a trace starts, an address is shown,
   a hop is shown, the line of a trace is shown, nothing of the kind.
3. `ShownInv`, `PlacesInv` and `MapInv` are kept by these six. `PlacesInv` has to say
   of a hop whose row is still empty that its location is invalid (`Emptied`), and of
   one above the limit nothing, as `StartTracing` clears up to the limit only: a
   trace with fewer hops leaves locations of an older one behind, and no row leads
   to them. `MapInv` says that the drawn cities are those of the points, one each,
   and that the line rises through hops of the last trace, all of them drawn.

`LineIsEmptied`, in `NyaTraceMapProofs`, is what the last layer needs of `clearMap`:
with `PathIsCopy` its loop leaves nothing, of any line. That is not evident, since
each round removes the *last* coordinate equal to the one it reads. The invariant
of the loop (`Matched`) pairs what is left with what is yet to be read.

### The search tree

`SearchTreeProofs` shows, for any bytes, sizes that `MMDB_open` accepts, record
widths, address lengths and any number of lookups:

| Theorem | Property |
|---|---|
| `TreeInductive` | `TreeInv` |
| `NothingReadBeyond` | `ReadsInsideTree` |
| `AnswersBelong` | `AnswerOfNetwork` |

From `WordAssumption` and `TreeAssumption`. `TreeInv` says of both loops that the
trail leads from the root along the bits passed so far (`Reaches`), that the walk
of `MMDB_open` took left records only (`StartLoop`), and that what it left is a
trail along zeros to `startNode` (`StartFound`). The last is what lets a search for
an IPv4 address begin there: its mapped address has those zeros, so the trail
is also one for the address (`StillReaches`). `OfNodes` says that all but the last record
of a trail are nodes, which is what the loops test before they read on. `ReadsInsideTree`
is about what was read, record by record, and compares it with the size of the tree and
with the length of the file: a node's record ends within the tree (`NodesRead`), also
where the product of 32 bits wraps, and the sizes leave room for the tree in the file.
Without the test of either loop, or without the check of sizes in `MMDB_open`, it fails.
`AnswerOfNetwork` is stated with `RecordOf`, the record as the format has it, and holds of
trees of at most 4 GiB, where no offset wraps.

### The databases

`DatabaseProofs` shows of `IPDBSpec`, for a file of any bytes, any call of the system
and any allocation that fails, and any number of lookups:

| Theorem | Property | Assumed of the file |
|---|---|---|
| `DatabaseInductive` | `IPDBInv` | - |
| `OpeningReleases` | `OpenReleases` | - |
| `NothingElseReleased` | `ReleasesOnlyTaken` | - |
| `TreeNotLeft` | `ReadsInsideTree` | - |
| `AnswersOfNetworks` | `AnswerOfNetwork` | - |
| `SectionNotLeft` | `ReadsInsideSection` | `FullMetadata` |

From the assumptions on the tree, `DepthAssumption` and `MarkerAssumption`: a list may
be two levels deep or more (512 in the code; a list of strings needs two), the marker
is not empty, and the last part of the file in which it is searched is smaller
than `Word`. `IPDBInv` joins four invariants:

* `FileInv`, what has been read and checked when `pc` is past a point of `MMDB_open`:
  from `node_count` on there is a marker, from `record_size` on the count is not 0,
  and so on, until, with the sizes accepted, `TreeInv` of the tree holds. The proofs of
  `SearchTree` start where `MMDB_open` is done and take the sizes as given; here it is
  shown that `MMDB_open` lets no others through, so `ReadsInsideTree` and
  `AnswerOfNetwork` hold of the program with any file. `NoneRead` adds that no record
  is read before.
* `HeldInv`, what is held. `HeldAt` names, for each point, exactly what `MMDB_open`
  has by then, and `OpenHeld` that the members of the handle say the same. Neither of
  the two properties of release says that, and both need it, since what the cleanup
  does goes by the members, and what a failure leaves behind depends on where it
  happens. The point before any of it is the hard one: the members are those of an
  uninitialised handle until they are reset, before the first call that may fail.
* `SectionInv`, `ReadsInsideSection` of a file with `FullMetadata`.
* `AskInv`: fields are asked for only of an address that was found.

Below it is a lemma for each operator of the decoder: given a section of any bytes
(`Section`) it returns an entry or list that was read without going beyond the end
(`Inside`, `ListsInside`). For the loops this is an induction over the rounds, with a
set of values as the hypothesis: all functions of an entry that stay inside. The
lemma about `DecodeOne` is the place where the subtraction in the bound checks must
not wrap (`NotPast`).

`FullMetadata` says that behind every marker there are three bytes or more. The bound
checks of `decode_one` subtract up to three from the size of the section, and that
wraps when it is smaller. The comment at maxminddb.c:319-322 says so and the code
checks the size of the data (line 323); of the metadata it does not. With a file that
ends right behind its marker added to `database`, TLC finds `ReadsInsideSection`
violated: bytes behind the end of the file are read. All other
theorems need nothing of the kind, and hold of such a file too.

### The documents

`DatabaseProofs` is about a file of any bytes. `DocumentProofs` says that a file which
was made as a database is read as it was meant, by the same decoder:

| Theorem | Property | Assumed of the file |
|---|---|---|
| `AnswersOfDocuments` | `AnswerOfDocument`, while `LaidOut(Data, documents)` | - |
| `WellMadeFilesOpen` | `WellMadeOpens` | `WellMade(meta)`, for any layout `meta` |
| `WellMadeFilesAnswer` | `AnswerOfDocument` | the same |

The last goes from the bytes of the file to what the user is shown: documents of any
depth and size, with pointers anywhere in place of a value or a key, shared or not
(but no pointer to a pointer, which the decoder refuses); metadata in any order, with
any further members; any search tree; any failure of the system, in a lookup too.
What it needs of the file is what a writer of databases does. A file without a marker or metadata, or with
its documents elsewhere, is not well made; of such a file the theorems of the section
before still hold.

The argument about one lookup, in layers that follow the functions of maxminddb.c:

1. `decode_one` goes forward (`DecodeAhead`): a value ends behind where it begins, so
   members are behind what they are in. What an entry has depends on the bytes alone
   and not on what was decoded before, except where it ends after a pointer (`Like`).
2. `skip_map_or_array` ends behind a document, however deep its members are nested in
   each other (`Skipped`). The document says how many members it has; that the recursion
   has enough rounds is the forward motion again: `MembersPassed` is the loop over the
   members at one depth, given that the next depth passes what begins further on.
3. Through one pointer or none, `FollowedShows`: the entry has the document, and its
   members begin behind it or behind the target of the pointer.
4. `MMDB_aget_value` finds the first member with a key (`MemberFound`), also when what is
   before it is a map, an array or a pointer, and none when there is none; it
   goes down one key of the path (`DescendGives`) and so the whole path (`AGetGives`), the
   one with the abstract `InDocument`.
5. `AnswerInv`, which TLC checked first: of the fields of the call, those not read
   yet are still asked in order (`AskedInOrder`), those read are shown as the
   document says (`ReadAsSaid`), and the location is valid as long as no part that was
   read is missing (`ValidAsSaid`). A field in `starved` may show less (`Degraded`):
   the other name, what a missing field shows, or nothing, and no other field does. The first of those not read may be asked with its
   other path already, as a name is asked for by `zh-CN` and then by `en`.

For the opening, `MadeInv` says of each number of the metadata that has been read that it
is the one the document has under its key, and that a failure so far was
one of the system. Each read is an application of layer 4 (`MadeReads`). Languages and
descriptions are copied with `get_entry_data_list`, of which `TextListed` to `MapListed` show
that it gives for an array or map of strings, behind pointers or not, these strings in
order. With the numbers right, `MMDB_open` puts the data where the metadata say, and
`WellMade` that the documents are there.

Two things the statements have to say for this: documents count from where the
metadata put the data (`DataAt`), and a key that a map has twice is read at its first
place (`Member`).

### How far the prover goes

The loops of the window and of the decoder are recursive functions over the rounds.
The library's theorems about induction and recursion take an operator and cannot be
instantiated here, so `Rounds` derives `LeastElement` from the well-foundedness of the
naturals, and from it `SetInduction`, which is about a set of rounds. That a
recursive function has its first value and its step, which the prover does not take
from its definition, follows from the existence of one (`Rounds`, `LoopExists`). With
these a loop can be unrolled one round at a time, and both what it preserves and what it
computes are inductions over the rounds. The relation `LaidOut` stands where a
recursive encoder would: the prover could not unfold one, and it allows more, as
it leaves open where a writer puts a pointer.

tlapm reads `UNION A \union B` as `UNION (A \union B)` and TLC as
`(UNION A) \union B`: the modules put the parentheses.

Model-checked only is liveness (`DrainedUnlocks`, `AnsweringHopFinishes`,
`HandlerReturns`, `EverySearchEnds`): fairness is out of the prover's reach. Every
other property of a run that passes is stated by a theorem. What no proof is
about: that the encoder of `MCDatabase` gives bytes which are laid out as the documents;
TLC asserts it of each file.

## Not modelled

* The About window, the theme and the installer: static content.
* Of `main`: version strings and the theme. Of the map: the viewport. Of the main
  window: status bar, progress bar and the buttons that only show a window.
* Of libmaxminddb: dumping, `MMDB_lookup_string`, `MMDB_read_node` and the metadata as
  a list, which the program does not call; the POSIX build of `map_file`; the
  numbers that eight bytes of a float stand for; `MMDB_close`, which only `~IPDB` calls,
  and the window that owns the `IPDB` is never deleted.
* `PrintIPAddress` and `ParseIPAddress`: they format and parse one address.
* A database that is changed on disk while it is mapped: Windows keeps it from
  being written.

## What is left

1. The growth of the data pool (data-pool.c) as a module, with its limit.
2. A proof that the rows `NyaTraceGUI` is given by its reduced tracing thread are
   those `TracingCore` posts.
