--------------------------- MODULE SettingsProofs ---------------------------
(***************************************************************************)
(* What holds of the settings whatever their bounds, whatever the first    *)
(* file says and whatever the user does to the dialog.  And what the mutex *)
(* of the message handler guarantees, whatever the number of threads and   *)
(* of messages and whatever the user does to the level; and what it needs  *)
(* for that: that nobody clears the table meanwhile.                       *)
(***************************************************************************)
EXTENDS NyaTraceLogs, TLAPS

(* No widget is out of its range, and only the pair of radio buttons may   *)
(* show nothing.                                                           *)
WidgetsInRange ==
  \A k \in Settings :
    \/ widgets[k] \in Bottom[k] .. Highest[k]
    \/ k = "DoubleClickAction" /\ widgets[k] = Unchecked

(* A dialog that is shown shows a valid double-click action.               *)
ActionShown ==
  \A k \in Settings :
    k = "DoubleClickAction" /\ shown /\ IsValid(k, settings[k]) => widgets[k] # Unchecked

ConfigsInv ==
  ConfigsTypeOK /\ WidgetsInRange /\ ActionShown /\ SavedComesBack /\ DialogTellsTruth

-----------------------------------------------------------------------------
LEMMA Bounds ==
  ASSUME NEW k \in Settings
  PROVE  /\ Lowest[k] \in {0, 1} /\ Bottom[k] \in {0, 1}
         /\ 0 <= Bottom[k] /\ Bottom[k] <= Lowest[k] /\ Lowest[k] <= Highest[k]
         /\ k \notin Unsigned \union {"MaxHops"} => Lowest[k] = 0
         /\ Bottom[k] = 1 => k = "MaxHops"
         /\ Highest[k] \in Nat /\ Default[k] \in Nat
         /\ 2 * Highest[k] < ULong /\ ULong \in Nat
         /\ IsValid(k, Default[k])
         /\ k \in Switches =>
              /\ k \notin Unsigned /\ k # "DoubleClickAction"
              /\ Bottom[k] = 0 /\ Lowest[k] = 0 /\ Highest[k] = 1
  BY ConfigsAssumption
     DEF ConfigsAssumption, Names, Lowest, Bottom, Unsigned, Switches, IsValid

LEMMA Wraps ==
  ASSUME NEW v \in Int
  PROVE  /\ v % ULong \in 0 .. ULong - 1
         /\ v \in 0 .. ULong - 1 => v % ULong = v
  BY ConfigsAssumption DEF ConfigsAssumption

(* A value that was loaded has its type, and loading it again changes nothing. *)
LEMMA LoadType ==
  ASSUME NEW file \in [Settings -> Int \union {Absent}]
  PROVE  /\ Load(file) \in [Settings -> Int]
         /\ \A k \in Settings \cap Unsigned : Load(file)[k] \in 0 .. ULong - 1
  <1>1. ASSUME NEW k \in Settings
        PROVE  /\ Load(file)[k] \in Int
               /\ k \in Unsigned => Load(file)[k] \in 0 .. ULong - 1
    <2>1. CASE file[k] = Absent
      BY <2>1, Bounds DEF Load, IsValid
    <2>2. CASE file[k] # Absent
      <3>1. file[k] \in Int
        BY <2>2
      <3>2. file[k] % ULong \in 0 .. ULong - 1
        BY <3>1, Wraps
      <3> QED BY <2>2, <3>1, <3>2, Bounds DEF Load
    <2> QED BY <2>1, <2>2
  <1> QED BY <1>1 DEF Load

LEMMA LoadValid ==
  ASSUME NEW file \in [Settings -> Int \union {Absent}],
         NEW k \in Settings, file[k] = Absent \/ IsValid(k, file[k])
  PROVE  IsValid(k, Load(file)[k])
  <1>1. CASE file[k] = Absent
    BY <1>1, Bounds DEF Load
  <1>2. CASE file[k] # Absent
    <2>1. file[k] \in Lowest[k] .. Highest[k]
      BY <1>2 DEF IsValid
    <2>2. file[k] \in 0 .. ULong - 1
      BY <2>1, Bounds
    <2> QED BY <1>2, <2>1, <2>2, Wraps, Bounds DEF Load, IsValid
  <1> QED BY <1>1, <1>2

(* The values of the dialog before it is filled.                           *)
WasFilled(old) ==
  \A k \in Settings :
    k = "DoubleClickAction" => old[k] \in (Bottom[k] .. Highest[k]) \union {Unchecked}

LEMMA FilledValue ==
  ASSUME NEW values \in [Settings -> Int], NEW old, WasFilled(old), NEW k \in Settings
  PROVE  /\ \/ Filled(values, old)[k] \in Bottom[k] .. Highest[k]
            \/ k = "DoubleClickAction" /\ Filled(values, old)[k] = Unchecked
         /\ IsValid(k, values[k]) => Filled(values, old)[k] = values[k]
  <1>1. CASE k = "DoubleClickAction"
    <2>1. Filled(values, old)[k] = IF IsValid(k, values[k]) THEN values[k] ELSE old[k]
      BY <1>1 DEF Filled
    <2> QED BY <1>1, <2>1, Bounds DEF IsValid, WasFilled
  <1>2. CASE k # "DoubleClickAction"
    <2> DEFINE v == IF k \in Unsigned THEN AsInt(values[k]) ELSE values[k]
    <2>1. v \in Int
      BY Bounds DEF AsInt
    <2>2. IsValid(k, values[k]) => v = values[k]
      BY Bounds DEF AsInt, IsValid
    <2>3. Filled(values, old)[k] = Clamped(k, v)
      BY <1>2 DEF Filled
    <2> HIDE DEF v
    <2> QED BY <2>1, <2>2, <2>3, <1>2, Bounds DEF Clamped, IsValid
  <1> QED BY <1>1, <1>2

LEMMA FilledWidgets ==
  ASSUME NEW values \in [Settings -> Int], NEW old, WasFilled(old)
  PROVE  /\ Filled(values, old) \in [Settings -> Int \union {Unchecked}]
         /\ \A k \in Settings :
              /\ \/ Filled(values, old)[k] \in Bottom[k] .. Highest[k]
                 \/ k = "DoubleClickAction" /\ Filled(values, old)[k] = Unchecked
              /\ IsValid(k, values[k]) => Filled(values, old)[k] = values[k]
  <1>1. \A k \in Settings :
              /\ \/ Filled(values, old)[k] \in Bottom[k] .. Highest[k]
                 \/ k = "DoubleClickAction" /\ Filled(values, old)[k] = Unchecked
              /\ IsValid(k, values[k]) => Filled(values, old)[k] = values[k]
    BY FilledValue
  <1>2. \A k \in Settings : Filled(values, old)[k] \in Int \union {Unchecked}
    <2> TAKE k \in Settings
    <2>1. Bottom[k] .. Highest[k] \subseteq Int
      BY Bounds
    <2> QED BY <1>1, <2>1
  <1>3. Filled(values, old) = [k \in Settings |-> Filled(values, old)[k]]
    BY DEF Filled
  <1> QED BY <1>1, <1>2, <1>3

(* What the setters leave, setting by setting.                             *)
LEMMA AppliedType ==
  ASSUME ConfigsTypeOK, WidgetsInRange, NEW k \in Settings
  PROVE  /\ Applied[k] \in Int
         /\ k \in Unsigned => Applied[k] \in 0 .. ULong - 1
         /\ k # "DoubleClickAction" =>
              /\ widgets[k] \in Bottom[k] .. Highest[k]
              /\ Applied[k] = widgets[k] \/ widgets[k] \in 0 .. Lowest[k] - 1
              /\ IsValid(k, Applied[k]) \/ widgets[k] \in 0 .. Lowest[k] - 1
              /\ IsValid(k, settings[k]) => IsValid(k, Applied[k])
         /\ k = "DoubleClickAction" =>
              /\ ~IsValid(k, settings[k]) => Applied[k] = settings[k]
              /\ IsValid(k, settings[k]) =>
                   /\ IsValid(k, Applied[k])
                   /\ widgets[k] # Unchecked => Applied[k] = widgets[k]
  <1>1. CASE k = "DoubleClickAction"
    <2>1. Lowest[k] = 0 /\ k \notin Unsigned /\ Bottom[k] = 0
      BY <1>1 DEF Lowest, Bottom, Unsigned, Names
    <2> QED BY <1>1, <2>1, Bounds, ConfigsAssumption
            DEF Applied, Set, IsValid, ConfigsTypeOK, WidgetsInRange, ConfigsAssumption
  <1>2. CASE k # "DoubleClickAction"
    <2>1. widgets[k] \in Bottom[k] .. Highest[k] /\ widgets[k] # Unchecked
      BY <1>2, Bounds, ConfigsAssumption DEF WidgetsInRange, ConfigsAssumption
    <2>2. Applied[k] = IF widgets[k] \in Lowest[k] .. Highest[k] THEN widgets[k] ELSE settings[k]
      BY <1>2, <2>1 DEF Applied, Set, IsValid
    <2> QED BY <1>2, <2>1, <2>2, Bounds DEF IsValid, ConfigsTypeOK
  <1> QED BY <1>1, <1>2

LEMMA AppliedLoads ==
  ASSUME ConfigsTypeOK, WidgetsInRange
  PROVE  /\ Applied \in [Settings -> Int]
         /\ \A k \in Settings \cap Unsigned : Applied[k] \in 0 .. ULong - 1
         /\ Load(Applied) = Applied
  <1>1. Applied = [k \in Settings |-> Applied[k]]
    BY DEF Applied
  <1>2. \A k \in Settings : /\ Applied[k] \in Int
                            /\ k \in Unsigned => Applied[k] \in 0 .. ULong - 1
    BY AppliedType
  <1>3. \A k \in Settings : Load(Applied)[k] = Applied[k]
    <2> TAKE k \in Settings
    <2>1. Applied[k] # Absent
      BY <1>2, ConfigsAssumption DEF ConfigsAssumption
    <2>2. k \in Unsigned => Applied[k] % ULong = Applied[k]
      BY <1>2, Wraps
    <2>3. k \in Switches => Applied[k] \in {0, 1}
      BY AppliedType, Bounds
    <2> QED BY <2>1, <2>2, <2>3 DEF Load
  <1>4. Load(Applied) = [k \in Settings |-> Load(Applied)[k]]
    BY DEF Load
  <1> QED BY <1>1, <1>2, <1>3, <1>4

-----------------------------------------------------------------------------
(* A start of the program.                                                 *)
LEMMA StartInv ==
  ASSUME ini \in [Settings -> Int \union {Absent}], Started(ini)
  PROVE  ConfigsInv
  <1>1. WasFilled(NoWidgets)
    BY DEF WasFilled, NoWidgets
  <1>2. ConfigsTypeOK
    BY <1>1, LoadType, FilledWidgets DEF Started, ConfigsTypeOK
  <1>3. WidgetsInRange
    BY <1>1, LoadType, FilledWidgets DEF Started, WidgetsInRange
  <1>4. ActionShown /\ SavedComesBack /\ DialogTellsTruth
    BY DEF Started, ActionShown, SavedComesBack, DialogTellsTruth
  <1> QED BY <1>2, <1>3, <1>4 DEF ConfigsInv

LEMMA RestartInv ==
  ASSUME ConfigsInv, Restart
  PROVE  ConfigsInv'
  <1>1. WasFilled(NoWidgets)
    BY DEF WasFilled, NoWidgets
  <1>2. ini \in [Settings -> Int \union {Absent}] /\ ini' = ini
    BY DEF ConfigsInv, ConfigsTypeOK, Restart
  <1>3. ConfigsTypeOK'
    BY <1>1, <1>2, LoadType, FilledWidgets DEF Restart, ConfigsTypeOK
  <1>4. WidgetsInRange'
    BY <1>1, <1>2, LoadType, FilledWidgets DEF Restart, WidgetsInRange
  <1>5. ActionShown' /\ SavedComesBack' /\ DialogTellsTruth'
    BY <1>2 DEF Restart, ActionShown, SavedComesBack, DialogTellsTruth
  <1> QED BY <1>3, <1>4, <1>5 DEF ConfigsInv

LEMMA OldWidgets == WidgetsInRange => WasFilled(widgets)
  BY DEF WidgetsInRange, WasFilled

LEMMA ShowInv ==
  ASSUME ConfigsInv, ShowDialog
  PROVE  ConfigsInv'
  <1> USE DEF ConfigsInv
  <1>1. \A k \in Settings : IsValid(k, settings[k]) => widgets'[k] = settings[k]
    BY OldWidgets, FilledWidgets DEF ShowDialog, ConfigsTypeOK
  <1>2. ConfigsTypeOK'
    BY OldWidgets, FilledWidgets DEF ShowDialog, ConfigsTypeOK
  <1>3. WidgetsInRange'
    BY OldWidgets, FilledWidgets DEF ShowDialog, WidgetsInRange, ConfigsTypeOK
  <1>4. ActionShown'
    BY <1>1, ConfigsAssumption
       DEF ShowDialog, ActionShown, ConfigsTypeOK, ConfigsAssumption, IsValid
  <1>5. SavedComesBack' /\ DialogTellsTruth'
    BY <1>1 DEF ShowDialog, SavedComesBack, DialogTellsTruth, IsValid
  <1> QED BY <1>2, <1>3, <1>4, <1>5

LEMMA TurnInv ==
  ASSUME ConfigsInv, NEW k \in Settings, Turn(k)
  PROVE  ConfigsInv'
  <1> USE DEF ConfigsInv
  <1>1. PICK v \in Turned[k] : widgets' = [widgets EXCEPT ![k] = v]
    BY DEF Turn
  <1>2. v \in Bottom[k] .. Highest[k] /\ v \in Int /\ v # Unchecked
    BY <1>1, Bounds, ConfigsAssumption DEF ConfigsAssumption
  <1>3. ConfigsTypeOK'
    BY <1>1, <1>2 DEF Turn, ConfigsTypeOK
  <1>5. \A j \in Settings : widgets'[j] = widgets[j] \/ (j = k /\ widgets'[j] = v)
    BY <1>1 DEF ConfigsTypeOK
  <1>6. WidgetsInRange'
    BY <1>2, <1>5 DEF WidgetsInRange
  <1>7. ActionShown'
    BY <1>2, <1>5 DEF Turn, ActionShown, IsValid
  <1>4. SavedComesBack' /\ DialogTellsTruth'
    BY DEF Turn, SavedComesBack, DialogTellsTruth
  <1> QED BY <1>3, <1>4, <1>6, <1>7

LEMMA ApplyInv ==
  ASSUME ConfigsInv, settings' = Applied, widgets' = widgets,
         ClickApply \/ ClickSave
  PROVE  ConfigsInv'
  <1> USE DEF ConfigsInv
  <1>1. ConfigsTypeOK' /\ SavedComesBack'
    BY AppliedLoads DEF ClickApply, ClickSave, Saved, ConfigsTypeOK, SavedComesBack
  <1>2. WidgetsInRange'
    BY DEF WidgetsInRange
  <1>3. shown
    BY DEF ClickApply, ClickSave
  <1>4. ActionShown'
    BY <1>3, AppliedType DEF ActionShown, IsValid
  <1>5. ASSUME NEW k \in Settings, IsValid(k, Applied[k])
        PROVE  widgets[k] \in {Applied[k]} \union 0 .. Lowest[k] - 1
    BY <1>3, <1>5, AppliedType DEF ActionShown
  <1>6. DialogTellsTruth'
    BY <1>5 DEF DialogTellsTruth, IsValid
  <1> QED BY <1>1, <1>2, <1>4, <1>6

LEMMA ConfigsStep ==
  ASSUME ConfigsInv, [ConfigsNext]_configVars
  PROVE  ConfigsInv'
  <1>1. CASE ShowDialog
    BY <1>1, ShowInv
  <1>2. CASE CloseDialog
    BY <1>2 DEF CloseDialog, ConfigsInv, ConfigsTypeOK, WidgetsInRange, ActionShown,
                SavedComesBack, DialogTellsTruth
  <1>3. CASE ClickApply
    BY <1>3, ApplyInv DEF ClickApply
  <1>4. CASE ClickSave
    BY <1>4, ApplyInv DEF ClickSave
  <1>5. ASSUME NEW k \in Settings, Turn(k) PROVE ConfigsInv'
    BY <1>5, TurnInv
  <1>6. CASE Restart
    BY <1>6, RestartInv
  <1>7. CASE UNCHANGED configVars
    BY <1>7 DEF configVars, ConfigsInv, ConfigsTypeOK, WidgetsInRange, ActionShown,
                SavedComesBack, DialogTellsTruth, IsValid
  <1> QED BY <1>1, <1>2, <1>3, <1>4, <1>5, <1>6, <1>7 DEF ConfigsNext, Dialog

LEMMA ConfigsInitInv == ConfigsInit => ConfigsInv
  <1> SUFFICES ASSUME ConfigsInit PROVE ConfigsInv
    OBVIOUS
  <1>1. ini \in [Settings -> Int \union {Absent}]
    <2>1. \A k \in Settings : ini[k] \in Int \union {Absent}
      BY ConfigsAssumption DEF ConfigsInit, ConfigsAssumption
    <2> QED BY <2>1 DEF ConfigsInit
  <1> QED BY <1>1, StartInv DEF ConfigsInit

(* Whatever the first file says, the program keeps the types, the dialog   *)
(* tells the truth, and what was saved comes back.                         *)
THEOREM ConfigsInductive == ConfigsSpec => []ConfigsInv
  <1>1. ConfigsInit => ConfigsInv
    BY ConfigsInitInv
  <1>2. ConfigsInv /\ [ConfigsNext]_configVars => ConfigsInv'
    BY ConfigsStep
  <1> QED BY <1>1, <1>2, PTL DEF ConfigsSpec

(* An untouched dialog shows the settings that hold.                       *)
THEOREM DialogTrue == ConfigsSpec => []DialogTellsTruth
  <1>1. ConfigsInv => DialogTellsTruth
    BY DEF ConfigsInv
  <1> QED BY <1>1, ConfigsInductive, PTL

(* What was saved is what the next start loads.                            *)
THEOREM SavedStays == ConfigsSpec => []SavedComesBack
  <1>1. ConfigsInv => SavedComesBack
    BY DEF ConfigsInv
  <1> QED BY <1>1, ConfigsInductive, PTL

(* Applying the dialog repairs every number whose widget is not at 0.      *)
THEOREM Repairs == ConfigsSpec => ApplyRepairs
  <1>1. ASSUME ConfigsInv, ClickApply \/ ClickSave
        PROVE  \A k \in Settings \ {"DoubleClickAction"} :
                 IsValid(k, settings'[k]) \/ widgets[k] \in 0 .. Lowest[k] - 1
    BY <1>1, AppliedType DEF ClickApply, ClickSave, ConfigsInv
  <1>2. ConfigsInv /\ [ConfigsNext]_configVars =>
          [ClickApply \/ ClickSave =>
             \A k \in Settings \ {"DoubleClickAction"} :
               IsValid(k, settings'[k]) \/ widgets[k] \in 0 .. Lowest[k] - 1]_configVars
    BY <1>1
  <1> QED BY <1>2, ConfigsInductive, PTL DEF ConfigsSpec, ApplyRepairs

-----------------------------------------------------------------------------
(* From a valid file.                                                      *)
ValidInv == ValidFile /\ AllValid(settings)

LEMMA ValidStep ==
  ASSUME ConfigsInv, ValidInv, [ConfigsNext]_configVars
  PROVE  ValidInv'
  <1> USE DEF ValidInv, ConfigsInv
  <1>1. \A k \in Settings : IsValid(k, Applied[k])
    BY AppliedType DEF AllValid
  <1>2. CASE ClickApply \/ ClickSave
    BY <1>1, <1>2 DEF ClickApply, ClickSave, Saved, ValidFile, AllValid, IsValid
  <1>3. CASE Restart
    <2>1. \A k \in Settings : IsValid(k, Load(ini)[k])
      BY LoadValid DEF ValidFile, ConfigsTypeOK
    <2> QED BY <1>3, <2>1 DEF Restart, ValidFile, AllValid, IsValid
  <1>4. CASE UNCHANGED <<ini, settings>>
    BY <1>4 DEF ValidFile, AllValid, IsValid
  <1> QED BY <1>2, <1>3, <1>4
          DEF ConfigsNext, Dialog, ShowDialog, CloseDialog, Turn, configVars

(* From a file with nothing out of bounds no setting ever is.              *)
THEOREM ValidStays == ConfigsSpec => StaysValid
  <1>1. ConfigsInit /\ ValidFile => ValidInv
    <2> SUFFICES ASSUME ConfigsInit, ValidFile PROVE ValidInv
      OBVIOUS
    <2>1. ini \in [Settings -> Int \union {Absent}]
      <3>1. \A k \in Settings : ini[k] \in Int \union {Absent}
        BY ConfigsAssumption DEF ConfigsInit, ConfigsAssumption
      <3> QED BY <3>1 DEF ConfigsInit
    <2>2. \A k \in Settings : IsValid(k, Load(ini)[k])
      BY <2>1, LoadValid DEF ValidFile
    <2> QED BY <2>2 DEF ConfigsInit, Started, ValidInv, AllValid
  <1>2. ConfigsInv /\ ValidInv /\ [ConfigsNext]_configVars => ValidInv'
    BY ValidStep
  <1> QED BY <1>1, <1>2, ConfigsInductive, PTL DEF ConfigsSpec, StaysValid, ValidInv

-----------------------------------------------------------------------------
(* The table of the logs.                                                  *)

\* In the handler, the row not yet in the table.
Entering == {t \in Threads : hpc[t] \in {"lock", "append", "insert"}}

(* Who may be where; the number of rows that a thread has read is right    *)
(* until it inserts its own.                                               *)
HandlerInv ==
  \A t \in Threads :
    /\ t \in Appending => logMutex = t
    /\ hpc[t] = "insert" => at[t] = Len(logsModel) + 1
    /\ hpc[t] = "clear" => t = GUIThread

(* The table lacks the messages in the handler, and only those.            *)
RowsInv ==
  \A t \in Threads :
    /\ t \in Entering => msg[t].of = t /\ due[t] = RowsOf(t) \union {msg[t]}
    /\ t \notin Entering => due[t] = RowsOf(t)
    /\ \A m \in RowsOf(t) :
         m.number <= msg[t].number /\ (t \in Entering => m.number < msg[t].number)

OrderInv ==
  \A r, s \in 1 .. Len(logsModel) :
    r < s /\ logsModel[r].of = logsModel[s].of => logsModel[r].number < logsModel[s].number

TableInv == HandlerInv /\ RowsInv /\ OrderInv

\* From the moment when the table is torn nothing is promised.
LogsInv == ConfigsInv /\ LogsTypeOK /\ (torn \/ TableInv)

-----------------------------------------------------------------------------
(* The rows of an empty table, and of one with a row more.                 *)
LEMMA NoRows ==
  ASSUME logsModel = <<>>, NEW t
  PROVE  RowsOf(t) = {}
BY DEF RowsOf, ToSet

LEMMA OneRowMore ==
  ASSUME logsModel \in Seq(Message), NEW m \in Message,
         logsModel' = Append(logsModel, m), NEW t
  PROVE  RowsOf(t)' = RowsOf(t) \union {x \in {m} : x.of = t}
<1>1. /\ Len(logsModel) \in Nat /\ Len(logsModel') = Len(logsModel) + 1
      /\ DOMAIN logsModel = 1 .. Len(logsModel) /\ DOMAIN logsModel' = 1 .. Len(logsModel')
      /\ \A k \in 1 .. Len(logsModel) : logsModel'[k] = logsModel[k]
      /\ logsModel'[Len(logsModel) + 1] = m
  OBVIOUS
<1>2. ToSet(logsModel)' = ToSet(logsModel) \union {m}
  BY <1>1 DEF ToSet
<1> QED BY <1>2 DEF RowsOf

LEMMA RowsTyped ==
  ASSUME logsModel \in Seq(Message), NEW t
  PROVE  RowsOf(t) \subseteq Message
BY DEF RowsOf, ToSet

LEMMA NoRowsNext ==
  ASSUME logsModel' = <<>>, NEW t
  PROVE  RowsOf(t)' = {}
BY DEF RowsOf, ToSet

(* The row is inserted at the end that was read.                           *)
LEMMA RowAppended ==
  ASSUME LogsInv, ~torn, NEW t \in Threads, InsertRow(t)
  PROVE  logsModel' = Append(logsModel, msg[t])
<1>1. logsModel \in Seq(Message) /\ at[t] = Len(logsModel) + 1
  BY DEF LogsInv, LogsTypeOK, TableInv, HandlerInv, InsertRow
<1>2. logsModel' = [r \in 1 .. at[t] |-> IF r = at[t] THEN msg[t] ELSE logsModel[r]]
  BY DEF InsertRow
<1> QED BY <1>1, <1>2

(* A level that is a setting counts the messages it shows.                 *)
LEMMA DueIsShown ==
  ASSUME ConfigsInv, NEW level \in Levels
  PROVE  Due(level) <=> PrintToLogsTable(level)
<1>1. /\ settings["LogLevel"] \in Int /\ Critical \in Nat
      /\ level \in Int /\ level <= Critical
  BY LogsAssumption, ConfigsAssumption
     DEF LogsAssumption, ConfigsAssumption, ConfigsInv, ConfigsTypeOK, Levels, Critical
<1> QED BY <1>1 DEF Due, PrintToLogsTable

(* The logs leave the settings to the dialog.                              *)
LEMMA LogsConfigs == [LogsNext]_logAll => [ConfigsNext]_configVars
BY DEF LogsNext, Boot, Clear, SetHeader, EditSettings, Again, Log, Handle, Lock, AppendLog,
       InsertRow, Unlock, ConfigsNext, logAll

-----------------------------------------------------------------------------
LEMMA EmptyTable ==
  ASSUME hpc = [t \in Threads |-> "idle"], msg = [t \in Threads |-> NoMsg],
         logsModel = <<>>, due = [t \in Threads |-> {}]
  PROVE  TableInv
<1>1. HandlerInv
  BY DEF HandlerInv, Appending
<1>2. RowsInv
  BY NoRows DEF RowsInv, Entering
<1>3. Len(logsModel) = 0
  OBVIOUS
<1>4. OrderInv
  BY <1>3 DEF OrderInv
<1> QED BY <1>1, <1>2, <1>4 DEF TableInv

LEMMA NoMsgType == NoMsg \in Message
BY LogsAssumption, ConfigsAssumption
   DEF LogsAssumption, ConfigsAssumption, NoMsg, Message, Levels, Critical

LEMMA LogsInitInv == LogsInit => LogsInv
<1> SUFFICES ASSUME LogsInit PROVE LogsInv
  OBVIOUS
<1>1. ConfigsInv
  BY ConfigsInitInv DEF LogsInit
<1>2. TableInv
  BY EmptyTable DEF LogsInit, NewTable
<1>3. LogsTypeOK
  <2>1. ConfigsTypeOK
    BY <1>1 DEF ConfigsInv
  <2>2. msg \in [Threads -> Message] /\ due \in [Threads -> SUBSET Message]
    BY NoMsgType DEF LogsInit, NewTable
  <2>3. logsModel \in Seq(Message)
    BY DEF LogsInit, NewTable
  <2> QED BY <2>1, <2>2, <2>3 DEF LogsInit, NewTable, LogsTypeOK
<1> QED BY <1>1, <1>2, <1>3 DEF LogsInv

-----------------------------------------------------------------------------
(* The types.                                                              *)
LEMMA LogsType ==
  ASSUME LogsInv, ~torn, ConfigsInv', LogsNext
  PROVE  LogsTypeOK'
<1> USE DEF LogsInv, LogsTypeOK
<1>1. ConfigsTypeOK'
  BY DEF ConfigsInv
<1>2. CASE Boot \/ SetHeader \/ EditSettings
  BY <1>1, <1>2 DEF Boot, SetHeader, EditSettings, logVars, handlerVars
<1>3. CASE Clear
  <2>1. <<>> \in Seq(Message)
    OBVIOUS
  <2>2. due' \in [Threads -> SUBSET Message]
    BY <1>3 DEF Clear
  <2> QED BY <1>1, <1>3, <2>1, <2>2 DEF Clear
<1>4. CASE Again
  <2>1. <<>> \in Seq(Message)
    OBVIOUS
  <2>2. msg' \in [Threads -> Message] /\ due' \in [Threads -> SUBSET Message]
    BY <1>4, NoMsgType DEF Again
  <2> QED BY <1>1, <1>4, <2>1, <2>2 DEF Again
<1>5. ASSUME NEW t \in Threads, Log(t) PROVE LogsTypeOK'
  <2>1. PICK level \in Levels :
          LET m == [of |-> t, number |-> msg[t].number + 1, level |-> level]
          IN /\ msg' = [msg EXCEPT ![t] = m]
             /\ hpc' = [hpc EXCEPT ![t] = IF PrintToLogsTable(level) THEN "lock" ELSE "idle"]
             /\ due' = IF Due(level) THEN [due EXCEPT ![t] = @ \union {m}] ELSE due
    BY <1>5 DEF Log
  <2>2. [of |-> t, number |-> msg[t].number + 1, level |-> level] \in Message
    BY DEF Message
  <2>3. msg' \in [Threads -> Message] /\ due' \in [Threads -> SUBSET Message]
    BY <2>1, <2>2
  <2> QED BY <1>1, <1>5, <2>1, <2>3 DEF Log
<1>6. ASSUME NEW t \in Threads, Lock(t) \/ AppendLog(t) \/ Unlock(t) PROVE LogsTypeOK'
  <2>1. Len(logsModel) + 1 \in Nat
    OBVIOUS
  <2>2. CASE Lock(t)
    BY <1>1, <2>2 DEF Lock
  <2>3. CASE AppendLog(t)
    BY <1>1, <2>1, <2>3 DEF AppendLog
  <2>4. CASE Unlock(t)
    BY <1>1, <2>4 DEF Unlock
  <2> QED BY <1>6, <2>2, <2>3, <2>4
<1>7. ASSUME NEW t \in Threads, InsertRow(t) PROVE LogsTypeOK'
  <2>1. logsModel' = Append(logsModel, msg[t])
    BY <1>7, RowAppended
  <2>2. logsModel' \in Seq(Message)
    BY <2>1
  <2> QED BY <1>1, <1>7, <2>2 DEF InsertRow
<1> QED BY <1>2, <1>3, <1>4, <1>5, <1>6, <1>7 DEF LogsNext, Handle

-----------------------------------------------------------------------------
(* The table.                                                              *)

LEMMA LogTable ==
  ASSUME LogsInv, ~torn, NEW t \in Threads, Log(t)
  PROVE  TableInv'
<1> USE DEF LogsInv, LogsTypeOK, TableInv
<1>1. PICK level \in Levels :
        LET m == [of |-> t, number |-> msg[t].number + 1, level |-> level]
        IN /\ msg' = [msg EXCEPT ![t] = m]
           /\ hpc' = [hpc EXCEPT ![t] = IF PrintToLogsTable(level) THEN "lock" ELSE "idle"]
           /\ due' = IF Due(level) THEN [due EXCEPT ![t] = @ \union {m}] ELSE due
  BY DEF Log
<1> DEFINE m == [of |-> t, number |-> msg[t].number + 1, level |-> level]
<1>2. hpc[t] = "idle" /\ UNCHANGED <<at, logMutex, logsModel>>
  BY DEF Log
<1>3. /\ \A u \in Threads \ {t} : hpc'[u] = hpc[u] /\ msg'[u] = msg[u] /\ due'[u] = due[u]
      /\ msg'[t] = m /\ hpc'[t] \in {"lock", "idle"}
      /\ hpc'[t] = "lock" <=> PrintToLogsTable(level)
      /\ due'[t] = IF PrintToLogsTable(level) THEN due[t] \union {m} ELSE due[t]
  BY <1>1, DueIsShown
<1>4. HandlerInv'
  BY <1>2, <1>3 DEF HandlerInv, Appending
<1>5. RowsInv'
  <2>1. \A u : RowsOf(u)' = RowsOf(u)
    BY <1>2 DEF RowsOf
  <2>2. \A u \in Threads \ {t} : u \in Entering' <=> u \in Entering
    BY <1>3 DEF Entering
  <2>3. t \notin Entering /\ (t \in Entering' <=> PrintToLogsTable(level))
    BY <1>2, <1>3 DEF Entering
  <2>4. \A x \in RowsOf(t) : x.number \in Nat
    BY RowsTyped DEF Message
  <2>5. msg[t].number \in Nat /\ m.number = msg[t].number + 1 /\ m.of = t
    BY DEF Message
  <2>6. \A x \in RowsOf(t) : x.number < m.number
    BY <2>3, <2>4, <2>5 DEF RowsInv
  <2>7. \A x \in RowsOf(t) : x.number <= m.number
    BY <2>4, <2>5, <2>6
  <2>8. due[t] = RowsOf(t)
    BY <2>3 DEF RowsInv
  <2> QED BY <1>3, <2>1, <2>2, <2>3, <2>5, <2>6, <2>7, <2>8 DEF RowsInv
<1>6. OrderInv'
  BY <1>2 DEF OrderInv
<1> QED BY <1>4, <1>5, <1>6

LEMMA InsertTable ==
  ASSUME LogsInv, ~torn, NEW t \in Threads, InsertRow(t)
  PROVE  TableInv'
<1> USE DEF LogsInv, LogsTypeOK, TableInv
<1>1. /\ logsModel' = Append(logsModel, msg[t]) /\ msg[t] \in Message
      /\ hpc[t] = "insert" /\ hpc' = [hpc EXCEPT ![t] = "unlock"]
      /\ at' = [at EXCEPT ![t] = 0]
      /\ UNCHANGED <<msg, logMutex, due>>
  BY RowAppended DEF InsertRow
<1>2. t \in Entering /\ t \in Appending /\ t \notin Entering'
  BY <1>1 DEF Entering, Appending
<1>3. \A u \in Threads \ {t} : hpc'[u] = hpc[u] /\ (u \in Entering' <=> u \in Entering)
  BY <1>1 DEF Entering
<1>4. logMutex = t
  BY <1>2 DEF HandlerInv
<1>5. HandlerInv'
  <2>1. \A u \in Threads \ {t} : u \notin Appending
    BY <1>4 DEF HandlerInv
  <2>2. \A u \in Threads \ {t} : u \notin Appending' /\ hpc'[u] # "insert"
    BY <1>3, <2>1 DEF Appending
  <2> QED BY <1>1, <1>3, <1>4, <2>2 DEF HandlerInv
<1>6. msg[t].of = t /\ due[t] = RowsOf(t) \union {msg[t]}
  BY <1>2 DEF RowsInv
<1>7. \A u : RowsOf(u)' = RowsOf(u) \union {x \in {msg[t]} : x.of = u}
  BY <1>1, OneRowMore
<1>8. RowsOf(t)' = RowsOf(t) \union {msg[t]} /\ \A u \in Threads \ {t} : RowsOf(u)' = RowsOf(u)
  BY <1>6, <1>7
<1>9. RowsInv'
  <2> SUFFICES ASSUME NEW u \in Threads
               PROVE  /\ u \in Entering' => msg[u].of = u /\ due[u] = RowsOf(u)' \union {msg[u]}
                      /\ u \notin Entering' => due[u] = RowsOf(u)'
                      /\ \A x \in RowsOf(u)' :
                           /\ x.number <= msg[u].number
                           /\ u \in Entering' => x.number < msg[u].number
    BY <1>1 DEF RowsInv
  <2>1. CASE u = t
    <3>1. \A x \in RowsOf(t) : x.number <= msg[t].number
      BY DEF RowsInv
    <3>2. msg[t].number <= msg[t].number
      BY <1>1 DEF Message
    <3> QED BY <1>2, <1>6, <1>8, <2>1, <3>1, <3>2
  <2>2. CASE u # t
    BY <1>3, <1>8, <2>2 DEF RowsInv
  <2> QED BY <2>1, <2>2
<1>10. OrderInv'
  <2> DEFINE n == Len(logsModel) + 1
  <2>1. /\ Len(logsModel) \in Nat /\ Len(logsModel') = n
        /\ \A k \in 1 .. Len(logsModel) : logsModel'[k] = logsModel[k]
        /\ logsModel'[n] = msg[t]
    BY <1>1
  <2>2. \A k \in 1 .. Len(logsModel) :
          logsModel[k].of = t => logsModel[k].number < msg[t].number
    <3>1. \A k \in 1 .. Len(logsModel) : logsModel[k].of = t => logsModel[k] \in RowsOf(t)
      BY DEF RowsOf, ToSet
    <3> QED BY <1>2, <3>1 DEF RowsInv
  <2> SUFFICES ASSUME NEW r \in 1 .. n, NEW s \in 1 .. n, r < s,
                      logsModel'[r].of = logsModel'[s].of
               PROVE  logsModel'[r].number < logsModel'[s].number
    BY <2>1 DEF OrderInv
  <2>3. r \in 1 .. Len(logsModel)
    BY <2>1
  <2>4. CASE s = n
    BY <1>6, <2>1, <2>2, <2>3, <2>4
  <2>5. CASE s \in 1 .. Len(logsModel)
    BY <2>1, <2>3, <2>5 DEF OrderInv
  <2> QED BY <2>1, <2>4, <2>5
<1> QED BY <1>5, <1>9, <1>10

(* The mutex lets one thread append at a time.                             *)
LEMMA LockTable ==
  ASSUME LogsInv, ~torn, NEW t \in Threads, Lock(t) \/ AppendLog(t) \/ Unlock(t)
  PROVE  TableInv'
<1> USE DEF LogsInv, LogsTypeOK, TableInv
<1>1. UNCHANGED <<msg, logsModel, due>>
  BY DEF Lock, AppendLog, Unlock
<1>2. \A u \in Threads : u \in Entering' <=> u \in Entering
  BY DEF Lock, AppendLog, Unlock, Entering
<1>3. RowsInv' /\ OrderInv'
  BY <1>1, <1>2 DEF RowsInv, OrderInv, RowsOf
<1>4. HandlerInv'
  <2>1. CASE Lock(t)
    <3>1. logMutex = Nobody
      BY <2>1 DEF Lock
    <3>2. \A u \in Threads : u \notin Appending
      BY <3>1, LogsAssumption DEF LogsAssumption, HandlerInv
    <3> QED BY <2>1, <3>2 DEF Lock, HandlerInv, Appending
  <2>2. CASE AppendLog(t)
    BY <2>2 DEF AppendLog, HandlerInv, Appending
  <2>3. CASE Unlock(t)
    <3>1. \A u \in Threads \ {t} : u \notin Appending
      BY <2>3 DEF Unlock, HandlerInv, Appending
    <3> QED BY <2>3, <3>1 DEF Unlock, HandlerInv, Appending
  <2> QED BY <2>1, <2>2, <2>3
<1> QED BY <1>3, <1>4

(* Unless it tears the table, a clear leaves what waits for the mutex.     *)
LEMMA ClearTable ==
  ASSUME LogsInv, ~torn, Clear
  PROVE  torn' \/ TableInv'
<1> USE DEF LogsInv, LogsTypeOK, TableInv
<1> SUFFICES ASSUME Appending = {} PROVE TableInv'
  BY DEF Clear
<1>1. /\ hpc[GUIThread] = "idle" /\ hpc' = [hpc EXCEPT ![GUIThread] = "clear"]
      /\ logsModel' = <<>> /\ UNCHANGED <<msg, at, logMutex>>
      /\ \A t \in Threads : due'[t] = IF hpc[t] = "idle" THEN {} ELSE {msg[t]}
      /\ GUIThread \in Threads
  BY LogsAssumption DEF LogsAssumption, Clear
<1>2. \A t \in Threads : t \notin Appending /\ t \notin Appending'
  BY <1>1 DEF Appending
<1>3. \A t \in Threads : t \in Entering' <=> hpc[t] = "lock"
  BY <1>1, <1>2 DEF Appending, Entering
<1>4. \A t \in Threads : hpc[t] \in {"idle", "lock", "clear"}
  BY <1>2 DEF Appending
<1>5. \A t \in Threads : hpc[t] # "clear"
  BY <1>1 DEF HandlerInv
<1>6. \A t : RowsOf(t)' = {}
  BY <1>1, NoRowsNext
<1>7. RowsInv'
  BY <1>1, <1>3, <1>4, <1>5, <1>6 DEF RowsInv, Entering
<1>8. HandlerInv'
  BY <1>1, <1>2, <1>5 DEF HandlerInv, Appending
<1>9. OrderInv'
  <2>1. Len(logsModel') = 0
    BY <1>1
  <2> QED BY <2>1 DEF OrderInv
<1> QED BY <1>7, <1>8, <1>9

-----------------------------------------------------------------------------
LEMMA LogsNextInv == LogsInv /\ [LogsNext]_logAll => LogsInv'
<1> SUFFICES ASSUME LogsInv, [LogsNext]_logAll PROVE LogsInv'
  OBVIOUS
<1>1. ConfigsInv'
  BY LogsConfigs, ConfigsStep DEF LogsInv
<1>2. CASE UNCHANGED logAll
  <2>1. UNCHANGED <<settings, hpc, msg, at, logMutex, logsModel, handler, torn, due>>
    BY <1>2 DEF logAll, configVars, logVars, handlerVars
  <2>2. LogsTypeOK'
    BY <1>1, <2>1 DEF LogsInv, LogsTypeOK, ConfigsInv
  <2>3. TableInv => TableInv'
    BY <2>1 DEF TableInv, HandlerInv, RowsInv, OrderInv, Entering, Appending, RowsOf
  <2> QED BY <1>1, <2>1, <2>2, <2>3 DEF LogsInv
<1>3. CASE LogsNext
  <2>1. ~torn
    BY <1>3 DEF LogsNext
  <2>2. LogsTypeOK'
    BY <1>1, <1>3, <2>1, LogsType
  <2>3. ASSUME Boot \/ EditSettings PROVE TableInv'
    BY <2>1, <2>3 DEF Boot, EditSettings, logVars, handlerVars, LogsInv, TableInv, HandlerInv,
                RowsInv, OrderInv, Entering, Appending, RowsOf
  <2>4. ASSUME SetHeader PROVE TableInv'
    <3>1. /\ hpc[GUIThread] = "clear" /\ hpc' = [hpc EXCEPT ![GUIThread] = "idle"]
          /\ UNCHANGED <<msg, at, logMutex, logsModel, due>>
          /\ hpc \in [Threads -> {"idle", "lock", "append", "insert", "unlock", "clear"}]
      BY <2>4 DEF SetHeader, Clearing, LogsInv, LogsTypeOK
    <3>2. \A t \in Threads : /\ t \in Entering' <=> t \in Entering
                             /\ t \in Appending' <=> t \in Appending
                             /\ hpc'[t] \in {hpc[t], "idle"}
      BY <3>1 DEF Entering, Appending
    <3>3. TableInv
      BY <2>1 DEF LogsInv
    <3>4. RowsInv' /\ OrderInv'
      BY <3>1, <3>2, <3>3 DEF TableInv, RowsInv, OrderInv, RowsOf
    <3>5. HandlerInv'
      BY <3>1, <3>2, <3>3 DEF TableInv, HandlerInv
    <3> QED BY <3>4, <3>5 DEF TableInv
  <2>5. ASSUME Clear PROVE torn' \/ TableInv'
    BY <2>1, <2>5, ClearTable
  <2>6. ASSUME Again PROVE TableInv'
    <3>1. /\ hpc' = [t \in Threads |-> "idle"] /\ msg' = [t \in Threads |-> NoMsg]
          /\ logsModel' = <<>> /\ due' = [t \in Threads |-> {}]
      BY <2>6 DEF Again
    <3>2. HandlerInv'
      BY <3>1 DEF HandlerInv, Appending
    <3>3. RowsInv'
      BY <3>1, NoRowsNext DEF RowsInv, Entering
    <3>4. Len(logsModel') = 0
      BY <3>1
    <3>5. OrderInv'
      BY <3>4 DEF OrderInv
    <3> QED BY <3>2, <3>3, <3>5 DEF TableInv
  <2>7. ASSUME NEW t \in Threads, Log(t) \/ Handle(t) PROVE TableInv'
    BY <2>1, <2>7, LogTable, LockTable, InsertTable DEF Handle
  <2>8. torn' \/ TableInv'
    BY <1>3, <2>1, <2>3, <2>4, <2>5, <2>6, <2>7 DEF LogsNext, LogsInv
  <2> QED BY <1>1, <2>2, <2>8 DEF LogsInv
<1> QED BY <1>2, <1>3

(* The types, and what is in the table until it is torn, hold of every     *)
(* behaviour.                                                              *)
THEOREM LogsInductive == LogsSpec => []LogsInv
<1>1. LogsInit => LogsInv
  BY LogsInitInv
<1>2. LogsInv /\ [LogsNext]_logAll => LogsInv'
  BY LogsNextInv
<1> QED BY <1>1, <1>2, PTL DEF LogsSpec

(* Every variable of the handler, the table and the settings keeps its     *)
(* type.                                                                   *)
THEOREM LogsTyped == LogsSpec => []LogsTypeOK
<1>1. LogsInv => LogsTypeOK
  BY DEF LogsInv
<1> QED BY <1>1, LogsInductive, PTL

(* What is proved of the settings alone holds when threads log meanwhile:  *)
(* the logs read the level and write nothing.                              *)
THEOREM LogsKeepConfigs == LogsSpec => ConfigsSpec
<1>1. LogsInit => ConfigsInit
  BY DEF LogsInit
<1>2. [LogsNext]_logAll => [ConfigsNext]_configVars
  BY LogsConfigs
<1> QED BY <1>1, <1>2, PTL DEF LogsSpec, ConfigsSpec

-----------------------------------------------------------------------------
(* A user who clears the table only while nobody logs.                     *)

ClearInv == ~torn /\ (Clearing => \A t \in Threads \ {GUIThread} : hpc[t] = "idle")

LEMMA NextClear ==
  ASSUME ~ClearAnyTime, LogsInv, ClearInv, [LogsNext]_logAll
  PROVE  ClearInv'
<1> USE DEF ClearInv, Clearing
<1>1. hpc \in [Threads -> {"idle", "lock", "append", "insert", "unlock", "clear"}]
      /\ GUIThread \in Threads
  BY LogsAssumption DEF LogsAssumption, LogsInv, LogsTypeOK
<1>2. CASE Boot \/ EditSettings \/ UNCHANGED logAll
  BY <1>2 DEF Boot, EditSettings, logAll, logVars, handlerVars
<1>3. CASE Clear
  <2>1. \A t \in Threads : hpc[t] = "idle"
    BY <1>3 DEF Clear
  <2>2. ~torn'
    BY <1>3, <2>1 DEF Clear, Appending
  <2> QED BY <1>1, <1>3, <2>1, <2>2 DEF Clear
<1>4. CASE SetHeader \/ Again
  BY <1>1, <1>4 DEF SetHeader, Again
<1>5. ASSUME NEW t \in Threads, Log(t) PROVE ClearInv'
  <2>1. ~Clearing /\ hpc[t] = "idle" /\ UNCHANGED torn
    BY <1>5 DEF Log, Undisturbed
  <2>2. \A u \in Threads : hpc'[u] = "clear" => hpc[u] = "clear"
    BY <1>1, <1>5 DEF Log
  <2> QED BY <1>1, <2>1, <2>2
<1>6. ASSUME NEW t \in Threads, Handle(t) PROVE ClearInv'
  <2>1. hpc[t] \notin {"idle", "clear"} /\ \E pc \in {"append", "insert", "unlock", "idle"} :
                                             hpc' = [hpc EXCEPT ![t] = pc]
    BY <1>6 DEF Handle, Lock, AppendLog, InsertRow, Unlock
  <2>2. ~Clearing
    BY <1>1, <2>1
  <2>3. ~torn'
    BY <1>6, <2>2 DEF Handle, Lock, AppendLog, InsertRow, Unlock
  <2> QED BY <1>1, <2>1, <2>2, <2>3
<1> QED BY <1>2, <1>3, <1>4, <1>5, <1>6 DEF LogsNext

(* The comment on the mutex is right for such a user: nobody else writes   *)
(* to the table while a thread appends to it.                              *)
THEOREM WritesApart ==
  ASSUME ~ClearAnyTime
  PROVE  LogsSpec => []OneWriter
<1>1. LogsInit => ClearInv
  BY LogsAssumption DEF LogsAssumption, LogsInit, NewTable, ClearInv, Clearing
<1>2. LogsInv /\ ClearInv /\ [LogsNext]_logAll => ClearInv'
  BY NextClear
<1>3. ClearInv => OneWriter
  BY DEF ClearInv, OneWriter
<1> QED BY <1>1, <1>2, <1>3, LogsInductive, PTL DEF LogsSpec

(* Every message at or above the level is in the table once and in the     *)
(* order of its thread, and nothing else is.                               *)
THEOREM LogsComplete ==
  ASSUME ~ClearAnyTime
  PROVE  LogsSpec => []NothingLost
<1>1. LogsInv /\ OneWriter => NothingLost
  <2> SUFFICES ASSUME LogsInv, ~torn PROVE NothingLost
    BY DEF OneWriter
  <2>1. DOMAIN logsModel = 1 .. Len(logsModel)
    BY DEF LogsInv, LogsTypeOK
  <2>2. \A t \in Threads : hpc[t] \in {"idle", "unlock"} => RowsOf(t) = due[t]
    BY DEF LogsInv, TableInv, RowsInv, Entering
  <2> QED BY <2>1, <2>2 DEF LogsInv, TableInv, OrderInv, NothingLost
<1> QED BY <1>1, LogsInductive, WritesApart, PTL
=============================================================================
