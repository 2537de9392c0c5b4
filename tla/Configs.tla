------------------------------ MODULE Configs ------------------------------
(***************************************************************************)
(* The settings (configs.cpp), the dialog that edits them                  *)
(* (nyatrace_configs.cpp) and the ini file that keeps them between two     *)
(* starts of the program.  The file is text that anybody may have edited:  *)
(* what is in it when the program starts first is not restricted.          *)
(***************************************************************************)
EXTENDS Integers

CONSTANTS
  Settings,   \* the settings in play, a subset of the seven
  Highest,    \* per setting, the greatest value that is valid
  Default,    \* per setting, the value of a missing entry
  ULong,      \* the number of values of an unsigned long
  FileValues, \* per setting, the numbers an entry of the first file may hold
  Turned,     \* per setting, what the user may turn its widget to
  Absent,     \* no entry in the file
  Unchecked   \* neither radio button is checked

Names == {"LogLevel", "MaxHops", "Timeout", "ThreadInterval",
          "OpenMap", "StartTrace", "DoubleClickAction"}

\* The settings kept as unsigned long.
Unsigned == {"Timeout", "ThreadInterval"}

\* The settings that are on or off, 1 or 0.
Switches == {"OpenMap", "StartTrace"}

\* The least valid value: no zero hops, no zero milliseconds.
Lowest == [k \in Names |-> IF k \in Unsigned \union {"MaxHops"} THEN 1 ELSE 0]

\* The least value of the widget: a spin box goes down to 0 for the times.
Bottom == [k \in Names |-> IF k = "MaxHops" THEN 1 ELSE 0]

ASSUME ConfigsAssumption ==
  /\ Settings \subseteq Names
  /\ ULong \in Nat \ {0}
  /\ Highest \in [Settings -> Nat]
  /\ \A k \in Settings : Lowest[k] <= Highest[k] /\ 2 * Highest[k] < ULong
  /\ \A k \in Settings \cap Switches : Highest[k] = 1
  /\ Default \in [Settings -> Nat]
  /\ \A k \in Settings : Lowest[k] <= Default[k] /\ Default[k] <= Highest[k]
  /\ FileValues \in [Settings -> SUBSET Int]
  /\ Turned \in [Settings -> SUBSET Int]
  /\ \A k \in Settings : Turned[k] \subseteq Bottom[k] .. Highest[k]
  /\ {Absent, Unchecked} \cap Int = {}

VARIABLES
  ini,      \* the file: per setting a number or Absent
  settings, \* the members of Configs
  widgets,  \* what the widgets of the dialog show
  shown,    \* the dialog is visible
  touched,  \* history: a widget was changed since the dialog was filled
  unsaved   \* history: settings were applied since the file was read or written

configVars == <<ini, settings, widgets, shown, touched, unsaved>>

IsValid(k, v) == v \in Lowest[k] .. Highest[k]

AllValid(values) == \A k \in Settings : IsValid(k, values[k])

\* Nothing in the file is out of bounds; a missing entry is not.
ValidFile == \A k \in Settings : ini[k] = Absent \/ IsValid(k, ini[k])

-----------------------------------------------------------------------------
(* Configs.                                                                *)

\* Faulty: a missing entry reads as zero.
LoadZero(file) == [k \in Settings |-> IF file[k] = Absent THEN 0 ELSE file[k]]

\* Faulty: a negative time stays negative.
LoadSigned(file) == [k \in Settings |-> IF file[k] = Absent THEN Default[k] ELSE file[k]]

\* The constructor.  Nothing is checked; a negative time becomes a huge one,
\* and a switch is on with any number but 0.
Load(file) ==
  [k \in Settings |->
     CASE file[k] = Absent -> Default[k]
       [] file[k] # Absent /\ k \in Unsigned -> file[k] % ULong
       [] file[k] # Absent /\ k \in Switches -> IF file[k] = 0 THEN 0 ELSE 1
       [] OTHER -> file[k]]

\* The setters.  That of the double-click action looks at the old value.
Set(k, new) ==
  IF IsValid(k, IF k = "DoubleClickAction" THEN settings[k] ELSE new)
    THEN new ELSE settings[k]

\* Faulty: one value is not written.
SavedButTimeout(values) ==
  [k \in Settings |-> IF k = "Timeout" THEN ini[k] ELSE values[k]]

\* Save: every value, also one that is not valid.
Saved(values) == values

-----------------------------------------------------------------------------
(* NyaTraceConfigs.                                                        *)

\* A spin box takes an int, and shows the nearest value of its range.
AsInt(v) == IF 2 * v >= ULong THEN v - ULong ELSE v

Clamped(k, v) ==
  IF v < Bottom[k] THEN Bottom[k] ELSE IF v > Highest[k] THEN Highest[k] ELSE v

\* Faulty: the widgets have no range.
FilledAsIs(values, old) ==
  [k \in Settings |-> IF k = "DoubleClickAction" THEN old[k] ELSE values[k]]

\* initializeCurrentValue.  A radio button that is checked can only be
\* unchecked by checking the other one.
Filled(values, old) ==
  [k \in Settings |->
     IF k = "DoubleClickAction"
       THEN IF IsValid(k, values[k]) THEN values[k] ELSE old[k]
       ELSE Clamped(k, IF k \in Unsigned THEN AsInt(values[k]) ELSE values[k])]

NoWidgets == [k \in Settings |-> Unchecked]

\* Faulty: the dialog shows what it showed when it was closed.
ShowAgain ==
  /\ ~shown
  /\ shown' = TRUE
  /\ touched' = FALSE
  /\ UNCHANGED <<ini, settings, widgets, unsaved>>

\* showEvent
ShowDialog ==
  /\ ~shown
  /\ shown' = TRUE
  /\ widgets' = Filled(settings, widgets)
  /\ touched' = FALSE
  /\ UNCHANGED <<ini, settings, unsaved>>

\* The user turns a widget.
Turn(k) ==
  /\ shown
  /\ \E v \in Turned[k] : widgets' = [widgets EXCEPT ![k] = v]
  /\ touched' = TRUE
  /\ UNCHANGED <<ini, settings, shown, unsaved>>

\* The dialog is closed by its frame: nothing is applied.
CloseDialog ==
  /\ shown
  /\ shown' = FALSE
  /\ UNCHANGED <<ini, settings, widgets, touched, unsaved>>

\* Apply: every setter; with no radio button checked, to the first action.
Applied ==
  [k \in Settings |-> Set(k, IF widgets[k] = Unchecked THEN 0 ELSE widgets[k])]

\* on_btnApply_clicked
ClickApply ==
  /\ shown
  /\ settings' = Applied
  /\ touched' = FALSE
  /\ unsaved' = TRUE
  /\ UNCHANGED <<ini, widgets, shown>>

\* on_btnSave_clicked: apply, save, hide
ClickSave ==
  /\ shown
  /\ settings' = Applied
  /\ ini' = Saved(settings')
  /\ shown' = FALSE
  /\ touched' = FALSE
  /\ unsaved' = FALSE
  /\ UNCHANGED widgets

-----------------------------------------------------------------------------
\* The constructors of Configs and of NyaTraceConfigs read `file'.
Started(file) ==
  /\ settings = Load(file)
  /\ widgets = Filled(Load(file), NoWidgets)
  /\ shown = FALSE
  /\ touched = FALSE
  /\ unsaved = FALSE

ConfigsInit ==
  /\ ini \in [Settings -> (UNION {FileValues[k] : k \in Settings}) \union {Absent}]
  /\ \A k \in Settings : ini[k] \in FileValues[k] \union {Absent}
  /\ Started(ini)

\* The program is closed and started again.
Restart ==
  /\ settings' = Load(ini)
  /\ widgets' = Filled(Load(ini), NoWidgets)
  /\ shown' = FALSE
  /\ touched' = FALSE
  /\ unsaved' = FALSE
  /\ UNCHANGED ini

Dialog ==
  \/ ShowDialog \/ CloseDialog \/ ClickApply \/ ClickSave
  \/ \E k \in Settings : Turn(k)

ConfigsNext == Dialog \/ Restart

ConfigsSpec == ConfigsInit /\ [][ConfigsNext]_configVars
-----------------------------------------------------------------------------
(* Every variable has its type.                                            *)
ConfigsTypeOK ==
  /\ ini \in [Settings -> Int \union {Absent}]
  /\ settings \in [Settings -> Int]
  /\ \A k \in Settings \cap Unsigned : settings[k] \in 0 .. ULong - 1
  /\ widgets \in [Settings -> Int \union {Unchecked}]
  /\ {shown, touched, unsaved} \subseteq BOOLEAN

(* From a file with nothing out of bounds, no sequence of dialogs, saves   *)
(* and restarts leads to a setting out of bounds, in the program or in the *)
(* file.  The setter of the double-click action does not look at the new   *)
(* value: the two radio buttons alone keep it valid.                       *)
StaysValid == ValidFile => [](AllValid(settings) /\ ValidFile)

(* What an untouched dialog shows is what holds, whatever was turned and   *)
(* not applied before: for each setting that is valid, but for a time      *)
(* turned to 0, which the setter refuses and the dialog goes on showing.   *)
DialogTellsTruth ==
  shown /\ ~touched =>
    \A k \in Settings :
      IsValid(k, settings[k]) => widgets[k] \in {settings[k]} \union 0 .. Lowest[k] - 1

(* What was saved, or read, is what the next start reads, valid or not: a  *)
(* time that wrapped when it was read does not change again.               *)
SavedComesBack == ~unsaved => Load(ini) = settings

(* Whatever the file says, after the user applies the dialog the numbers   *)
(* that size arrays and bound waiting are valid, unless a widget is at 0.  *)
ApplyRepairs ==
  [][ClickApply \/ ClickSave =>
       \A k \in Settings \ {"DoubleClickAction"} :
         IsValid(k, settings'[k]) \/ widgets[k] \in 0 .. Lowest[k] - 1]_configVars
=============================================================================
