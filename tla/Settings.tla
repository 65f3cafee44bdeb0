------------------------------ MODULE Settings ------------------------------
(* The settings kept in the database: EmployGlobalSettings has them in     *)
(* memory, with what EmployDatabase makes of them in the table settings.   *)
(*                                                                         *)
(* The server and the commands of the command line ("cfg set", "cfg        *)
(* print") are processes with one table.  Each loads it once, inserts what *)
(* it did not find there, one statement after the other, and then changes  *)
(* memory and table together.  Nothing keeps two processes from inserting  *)
(* one name; a SELECT gives rows by their id, and of two the first counts. *)
(*                                                                         *)
(* A statement that throws ends the process, which may end anywhere: the   *)
(* refusal of an INSERT is SettingsEnd.  Settings of config.yml cannot be  *)
(* changed, are not inserted, and are left out; so are rows of other names.*)
EXTENDS Naturals, Sequences

CONSTANTS
  SettingNames,      \* those registered inDatabase, in the order of the map
  SettingKind,       \* of each: "string" (password, text, ...), "number", "boolean"
  SettingDefault,
  SettingTexts,      \* what commands may give for a value
  Numerals,          \* those that are numbers, the others not even begin with one
  SettingServers, SettingTools   \* processes

SettingProcesses == SettingServers \cup SettingTools
SettingSet == {SettingNames[k] : k \in 1..Len(SettingNames)}

(* What a setting may hold, written as convertValueToString does.          *)
ValuesOf(s) ==
  CASE SettingKind[s] = "boolean" -> {"yes", "no"}
    [] SettingKind[s] = "number" -> Numerals \cup {"0"}
    [] OTHER -> SettingTexts \cup {SettingDefault[s]}

SettingValues == UNION {ValuesOf(s) : s \in SettingSet}

ASSUME SettingsAssumption ==
  /\ SettingNames \in Seq(STRING)
  /\ \A j, k \in 1..Len(SettingNames) : SettingNames[j] = SettingNames[k] => j = k
  /\ SettingDefault \in [SettingSet -> SettingValues]
  /\ \A s \in SettingSet : SettingKind[s] \in {"string", "number", "boolean"} /\ SettingDefault[s] \in ValuesOf(s)
  /\ SettingServers \cap SettingTools = {}

VARIABLES
  settings_rows,     \* the values of the rows of each name, by id
  setting_pc,        \* of each process: "down", "fill" (initFromDatabase), "ready", "done"
  fill_at,           \* the position of its second loop
  setting_inited, setting_value,   \* m_bInited and the value of each item
  last_set,          \* auxiliary: what the last UPDATE wrote, at first the default
  parted,            \* auxiliary: settings of a process the table has another value of
  beside             \* auxiliary: two processes were in initFromDatabase at once

settingItems == <<setting_inited, setting_value>>
settingsVars == <<settings_rows, setting_pc, fill_at, settingItems, last_set, parted, beside>>

NoneInited == [s \in SettingSet |-> FALSE]

SettingsInit ==
  /\ settings_rows = [s \in SettingSet |-> <<>>]
  /\ setting_pc = [p \in SettingProcesses |-> "down"] /\ fill_at = [p \in SettingProcesses |-> 1]
  /\ setting_inited = [p \in SettingProcesses |-> NoneInited]
  /\ setting_value = [p \in SettingProcesses |-> SettingDefault]
  /\ last_set = SettingDefault /\ parted = [p \in SettingProcesses |-> {}] /\ beside = FALSE
-----------------------------------------------------------------------------
IsStored(s) == settings_rows[s] # <<>>

(* loadAllSettings keeps the first row of a name.                          *)
LastRow(s) == settings_rows[s][Len(settings_rows[s])]

FirstRow(s) == Head(settings_rows[s])

(* The first loop of initFromDatabase.                                     *)
FromRow(s, text) == IF SettingKind[s] = "boolean" THEN IF text = "yes" THEN "yes" ELSE "no" ELSE text

SettingsLoad(p) ==
  /\ setting_pc[p] = "down"
  /\ setting_pc' = [setting_pc EXCEPT ![p] = "fill"] /\ fill_at' = [fill_at EXCEPT ![p] = 1]
  /\ setting_inited' = [setting_inited EXCEPT ![p] = [s \in SettingSet |-> IsStored(s)]]
  /\ setting_value' = [setting_value EXCEPT ![p] =
       [s \in SettingSet |-> IF IsStored(s) THEN FromRow(s, FirstRow(s)) ELSE SettingDefault[s]]]
  /\ parted' = [parted EXCEPT ![p] = {}]
  /\ beside' = (beside \/ \E q \in SettingProcesses : setting_pc[q] = "fill")
  /\ UNCHANGED <<settings_rows, last_set>>

(* The second loop: an item without a row is inserted with its default, of *)
(* which it is not told.                                                   *)
SettingsFill(p) ==
  /\ setting_pc[p] = "fill" /\ fill_at[p] <= Len(SettingNames)
  /\ LET s == SettingNames[fill_at[p]]
     IN settings_rows' = IF setting_inited[p][s] THEN settings_rows
                         ELSE [settings_rows EXCEPT ![s] = Append(@, SettingDefault[s])]
  /\ fill_at' = [fill_at EXCEPT ![p] = fill_at[p] + 1]
  /\ UNCHANGED <<setting_pc, settingItems, last_set, parted, beside>>

SettingsReady(p) ==
  /\ setting_pc[p] = "fill" /\ fill_at[p] > Len(SettingNames)
  /\ setting_pc' = [setting_pc EXCEPT ![p] = "ready"]
  /\ UNCHANGED <<settings_rows, fill_at, settingItems, last_set, parted, beside>>

SettingsEnd(p) ==
  /\ setting_pc[p] # "down" /\ setting_pc' = [setting_pc EXCEPT ![p] = "down"]
  /\ fill_at' = [fill_at EXCEPT ![p] = 1]
  /\ setting_inited' = [setting_inited EXCEPT ![p] = NoneInited]
  /\ setting_value' = [setting_value EXCEPT ![p] = SettingDefault]
  /\ parted' = [parted EXCEPT ![p] = {}]
  /\ UNCHANGED <<settings_rows, last_set, beside>>
-----------------------------------------------------------------------------
(* What server_settings_update makes of a text: toInt gives 0 for one that *)
(* is no number, and any text but "yes" is a no.                           *)
ServerValue(s, text) ==
  CASE SettingKind[s] = "boolean" -> IF text = "yes" THEN "yes" ELSE "no"
    [] SettingKind[s] = "number" -> IF text \in Numerals THEN text ELSE "0"
    [] OTHER -> text

(* "cfg set" knows other words, and ends at one that it does not.          *)
ToolTakes(s, text) ==
  /\ SettingKind[s] = "boolean" => text \in {"true", "yes", "false", "no"}
  /\ SettingKind[s] = "number" => text \in Numerals

ToolValue(s, text) ==
  IF SettingKind[s] = "boolean" THEN IF text \in {"true", "yes"} THEN "yes" ELSE "no" ELSE text

Given(p, s, text) == IF p \in SettingTools THEN ToolValue(s, text) ELSE ServerValue(s, text)

(* update and setXValue; a tool has nothing to do after it.                *)
SetItem(p, s, v) ==
  /\ setting_inited' = [setting_inited EXCEPT ![p][s] = TRUE]
  /\ setting_value' = [setting_value EXCEPT ![p][s] = v]
  /\ setting_pc' = [setting_pc EXCEPT ![p] = IF p \in SettingTools THEN "done" ELSE "ready"]

MayUpdate(p, s, text) == setting_pc[p] = "ready" /\ (p \in SettingTools => ToolTakes(s, text))

SettingsUpdate(p, s, text) ==
  /\ MayUpdate(p, s, text)
  /\ LET v == Given(p, s, text)
     IN /\ SetItem(p, s, v)
        /\ settings_rows' = [settings_rows EXCEPT ![s] = [k \in DOMAIN @ |-> v]]
        /\ last_set' = [last_set EXCEPT ![s] = v]
  /\ parted' = [q \in SettingProcesses |-> IF q = p THEN parted[q] \ {s} ELSE parted[q] \cup {s}]
  /\ UNCHANGED <<fill_at, beside>>

(* updateSettingItem only logs a refusal, as of a value too long.          *)
SettingsUpdateRefused(p, s, text) ==
  /\ MayUpdate(p, s, text)
  /\ SetItem(p, s, Given(p, s, text))
  /\ parted' = [parted EXCEPT ![p] = parted[p] \cup {s}]
  /\ UNCHANGED <<settings_rows, fill_at, last_set, beside>>
-----------------------------------------------------------------------------
SettingsNext ==
  \E p \in SettingProcesses :
    \/ SettingsLoad(p) \/ SettingsFill(p) \/ SettingsReady(p) \/ SettingsEnd(p)
    \/ \E s \in SettingSet, text \in SettingTexts : SettingsUpdate(p, s, text) \/ SettingsUpdateRefused(p, s, text)

SettingsSpec == SettingsInit /\ [][SettingsNext]_settingsVars
-----------------------------------------------------------------------------
SettingsTypeOK ==
  /\ settings_rows \in [SettingSet -> Seq(SettingValues)]
  /\ setting_pc \in [SettingProcesses -> {"down", "fill", "ready", "done"}]
  /\ fill_at \in [SettingProcesses -> 1..(Len(SettingNames) + 1)]
  /\ setting_inited \in [SettingProcesses -> [SettingSet -> BOOLEAN]]
  /\ setting_value \in [SettingProcesses -> [SettingSet -> SettingValues]]
  /\ last_set \in [SettingSet -> SettingValues] /\ \A s \in SettingSet : last_set[s] \in ValuesOf(s)
  /\ parted \in [SettingProcesses -> SUBSET SettingSet] /\ beside \in BOOLEAN

(* The value get() gives.                                                  *)
Shown(p, s) == IF setting_inited[p][s] THEN setting_value[p][s] ELSE SettingDefault[s]

(* The next start loads of each setting what was written last, whichever   *)
(* process wrote it and though another inserted a second row after it.     *)
RestartLoadsLast == \A s \in SettingSet : IsStored(s) => FirstRow(s) = last_set[s]

(* An UPDATE finds a row: a process that may update has one of each name.  *)
ReadyHasRows == \A p \in SettingProcesses, s \in SettingSet : setting_pc[p] \in {"ready", "done"} => IsStored(s)

(* A process uses what the table has, unless an UPDATE of its own was      *)
(* refused, or another process has set the value since it was loaded.      *)
ShownIsLast ==
  \A p \in SettingProcesses, s \in SettingSet :
    setting_pc[p] # "down" /\ s \notin parted[p] => Shown(p, s) = last_set[s]

(* A name has one row when no two processes ever started together.         *)
OneRowEach == ~beside => \A s \in SettingSet : Len(settings_rows[s]) <= 1

(* Settings outlive restarts (initFromDatabase and update).                *)
SettingsKept == RestartLoadsLast /\ ReadyHasRows /\ ShownIsLast /\ OneRowEach
=============================================================================
