------------------------------- MODULE MCParts ------------------------------
(* The parts of the server that share no state, model-checked together: a  *)
(* behaviour is one of the part chosen in its first state, the others stay *)
(* in theirs.  Each part keeps its own specification, constants and        *)
(* properties.                                                             *)
EXTENDS Classbook, GamesCache, DbFile, UsefulLinks, Leaks, UuidEvents, Accounts, Locations,
        StorageUpdates, StorageChain, Employees, EmployeesGraph, DbConnections, QuestFiles, Settings, TLC

CONSTANTS u1, en, ru, x, y, g1, g2, v1, v2

VARIABLE part

TheUuids == {u1}
TheLangs == {en, ru}
TheTexts == {x, y}

(* Two games; one of them, and a second time, also described by a file.    *)
TheGames == {g1, g2}
TheValues == {v1, v2}
TheFiles == {[uuid |-> g1, id |-> 0, fields |-> [c \in 1..2 |-> v]] : v \in {v1, v2}}

(* Updates of the two kinds useful_links.db has: tables and columns, which *)
(* are made once, and an index.                                            *)
TheFileUpdates == [i \in 1..5 |-> [from |-> i - 1, to |-> i, once |-> i <= 4]]

TheScores == {-1, 1}

(* Of three uuids one begins with the number of a row, as one in so many   *)
(* does.                                                                   *)
TheEventUuids == {"a", "b", "c"}
TheIdOf == [v \in TheEventUuids |-> IF v = "a" THEN 1 ELSE 0]

TheAddresses == {"A", "B", "::1"}

(* The settings of the two kinds whose values are converted.               *)
TheSettings == <<"mail_allow", "mail_port">>
TheKinds == [mail_allow |-> "boolean", mail_port |-> "number"]
TheDefaults == [mail_allow |-> "yes", mail_port |-> "465"]

(* One text is as good as another, and one value of a game's field.        *)
TheSymmetry == Permutations(TheTexts) \cup Permutations(TheValues)
-----------------------------------------------------------------------------
Stays(name, variables) == part # name => UNCHANGED variables

OthersStay ==
  /\ UNCHANGED part
  /\ Stays("classbook", classbookVars)
  /\ Stays("games", gamesVars)
  /\ Stays("file", dbFileVars)
  /\ Stays("links", linksVars)
  /\ Stays("leaks", leaksVars)
  /\ Stays("events", eventsVars)
  /\ Stays("accounts", accountsVars)
  /\ Stays("locations", locationsVars)
  /\ Stays("storage", storageVars)
  /\ Stays("employees", startVars)
  /\ Stays("connections", connectionVars)
  /\ Stays("quest files", filesVars)
  /\ Stays("settings", settingsVars)

PartsInit ==
  /\ part \in {"classbook", "games", "file", "links", "leaks", "events", "accounts", "locations",
               "storage", "employees", "connections", "quest files", "settings"}
  /\ ClassbookInit /\ GamesInit /\ DbFileInit /\ LinksInit /\ LeaksInit /\ EventsInit /\ AccountsInit
  /\ LocationsInit /\ StorageInit /\ StartInit /\ ConnectionsInit /\ FilesInit
  /\ SettingsInit

PartsNext ==
  \/ part = "classbook" /\ OthersStay /\ ClassbookNext
  \/ part = "games" /\ OthersStay /\ GamesNext
  \/ part = "file" /\ OthersStay /\ DbFileNext
  \/ part = "links" /\ OthersStay /\ LinksNext
  \/ part = "leaks" /\ OthersStay /\ LeaksNext
  \/ part = "events" /\ OthersStay /\ EventsNext
  \/ part = "accounts" /\ OthersStay /\ AccountsNext
  \/ part = "locations" /\ OthersStay /\ LocationsNext
  \/ part = "storage" /\ OthersStay /\ StorageNext
  \/ part = "employees" /\ OthersStay /\ StartNext
  \/ part = "connections" /\ OthersStay /\ ConnectionsNext
  \/ part = "quest files" /\ OthersStay /\ FilesNext
  \/ part = "settings" /\ OthersStay /\ SettingsNext

partsVars ==
  <<part, classbookVars, gamesVars, dbFileVars, linksVars, leaksVars, eventsVars, accountsVars,
    locationsVars, storageVars, startVars, connectionVars, filesVars, settingsVars>>

PartsSpec == PartsInit /\ [][PartsNext]_partsVars

(* Every part keeps its types; the others are as they began.               *)
PartsTypeOK ==
  /\ part = "classbook" => ClassbookTypeOK
  /\ part = "games" => GamesTypeOK
  /\ part = "file" => DbFileTypeOK
  /\ part = "links" => LinksTypeOK
  /\ part = "leaks" => LeaksTypeOK
  /\ part = "events" => EventsTypeOK
  /\ part = "accounts" => AccountsTypeOK
  /\ part = "locations" => LocationsTypeOK
  /\ part = "storage" => StorageTypeOK
  /\ part = "employees" => StartTypeOK
  /\ part = "connections" => ConnectionsTypeOK
  /\ part = "quest files" => FilesTypeOK
  /\ part = "settings" => SettingsTypeOK
=============================================================================
