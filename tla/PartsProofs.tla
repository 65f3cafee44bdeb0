---------------------------- MODULE PartsProofs ----------------------------
(* The parts that MCParts composes.  Whichever is chosen, each of them is  *)
(* in a behaviour of its own specification, so that what was proved of it  *)
(* alone holds of the parts together, for every value of the constants.    *)
EXTENDS MCParts, ContentProofs, UpdateProofs, ServerProofs, TLAPS

LEMMA PartsBegin ==
  PartsInit =>
    /\ ClassbookInit /\ GamesInit /\ DbFileInit /\ LinksInit /\ LeaksInit /\ EventsInit
    /\ AccountsInit /\ LocationsInit /\ StorageInit /\ StartInit /\ ConnectionsInit /\ FilesInit
    /\ SettingsInit
BY DEF PartsInit

(* A step of the parts is one of the chosen part, and leaves every other   *)
(* where it is.                                                            *)
LEMMA ContentGoesOn ==
  ASSUME [PartsNext]_partsVars
  PROVE  [ClassbookNext]_classbookVars /\ [GamesNext]_gamesVars
<1>1. [ClassbookNext]_classbookVars
  BY DEF PartsNext, OthersStay, Stays, partsVars
<1>2. [GamesNext]_gamesVars
  BY DEF PartsNext, OthersStay, Stays, partsVars
<1>. QED BY <1>1, <1>2

LEMMA DatabasesGoOn ==
  ASSUME [PartsNext]_partsVars
  PROVE  /\ [DbFileNext]_dbFileVars /\ [StorageNext]_storageVars
         /\ [ConnectionsNext]_connectionVars /\ [SettingsNext]_settingsVars
<1>1. [DbFileNext]_dbFileVars
  BY DEF PartsNext, OthersStay, Stays, partsVars
<1>2. [StorageNext]_storageVars
  BY DEF PartsNext, OthersStay, Stays, partsVars
<1>3. [ConnectionsNext]_connectionVars
  BY DEF PartsNext, OthersStay, Stays, partsVars
<1>4. [SettingsNext]_settingsVars
  BY DEF PartsNext, OthersStay, Stays, partsVars
<1>. QED BY <1>1, <1>2, <1>3, <1>4

LEMMA CommandsGoOn ==
  ASSUME [PartsNext]_partsVars
  PROVE  /\ [LinksNext]_linksVars /\ [LeaksNext]_leaksVars /\ [EventsNext]_eventsVars
         /\ [AccountsNext]_accountsVars /\ [FilesNext]_filesVars
<1>1. [LinksNext]_linksVars
  BY DEF PartsNext, OthersStay, Stays, partsVars
<1>2. [LeaksNext]_leaksVars
  BY DEF PartsNext, OthersStay, Stays, partsVars
<1>3. [EventsNext]_eventsVars
  BY DEF PartsNext, OthersStay, Stays, partsVars
<1>4. [AccountsNext]_accountsVars
  BY DEF PartsNext, OthersStay, Stays, partsVars
<1>5. [FilesNext]_filesVars
  BY DEF PartsNext, OthersStay, Stays, partsVars
<1>. QED BY <1>1, <1>2, <1>3, <1>4, <1>5

LEMMA ProcessGoesOn ==
  ASSUME [PartsNext]_partsVars
  PROVE  [LocationsNext]_locationsVars /\ [StartNext]_startVars
<1>1. [LocationsNext]_locationsVars
  BY DEF PartsNext, OthersStay, Stays, partsVars
<1>2. [StartNext]_startVars
  BY DEF PartsNext, OthersStay, Stays, partsVars
<1>. QED BY <1>1, <1>2

(* The composition behaves as each of its parts: none shares state with    *)
(* another, so what is checked of a part beside the others is what it does *)
(* alone.                                                                  *)
THEOREM PartsBehave ==
  PartsSpec =>
    /\ ClassbookSpec /\ GamesSpec /\ DbFileSpec /\ LinksSpec /\ LeaksSpec /\ EventsSpec
    /\ AccountsSpec /\ LocationsSpec /\ StorageSpec /\ StartSpec /\ ConnectionsSpec /\ FilesSpec
    /\ SettingsSpec
BY PartsBegin, ContentGoesOn, DatabasesGoOn, CommandsGoOn, ProcessGoesOn, PTL
DEF PartsSpec, ClassbookSpec, GamesSpec, DbFileSpec, LinksSpec, LeaksSpec, EventsSpec, AccountsSpec,
    LocationsSpec, StorageSpec, StartSpec, ConnectionsSpec, FilesSpec, SettingsSpec
-----------------------------------------------------------------------------
LEMMA DbFileTypesHold == DbFileSpec => []DbFileTypeOK
<1>1. BackupInv => DbFileTypeOK
  BY DEF BackupInv
<1>. QED BY <1>1, BackupsHold, PTL

LEMMA SettingsTypesHold == SettingsSpec => []SettingsTypeOK
<1>1. SettingInv => SettingsTypeOK
  BY DEF SettingInv
<1>. QED BY <1>1, SettingsInitInv, SettingsStep, PTL DEF SettingsSpec

(* Every part keeps its types beside the others.                           *)
THEOREM PartsTypesHold == PartsSpec => []PartsTypeOK
<1>1. /\ ClassbookTypeOK /\ GamesTypeOK /\ DbFileTypeOK /\ LinksTypeOK /\ LeaksTypeOK /\ EventsTypeOK
      /\ AccountsTypeOK /\ LocationsTypeOK /\ StorageTypeOK /\ StartTypeOK /\ ConnectionsTypeOK
      /\ FilesTypeOK /\ SettingsTypeOK
      => PartsTypeOK
  BY DEF PartsTypeOK
<1>. QED BY <1>1, PartsBehave, ClassbookTypesHold, GamesTypesHold, DbFileTypesHold, LinksTypesHold,
            LeaksTypesHold, EventsTypesHold, AccountsTypesHold, LocationsTypesHold, StorageTypesHold,
            StartTypesHold, ConnectionsTypesHold, FilesTypesHold, SettingsTypesHold, PTL

(* And what was proved of each alone.                                      *)
THEOREM PartsAreTrue ==
  PartsSpec =>
    /\ [](ParentExists /\ RowsTrue /\ PathIsAncestors /\ CacheTrue)
    /\ [](FileUpdated /\ BackedUpFirst /\ SchemaKept /\ ConnectionsKept /\ SettingsKept)
    /\ [](LinkColumnsTrue /\ LeaksBooksTrue /\ EventsNamed /\ MailedPasswords /\ FilesTrue)
    /\ [](LocationFollowsLogins /\ LoadOrder /\ InitReachesAll)
BY PartsBehave, ParentsExist, RowsAreTrue, PathsAreAncestors, CacheIsTrue, FileIsUpdated,
   StatementsAreBackedUp, SchemasAreKept, ConnectionsWorkAnHour, SettingsAreKept, LinkColumnsAreTrue,
   BooksOfLeaks, EventsAreNamed, PasswordsAreMailed, FilesAgree, LocationsFollow, EmployeesInOrder,
   InitLoadsAll, PTL
=============================================================================
