SPECIFICATION PartsSpec
CONSTANTS
  u1 = u1
  en = en
  ru = ru
  x = x
  y = y
  Uuids <- TheUuids
  English = en
  Langs <- TheLangs
  Texts <- TheTexts
  PathRounds = 3
  MaxArticles = 3
  MaxLocals = 2
  MaxProposals = 1
  MaxRequests = 4
  g1 = g1
  g2 = g2
  v1 = v1
  v2 = v2
  GameUuids <- TheGames
  Values <- TheValues
  NFields = 2
  FileGames <- TheFiles
  MaxGames = 2
  MaxGameFaults = 2
  Updates <- TheFileUpdates
  MaxBackup = 2
  MaxWrites = 1
  MaxFileFaults = 2
  LinkUsers = {"u", "v"}
  LinkTags = {"t"}
  MaxLinks = 2
  MaxComments = 2
  MaxLinkRequests = 5
  Buyers = {"u", "v"}
  LeakUuids = {"l", "m"}
  Prices <- TheScores
  MaxLeaks = 2
  MaxLeakRequests = 5
  EventUuids <- TheEventUuids
  AddTasks = {"t1"}
  Main = "main"
  Filler = "filler"
  OldEvents = 2
  IdOf <- TheIdOf
  MaxEvents = 3
  MaxEventFaults = 1
  Emails = {"a", "b"}
  MaxPasswords = 3
  MaxMails = 2
  MaxMailFaults = 1
  Located = {"u"}
  Addresses <- TheAddresses
  Places = {"p", "q"}
  MaxLocationTasks = 3
  MaxEdits = 1
  MaxLocationFaults = 1
  Chain <- FhqUpdates
  AdminTable = "users"
  MaxStorageFaults = 2
  Employees <- FhqEmployees
  After <- FhqAfter
  MaxStartFaults = 3
  DbThreads = {"d1", "d2"}
  Hour = 1
  MaxClock = 5
  WebThreads = {"w1", "w2"}
  MaxFiles = 2
  MaxDownloads = 3
  MaxQuestFileFaults = 2
  SettingNames <- TheSettings
  SettingKind <- TheKinds
  SettingDefault <- TheDefaults
  SettingTexts = {"yes", "465"}
  Numerals = {"465"}
  SettingServers = {"s"}
  SettingTools = {"t"}
SYMMETRY TheSymmetry
INVARIANTS
  PartsTypeOK
  ParentExists
  RowsTrue
  PathIsAncestors
  CacheTrue
  FileUpdated
  BackedUpFirst
  LinkColumnsTrue
  LeaksBooksTrue
  EventsNamed
  MailedPasswords
  LocationFollowsLogins
  SchemaKept
  LoadOrder
  InitReachesAll
  ConnectionsKept
  FilesTrue
  SettingsKept
PROPERTIES
  NewGameHasNoLogo
  OnlyOldestLost
CHECK_DEADLOCK FALSE
