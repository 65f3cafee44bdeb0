--------------------------- MODULE EmployeesGraph ---------------------------
(* The employees of fhq-server: the names each gives in its constructor to *)
(* be loaded after, and their order in the map, which is by name.          *)

EmployChatsAfter == {"EmployDatabase", "EmployNotify"}
EmployDatabaseAfter == {"EmployGlobalSettings"}
EmployFilesAfter == {"EmployDatabase", "EmployGlobalSettings", "EmployNotify"}
EmployGamesAfter == {"EmployDatabase", "EmployUuids", "EmployGlobalSettings", "EmployNotify"}
EmployGlobalSettingsAfter == {}
EmployImagesAfter == {}
EmployLeaksAfter == {"EmployDatabase", "EmployNotify", "EmployGames"}
EmployMailsAfter == {"EmployGlobalSettings", "EmployDatabase", "EmployNotify"}
EmployNotifyAfter == {"EmployServer", "EmployDatabase"}
EmployPublicEventsAfter == {"EmployDatabase", "EmployUuids", "EmployGlobalSettings", "EmployNotify"}
EmployQuestsAfter == {"EmployDatabase"}
EmployScoreboardAfter == {"EmployDatabase"}
EmployServerAfter == {"start_server", "EmployGlobalSettings", "EmployServerInfo"}
EmployServerInfoAfter == {"EmployDatabase"}
EmployUsersAfter == {"EmployDatabase", "EmployGlobalSettings", "EmployNotify"}
EmployUuidsAfter == {"EmployDatabase", "EmployGlobalSettings"}
EmployWebServerAfter == {"EmployDatabase", "EmployGlobalSettings", "EmployNotify"}
WJSCppEmployRuntimeGlobalCacheAfter == {}

FhqEmployees ==
  <<"EmployChats", "EmployDatabase", "EmployFiles", "EmployGames", "EmployGlobalSettings", "EmployImages",
    "EmployLeaks", "EmployMails", "EmployNotify", "EmployPublicEvents", "EmployQuests", "EmployScoreboard",
    "EmployServer", "EmployServerInfo", "EmployUsers", "EmployUuids", "EmployWebServer",
    "WJSCppEmployRuntimeGlobalCache">>

FhqAfter ==
  [EmployChats |-> EmployChatsAfter, EmployDatabase |-> EmployDatabaseAfter, EmployFiles |-> EmployFilesAfter,
   EmployGames |-> EmployGamesAfter, EmployGlobalSettings |-> EmployGlobalSettingsAfter,
   EmployImages |-> EmployImagesAfter, EmployLeaks |-> EmployLeaksAfter, EmployMails |-> EmployMailsAfter,
   EmployNotify |-> EmployNotifyAfter, EmployPublicEvents |-> EmployPublicEventsAfter,
   EmployQuests |-> EmployQuestsAfter, EmployScoreboard |-> EmployScoreboardAfter,
   EmployServer |-> EmployServerAfter, EmployServerInfo |-> EmployServerInfoAfter,
   EmployUsers |-> EmployUsersAfter, EmployUuids |-> EmployUuidsAfter, EmployWebServer |-> EmployWebServerAfter,
   WJSCppEmployRuntimeGlobalCache |-> WJSCppEmployRuntimeGlobalCacheAfter]
=============================================================================
