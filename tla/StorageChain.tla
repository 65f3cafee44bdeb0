---------------------------- MODULE StorageChain ----------------------------
(* The updates of the MySQL storage, in the order the program registers    *)
(* them: the table changes each is made of.  Of a table's columns only     *)
(* those some update drops or adds are kept; what a column holds is not.   *)
EXTENDS Sequences, SequencesExt

Create(table, columns) == [op |-> "create", table |-> table, drops |-> <<>>, adds |-> columns]
Modify(table, drops, adds) == [op |-> "modify", table |-> table, drops |-> drops, adds |-> adds]
DropTable(table) == [op |-> "drop", table |-> table, drops |-> <<>>, adds |-> <<>>]
InsertRow(table) == [op |-> "insert", table |-> table, drops |-> <<>>, adds |-> <<>>]
Custom(table) == [op |-> "custom", table |-> table, drops |-> <<>>, adds |-> <<>>]

Update(from, version, changes) == [from |-> from, version |-> version, changes |-> changes]
CreateAll(tables) == [i \in DOMAIN tables |-> Create(tables[i], <<>>)]
-----------------------------------------------------------------------------
(* UpdatesInitDatabase.                                                    *)
InitQuestTables ==
  CreateAll(<<"email_delivery", "feedback", "feedback_msg">>)
  \o <<Create("games", <<"rules">>)>>
  \o CreateAll(<<"public_events", "quest", "quests_files", "quests_hints", "quests_proposal">>)

InitUserTables ==
  CreateAll(<<"users_quests_answers", "users">>)
  \o <<InsertRow("users")>>
  \o CreateAll(<<"users_games", "users_profile", "users_quests", "users_tokens", "users_tokens_invalid">>)

InitOtherTables ==
  CreateAll(<<"classbook", "classbook_proposal", "classbook_localization", "chatmessages", "users_captcha",
              "quests_writeups", "users_offers", "settings", "leaks", "users_leaks", "leaks_files">>)

UpdatesInitDatabase == Update("", "u0099", InitQuestTables \o InitUserTables \o InitOtherTables)

Update0100 == Update("u0099", "u0100", <<Modify("quests_writeups", <<>>, <<"approve", "userid">>)>>)

Update0101 == Update("u0100", "u0101", <<Create("users_requests", <<>>)>>)

Update_u0100_mhd92m15nb ==
  Update("u0100", "mhd92m15nb", <<Create("useful_links", <<"stars">>), Create("useful_links_stars", <<>>)>>)

Update_mhd92m15nb_snwxenqco0 ==
  Update("mhd92m15nb", "snwxenqco0", CreateAll(<<"chats", "chats_users", "chats_messages">>))

Update_snwxenqco0_csww6lwcrp ==
  Update("snwxenqco0", "csww6lwcrp", <<Modify("users_tokens", <<>>, <<"start_dt", "end_dt">>)>>)

Update_csww6lwcrp_722kt134lq ==
  Update("csww6lwcrp", "722kt134lq",
    CreateAll(<<"useful_links_user_favorites", "useful_links_comments">>)
    \o <<Create("useful_links_tags", <<"counter", "tags">>), DropTable("useful_links_stars"),
         Modify("useful_links", <<>>, <<"user_favorites", "user_clicks", "user_comments">>)>>)

Update_722kt134lq_6c8d4zm6u2 ==
  Update("722kt134lq", "6c8d4zm6u2", <<Modify("useful_links_tags", <<"tags", "counter">>, <<>>),
                                       Modify("useful_links", <<"stars">>, <<"tags">>)>>)

Update_6c8d4zm6u2_pmlyt8k7nm == Update("6c8d4zm6u2", "pmlyt8k7nm", <<Modify("public_events", <<>>, <<"meta">>)>>)

Update_pmlyt8k7nm_215438peu8 == Update("pmlyt8k7nm", "215438peu8", <<Modify("games", <<"rules">>, <<>>)>>)

(* Takes "public/" off the paths of quests_files; its result is not read.  *)
Update_215438peu8_9gwc2tm5ah == Update("215438peu8", "9gwc2tm5ah", <<Custom("quests_files")>>)

Update_9gwc2tm5ah_on73sheet9 ==
  Update("9gwc2tm5ah", "on73sheet9", <<Modify("quests_files", <<>>, <<"md5", "downloads_counter">>)>>)

Update_on73sheet9_ili7looowo == Update("on73sheet9", "ili7looowo", <<DropTable("users_games")>>)

Update_ili7looowo_8i52flwubv == Update("ili7looowo", "8i52flwubv", <<Modify("public_events", <<>>, <<"uuid">>)>>)

FhqUpdates ==
  <<UpdatesInitDatabase, Update0100, Update_u0100_mhd92m15nb, Update_mhd92m15nb_snwxenqco0,
    Update_snwxenqco0_csww6lwcrp, Update_csww6lwcrp_722kt134lq, Update_722kt134lq_6c8d4zm6u2,
    Update_6c8d4zm6u2_pmlyt8k7nm, Update_pmlyt8k7nm_215438peu8, Update_215438peu8_9gwc2tm5ah,
    Update_9gwc2tm5ah_on73sheet9, Update_on73sheet9_ili7looowo, Update_ili7looowo_8i52flwubv, Update0101>>
-----------------------------------------------------------------------------
(* The table users_registration, users_change_email and the commands that  *)
(* verify their codes work on.                                             *)
RegistrationTable == "user_requests"
=============================================================================
