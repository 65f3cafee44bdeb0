-------------------------- MODULE MCStorageUpdates --------------------------
(* The chain of updates of the MySQL storage.                              *)
EXTENDS StorageUpdates, StorageChain

(* "Method for registration": on a server that is up the table its         *)
(* statements name, and that of users_change_email and of the commands     *)
(* that verify the codes, exists.                                          *)
RequestsTableExists == st_pc = "up" => RegistrationTable \in DOMAIN tables_there
=============================================================================
