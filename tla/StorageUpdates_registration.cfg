SPECIFICATION StorageSpec
CONSTANTS
  Chain <- FhqUpdates
  AdminTable = "users"
  MaxStorageFaults = 0
INVARIANTS
  RequestsTableExists
CHECK_DEADLOCK FALSE
