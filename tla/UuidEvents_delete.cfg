SPECIFICATION EventsSpec
CONSTANTS
  EventUuids <- TheEventUuids
  AddTasks = {"t1"}
  Main = "main"
  Filler = "filler"
  OldEvents = 0
  IdOf <- NoNumbers
  MaxEvents = 2
  MaxEventFaults = 0
INVARIANTS
  DeletedEventIsGone
CHECK_DEADLOCK FALSE
