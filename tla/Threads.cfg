SPECIFICATION ThreadsFair
CONSTANTS
  NWorkers = 1
  MaxJobs = 2
  MaxStarts = 2
  Calls <- AllCalls
  WebWorkers = {"w1", "w2", "w3"}
  MaxConnections = 4
INVARIANTS
  WebKept
PROPERTIES
  AddedIsRun
  StopEnds
  WebAnswered
CHECK_DEADLOCK FALSE
