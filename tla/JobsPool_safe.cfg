SPECIFICATION Spec
CONSTANTS
  NWorkers = 2
  MaxJobs = 2
  MaxStarts = 2
  Calls <- AllCalls
INVARIANTS
  JobsKept
PROPERTIES
  WaitDrains
  Refines
CHECK_DEADLOCK FALSE
