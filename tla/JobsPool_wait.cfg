SPECIFICATION Spec
CONSTANTS
  NWorkers = 2
  MaxJobs = 2
  MaxStarts = 1
  Calls <- TestCalls
PROPERTIES
  WaitMeansDone
CHECK_DEADLOCK FALSE
