SPECIFICATION FairSpec
CONSTANTS
  ann = ann
  root = root
  g1 = g1
  g2 = g2
  right = right
  wrong = wrong
  t1 = t1
  t2 = t2
  Users = {ann, root}
  Admins = {root}
  Games = {g1, g2}
  MaxQuest = 3
  Answers = {right, wrong}
  Seed <- SeedTwo
  Requests <- Solving
  Threads = {t1, t2}
  StrictSqlMode = FALSE
  MaxRequests = 3
  MaxFaults = 1
INVARIANTS
  YesAnswerIsCredited
PROPERTIES
  CreditShows
CHECK_DEADLOCK FALSE
