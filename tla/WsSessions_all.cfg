SPECIFICATION LiveSpec
CONSTANTS
  s1 = s1
  s2 = s2
  u1 = u1
  a1 = a1
  a2 = a2
  NoUser = NoUser
  Sockets <- TheSockets
  Users <- TheUsers
  Role <- TheRoles
  MaxConns = 3
  MaxTokens = 2
  MaxChats = 1
  MaxFaults = 1
INVARIANTS
  SessionOfConnection
  TokenHasUser
  ChatBeforeNotice
PROPERTIES
  NoSessionForDeleted
  NoticeArrives
CHECK_DEADLOCK FALSE
