SPECIFICATION Spec
CONSTANTS
  s1 = s1
  s2 = s2
  u1 = u1
  a1 = a1
  a2 = a2
  NoUser = NoUser
  Sockets <- TheSockets
  Users <- TheUsers
  Role <- TheRoles
  MaxConns = 2
  MaxTokens = 2
  MaxChats = 0
  MaxFaults = 0
PROPERTIES
  LoginOpensSession
CHECK_DEADLOCK FALSE
