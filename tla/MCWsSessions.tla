---------------------------- MODULE MCWsSessions ----------------------------
(* A user and two admins who may delete each other; two addresses for      *)
(* three connections, so that one of them is used again.                   *)
EXTENDS WsSessions, TLC

CONSTANTS s1, s2, u1, a1, a2

TheSockets == {s1, s2}
TheUsers == {u1, a1, a2}
TheRoles == u1 :> "user" @@ a1 :> "admin" @@ a2 :> "admin"
=============================================================================
