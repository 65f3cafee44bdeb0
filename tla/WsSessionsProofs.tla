-------------------------- MODULE WsSessionsProofs --------------------------
(* Proofs about WsSessions: whose a session is, that tokens do not outlive *)
(* users, and that a chat message comes before its notice.                 *)
EXTENDS WsSessions, TLAPS

(* The numbers of the messages under way or received are those of chat     *)
(* messages that were sent.                                                *)
Numbered ==
  /\ \A m \in tasks : m.n <= chats
  /\ \A k \in DOMAIN events : events[k].kind = "notice" /\ events[k].n <= chats
  /\ \A m \in tasks : m.kind = "notice"
  /\ \A s \in Sockets : \A k \in DOMAIN got[s] : got[s][k].n <= chats

Inv == TypeOK /\ SessionOfConnection /\ TokenHasUser /\ Numbered /\ ChatBeforeNotice

LEMMA InitInv == Init => Inv
  BY SessionsAssumption
  DEF Init, Inv, TypeOK, SessionOfConnection, TokenHasUser, Numbered, ChatBeforeNotice,
      NoSession, Token, Message

(* What everybody is sent is one more message at the end.                  *)
LEMMA SentType ==
  ASSUME TypeOK, NEW m \in Message
  PROVE  /\ Sent(m) \in [Sockets -> Seq(Message)]
         /\ \A s \in Sockets :
              \/ Sent(m)[s] = got[s]
              \/ /\ Len(Sent(m)[s]) = Len(got[s]) + 1 /\ Sent(m)[s][Len(got[s]) + 1] = m
                 /\ \A k \in 1..Len(got[s]) : Sent(m)[s][k] = got[s][k]
<1>1. \A s \in Sockets : got[s] \in Seq(Message)
  BY DEF TypeOK
<1>2. \A s \in Sockets : Append(got[s], m) \in Seq(Message)
  BY <1>1
<1> QED BY <1>1, <1>2 DEF Sent

(* A received message keeps the order if it is a notice or a new number.   *)
LEMMA SentKeepsOrder ==
  ASSUME Inv, NEW m \in Message, got' = Sent(m),
         m.kind = "notice" \/ m.n > chats
  PROVE  ChatBeforeNotice' /\ got' \in [Sockets -> Seq(Message)]
         /\ \A s \in Sockets : \A k \in DOMAIN got'[s] : got'[s][k] = m \/ got'[s][k].n <= chats
<1> USE DEF Inv
<1>1. /\ got' \in [Sockets -> Seq(Message)]
      /\ \A s \in Sockets :
           \/ got'[s] = got[s]
           \/ /\ Len(got'[s]) = Len(got[s]) + 1 /\ got'[s][Len(got[s]) + 1] = m
              /\ \A k \in 1..Len(got[s]) : got'[s][k] = got[s][k]
  BY SentType
<1>2. \A s \in Sockets : got[s] \in Seq(Message) /\ got'[s] \in Seq(Message)
  BY <1>1 DEF TypeOK
<1>3. ASSUME NEW s \in Sockets, NEW k \in DOMAIN got'[s]
      PROVE  \/ k \in DOMAIN got[s] /\ got'[s][k] = got[s][k] /\ got[s][k] \in Message
             \/ got'[s][k] = m /\ k = Len(got[s]) + 1 /\ Len(got[s]) \in Nat
  <2> USE <1>3
  <2>1. /\ DOMAIN got[s] = 1..Len(got[s]) /\ Len(got[s]) \in Nat
        /\ DOMAIN got'[s] = 1..Len(got'[s]) /\ Len(got'[s]) \in Nat
        /\ \A i \in DOMAIN got[s] : got[s][i] \in Message
    BY <1>2
  <2>2. CASE got'[s] = got[s]
    BY <2>1, <2>2
  <2>3. CASE got'[s] # got[s]
    BY <1>1, <2>1, <2>3
  <2> QED BY <2>2, <2>3
<1>4. ASSUME NEW s \in Sockets, NEW j \in DOMAIN got'[s], NEW k \in DOMAIN got'[s],
             got'[s][j].kind = "chat", got'[s][k] = Notice(got'[s][j].n)
      PROVE  j < k
  <2>1. got'[s][k].kind = "notice" /\ got'[s][k].n = got'[s][j].n
    BY <1>4 DEF Notice
  <2>2. CASE j \in DOMAIN got[s] /\ got'[s][j] = got[s][j] /\ got[s][j] \in Message
    <3>1. CASE k \in DOMAIN got[s] /\ got'[s][k] = got[s][k]
      BY <1>4, <2>2, <3>1 DEF ChatBeforeNotice
    <3>2. CASE k = Len(got[s]) + 1 /\ Len(got[s]) \in Nat
      <4>1. j \in 1..Len(got[s])
        BY <1>2, <2>2
      <4> QED BY <4>1, <3>2
    <3> QED BY <1>3, <3>1, <3>2
  <2>3. CASE got'[s][j] = m
    <3>1. m.kind = "chat" /\ m.n > chats
      BY <1>4, <2>3
    <3>2. got'[s][k] # m
      BY <2>1, <3>1
    <3>3. got'[s][k].n <= chats
      BY <1>3, <3>2 DEF Numbered
    <3> QED BY <2>1, <2>3, <3>1, <3>3 DEF Message, TypeOK
  <2> QED BY <1>3, <2>2, <2>3
<1>5. ASSUME NEW s \in Sockets, NEW k \in DOMAIN got'[s]
      PROVE  got'[s][k] = m \/ got'[s][k].n <= chats
  BY <1>3, <1>5 DEF Numbered
<1> QED BY <1>1, <1>4, <1>5 DEF ChatBeforeNotice
-----------------------------------------------------------------------------
(* One lemma for each group of actions.                                    *)
LEMMA SocketSteps ==
  ASSUME Inv, NEW s \in Sockets, Connect(s) \/ Disconnect(s) \/ DeleteLater(s)
  PROVE  Inv'
<1> USE DEF Inv
<1>1. CASE Connect(s)
  <2> USE <1>1 DEF Connect, database, sends
  <2>1. session[s] = NoUser
    BY DEF SessionOfConnection
  <2>2. <<Hello>> \in Seq(Message) /\ Len(<<Hello>>) = 1 /\ <<Hello>>[1] = Hello
    BY DEF Hello, Message
  <2>3. TypeOK'
    BY <2>2 DEF TypeOK
  <2>4. SessionOfConnection' /\ TokenHasUser'
    BY <2>1 DEF SessionOfConnection, TokenHasUser, TypeOK
  <2>5. got'[s] = <<Hello>> /\ \A r \in Sockets \ {s} : got'[r] = got[r]
    BY DEF TypeOK
  <2>6. Numbered'
    <3>1. \A k \in DOMAIN got'[s] : got'[s][k].n <= chats
      BY <2>2, <2>5 DEF Hello, TypeOK
    <3> QED BY <2>5, <3>1 DEF Numbered
  <2>7. ChatBeforeNotice'
    <3>1. \A k \in DOMAIN got'[s] : got'[s][k].kind # "chat"
      BY <2>2, <2>5 DEF Hello
    <3> QED BY <2>5, <3>1 DEF ChatBeforeNotice
  <2> QED BY <2>3, <2>4, <2>6, <2>7
<1>2. CASE Disconnect(s)
  BY <1>2 DEF Disconnect, Forget, Left, database, sends,
     TypeOK, SessionOfConnection, TokenHasUser, Numbered, ChatBeforeNotice
<1>3. CASE DeleteLater(s)
  BY <1>3 DEF DeleteLater, database, sends,
     TypeOK, SessionOfConnection, TokenHasUser, Numbered, ChatBeforeNotice
<1> QED BY <1>1, <1>2, <1>3

LEMMA SetSessionKeeps ==
  ASSUME Inv, NEW s \in clients, NEW u \in Users, SetSession(s, u), UNCHANGED sockets
  PROVE  /\ session' \in [Sockets -> Users \cup {NoUser}] /\ opened' \in [Sockets -> Nat]
         /\ SessionOfConnection'
  BY DEF Inv, SetSession, sockets, TypeOK, SessionOfConnection

LEMMA AccessSteps ==
  ASSUME Inv, NEW s \in Sockets,
         \/ \E u \in Users : Login(s, u) \/ UserDelete(s, u)
         \/ \E t \in tokens : TokenLogin(s, t) \/ TokenDelete(s, t)
  PROVE  Inv'
<1> USE DEF Inv
<1>1. ASSUME NEW u \in Users, Login(s, u) PROVE Inv'
  <2> USE <1>1 DEF Login, CheckAccess
  <2>1. /\ session' \in [Sockets -> Users \cup {NoUser}] /\ opened' \in [Sockets -> Nat]
        /\ SessionOfConnection'
    BY SetSessionKeeps
  <2>2. TypeOK' /\ TokenHasUser'
    BY <2>1 DEF TypeOK, TokenHasUser, Token, sockets, sends
  <2>3. Numbered' /\ ChatBeforeNotice'
    BY DEF Numbered, ChatBeforeNotice, sends
  <2> QED BY <2>1, <2>2, <2>3
<1>2. ASSUME NEW u \in Users, UserDelete(s, u) PROVE Inv'
  BY <1>2 DEF UserDelete, Statements, Fault, sockets, sends,
     TypeOK, SessionOfConnection, TokenHasUser, Numbered, ChatBeforeNotice
<1>3. ASSUME NEW t \in tokens, TokenLogin(s, t) PROVE Inv'
  <2> USE <1>3 DEF TokenLogin, CheckAccess
  <2>1. t.user \in Users
    BY DEF TypeOK, Token
  <2>2. /\ session' \in [Sockets -> Users \cup {NoUser}] /\ opened' \in [Sockets -> Nat]
        /\ SessionOfConnection'
    BY <2>1, SetSessionKeeps
  <2>3. TypeOK' /\ TokenHasUser'
    BY <2>2 DEF TypeOK, TokenHasUser, database, sockets, sends
  <2>4. Numbered' /\ ChatBeforeNotice'
    BY DEF Numbered, ChatBeforeNotice, sends
  <2> QED BY <2>2, <2>3, <2>4
<1>4. ASSUME NEW t \in tokens, TokenDelete(s, t) PROVE Inv'
  BY <1>4 DEF TokenDelete, sockets, sends,
     TypeOK, SessionOfConnection, TokenHasUser, Numbered, ChatBeforeNotice
<1> QED BY <1>1, <1>2, <1>3, <1>4

LEMMA ChatStep ==
  ASSUME Inv, NEW s \in Sockets, ChatSendMessage(s)
  PROVE  Inv'
<1> USE DEF Inv, ChatSendMessage, SendChat, sockets, database
<1>1. /\ Chat(chats') \in Message /\ Notice(chats') \in Message /\ chats' \in Nat
      /\ Chat(chats').n > chats /\ Chat(chats').n = chats' /\ Notice(chats').n = chats'
      /\ Notice(chats').kind = "notice"
  BY DEF Chat, Notice, Message, TypeOK
<1>2. /\ ChatBeforeNotice' /\ got' \in [Sockets -> Seq(Message)]
      /\ \A r \in Sockets : \A k \in DOMAIN got'[r] :
           got'[r][k] = Chat(chats') \/ got'[r][k].n <= chats
  BY <1>1, SentKeepsOrder
<1>3. TypeOK' /\ SessionOfConnection' /\ TokenHasUser'
  BY <1>1, <1>2 DEF TypeOK, SessionOfConnection, TokenHasUser
<1>4. Numbered'
  <2>1. \A m \in tasks' : m.n <= chats' /\ m.kind = "notice"
    BY <1>1 DEF Numbered, TypeOK, Message
  <2>2. \A k \in DOMAIN events' : events'[k].kind = "notice" /\ events'[k].n <= chats'
    <3>1. \A k \in DOMAIN events : events[k] \in Message
      BY DEF TypeOK
    <3> QED BY <3>1 DEF Numbered, TypeOK, Message
  <2>3. ASSUME NEW r \in Sockets, NEW k \in DOMAIN got'[r] PROVE got'[r][k].n <= chats'
    <3>1. got'[r][k] \in Message
      BY <1>2, <2>3
    <3>2. got'[r][k].n \in Nat /\ chats \in Nat /\ chats' = chats + 1
      BY <3>1 DEF Message, TypeOK
    <3>3. got'[r][k].n = chats' \/ got'[r][k].n <= chats
      BY <1>1, <1>2, <2>3
    <3> QED BY <3>2, <3>3
  <2> QED BY <2>1, <2>2, <2>3 DEF Numbered
<1> QED BY <1>2, <1>3, <1>4

LEMMA NotifyStep ==
  ASSUME Inv, NEW m \in tasks, NotifyToAll(m)
  PROVE  Inv'
<1> USE DEF Inv, NotifyToAll, sockets, database
<1>1. m \in Message /\ m.kind = "notice" /\ m.n <= chats /\ events \in Seq(Message)
  BY DEF TypeOK, Numbered
<1>2. /\ Append(events, m) \in Seq(Message)
      /\ \A k \in DOMAIN events' : events'[k] = m \/ (k \in DOMAIN events /\ events'[k] = events[k])
  <2>1. /\ Append(events, m) \in Seq(Message) /\ Len(Append(events, m)) = Len(events) + 1
        /\ Append(events, m)[Len(events) + 1] = m
        /\ \A k \in 1..Len(events) : Append(events, m)[k] = events[k]
    BY <1>1
  <2>2. DOMAIN events = 1..Len(events) /\ DOMAIN events' = 1..(Len(events) + 1) /\ Len(events) \in Nat
    BY <1>1, <2>1
  <2> QED BY <2>1, <2>2
<1>3. TypeOK' /\ SessionOfConnection' /\ TokenHasUser' /\ ChatBeforeNotice'
  BY <1>2 DEF TypeOK, SessionOfConnection, TokenHasUser, ChatBeforeNotice
<1>4. Numbered'
  BY <1>1, <1>2 DEF Numbered
<1> QED BY <1>3, <1>4

LEMMA DeliverStep ==
  ASSUME Inv, Deliver
  PROVE  Inv'
<1> USE DEF Inv, Deliver, Handled, sockets, database
<1>1. events \in Seq(Message) /\ events # <<>>
  BY DEF TypeOK
<1>2. /\ Head(events) \in Message /\ Head(events) = events[1] /\ 1 \in DOMAIN events
      /\ Tail(events) \in Seq(Message)
      /\ \A k \in DOMAIN events' : events'[k] = events[k + 1] /\ k + 1 \in DOMAIN events
  BY <1>1
<1>3. Head(events).kind = "notice" /\ Head(events).n <= chats
  BY <1>2 DEF Numbered
<1>4. /\ ChatBeforeNotice' /\ got' \in [Sockets -> Seq(Message)]
      /\ \A r \in Sockets : \A k \in DOMAIN got'[r] :
           got'[r][k] = Head(events) \/ got'[r][k].n <= chats
  BY <1>2, <1>3, SentKeepsOrder
<1>5. TypeOK' /\ SessionOfConnection' /\ TokenHasUser'
  BY <1>2, <1>4 DEF TypeOK, SessionOfConnection, TokenHasUser
<1>6. Numbered'
  BY <1>2, <1>3, <1>4 DEF Numbered
<1> QED BY <1>4, <1>5, <1>6

LEMMA RestartStep ==
  ASSUME Inv, Restart
  PROVE  Inv'
<1>1. \A k \in DOMAIN events' : FALSE
  BY DEF Restart
<1>2. TypeOK'
  BY DEF Inv, Restart, Fault, NoSession, database, TypeOK
<1> QED BY <1>1, <1>2
        DEF Inv, Restart, NoSession, database,
            SessionOfConnection, TokenHasUser, Numbered, ChatBeforeNotice

LEMMA InvStep == Inv /\ [Next]_vars => Inv'
<1> SUFFICES ASSUME Inv, [Next]_vars PROVE Inv'
  OBVIOUS
<1>1. CASE Next
  BY <1>1, SocketSteps, AccessSteps, ChatStep, NotifyStep, DeliverStep, RestartStep DEF Next
<1>2. CASE UNCHANGED vars
  BY <1>2 DEF Inv, vars, database, sockets, sends,
     TypeOK, SessionOfConnection, TokenHasUser, Numbered, ChatBeforeNotice
<1> QED BY <1>1, <1>2

LEMMA Invariance == Spec => []Inv
  BY InitInv, InvStep, PTL DEF Spec

(* Whatever addresses are used again, a session acts for the connection    *)
(* that opened it: socketDisconnected takes it out of the map.             *)
THEOREM SessionsAreTheirs == Spec => []SessionOfConnection
<1>1. Inv => SessionOfConnection
  BY DEF Inv
<1> QED BY <1>1, Invariance, PTL

(* users_delete removes the tokens before the user, and login writes a     *)
(* token only after it read the user's row.                                *)
THEOREM TokensHaveUsers == Spec => []TokenHasUser
<1>1. Inv => TokenHasUser
  BY DEF Inv
<1> QED BY <1>1, Invariance, PTL

(* The direct call of chat_send_message precedes all that the pool sends.  *)
THEOREM ChatsComeFirst == Spec => []ChatBeforeNotice
<1>1. Inv => ChatBeforeNotice
  BY DEF Inv
<1> QED BY <1>1, Invariance, PTL

(* Sessions are opened by login, which reads the user's row, and by token, *)
(* which does not: that a token's user exists is TokenHasUser.             *)
THEOREM DeletedOpenNothing == Spec => NoSessionForDeleted
<1> DEFINE A == \A s \in Sockets : session'[s] \notin {session[s], NoUser} => session'[s] \in users
<1>1. ASSUME Inv, [Next]_vars PROVE A
  <2> SUFFICES ASSUME NEW s \in Sockets, session'[s] # session[s], session'[s] # NoUser
               PROVE  session'[s] \in users
    OBVIOUS
  <2> USE <1>1 DEF Inv
  <2>1. ASSUME NEW r \in Sockets, NEW u \in Users, Login(r, u) PROVE session'[s] \in users
    BY <2>1 DEF Login, SetSession, TypeOK
  <2>2. ASSUME NEW r \in Sockets, NEW t \in tokens, TokenLogin(r, t) PROVE session'[s] \in users
    BY <2>2 DEF TokenLogin, SetSession, TypeOK, TokenHasUser
  <2>3. ASSUME NEW r \in Sockets, Disconnect(r) PROVE FALSE
    BY <2>3 DEF Disconnect, Forget, TypeOK
  <2>4. ASSUME Restart PROVE FALSE
    BY <2>4 DEF Restart, NoSession
  <2>5. CASE UNCHANGED session
    BY <2>5
  <2>6. CASE Next
    BY <2>1, <2>2, <2>3, <2>4, <2>5, <2>6
    DEF Next, Deliver, NotifyToAll, Connect, DeleteLater, ChatSendMessage, UserDelete, TokenDelete
  <2> QED BY <2>5, <2>6 DEF vars
<1>2. Inv /\ [Next]_vars => [A]_vars
  BY <1>1
<1> QED BY <1>2, Invariance, PTL DEF Spec, NoSessionForDeleted
=============================================================================
