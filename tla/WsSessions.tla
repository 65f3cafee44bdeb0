----------------------------- MODULE WsSessions -----------------------------
(* WebSocketServer: the connected sockets, the map from sockets to user    *)
(* sessions, the commands that open and end access (login, token,          *)
(* users_tokens_delete, users_delete), and what is sent to everybody:      *)
(* chat messages from the main thread, notices from the thread pool.       *)
(*                                                                         *)
(* The main thread runs every slot and every handler to its end.  A socket *)
(* is known by its address, which a later connection may get again once    *)
(* the object is deleted.  A session is a copy of the user's row, and no   *)
(* command changes the role in it, so the user stands for it.  A user's    *)
(* number is given once (the database server is not restarted).            *)
EXTENDS Naturals, Sequences, FiniteSets

CONSTANTS
  Sockets,     \* addresses of QWebSocket objects
  Users, NoUser,
  Role,        \* the role each user was created with
  MaxConns, MaxTokens, MaxChats, MaxFaults   \* bounds

ASSUME SessionsAssumption ==
  /\ NoUser \notin Users /\ Role \in [Users -> {"user", "admin"}]
  /\ MaxConns \in Nat /\ MaxTokens \in Nat /\ MaxChats \in Nat /\ MaxFaults \in Nat

Token == [id : Nat, user : Users]
Message == [kind : {"server", "chat", "notice"}, n : Nat]
Hello == [kind |-> "server", n |-> 0]
Chat(n) == [kind |-> "chat", n |-> n]
Notice(n) == [kind |-> "notice", n |-> n]

VARIABLES
  users, tokens, next_token,   \* the tables users and users_tokens
  clients,                     \* m_clients
  dying,                       \* disconnected, their deleteLater still to come
  session,                     \* m_mapUserSession
  tasks,                       \* the NotifyToAllTasks of the pool
  events,                      \* sig_sendToAll signals queued for the main thread
  chats,                       \* chat messages so far
  conn, next_conn, opened, got, \* auxiliary: the connection at an address, the
                               \* one its session was made for, what it received
  faults

database == <<users, tokens, next_token>>
sockets == <<clients, dying, conn, next_conn>>
sends == <<tasks, events, chats>>
vars == <<database, sockets, session, opened, sends, got, faults>>

NoSession == [s \in Sockets |-> NoUser]
Fault == faults < MaxFaults /\ faults' = faults + 1

Init ==
  /\ users = Users /\ tokens = {} /\ next_token = 1
  /\ clients = {} /\ dying = {} /\ session = NoSession
  /\ tasks = {} /\ events = <<>> /\ chats = 0
  /\ conn = [s \in Sockets |-> 0] /\ next_conn = 1
  /\ opened = [s \in Sockets |-> 0] /\ got = [s \in Sockets |-> <<>>]
  /\ faults = 0
-----------------------------------------------------------------------------
(* initNewConnection: the socket joins the list and is sent the server     *)
(* message, which opens what it receives.                                  *)
Connect(s) ==
  /\ s \notin clients \cup dying /\ next_conn <= MaxConns
  /\ clients' = clients \cup {s}
  /\ conn' = [conn EXCEPT ![s] = next_conn] /\ next_conn' = next_conn + 1
  /\ got' = [got EXCEPT ![s] = <<Hello>>]
  /\ UNCHANGED <<database, dying, session, opened, sends, faults>>

ForgetNothing(s) == session

(* socketDisconnected, and the deletion it leaves to the event loop.       *)
Forget(s) == [session EXCEPT ![s] = NoUser]

Left(s) == clients \ {s}

Disconnect(s) ==
  /\ s \in clients
  /\ session' = Forget(s)
  /\ clients' = Left(s) /\ dying' = dying \cup {s}
  /\ UNCHANGED <<database, conn, next_conn, opened, sends, got, faults>>

DeleteLater(s) ==
  /\ s \in dying /\ dying' = dying \ {s}
  /\ UNCHANGED <<database, clients, conn, next_conn, session, opened, sends, got, faults>>

(* checkAccess: a command open to the unauthorized is open to everyone.    *)
Kind(s) == IF session[s] = NoUser THEN "none" ELSE Role[session[s]]

CheckAccess(s, allowed) == s \in clients /\ ("none" \in allowed \/ Kind(s) \in allowed)

(* setWsjcppUserSession: the first session of a socket stays.              *)
SetSession(s, u) ==
  IF session[s] = NoUser
  THEN session' = [session EXCEPT ![s] = u] /\ opened' = [opened EXCEPT ![s] = conn[s]]
  ELSE UNCHANGED <<session, opened>>

(* login: the token is written, then the session set.                      *)
Login(s, u) ==
  /\ CheckAccess(s, {"none"}) /\ u \in users /\ next_token <= MaxTokens
  /\ tokens' = tokens \cup {[id |-> next_token, user |-> u]} /\ next_token' = next_token + 1
  /\ SetSession(s, u)
  /\ UNCHANGED <<users, sockets, sends, got, faults>>

(* token: the user as the token's row has it; the users table is not read. *)
TokenLogin(s, t) ==
  /\ CheckAccess(s, {"none"}) /\ t \in tokens
  /\ SetSession(s, t.user)
  /\ UNCHANGED <<database, sockets, sends, got, faults>>

TokenDelete(s, t) ==
  /\ CheckAccess(s, {"user", "admin"}) /\ t \in tokens /\ t.user = session[s]
  /\ tokens' = tokens \ {t}
  /\ UNCHANGED <<users, next_token, sockets, session, opened, sends, got, faults>>

(* users_delete asks for the admin's password, so for the admin's row.     *)
(* Of its eleven DELETEs the tokens' is the sixth and the user's the last; *)
(* the first refused one ends the handler.                                 *)
StatementsNoTokens(u) ==
  \/ users' = users \ {u} /\ UNCHANGED <<tokens, faults>>
  \/ Fault /\ UNCHANGED <<tokens, users>>

StatementsSwapped(u) ==
  \/ users' = users \ {u} /\ tokens' = {t \in tokens : t.user # u} /\ UNCHANGED faults
  \/ Fault /\ UNCHANGED users /\ UNCHANGED tokens
  \/ Fault /\ users' = users \ {u} /\ UNCHANGED tokens

Statements(u) ==
  \/ tokens' = {t \in tokens : t.user # u} /\ users' = users \ {u} /\ UNCHANGED faults
  \/ Fault /\ UNCHANGED tokens /\ UNCHANGED users
  \/ Fault /\ tokens' = {t \in tokens : t.user # u} /\ UNCHANGED users

UserDelete(s, u) ==
  /\ CheckAccess(s, {"admin"}) /\ u # session[s]
  /\ session[s] \in users /\ u \in users
  /\ Statements(u)
  /\ UNCHANGED <<next_token, sockets, session, opened, sends, got>>
-----------------------------------------------------------------------------
(* slot_sendToAll: every socket of the list gets the message.              *)
SentToUsers(m) ==
  [s \in Sockets |-> IF s \in clients /\ session[s] # NoUser THEN Append(got[s], m) ELSE got[s]]

Sent(m) == [s \in Sockets |-> IF s \in clients THEN Append(got[s], m) ELSE got[s]]

SendChatByPool(n) == UNCHANGED got /\ tasks' = tasks \cup {Chat(n), Notice(n)}

(* chat_send_message: emitted in the receiver's own thread the signal is a *)
(* call; the notice about the message is left to the pool.                 *)
SendChat(n) == got' = Sent(Chat(n)) /\ tasks' = tasks \cup {Notice(n)}

ChatSendMessage(s) ==
  /\ CheckAccess(s, {"user", "admin"}) /\ chats < MaxChats
  /\ chats' = chats + 1 /\ SendChat(chats')
  /\ UNCHANGED <<database, sockets, session, opened, events, faults>>

(* NotifyToAllTask::run: up to five pool threads, so in any order.         *)
NotifyToAll(m) ==
  /\ m \in tasks /\ tasks' = tasks \ {m}
  /\ events' = Append(events, m)
  /\ UNCHANGED <<database, sockets, session, opened, chats, got, faults>>

Handled(e) == Tail(e)

Deliver ==
  /\ events # <<>> /\ events' = Handled(events)
  /\ got' = Sent(Head(events))
  /\ UNCHANGED <<database, sockets, session, opened, tasks, chats, faults>>

(* The process ends and is started again: the tables are what is left.     *)
Restart ==
  /\ Fault
  /\ clients' = {} /\ dying' = {} /\ session' = NoSession
  /\ tasks' = {} /\ events' = <<>>
  /\ UNCHANGED <<database, conn, next_conn, opened, chats, got>>
-----------------------------------------------------------------------------
Next ==
  \/ Deliver \/ Restart
  \/ \E m \in tasks : NotifyToAll(m)
  \/ \E s \in Sockets :
       \/ Connect(s) \/ Disconnect(s) \/ DeleteLater(s) \/ ChatSendMessage(s)
       \/ \E u \in Users : Login(s, u) \/ UserDelete(s, u)
       \/ \E t \in tokens : TokenLogin(s, t) \/ TokenDelete(s, t)

Spec == Init /\ [][Next]_vars

(* The pool runs what it is given and the event loop what is posted to it. *)
LiveSpec == Spec /\ WF_vars(Deliver) /\ \A n \in 1..MaxChats : WF_vars(NotifyToAll(Notice(n)))
-----------------------------------------------------------------------------
TypeOK ==
  /\ users \subseteq Users /\ tokens \subseteq Token /\ next_token \in Nat
  /\ clients \subseteq Sockets /\ dying \subseteq Sockets /\ clients \cap dying = {}
  /\ session \in [Sockets -> Users \cup {NoUser}]
  /\ tasks \subseteq Message /\ events \in Seq(Message) /\ chats \in Nat
  /\ conn \in [Sockets -> Nat] /\ next_conn \in Nat /\ opened \in [Sockets -> Nat]
  /\ got \in [Sockets -> Seq(Message)] /\ faults \in Nat

(* A session acts for the connection it was opened on, never for a later   *)
(* one at the same address.                                                *)
SessionOfConnection ==
  \A s \in Sockets : session[s] # NoUser => s \in clients /\ opened[s] = conn[s]

(* No token outlives its user, a users_delete refused half-way included.   *)
TokenHasUser == \A t \in tokens : t.user \in users

(* No session is opened for a user who is deleted.                         *)
NoSessionForDeleted ==
  [][\A s \in Sockets : session'[s] \notin {session[s], NoUser} => session'[s] \in users]_vars

(* The notice about a chat message comes after the message.                *)
ChatBeforeNotice ==
  \A s \in Sockets : \A j, k \in DOMAIN got[s] :
    got[s][j].kind = "chat" /\ got[s][k] = Notice(got[s][j].n) => j < k

Has(s, m) == \E k \in DOMAIN got[s] : got[s][k] = m

(* A client that stays connected gets every notice given to the pool.      *)
NoticeArrives ==
  \A s \in Sockets, n \in 1..MaxChats, c \in 1..MaxConns :
    Notice(n) \in tasks /\ s \in clients /\ conn[s] = c
      ~> Has(s, Notice(n)) \/ s \notin clients \/ conn[s] # c

(* login is refused to who is logged in, so each token it issues is for    *)
(* the user a connection begins to act for.                                *)
LoginOpensSession ==
  [][\A t \in tokens' \ tokens :
       \E s \in clients : session[s] = NoUser /\ session'[s] = t.user]_vars
=============================================================================
