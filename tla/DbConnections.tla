--------------------------- MODULE DbConnections ----------------------------
(* EmployDatabase::database: each thread has two connections, a current    *)
(* one and an older one.  A call that finds the current one opened more    *)
(* than an hour ago closes the older, lets the two change places and       *)
(* names, and connects the current one anew.  What a caller got before, it *)
(* goes on using.                                                          *)
(*                                                                         *)
(* Qt keeps the connections under their names: one that is closed, or      *)
(* whose name is given to another, no longer works for whoever holds it.   *)
(* A caller uses what it gets without asking, so a refused connection ends *)
(* the process.  A mutex makes a call one step.                            *)
EXTENDS Naturals, FiniteSets

CONSTANTS
  DbThreads,
  Hour,         \* m_nOutdatedAfter
  MaxClock      \* bound: the time a behaviour takes

ASSUME ConnectionsAssumption == Hour \in Nat /\ MaxClock \in Nat

VARIABLES
  now,
  pairs,        \* the two connections of each thread, by their part
  by_name,      \* what Qt has under the two names of each thread
  working,      \* the connections that work
  handed        \* what callers on each thread hold, and since when

connectionVars == <<now, pairs, by_name, working, handed>>

Parts == {"current", "older"}
Names == {1, 2}
NoPair == [part \in Parts |-> [name |-> 0, conn |-> 0, opened |-> 0]]
FirstPair == [part \in Parts |-> [name |-> IF part = "current" THEN 1 ELSE 2, conn |-> 0, opened |-> 0]]

ConnectionsInit ==
  /\ now = 0 /\ pairs = [t \in DbThreads |-> NoPair]
  /\ by_name = [t \in DbThreads |-> [n \in Names |-> 0]]
  /\ working = {} /\ handed = [t \in DbThreads |-> {}]

(* A connection of a thread is known by the time it was made, from 1 on.   *)
Made(t) == <<t, now + 1>>
-----------------------------------------------------------------------------
(* isOutdated, close, swap and connect of ModelDatabaseConnection.  m_nOpened *)
(* stays with its object when the two connections change places.           *)
IsOutdated(c) == c.opened + Hour < now

SwapWithoutNames(p) ==
  [part \in Parts |->
     IF part = "current" THEN [p[part] EXCEPT !.conn = p["older"].conn]
     ELSE [p[part] EXCEPT !.conn = p["current"].conn]]

Swap(p) ==
  [part \in Parts |->
     IF part = "current" THEN [p["older"] EXCEPT !.opened = p["current"].opened]
     ELSE [p["current"] EXCEPT !.opened = p["older"].opened]]

Closed(t, c) == IF c.conn = 0 THEN {} ELSE {<<t, c.conn>>, <<t, by_name[t][c.name]>>}
NamesAfterClose(t, c) == IF c.conn = 0 THEN by_name[t] ELSE [by_name[t] EXCEPT ![c.name] = 0]

OlderClosed(p) == [p EXCEPT !["older"] = [@ EXCEPT !.conn = 0]]
Connected(p) == [p EXCEPT !["current"] = [name |-> @.name, conn |-> now + 1, opened |-> now]]

(* What connecting under a name does to the names and to what works.       *)
Connect(t, p, names, closed) ==
  /\ pairs' = [pairs EXCEPT ![t] = Connected(p)]
  /\ by_name' = [by_name EXCEPT ![t] = [names EXCEPT ![p["current"].name] = now + 1]]
  /\ working' = (working \ (closed \cup {<<t, names[p["current"].name]>>})) \cup {Made(t)}
  /\ handed' = [handed EXCEPT ![t] = handed[t] \cup {[conn |-> now + 1, since |-> now]}]

DatabaseFirst(t) ==
  /\ pairs[t] = NoPair
  /\ Connect(t, FirstPair, by_name[t], {})
  /\ UNCHANGED now

DatabaseCurrent(t) ==
  /\ pairs[t] # NoPair /\ ~IsOutdated(pairs[t]["current"])
  /\ handed' = [handed EXCEPT ![t] = handed[t] \cup {[conn |-> pairs[t]["current"].conn, since |-> now]}]
  /\ UNCHANGED <<now, pairs, by_name, working>>

DatabaseOutdated(t) ==
  /\ pairs[t] # NoPair /\ IsOutdated(pairs[t]["current"])
  /\ LET older == pairs[t]["older"]
     IN Connect(t, Swap(OlderClosed(pairs[t])), NamesAfterClose(t, older), Closed(t, older))
  /\ UNCHANGED now

(* The connection is refused: the null pointer is used.                    *)
ConnectRefused(t) ==
  /\ pairs[t] = NoPair \/ IsOutdated(pairs[t]["current"])
  /\ pairs' = [u \in DbThreads |-> NoPair] /\ by_name' = [u \in DbThreads |-> [n \in Names |-> 0]]
  /\ working' = {} /\ handed' = [u \in DbThreads |-> {}]
  /\ UNCHANGED now

(* A handler or a task returns.                                            *)
LetGo(t) ==
  /\ handed[t] # {} /\ handed' = [handed EXCEPT ![t] = {}]
  /\ UNCHANGED <<now, pairs, by_name, working>>

Tick ==
  /\ now < MaxClock /\ now' = now + 1
  /\ UNCHANGED <<pairs, by_name, working, handed>>
-----------------------------------------------------------------------------
ConnectionsNext ==
  \/ Tick
  \/ \E t \in DbThreads :
       \/ DatabaseFirst(t) \/ DatabaseCurrent(t) \/ DatabaseOutdated(t) \/ ConnectRefused(t)
       \/ LetGo(t)

ConnectionsSpec == ConnectionsInit /\ [][ConnectionsNext]_connectionVars
-----------------------------------------------------------------------------
ConnTimes == 0..(MaxClock + 1)
ConnectionsTypeOK ==
  /\ now \in 0..MaxClock
  /\ pairs \in [DbThreads -> [Parts -> [name : 0..2, conn : ConnTimes, opened : ConnTimes]]]
  /\ by_name \in [DbThreads -> [Names -> ConnTimes]]
  /\ working \subseteq DbThreads \X ConnTimes
  /\ handed \in [DbThreads -> SUBSET [conn : ConnTimes, since : ConnTimes]]

(* What database() gave a caller works for it for an hour, whatever nested *)
(* calls of the same thread have replaced since; and a connection that     *)
(* works is one of the two its thread can still close, so a thread never   *)
(* has three.                                                              *)
HandleWorks ==
  \A t \in DbThreads : \A h \in handed[t] : now <= h.since + Hour => <<t, h.conn>> \in working
NoneForgotten ==
  \A w \in working : \E part \in Parts : pairs[w[1]][part].conn = w[2]
ConnectionsKept == HandleWorks /\ NoneForgotten
=============================================================================
