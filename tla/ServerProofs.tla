---------------------------- MODULE ServerProofs ----------------------------
(* Theorems about the smaller components, for any number of employees,     *)
(* threads, events, users and files.                                       *)
EXTENDS Employees, UuidEvents, UsefulLinks, Accounts, Locations, DbConnections, Leaks, QuestFiles,
        Settings, Sums, TLAPS

LEMMA AppendOne ==
  ASSUME NEW T, NEW s \in Seq(T), NEW e \in T
  PROVE  /\ Append(s, e) \in Seq(T) /\ Len(Append(s, e)) = Len(s) + 1
         /\ Append(s, e)[Len(s) + 1] = e /\ \A k \in 1..Len(s) : Append(s, e)[k] = s[k]
OBVIOUS
-----------------------------------------------------------------------------
(* The start of the employees.  A tag is given once because init is called *)
(* with it from one place; and what a pass went by without loading anything *)
(* it cannot load later in the pass either.                                *)
StartTypes ==
  /\ inited \in Seq(EmployeeNames \cup {ServerTag, WsTag})
  /\ cursor \in Nat \ {0}

TagsOnce ==
  /\ start_pc = "down" => inited = <<>>
  /\ start_pc \in {"first_init", "handlers"} => ~Loaded(WsTag)

PassSeen ==
  start_pc \in InitPhases /\ ~again =>
    \A k \in 1..(cursor - 1) : k <= Len(Employees) => Loaded(Employees[k]) \/ ~Ready(Employees[k])

(* Where init has returned true, no employee is left that could be loaded. *)
NoneIsLeft == InitDone => \A e \in EmployeeNames : Loaded(e) \/ ~Ready(e)

StartInv == StartTypes /\ TagsOnce /\ LoadOrder

LEMMA EmployeesAreNamed == \A k \in 1..Len(Employees) : Employees[k] \in EmployeeNames
BY EmployeesAssumption DEF EmployeeNames

LEMMA LoadedWithOne ==
  ASSUME NEW T, inited \in Seq(T), NEW e \in T, inited' = Append(inited, e)
  PROVE  \A n : Loaded(n)' <=> Loaded(n) \/ n = e
<1>1. /\ DOMAIN inited = 1..Len(inited) /\ DOMAIN inited' = 1..(Len(inited) + 1) /\ Len(inited) \in Nat
      /\ inited'[Len(inited) + 1] = e /\ \A k \in 1..Len(inited) : inited'[k] = inited[k]
  BY AppendOne
<1>. QED BY <1>1 DEF Loaded

LEMMA OrderWithOne ==
  ASSUME LoadOrder, NEW T, inited \in Seq(T), NEW e \in T, inited' = Append(inited, e), ~Loaded(e),
         e \in EmployeeNames => Ready(e)
  PROVE  LoadOrder'
<1>1. /\ DOMAIN inited = 1..Len(inited) /\ DOMAIN inited' = 1..(Len(inited) + 1) /\ Len(inited) \in Nat
      /\ inited'[Len(inited) + 1] = e /\ \A k \in 1..Len(inited) : inited'[k] = inited[k]
  BY AppendOne
<1>2. ASSUME NEW k \in DOMAIN inited', NEW j \in DOMAIN inited', inited'[k] = inited'[j] PROVE k = j
  BY <1>1, <1>2 DEF LoadOrder, Loaded
<1>3. ASSUME NEW k \in DOMAIN inited', inited'[k] \in EmployeeNames, NEW n \in After[inited'[k]]
      PROVE  \E j \in 1..(k - 1) : inited'[j] = n
  <2>1. CASE k \in DOMAIN inited
    <3>1. PICK j \in 1..(k - 1) : inited[j] = n
      BY <1>1, <1>3, <2>1 DEF LoadOrder
    <3>. QED BY <1>1, <2>1, <3>1
  <2>2. CASE k = Len(inited) + 1
    <3>1. Loaded(n)
      BY <1>1, <1>3, <2>2 DEF Ready
    <3>2. PICK j \in DOMAIN inited : inited[j] = n
      BY <3>1 DEF Loaded
    <3>. QED BY <1>1, <2>2, <3>2
  <2>. QED BY <1>1, <2>1, <2>2
<1>. QED BY <1>2, <1>3 DEF LoadOrder

LEMMA StartInitInv == StartInit => StartInv /\ PassSeen /\ NoneIsLeft
BY DEF StartInit, StartInv, StartTypes, TagsOnce, LoadOrder, PassSeen, NoneIsLeft, InitDone, InitPhases

LEMMA StartStep == StartInv /\ [StartNext]_startVars => StartInv'
<1>. SUFFICES ASSUME StartInv, [StartNext]_startVars PROVE StartInv' OBVIOUS
<1>. USE DEF StartInv, StartTypes
<1>. DEFINE T == EmployeeNames \cup {ServerTag, WsTag}
<1>0. ServerTag # WsTag /\ ServerTag \notin EmployeeNames /\ WsTag \notin EmployeeNames
  BY EmployeesAssumption DEF ServerTag, WsTag
<1>1. CASE StartServer
  <2>1. inited = <<>> /\ inited' = <<>> \o <<ServerTag>>
    BY <1>1 DEF StartServer, CallInit, TagsOnce
  <2>2. inited' = <<ServerTag>>
    BY <2>1
  <2>3. LoadOrder' /\ ~Loaded(WsTag)'
    BY <1>0, <2>2 DEF LoadOrder, Loaded
  <2>. QED BY <1>1, <2>2, <2>3 DEF StartServer, CallInit, TagsOnce
<1>2. CASE StartCommand
  <2>1. inited' = <<>>
    BY <1>2 DEF StartCommand, CallInit, TagsOnce
  <2>. QED BY <1>2, <2>1 DEF StartCommand, CallInit, TagsOnce, LoadOrder
<1>3. CASE ConstructServer
  <2>1. inited' = Append(inited, WsTag) /\ ~Loaded(WsTag)
    BY <1>3 DEF ConstructServer, CallInit, TagsOnce
  <2>2. inited' \in Seq(T)
    BY <2>1, AppendOne
  <2>3. LoadOrder'
    BY <1>0, <2>1, OrderWithOne
  <2>. QED BY <1>3, <2>2, <2>3 DEF ConstructServer, CallInit, TagsOnce
<1>4. CASE Load
  <2>. DEFINE e == Employees[cursor]
  <2>1. e \in EmployeeNames
    BY <1>4, EmployeesAreNamed, EmployeesAssumption DEF Load, InPass
  <2>2. inited' = Append(inited, e) /\ ~Loaded(e) /\ Ready(e) /\ start_pc' = start_pc /\ start_pc \in InitPhases
    BY <1>4 DEF Load, InPass, ToLoad
  <2>3. inited' \in Seq(T) /\ cursor' \in Nat \ {0}
    BY <1>4, <2>1, <2>2, AppendOne DEF Load
  <2>4. LoadOrder'
    BY <2>1, <2>2, OrderWithOne
  <2>5. Loaded(WsTag)' <=> Loaded(WsTag)
    BY <1>0, <2>1, <2>2, LoadedWithOne
  <2>. QED BY <2>2, <2>3, <2>4, <2>5 DEF TagsOnce, InitPhases
<1>5. CASE StartAgain
  BY <1>5 DEF StartAgain, TagsOnce, LoadOrder
<1>6. ASSUME inited' = inited, cursor' \in Nat \ {0}, start_pc' = "down" => start_pc = "down",
             start_pc' \in {"first_init", "handlers"} => start_pc \in {"first_init", "handlers"}
      PROVE  StartInv'
  BY <1>6 DEF TagsOnce, LoadOrder, Loaded
<1>7. CASE PassBy \/ LoadFails \/ EndPass
  BY <1>6, <1>7 DEF PassBy, LoadFails, EndPass, AfterTrue, AfterFalse, InitPhases, InPass
<1>8. CASE Listen \/ ServerStarted \/ SetServer \/ SendNotice \/ OpenAndServe \/ UNCHANGED startVars
  BY <1>6, <1>8 DEF Listen, ServerStarted, SetServer, SendNotice, OpenAndServe, startVars
<1>. QED BY <1>1, <1>2, <1>3, <1>4, <1>5, <1>7, <1>8 DEF StartNext

(* WsjcppEmployees::init: an employee is initialised after all it names,   *)
(* and once, in any graph of employees.                                    *)
THEOREM EmployeesInOrder == StartSpec => []LoadOrder
<1>1. StartInv => LoadOrder
  BY DEF StartInv
<1>. QED BY StartInitInv, StartStep, <1>1, PTL DEF StartSpec

LEMMA PassStep == StartInv /\ PassSeen /\ [StartNext]_startVars => PassSeen'
<1>. SUFFICES ASSUME StartInv, PassSeen, [StartNext]_startVars PROVE PassSeen' OBVIOUS
<1>. USE DEF PassSeen, StartInv, StartTypes
<1>1. CASE StartServer \/ StartCommand \/ ConstructServer
  BY <1>1 DEF StartServer, StartCommand, ConstructServer, CallInit
<1>2. CASE PassBy
  <2>1. ~ToLoad /\ cursor' = cursor + 1 /\ UNCHANGED <<inited, again, start_pc>> /\ cursor <= Len(Employees)
    BY <1>2 DEF PassBy, InPass
  <2>2. \A n : Loaded(n)' <=> Loaded(n)
    BY <2>1 DEF Loaded
  <2>3. \A e : Ready(e)' <=> Ready(e)
    BY <2>2 DEF Ready
  <2>4. Loaded(Employees[cursor]) \/ ~Ready(Employees[cursor])
    BY <2>1 DEF ToLoad
  <2>. QED BY <2>1, <2>2, <2>3, <2>4
<1>3. CASE Load
  BY <1>3 DEF Load
<1>4. CASE LoadFails \/ EndPass \/ StartAgain
  BY <1>4 DEF LoadFails, EndPass, StartAgain, AfterTrue, AfterFalse, InitPhases
<1>5. CASE Listen \/ ServerStarted \/ SetServer \/ OpenAndServe
  BY <1>5 DEF Listen, ServerStarted, SetServer, OpenAndServe, InitPhases
<1>6. CASE SendNotice \/ UNCHANGED startVars
  BY <1>6 DEF SendNotice, startVars, InitPhases, Loaded, Ready
<1>. QED BY <1>1, <1>2, <1>3, <1>4, <1>5, <1>6 DEF StartNext

LEMMA NoneLeftStep == StartInv /\ PassSeen /\ NoneIsLeft /\ [StartNext]_startVars => NoneIsLeft'
<1>. SUFFICES ASSUME StartInv, PassSeen, NoneIsLeft, [StartNext]_startVars PROVE NoneIsLeft' OBVIOUS
<1>. USE DEF NoneIsLeft, InitDone
<1>1. CASE EndPass
  <2>1. SUFFICES ASSUME InitDone' PROVE \A e \in EmployeeNames : Loaded(e)' \/ ~Ready(e)'
    OBVIOUS
  <2>2. ~again /\ start_pc \in InitPhases /\ cursor > Len(Employees) /\ inited' = inited
    BY <1>1, <2>1 DEF EndPass, Repeat, InitPhases
  <2>3. \A e \in EmployeeNames : Loaded(e) \/ ~Ready(e)
    BY <2>2, EmployeesAssumption DEF PassSeen, EmployeeNames, StartInv, StartTypes
  <2>. QED BY <2>2, <2>3 DEF Loaded, Ready
<1>2. ASSUME inited' = inited, InitDone' => InitDone PROVE NoneIsLeft'
  BY <1>2 DEF Loaded, Ready
<1>3. CASE StartServer \/ StartCommand \/ ConstructServer \/ PassBy \/ Load \/ LoadFails \/ StartAgain
  BY <1>3 DEF StartServer, StartCommand, ConstructServer, CallInit, PassBy, Load, LoadFails, StartAgain, InPass,
              InitPhases, AfterFalse
<1>4. CASE Listen \/ ServerStarted \/ SetServer \/ SendNotice \/ OpenAndServe \/ UNCHANGED startVars
  BY <1>2, <1>4 DEF Listen, ServerStarted, SetServer, SendNotice, OpenAndServe, startVars
<1>. QED BY <1>1, <1>3, <1>4 DEF StartNext

(* Where init has returned true no employee is left that could be loaded:  *)
(* the loop stops after a pass that loads none, whatever the order of the  *)
(* names (WsjcppEmployees::init).                                          *)
THEOREM InitLeavesNone == StartSpec => []NoneIsLeft
BY StartInitInv, StartStep, PassStep, NoneLeftStep, PTL DEF StartSpec

(* The tags given by now.                                                  *)
WsPhases == {"ws_init", "listen", "listening", "started", "open", "serving"}
ServerPhases == {"first_init", "handlers"} \cup WsPhases

TagsHaveCome == /\ start_pc \in ServerPhases => Loaded(ServerTag)
                /\ start_pc \in WsPhases => Loaded(WsTag)

LEMMA TagsGivenStep == StartInv /\ TagsHaveCome /\ [StartNext]_startVars => TagsHaveCome'
<1>. SUFFICES ASSUME StartInv, TagsHaveCome, [StartNext]_startVars PROVE TagsHaveCome' OBVIOUS
<1>. DEFINE T == EmployeeNames \cup {ServerTag, WsTag}
<1>t. inited \in Seq(T) /\ cursor \in Nat
  BY DEF StartInv, StartTypes
<1>1. CASE StartServer
  <2>1. inited' = <<ServerTag>>
    BY <1>1 DEF StartServer, CallInit, StartInv, TagsOnce
  <2>2. Loaded(ServerTag)'
    BY <2>1 DEF Loaded
  <2>. QED BY <1>1, <2>2 DEF StartServer, CallInit, TagsHaveCome, WsPhases
<1>2. CASE ConstructServer
  <2>1. start_pc = "handlers" /\ start_pc' = "ws_init" /\ inited' = Append(inited, WsTag)
    BY <1>2, <1>t DEF ConstructServer, CallInit
  <2>2. Loaded(ServerTag)' /\ Loaded(WsTag)'
    BY <1>t, <2>1, LoadedWithOne DEF TagsHaveCome, ServerPhases
  <2>. QED BY <2>2 DEF TagsHaveCome
<1>3. CASE Load
  <2>1. start_pc' = start_pc /\ inited' = Append(inited, Employees[cursor]) /\ Employees[cursor] \in T
    BY <1>3, <1>t, EmployeesAreNamed, EmployeesAssumption DEF Load, InPass, StartInv, StartTypes
  <2>2. \A n : Loaded(n) => Loaded(n)'
    BY <1>t, <2>1, LoadedWithOne
  <2>. QED BY <2>1, <2>2 DEF TagsHaveCome
<1>4. CASE StartCommand \/ StartAgain
  BY <1>4 DEF StartCommand, CallInit, StartAgain, TagsHaveCome, ServerPhases, WsPhases
<1>5. ASSUME inited' = inited, start_pc' \in ServerPhases => start_pc \in ServerPhases,
             start_pc' \in WsPhases => start_pc \in WsPhases
      PROVE  TagsHaveCome'
  BY <1>5 DEF TagsHaveCome, Loaded
<1>6. CASE PassBy \/ LoadFails \/ EndPass
  BY <1>5, <1>6 DEF PassBy, LoadFails, EndPass, AfterTrue, AfterFalse, InitPhases, InPass,
                    ServerPhases, WsPhases
<1>7. CASE Listen \/ ServerStarted \/ SetServer \/ SendNotice \/ OpenAndServe \/ UNCHANGED startVars
  BY <1>5, <1>7 DEF Listen, ServerStarted, SetServer, SendNotice, OpenAndServe, startVars,
                    ServerPhases, WsPhases
<1>. QED BY <1>1, <1>2, <1>3, <1>4, <1>6, <1>7 DEF StartNext

(* Nothing left to load, and each loaded after those it names: what is     *)
(* loaded is what the tags make loadable.  The recursion of Loadable has   *)
(* that answer, and no other since the names go in no circle.              *)
LEMMA LoadedIsLoadable ==
  ASSUME StartTypes, LoadOrder, \A e \in EmployeeNames : Loaded(e) \/ ~Ready(e)
  PROVE  {e \in EmployeeNames : Loaded(e)} = Loadable(TagsGiven)
<1>. DEFINE Can(f, e) == \A n \in After[e] : IF n \in EmployeeNames THEN f[n] ELSE n \in TagsGiven
            Loads == [e \in EmployeeNames |-> Loaded(e)]
            can == CHOOSE f : f = [e \in EmployeeNames |-> Can(f, e)]
<1>1. \A e \in EmployeeNames : Loaded(e) <=> Ready(e)
  <2>. TAKE e \in EmployeeNames
  <2>1. ASSUME Loaded(e), NEW n \in After[e] PROVE Loaded(n)
    <3>1. PICK i \in DOMAIN inited : inited[i] = e
      BY <2>1 DEF Loaded
    <3>2. PICK j \in 1..(i - 1) : inited[j] = n
      BY <3>1, <2>1 DEF LoadOrder
    <3>3. j \in DOMAIN inited
      BY <3>1 DEF StartTypes
    <3>. QED BY <3>2, <3>3 DEF Loaded
  <2>. QED BY <2>1 DEF Ready
<1>2. ASSUME NEW e \in EmployeeNames PROVE Ready(e) <=> Can(Loads, e)
  <2>1. ASSUME NEW n \in After[e]
        PROVE  Loaded(n) <=> IF n \in EmployeeNames THEN Loads[n] ELSE n \in TagsGiven
    BY <2>1, AfterAssumption DEF TagsGiven
  <2>. QED BY <2>1 DEF Ready
<1>3. Loads = [e \in EmployeeNames |-> Can(Loads, e)]
  <2>1. \A e \in EmployeeNames : Loaded(e) = Can(Loads, e)
    BY <1>1, <1>2 DEF Loaded
  <2>. QED BY <2>1, Zenon
<1>4. can = [e \in EmployeeNames |-> Can(can, e)]
  BY <1>3
<1>. HIDE DEF can, Loads
<1>. DEFINE Apart == {e \in EmployeeNames : ~ (can[e] <=> Loads[e])}
<1>5. Apart = {}
  <2>. SUFFICES ASSUME Apart # {} PROVE FALSE
    OBVIOUS
  <2>1. PICK e \in Apart : After[e] \cap Apart = {}
    BY AfterAssumption
  <2>2. can[e] <=> Can(can, e)
    BY <1>4
  <2>3. Loads[e] <=> Can(Loads, e)
    BY <1>3
  <2>4. \A n \in After[e] : n \in EmployeeNames => (can[n] <=> Loads[n])
    BY <2>1
  <2>5. Can(can, e) <=> Can(Loads, e)
    BY <2>4
  <2>. QED BY <2>1, <2>2, <2>3, <2>5
<1>6. \A e \in EmployeeNames : can[e] <=> Loaded(e)
  BY <1>5 DEF Loads
<1>7. Loadable(TagsGiven) = {e \in EmployeeNames : can[e]}
  BY DEF Loadable, can
<1>. QED BY <1>6, <1>7

(* With both tags given, nothing left to load is nothing left.             *)
LEMMA AllLoaded ==
  ASSUME Loaded(ServerTag), Loaded(WsTag), \A e \in EmployeeNames : Loaded(e) \/ ~Ready(e)
  PROVE  \A e \in EmployeeNames : Loaded(e)
<1>. DEFINE Left == {e \in EmployeeNames : ~Loaded(e)}
<1>1. ASSUME Left # {} PROVE FALSE
  <2>1. PICK e \in Left : After[e] \cap Left = {}
    BY <1>1, AfterAssumption
  <2>2. \A n \in After[e] : Loaded(n)
    BY <2>1, AfterAssumption
  <2>. QED BY <2>1, <2>2 DEF Ready
<1>. QED BY <1>1

(* Where init has returned true the employees loaded are those the tags    *)
(* make loadable, and all of them once the server listens, though the      *)
(* result of the first init is ignored (EmployWebServer::start).           *)
THEOREM InitLoadsAll == StartSpec => []InitReachesAll
<1>1. StartInit => TagsHaveCome
  BY DEF StartInit, TagsHaveCome, ServerPhases, WsPhases
<1>2. StartInv /\ NoneIsLeft /\ TagsHaveCome => InitReachesAll
  <2>. SUFFICES ASSUME StartInv, NoneIsLeft, TagsHaveCome, InitDone PROVE InitReachesAll
    BY DEF InitReachesAll
  <2>1. \A e \in EmployeeNames : Loaded(e) \/ ~Ready(e)
    BY DEF NoneIsLeft
  <2>2. start_pc # "command" => Loaded(ServerTag) /\ Loaded(WsTag)
    BY DEF TagsHaveCome, InitDone, ServerPhases, WsPhases
  <2>. QED BY <2>1, <2>2, LoadedIsLoadable, AllLoaded DEF InitReachesAll, StartInv
<1>. QED BY StartInitInv, StartStep, TagsGivenStep, InitLeavesNone, <1>1, <1>2, PTL DEF StartSpec
-----------------------------------------------------------------------------
(* Uuids and events.  A uuid that a thread holds, or that an event has, is *)
(* in uuids.db and, while the process runs, in the map, so it is not made  *)
(* again; no two of these have one.  The backfill has still to read every  *)
(* event without a uuid.                                                   *)
EventTypes ==
  /\ registered \in [EventUuids -> UuidTypes \cup {"unknown"}]
  /\ stored \in [EventUuids -> UuidTypes \cup {"unknown"}]
  /\ event_uuid \in [EventIds -> EventUuids \cup {NoUuid, NoEvent}]
  /\ next_event \in Nat \ {0}
  /\ holding \in [EventThreads -> EventUuids \cup {NoUuid}]

Known(u) == stored[u] = "public_event" /\ (events_up => registered[u] = "public_event")

Held ==
  \A t \in EventThreads : ~Idle(t) =>
    /\ events_up /\ Known(holding[t])
    /\ \A s \in EventThreads : holding[s] = holding[t] => s = t
    /\ \A i \in EventIds : event_uuid[i] # holding[t]

Named ==
  \A i \in EventIds : HasUuid(i) =>
    /\ Known(event_uuid[i])
    /\ \A j \in EventIds : event_uuid[i] = event_uuid[j] => i = j

FillTrue ==
  /\ filling = "update" => ~Idle(Filler) /\ filled_id \in EventIds
  /\ filling # "update" => Idle(Filler)
  /\ filling \in {"next", "update"} => Missing \subseteq unfilled
  /\ filling = "done" => Missing = {}

EventInv == EventTypes /\ Held /\ Named /\ FillTrue

LEMMA EventThreadsDiffer == Main \in EventThreads /\ Filler \in EventThreads /\ Main # Filler
BY EventsAssumption DEF EventThreads

LEMMA EventsInitInv == EventsInit => EventInv
<1>. SUFFICES ASSUME EventsInit PROVE EventInv OBVIOUS
<1>1. EventTypes
  BY EventsAssumption DEF EventsInit, EventTypes, Nowhere, UuidTypes
<1>2. \A i \in EventIds : ~HasUuid(i)
  BY EventsAssumption DEF EventsInit, HasUuid
<1>3. Held /\ FillTrue
  BY EventThreadsDiffer DEF EventsInit, Held, FillTrue, Idle
<1>. QED BY <1>1, <1>2, <1>3 DEF EventInv, Named

(* The process starts and ends.                                            *)
LEMMA EventsEnd == EventInv /\ ProcessEnds /\ UNCHANGED <<stored, eventRows>> => EventInv'
<1>. SUFFICES ASSUME EventInv, ProcessEnds, UNCHANGED <<stored, eventRows>> PROVE EventInv' OBVIOUS
<1>. USE DEF EventInv, ProcessEnds, eventRows
<1>1. EventTypes'
  BY DEF EventTypes, Nowhere, UuidTypes
<1>2. Held' /\ FillTrue'
  BY EventThreadsDiffer DEF Held, FillTrue, Idle
<1>3. Named'
  BY DEF Named, Known, HasUuid
<1>. QED BY <1>1, <1>2, <1>3

(* A uuid the map lacks is not in uuids.db: only then is it registered.    *)
LEMMA EventsRegister ==
  ASSUME EventTypes, Held, Named, NEW u \in EventUuids, NEW type \in UuidTypes, u \in NewUuids, Register(u, type),
         events_up' = events_up
  PROVE  /\ registered' \in [EventUuids -> UuidTypes \cup {"unknown"}]
         /\ stored' \in [EventUuids -> UuidTypes \cup {"unknown"}]
         /\ \A v \in EventUuids : Known(v) => v # u /\ Known(v)'
         /\ stored'[u] = type /\ registered'[u] = type
<1>1. UuidTypes = {"public_event", "test"}
  BY DEF UuidTypes
<1>2. /\ stored[u] = "unknown" /\ registered' = [registered EXCEPT ![u] = type]
      /\ stored' = [stored EXCEPT ![u] = type]
  BY DEF Register
<1>. QED BY <1>1, <1>2 DEF EventTypes, Known

(* A thread that has none makes a uuid.                                    *)
LEMMA EventsGenerate ==
  ASSUME EventTypes, Held, Named, NEW t \in EventThreads, NEW u \in EventUuids, Generate(t, u),
         UNCHANGED eventRows
  PROVE  EventTypes' /\ Held' /\ Named' /\ ~Idle(t)' /\ \A s \in EventThreads : s # t => (Idle(s)' <=> Idle(s))
<1>1. /\ registered' \in [EventUuids -> UuidTypes \cup {"unknown"}]
      /\ stored' \in [EventUuids -> UuidTypes \cup {"unknown"}]
      /\ \A v \in EventUuids : Known(v) => v # u /\ Known(v)'
      /\ stored'[u] = "public_event" /\ registered'[u] = "public_event"
  <2>1. "public_event" \in UuidTypes
    BY DEF UuidTypes
  <2>. QED BY <2>1, EventsRegister DEF Generate
<1>2. /\ events_up /\ events_up' = events_up /\ Idle(t) /\ holding' = [holding EXCEPT ![t] = u]
      /\ event_uuid' = event_uuid /\ next_event' = next_event /\ u # NoUuid
  BY EventsAssumption DEF Generate, eventRows
<1>3. EventTypes'
  BY <1>1, <1>2 DEF EventTypes
<1>4. \A i \in EventIds : event_uuid[i] # u
  BY <1>1 DEF Named, HasUuid
<1>5. \A s \in EventThreads : holding[s] # u
  BY <1>1, <1>2 DEF Held, Idle
<1>6. ASSUME NEW s \in EventThreads, ~Idle(s)'
      PROVE  /\ events_up' /\ Known(holding[s])'
             /\ \A r \in EventThreads : holding'[r] = holding'[s] => r = s
             /\ \A i \in EventIds : event_uuid'[i] # holding'[s]
  <2>1. CASE s = t
    <3>1. holding'[s] = u
      BY <1>2, <2>1 DEF EventTypes
    <3>2. Known(u)'
      BY <1>1 DEF Known
    <3>. QED BY <1>2, <1>4, <1>5, <2>1, <3>1, <3>2 DEF EventTypes
  <2>2. CASE s # t
    <3>1. holding'[s] = holding[s] /\ ~Idle(s)
      BY <1>2, <1>6, <2>2 DEF EventTypes, Idle
    <3>2. Known(holding[s])
      BY <3>1 DEF Held
    <3>3. holding[s] \in EventUuids
      BY <3>1 DEF EventTypes, Idle
    <3>4. Known(holding[s])'
      BY <1>1, <3>1, <3>2, <3>3 DEF Known
    <3>. QED BY <1>2, <1>5, <3>1, <3>4 DEF Held, EventTypes
  <2>. QED BY <2>1, <2>2
<1>7. Named'
  BY <1>1, <1>2 DEF Named, HasUuid, Known
<1>. QED BY <1>2, <1>3, <1>6, <1>7 DEF Held, Idle, EventTypes

(* Threads let go of their uuids, and events lose their rows.              *)
LEMMA EventsFewer ==
  ASSUME EventTypes, Held, Named, UNCHANGED <<uuidMaps, events_up>>, EventTypes',
         \A t \in EventThreads : holding'[t] \in {holding[t], NoUuid},
         \A i \in EventIds : event_uuid'[i] \in {event_uuid[i], NoEvent}
  PROVE  Held' /\ Named'
<1>1. ASSUME NEW t \in EventThreads, ~Idle(t)'
      PROVE  /\ events_up' /\ Known(holding[t])'
             /\ \A s \in EventThreads : holding'[s] = holding'[t] => s = t
             /\ \A i \in EventIds : event_uuid'[i] # holding'[t]
  <2>1. holding'[t] = holding[t] /\ ~Idle(t) /\ holding[t] # NoUuid /\ holding[t] \in EventUuids
    BY <1>1 DEF Idle, EventTypes
  <2>2. Known(holding[t])'
    BY <2>1 DEF Known, Held, uuidMaps
  <2>. QED BY <2>1, <2>2, EventsAssumption DEF Held
<1>2. Named'
  BY EventsAssumption DEF Named, HasUuid, Known, uuidMaps
<1>. QED BY <1>1, <1>2 DEF Held

(* The uuid a thread holds is stored with a row.                           *)
LEMMA EventsStore ==
  ASSUME EventTypes, Held, Named, UNCHANGED <<uuidMaps, events_up>>,
         NEW t \in EventThreads, ~Idle(t), NEW i \in EventIds,
         event_uuid' = [event_uuid EXCEPT ![i] = holding[t]], next_event' \in Nat \ {0},
         holding' = [holding EXCEPT ![t] = NoUuid]
  PROVE  EventTypes' /\ Held' /\ Named'
<1>1. holding[t] \in EventUuids /\ Known(holding[t])
  BY DEF EventTypes, Idle, Held
<1>2. EventTypes'
  BY <1>1 DEF EventTypes, uuidMaps
<1>3. ASSUME NEW s \in EventThreads, ~Idle(s)'
      PROVE  /\ events_up' /\ Known(holding[s])'
             /\ \A r \in EventThreads : holding'[r] = holding'[s] => r = s
             /\ \A j \in EventIds : event_uuid'[j] # holding'[s]
  <2>1. s # t /\ holding'[s] = holding[s] /\ holding[s] # NoUuid
    BY <1>3 DEF Idle, EventTypes
  <2>2. /\ events_up /\ Known(holding[s])
        /\ \A r \in EventThreads : holding[r] = holding[s] => r = s
        /\ \A j \in EventIds : event_uuid[j] # holding[s]
    BY <2>1 DEF Held, Idle
  <2>3. Known(holding[s])'
    BY <2>1, <2>2 DEF Known, uuidMaps
  <2>. QED BY <2>1, <2>2, <2>3 DEF EventTypes
<1>4. Named'
  <2>1. \A j \in EventIds : event_uuid[j] # holding[t]
    BY DEF Held
  <2>2. stored'[holding[t]] = "public_event" /\ (events_up' => registered'[holding[t]] = "public_event")
    BY <1>1 DEF Known, uuidMaps
  <2>. QED BY <2>1, <2>2, <1>1 DEF Named, HasUuid, Known, EventTypes, uuidMaps
<1>. QED BY <1>2, <1>3, <1>4 DEF Held

LEMMA EventsStep == EventInv /\ [EventsNext]_eventsVars => EventInv'
<1>. SUFFICES ASSUME EventInv, [EventsNext]_eventsVars PROVE EventInv' OBVIOUS
<1>. USE DEF EventInv
<1>0. NoUuid \notin EventUuids /\ NoEvent \notin EventUuids /\ NoUuid # NoEvent
  BY EventsAssumption DEF NoUuid, NoEvent
<1>1. CASE EventsStart
  <2>1. \A t \in EventThreads : Idle(t)
    BY <1>1 DEF EventsStart, Held
  <2>2. EventTypes' /\ Held' /\ \A t \in EventThreads : Idle(t)'
    BY <1>1, <2>1 DEF EventsStart, EventTypes, Held, Idle, eventRows
  <2>3. Named'
    BY <1>1 DEF EventsStart, Named, Known, HasUuid, eventRows
  <2>. QED BY <1>1, <2>2, <2>3, EventThreadsDiffer DEF EventsStart, FillTrue
<1>2. CASE EventsStop
  BY <1>2, EventsEnd DEF EventsStop
<1>3. ASSUME NEW t \in EventThreads, NEW u \in EventUuids, BeginAddEvent(t, u) PROVE EventInv'
  <2>1. EventTypes' /\ Held' /\ Named' /\ (Idle(Filler)' <=> Idle(Filler))
    BY <1>3, EventsGenerate, EventThreadsDiffer DEF BeginAddEvent
  <2>. QED BY <1>3, <2>1 DEF BeginAddEvent, FillTrue, Missing, backfill, eventRows
<1>4. ASSUME NEW t \in EventThreads, NEW u \in EventUuids, GenerateRefused(t, u) PROVE EventInv'
  <2>1. CASE t = Main
    <3>1. registered' = [registered EXCEPT ![u] = "public_event"] /\ registered[u] = "unknown"
      BY <1>4, <2>1 DEF GenerateRefused, Refused, NewUuids
    <3>2. UNCHANGED <<stored, eventRows, holding, backfill, events_up>>
      BY <1>4, <2>1 DEF GenerateRefused, Refused
    <3>3. EventTypes'
      BY <3>1, <3>2 DEF EventTypes, eventRows, UuidTypes
    <3>4. \A v \in EventUuids : Known(v) => Known(v)'
      BY <3>1, <3>2 DEF Known, EventTypes
    <3>5. Held'
      <4>1. ASSUME NEW s \in EventThreads, holding[s] # NoUuid PROVE Known(holding[s])'
        <5>1. Known(holding[s]) /\ holding[s] \in EventUuids /\ holding'[s] = holding[s]
          BY <3>2, <4>1 DEF Held, Idle, EventTypes
        <5>. QED BY <3>4, <5>1 DEF Known
      <4>. QED BY <3>2, <4>1 DEF Held, Idle, eventRows
    <3>6. Named'
      BY <3>2, <3>4 DEF Named, HasUuid, Known, eventRows
    <3>. QED BY <3>2, <3>3, <3>5, <3>6 DEF FillTrue, Idle, Missing, backfill, eventRows
  <2>2. CASE t # Main
    BY <1>4, <2>2, EventsEnd DEF GenerateRefused, Refused
  <2>. QED BY <2>1, <2>2
<1>5. ASSUME NEW t \in EventThreads, InsertEvent(t) PROVE EventInv'
  <2>1. next_event \in EventIds
    BY <1>5, EventsAssumption DEF InsertEvent, EventTypes, EventIds
  <2>2. EventTypes' /\ Held' /\ Named'
    <3>1. next_event' \in Nat \ {0}
      BY <1>5 DEF InsertEvent, EventTypes
    <3>. QED BY <1>5, <2>1, <3>1, EventsStore DEF InsertEvent
  <2>3. holding'[Filler] = holding[Filler] /\ holding[t] # NoUuid
    BY <1>5, EventThreadsDiffer DEF InsertEvent, EventTypes, Idle
  <2>4. Missing' \subseteq Missing
    BY <1>5, <2>1, <2>3 DEF InsertEvent, Missing, EventTypes
  <2>. QED BY <1>5, <2>2, <2>3, <2>4 DEF InsertEvent, FillTrue, Idle, backfill
<1>6. ASSUME NEW t \in EventThreads, InsertEventRefused(t) PROVE EventInv'
  <2>1. EventTypes' /\ UNCHANGED <<uuidMaps, eventRows, backfill, events_up>>
    BY <1>6 DEF InsertEventRefused, EventTypes, uuidMaps, eventRows
  <2>2. \A s \in EventThreads : holding'[s] \in {holding[s], NoUuid}
    BY <1>6 DEF InsertEventRefused, EventTypes
  <2>3. Held' /\ Named'
    BY <2>1, <2>2, EventsFewer DEF eventRows
  <2>4. holding'[Filler] = holding[Filler]
    BY <1>6, EventThreadsDiffer DEF InsertEventRefused, EventTypes
  <2>. QED BY <2>1, <2>3, <2>4 DEF FillTrue, Idle, Missing, backfill, eventRows
<1>7. ASSUME NEW u \in EventUuids, UuidGenerate(u) PROVE EventInv'
  <2>1. /\ registered' \in [EventUuids -> UuidTypes \cup {"unknown"}]
        /\ stored' \in [EventUuids -> UuidTypes \cup {"unknown"}]
        /\ \A v \in EventUuids : Known(v) => v # u /\ Known(v)'
    <3>1. "test" \in UuidTypes
      BY DEF UuidTypes
    <3>. QED BY <1>7, <3>1, EventsRegister DEF UuidGenerate
  <2>2. UNCHANGED <<eventRows, holding, backfill, events_up>>
    BY <1>7 DEF UuidGenerate
  <2>3. EventTypes'
    BY <2>1, <2>2 DEF EventTypes, eventRows
  <2>4. Held'
    <3>1. ASSUME NEW s \in EventThreads, holding[s] # NoUuid PROVE Known(holding[s])'
      <4>1. Known(holding[s]) /\ holding[s] \in EventUuids /\ holding'[s] = holding[s]
        BY <2>2, <3>1 DEF Held, Idle, EventTypes
      <4>. QED BY <2>1, <4>1 DEF Known
    <3>. QED BY <2>2, <3>1 DEF Held, Idle, eventRows
  <2>5. Named'
    BY <2>1, <2>2 DEF Named, HasUuid, Known, eventRows
  <2>. QED BY <2>2, <2>3, <2>4, <2>5 DEF FillTrue, Idle, Missing, backfill, eventRows
<1>8. ASSUME NEW u \in EventUuids, DeleteEvent(u) PROVE EventInv'
  <2>1. \A i \in EventIds : event_uuid'[i] \in {event_uuid[i], NoEvent}
    BY <1>8 DEF DeleteEvent, EventTypes
  <2>2. EventTypes'
    BY <1>8 DEF DeleteEvent, EventTypes, uuidMaps
  <2>3. Held' /\ Named'
    BY <1>8, <2>1, <2>2, EventsFewer DEF DeleteEvent
  <2>4. Missing' \subseteq Missing
    BY <1>0, <2>1 DEF Missing
  <2>. QED BY <1>8, <2>2, <2>3, <2>4 DEF DeleteEvent, FillTrue, Idle, backfill
<1>9. ASSUME NEW i \in EventIds, DeleteEventById(i) PROVE EventInv'
  <2>1. \A j \in EventIds : event_uuid'[j] \in {event_uuid[j], NoEvent}
    BY <1>9 DEF DeleteEventById, EventTypes
  <2>2. EventTypes'
    BY <1>9 DEF DeleteEventById, EventTypes, uuidMaps
  <2>3. Held' /\ Named'
    BY <1>9, <2>1, <2>2, EventsFewer DEF DeleteEventById
  <2>4. Missing' \subseteq Missing
    BY <1>0, <2>1 DEF Missing
  <2>. QED BY <1>9, <2>2, <2>3, <2>4 DEF DeleteEventById, FillTrue, Idle, backfill
<1>10. CASE BeginFill \/ BeginFillRefused \/ UNCHANGED eventsVars
  <2>1. UNCHANGED <<uuidMaps, eventRows, holding, events_up>>
    BY <1>10 DEF BeginFill, BeginFillRefused, eventsVars
  <2>2. EventTypes' /\ Held' /\ Named'
    BY <2>1 DEF EventTypes, Held, Named, Known, HasUuid, Idle, uuidMaps, eventRows
  <2>3. FillTrue'
    BY <1>10, <2>1 DEF BeginFill, BeginFillRefused, eventsVars, backfill, FillTrue, Idle, Missing, eventRows
  <2>. QED BY <2>2, <2>3
<1>11. ASSUME NEW i \in EventIds, NEW u \in EventUuids, FillNext(i, u) PROVE EventInv'
  <2>1. EventTypes' /\ Held' /\ Named' /\ ~Idle(Filler)'
    BY <1>11, EventsGenerate, EventThreadsDiffer DEF FillNext
  <2>. QED BY <1>11, <2>1 DEF FillNext, FillTrue, Missing, eventRows
<1>12. CASE FillUpdate
  <2>1. filled_id \in EventIds /\ ~Idle(Filler) /\ Filler \in EventThreads
    BY <1>12, EventThreadsDiffer DEF FillUpdate, FillTrue
  <2>2. EventTypes' /\ Held' /\ Named' /\ \A i \in EventIds : i # filled_id => event_uuid'[i] = event_uuid[i]
    <3>1. CASE event_uuid[filled_id] = NoEvent
      <4>1. EventTypes' /\ \A s \in EventThreads : holding'[s] \in {holding[s], NoUuid}
        BY <1>12, <2>1, <3>1 DEF FillUpdate, EventTypes, uuidMaps
      <4>. QED BY <1>12, <3>1, <4>1, EventsFewer DEF FillUpdate
    <3>2. CASE event_uuid[filled_id] # NoEvent
      <4>1. EventTypes' /\ Held' /\ Named'
        BY <1>12, <2>1, <3>2, EventsStore DEF FillUpdate, EventTypes
      <4>. QED BY <1>12, <3>2, <4>1 DEF FillUpdate, EventTypes
    <3>. QED BY <3>1, <3>2
  <2>3. event_uuid'[filled_id] # NoUuid /\ Idle(Filler)'
    BY <1>0, <1>12, <2>1 DEF FillUpdate, EventTypes, Idle
  <2>4. Missing' \subseteq Missing \ {filled_id}
    BY <2>2, <2>3 DEF Missing
  <2>. QED BY <1>12, <2>2, <2>3, <2>4 DEF FillUpdate, AfterFill, FillTrue
<1>13. CASE FillUpdateRefused
  <2>1. EventTypes' /\ \A s \in EventThreads : holding'[s] \in {holding[s], NoUuid}
    BY <1>13 DEF FillUpdateRefused, EventTypes, uuidMaps, eventRows
  <2>2. Held' /\ Named'
    BY <1>13, <2>1, EventsFewer DEF FillUpdateRefused, eventRows
  <2>. QED BY <1>13, <2>1, <2>2, EventThreadsDiffer DEF FillUpdateRefused, FillTrue, Idle, EventTypes
<1>. QED BY <1>1, <1>2, <1>3, <1>4, <1>5, <1>6, <1>7, <1>8, <1>9, <1>10, <1>11, <1>12, <1>13 DEF EventsNext

(* No two events have one uuid, whatever ends between making a uuid and    *)
(* storing it, and a backfill that was not cut off leaves none without     *)
(* (EmployUuids, EmployPublicEvents, UpdateMissingUuidsInPublicEvents).    *)
THEOREM EventsAreNamed == EventsSpec => []EventsNamed
<1>1. EventInv => EventsNamed
  BY DEF EventInv, EventsNamed, EventUuidsTrue, BackfillLeavesNone, Named, Known, FillTrue
<1>. QED BY EventsInitInv, EventsStep, <1>1, PTL DEF EventsSpec
-----------------------------------------------------------------------------
(* The useful links.  The rows of a link that is not there, or not yet,    *)
(* make no column; numbers of comments are given once.                     *)
Totals == {0} \cup {TotalOf(f) : f \in [LinkUsers -> Nat]}
Counts == {0} \cup {CommentsOf(c, l) : c \in [1..MaxComments -> 0..MaxLinks], l \in LinkIds}

LinkTypes ==
  /\ links \subseteq LinkIds
  /\ shown \in [LinkIds -> [favorites : Totals, tags : SUBSET LinkTags, comments : Counts, clicks : Nat]]
  /\ favorites \in [LinkIds -> [LinkUsers -> Nat]] /\ tagged \in [LinkIds -> [LinkTags -> Nat]]
  /\ comments \in [1..MaxComments -> 0..MaxLinks]
  /\ next_link \in Nat \ {0} /\ next_comment \in Nat \ {0}

NoColumns ==
  /\ \A l \in LinkIds \ links : shown[l] = NewLink
  /\ \A c \in 1..MaxComments : c >= next_comment => comments[c] = 0
  /\ \A l \in links : l < next_link

LinkInv == LinkTypes /\ NoColumns /\ LinkRowsOnce /\ LinkColumnsExact

LEMMA LinksInitInv == LinksInit => LinkInv
<1>. SUFFICES ASSUME LinksInit PROVE LinkInv OBVIOUS
<1>1. NewLink \in [favorites : Totals, tags : SUBSET LinkTags, comments : Counts, clicks : Nat]
  BY DEF NewLink, Totals, Counts
<1>2. LinkTypes
  BY <1>1, LinksAssumption DEF LinksInit, LinkTypes
<1>. QED BY <1>2 DEF LinksInit, LinkInv, NoColumns, LinkRowsOnce, LinkColumnsExact

LEMMA ColumnsAreTyped ==
  ASSUME LinkTypes, NEW l \in LinkIds
  PROVE  /\ \A n \in Totals : WithFavorites(l, n) \in
              [LinkIds -> [favorites : Totals, tags : SUBSET LinkTags, comments : Counts, clicks : Nat]]
         /\ \A tags \in SUBSET LinkTags : WithTags(l, tags) \in
              [LinkIds -> [favorites : Totals, tags : SUBSET LinkTags, comments : Counts, clicks : Nat]]
         /\ \A n \in Counts : WithComments(l, n) \in
              [LinkIds -> [favorites : Totals, tags : SUBSET LinkTags, comments : Counts, clicks : Nat]]
BY DEF LinkTypes, WithFavorites, WithTags, WithComments

(* useful_links_user_favorite and _unfavorite, for the new number of rows. *)
LEMMA FavoritesStep ==
  ASSUME LinkInv, NEW l \in LinkIds, NEW u \in LinkUsers, NEW done \in 1..2, NEW n \in 0..1,
         favorites' = [favorites EXCEPT ![l][u] = n],
         shown' = IF done = 2 THEN WithFavorites(l, TotalOf(favorites'[l])) ELSE shown,
         Recounted(l, "favorites", done), UNCHANGED <<links, tagged, comments, linkCounters>>
  PROVE  LinkInv'
<1>. USE DEF LinkInv
<1>1. favorites' \in [LinkIds -> [LinkUsers -> Nat]] /\ \A k \in LinkIds : k # l => favorites'[k] = favorites[k]
  BY DEF LinkTypes
<1>2. TotalOf(favorites'[l]) \in Totals
  BY <1>1 DEF Totals
<1>3. LinkTypes'
  BY <1>1, <1>2, ColumnsAreTyped DEF LinkTypes, linkCounters
<1>4. LinkRowsOnce'
  BY <1>1 DEF LinkRowsOnce, LinkTypes
<1>5. NoColumns'
  BY DEF NoColumns, WithFavorites, linkCounters, LinkTypes
<1>6. /\ \A k \in LinkIds : shown'[k].tags = shown[k].tags /\ shown'[k].comments = shown[k].comments
      /\ \A k \in LinkIds : k # l => shown'[k].favorites = shown[k].favorites
      /\ done = 2 /\ l \in links => shown'[l].favorites = TotalOf(favorites'[l])
  BY DEF LinkTypes, WithFavorites
<1>7. \A k \in links, kind \in Kinds :
        /\ <<k, kind>> # <<l, "favorites">> /\ <<k, kind>> \in off => <<k, kind>> \in off'
        /\ done # 2 /\ l \in links => <<l, "favorites">> \in off'
  BY DEF Recounted
<1>8. LinkColumnsExact'
  <2>1. \A k \in links : shown'[k].favorites = TotalOf(favorites'[k]) \/ <<k, "favorites">> \in off'
    BY <1>1, <1>6, <1>7 DEF LinkColumnsExact, LinkTypes, Kinds
  <2>2. \A k \in links : shown'[k].tags = TagsOf(tagged[k]) \/ <<k, "tags">> \in off'
    BY <1>6, <1>7 DEF LinkColumnsExact, LinkTypes, Kinds
  <2>3. \A k \in links : shown'[k].comments = CommentsOf(comments, k) \/ <<k, "comments">> \in off'
    BY <1>6, <1>7 DEF LinkColumnsExact, LinkTypes, Kinds
  <2>. QED BY <2>1, <2>2, <2>3 DEF LinkColumnsExact
<1>. QED BY <1>3, <1>4, <1>5, <1>8

(* useful_links_tag_add and _tag_delete.                                   *)
LEMMA TagsStep ==
  ASSUME LinkInv, NEW l \in LinkIds, NEW t \in LinkTags, NEW done \in 1..2, NEW n \in 0..1,
         tagged' = [tagged EXCEPT ![l][t] = n],
         shown' = IF done = 2 THEN WithTags(l, TagsOf(tagged'[l])) ELSE shown,
         Recounted(l, "tags", done), UNCHANGED <<links, favorites, comments, linkCounters>>
  PROVE  LinkInv'
<1>. USE DEF LinkInv
<1>1. tagged' \in [LinkIds -> [LinkTags -> Nat]] /\ \A k \in LinkIds : k # l => tagged'[k] = tagged[k]
  BY DEF LinkTypes
<1>2. TagsOf(tagged'[l]) \in SUBSET LinkTags
  BY <1>1 DEF TagsOf
<1>3. LinkTypes'
  BY <1>1, <1>2, ColumnsAreTyped DEF LinkTypes, linkCounters
<1>4. LinkRowsOnce'
  BY <1>1 DEF LinkRowsOnce, LinkTypes
<1>5. NoColumns'
  BY DEF NoColumns, WithTags, linkCounters, LinkTypes
<1>6. /\ \A k \in LinkIds : shown'[k].favorites = shown[k].favorites /\ shown'[k].comments = shown[k].comments
      /\ \A k \in LinkIds : k # l => shown'[k].tags = shown[k].tags
      /\ done = 2 /\ l \in links => shown'[l].tags = TagsOf(tagged'[l])
  BY DEF LinkTypes, WithTags
<1>7. \A k \in links, kind \in Kinds :
        /\ <<k, kind>> # <<l, "tags">> /\ <<k, kind>> \in off => <<k, kind>> \in off'
        /\ done # 2 /\ l \in links => <<l, "tags">> \in off'
  BY DEF Recounted
<1>8. LinkColumnsExact'
  <2>1. \A k \in links : shown'[k].favorites = TotalOf(favorites[k]) \/ <<k, "favorites">> \in off'
    BY <1>6, <1>7 DEF LinkColumnsExact, LinkTypes, Kinds
  <2>2. \A k \in links : shown'[k].tags = TagsOf(tagged'[k]) \/ <<k, "tags">> \in off'
    BY <1>1, <1>6, <1>7 DEF LinkColumnsExact, LinkTypes, Kinds
  <2>3. \A k \in links : shown'[k].comments = CommentsOf(comments, k) \/ <<k, "comments">> \in off'
    BY <1>6, <1>7 DEF LinkColumnsExact, LinkTypes, Kinds
  <2>. QED BY <2>1, <2>2, <2>3 DEF LinkColumnsExact
<1>. QED BY <1>3, <1>4, <1>5, <1>8

(* useful_links_comment_add and _comment_delete: comment c is given to     *)
(* link l, or taken from it.                                               *)
LEMMA CommentsStep ==
  ASSUME LinkInv, NEW l \in LinkIds, NEW c \in 1..MaxComments, NEW done \in 1..2, NEW n \in 0..MaxLinks,
         comments' = [comments EXCEPT ![c] = n], comments[c] \in {0, l}, n \in {0, l},
         next_comment' \in Nat \ {0}, next_comment' >= next_comment, n # 0 => c < next_comment',
         shown' = IF done = 2 THEN WithComments(l, CommentsOf(comments', l)) ELSE shown,
         Recounted(l, "comments", done), UNCHANGED <<links, favorites, tagged, next_link>>
  PROVE  LinkInv'
<1>. USE DEF LinkInv
<1>1. comments' \in [1..MaxComments -> 0..MaxLinks]
  BY DEF LinkTypes
<1>2. CommentsOf(comments', l) \in Counts
  <2>1. \A d \in [1..MaxComments -> 0..MaxLinks], k \in LinkIds : CommentsOf(d, k) \in Counts
    BY DEF Counts
  <2>. QED BY <1>1, <2>1
<1>3. LinkTypes'
  BY <1>1, <1>2, ColumnsAreTyped DEF LinkTypes
<1>4. LinkRowsOnce'
  BY DEF LinkRowsOnce
<1>5. NoColumns'
  <2>1. \A k \in LinkIds \ links' : shown'[k] = NewLink
    BY DEF NoColumns, WithComments, LinkTypes
  <2>2. \A d \in 1..MaxComments : d >= next_comment' => comments'[d] = 0
    BY DEF NoColumns, LinkTypes
  <2>. QED BY <2>1, <2>2 DEF NoColumns
<1>6. ASSUME NEW k \in LinkIds, k # l PROVE CommentsOf(comments', k) = CommentsOf(comments, k)
  <2>1. k # 0
    BY LinksAssumption DEF LinkIds
  <2>2. {d \in DOMAIN comments' : comments'[d] = k} = {d \in DOMAIN comments : comments[d] = k}
    BY <1>6, <2>1 DEF LinkTypes
  <2>. QED BY <2>2 DEF CommentsOf
<1>7. /\ \A k \in LinkIds : shown'[k].favorites = shown[k].favorites /\ shown'[k].tags = shown[k].tags
      /\ \A k \in LinkIds : k # l => shown'[k].comments = shown[k].comments
      /\ done = 2 /\ l \in links => shown'[l].comments = CommentsOf(comments', l)
  BY DEF LinkTypes, WithComments
<1>8. \A k \in links, kind \in Kinds :
        /\ <<k, kind>> # <<l, "comments">> /\ <<k, kind>> \in off => <<k, kind>> \in off'
        /\ done # 2 /\ l \in links => <<l, "comments">> \in off'
  BY DEF Recounted
<1>9. LinkColumnsExact'
  BY <1>6, <1>7, <1>8 DEF LinkColumnsExact, LinkTypes, Kinds
<1>. QED BY <1>3, <1>4, <1>5, <1>9

LEMMA LinkAddStep == LinkInv /\ LinkAdd => LinkInv'
<1>. SUFFICES ASSUME LinkInv, LinkAdd PROVE LinkInv' OBVIOUS
<1>. USE DEF LinkInv
<1>1. next_link \in LinkIds /\ next_link \notin links
  BY LinksAssumption DEF LinkAdd, LinkTypes, LinkIds, NoColumns
<1>2. LinkTypes' /\ LinkRowsOnce'
  <2>1. links' \subseteq LinkIds /\ next_link' \in Nat \ {0} /\ next_comment' \in Nat \ {0}
    BY <1>1 DEF LinkAdd, LinkTypes
  <2>. QED BY <2>1 DEF LinkAdd, LinkTypes, LinkRowsOnce
<1>6. NoColumns'
  <2>1. (\A l \in LinkIds \ links : shown[l] = NewLink)'
    BY <1>1 DEF LinkAdd, NoColumns
  <2>2. (\A c \in 1..MaxComments : c >= next_comment => comments[c] = 0)'
    BY DEF LinkAdd, NoColumns
  <2>3. (\A l \in links : l < next_link)'
    <3>. SUFFICES ASSUME NEW l \in links' PROVE l < next_link'
      OBVIOUS
    <3>1. CASE l = next_link BY <3>1, <1>1 DEF LinkAdd, LinkIds
    <3>2. CASE l \in links BY <3>2, <1>1 DEF LinkAdd, NoColumns, LinkTypes, LinkIds
    <3>. QED BY <3>1, <3>2 DEF LinkAdd
  <2>. QED BY <2>1, <2>2, <2>3 DEF NoColumns
<1>3. shown'[next_link] = NewLink /\ \A k \in Kinds : k \in EarlyRows(next_link) => <<next_link, k>> \in off'
  BY <1>1 DEF LinkAdd, NoColumns
<1>4. /\ shown'[next_link].favorites = TotalOf(favorites[next_link]) \/ <<next_link, "favorites">> \in off'
      /\ shown'[next_link].tags = TagsOf(tagged[next_link]) \/ <<next_link, "tags">> \in off'
      /\ shown'[next_link].comments = CommentsOf(comments, next_link) \/ <<next_link, "comments">> \in off'
  BY <1>3 DEF EarlyRows, NewLink, Kinds
<1>5. LinkColumnsExact'
  BY <1>4 DEF LinkAdd, LinkColumnsExact
<1>. QED BY <1>2, <1>5, <1>6

LEMMA LinkDeleteStep ==
  ASSUME LinkInv, NEW l \in LinkIds, NEW done \in 1..4, LinkDelete(l, done)
  PROVE  LinkInv'
<1>. USE DEF LinkInv
<1>1. NewLink \in [favorites : Totals, tags : SUBSET LinkTags, comments : Counts, clicks : Nat]
  BY DEF NewLink, Totals, Counts
<1>2. LinkTypes'
  <2>1. comments' \in [1..MaxComments -> 0..MaxLinks]
    BY LinksAssumption DEF LinkDelete, LinkTypes, WithoutComments
  <2>2. favorites' \in [LinkIds -> [LinkUsers -> Nat]] /\ tagged' \in [LinkIds -> [LinkTags -> Nat]]
    BY DEF LinkDelete, LinkTypes
  <2>. QED BY <1>1, <2>1, <2>2 DEF LinkDelete, LinkTypes, linkCounters
<1>3. \A k \in LinkIds : k # l => /\ shown'[k] = shown[k] /\ favorites'[k] = favorites[k] /\ tagged'[k] = tagged[k]
  BY DEF LinkDelete, LinkTypes
<1>4. LinkRowsOnce'
  BY DEF LinkDelete, LinkRowsOnce, LinkTypes
<1>5. NoColumns'
  BY DEF LinkDelete, NoColumns, linkCounters, WithoutComments, LinkTypes
<1>6. ASSUME NEW k \in LinkIds, k # l PROVE CommentsOf(comments', k) = CommentsOf(comments, k)
  <2>1. k # 0
    BY LinksAssumption DEF LinkIds
  <2>2. {d \in DOMAIN comments' : comments'[d] = k} = {d \in DOMAIN comments : comments[d] = k}
    BY <1>6, <2>1 DEF LinkDelete, WithoutComments, LinkTypes
  <2>. QED BY <2>2 DEF CommentsOf
<1>7. \A k \in links', kind \in Kinds : k # l /\ k \in links /\ (<<k, kind>> \in off => <<k, kind>> \in off')
  BY DEF LinkDelete
<1>8. LinkColumnsExact'
  BY <1>3, <1>6, <1>7 DEF LinkColumnsExact, LinkTypes, Kinds
<1>. QED BY <1>2, <1>4, <1>5, <1>8

LEMMA LinksStep == LinkInv /\ [LinksNext]_linksVars => LinkInv'
<1>. SUFFICES ASSUME LinkInv, [LinksNext]_linksVars PROVE LinkInv' OBVIOUS
<1>1. ASSUME NEW l \in LinkIds, Clicked(l) PROVE LinkInv'
  <2>. USE DEF LinkInv
  <2>1. /\ \A k \in LinkIds : /\ shown'[k].favorites = shown[k].favorites /\ shown'[k].tags = shown[k].tags
                              /\ shown'[k].comments = shown[k].comments
        /\ \A k \in LinkIds : k # l => shown'[k] = shown[k]
    BY <1>1 DEF Clicked, LinkTypes
  <2>2. LinkTypes'
    <3>1. shown[l].clicks + 1 \in Nat
      BY <1>1 DEF LinkTypes
    <3>2. shown' \in [LinkIds -> [favorites : Totals, tags : SUBSET LinkTags, comments : Counts, clicks : Nat]]
      BY <1>1, <3>1 DEF Clicked, LinkTypes
    <3>. QED BY <1>1, <3>2 DEF Clicked, LinkTypes, linkCounters
  <2>5. LinkRowsOnce'
    BY <1>1 DEF Clicked, LinkRowsOnce
  <2>3. NoColumns'
    BY <1>1, <2>1 DEF Clicked, NoColumns, linkCounters
  <2>4. LinkColumnsExact'
    BY <1>1, <2>1 DEF Clicked, LinkColumnsExact, LinkTypes
  <2>. QED BY <2>2, <2>3, <2>4, <2>5
<1>2. ASSUME NEW l \in LinkIds, NEW u \in LinkUsers, NEW done \in 1..2, Favorite(l, u, done) \/ Unfavorite(l, u, done)
      PROVE  LinkInv'
  <2>1. CASE Favorite(l, u, done)
    <3>1. favorites[l][u] + 1 = 1
      BY <2>1 DEF Favorite, IsFavorite, LinkInv, LinkTypes
    <3>2. favorites' = [favorites EXCEPT ![l][u] = favorites[l][u] + 1]
      BY <2>1 DEF Favorite
    <3>3. favorites' = [favorites EXCEPT ![l][u] = 1]
      BY <3>1, <3>2, Zenon
    <3>4. 1 \in 0..1
      OBVIOUS
    <3>. QED BY <2>1, <3>3, <3>4, FavoritesStep DEF Favorite
  <2>2. CASE Unfavorite(l, u, done)
    <3>1. favorites' = [favorites EXCEPT ![l][u] = 0] /\ 0 \in 0..1
      BY <2>2 DEF Unfavorite
    <3>. QED BY <2>2, <3>1, FavoritesStep DEF Unfavorite
  <2>. QED BY <1>2, <2>1, <2>2
<1>3. ASSUME NEW l \in LinkIds, NEW t \in LinkTags, NEW done \in 1..2, TagAdd(l, t, done) \/ TagDelete(l, t, done)
      PROVE  LinkInv'
  <2>1. CASE TagAdd(l, t, done)
    <3>1. tagged[l][t] + 1 = 1
      BY <2>1 DEF TagAdd, LinkInv, LinkTypes
    <3>2. tagged' = [tagged EXCEPT ![l][t] = tagged[l][t] + 1]
      BY <2>1 DEF TagAdd
    <3>3. tagged' = [tagged EXCEPT ![l][t] = 1]
      BY <3>1, <3>2, Zenon
    <3>4. 1 \in 0..1
      OBVIOUS
    <3>. QED BY <2>1, <3>3, <3>4, TagsStep DEF TagAdd
  <2>2. CASE TagDelete(l, t, done)
    <3>1. tagged' = [tagged EXCEPT ![l][t] = 0] /\ 0 \in 0..1
      BY <2>2 DEF TagDelete
    <3>. QED BY <2>2, <3>1, TagsStep DEF TagDelete
  <2>. QED BY <1>3, <2>1, <2>2
<1>4. ASSUME NEW l \in LinkIds, NEW done \in 1..2, CommentAdd(l, done) PROVE LinkInv'
  <2>1. next_comment \in 1..MaxComments /\ comments[next_comment] = 0 /\ l \in 0..MaxLinks
    BY <1>4, LinksAssumption DEF CommentAdd, LinkInv, LinkTypes, NoColumns, LinkIds
  <2>2. next_comment' \in Nat \ {0} /\ next_comment' >= next_comment /\ next_comment < next_comment'
    BY <1>4 DEF CommentAdd, LinkInv, LinkTypes
  <2>. QED BY <1>4, <2>1, <2>2, CommentsStep DEF CommentAdd
<1>5. ASSUME NEW c \in 1..MaxComments, NEW done \in 1..2, CommentDelete(c, done) PROVE LinkInv'
  <2>1. comments[c] \in LinkIds /\ 0 \in 0..MaxLinks
    BY <1>5, LinksAssumption DEF CommentDelete, LinkInv, LinkTypes, LinkIds
  <2>2. next_comment' \in Nat \ {0} /\ next_comment' >= next_comment
    BY <1>5 DEF CommentDelete, LinkInv, LinkTypes, linkCounters
  <2>. QED BY <1>5, <2>1, <2>2, CommentsStep DEF CommentDelete, LinkOfComment, linkCounters
<1>6. CASE UNCHANGED linksVars
  BY <1>6 DEF linksVars, linkCounters, LinkInv, LinkTypes, NoColumns, LinkRowsOnce, LinkColumnsExact
<1>. QED BY <1>1, <1>2, <1>3, <1>4, <1>5, <1>6, LinkAddStep, LinkDeleteStep DEF LinksNext

(* What useful_links_list shows of a link is what its rows make, each row  *)
(* counted once, but for a column a refused statement left behind.         *)
THEOREM LinkColumnsAreTrue == LinksSpec => []LinkColumnsTrue
<1>1. LinkInv => LinkColumnsTrue
  BY DEF LinkInv, LinkColumnsTrue
<1>. QED BY LinksInitInv, LinksStep, <1>1, PTL DEF LinksSpec
-----------------------------------------------------------------------------
(* Passwords and mails.  A mail keeps whom it is to and what it carries;   *)
(* one whose task is over has arrived or was hit by a fault.               *)
MailSteps == {"none", "queued", "inserted", "accepted", "failed", "over"}
Mails == [to : Emails \cup {"nobody"}, pass : Nat, step : MailSteps, status : {"none", "loaded", "sent", "error"}]

AccountTypes ==
  /\ password \in [Emails -> Nat] /\ mails \in [MailIds -> Mails]
  /\ inbox \subseteq MailIds /\ spoiled \subseteq MailIds
  /\ next_pass \in Nat \ {0} /\ next_mail \in Nat \ {0}
  /\ owned \in [Emails -> SUBSET Nat]

MailTrue(m) ==
  /\ m >= next_mail => mails[m].step = "none"
  /\ mails[m].step = "none" => mails[m].pass = 0
  /\ mails[m].step \in {"none", "queued"} => mails[m].status = "none" /\ m \notin inbox
  /\ mails[m].step = "accepted" => m \in inbox
  /\ mails[m].step = "failed" => m \in spoiled
  /\ mails[m].step = "over" => m \in inbox \cup spoiled
  /\ mails[m].pass # 0 => mails[m].to \in Emails /\ mails[m].pass \in owned[mails[m].to]
  /\ mails[m].status = "sent" => m \in inbox
  /\ m \in inbox => mails[m].status # "none"

Carried(e) == \E m \in MailIds : mails[m].to = e /\ mails[m].pass = password[e] /\ mails[m].step # "none"

AccountInv ==
  /\ AccountTypes /\ \A m \in MailIds : MailTrue(m)
  /\ \A e \in Emails : password[e] # 0 => password[e] \in told \/ Carried(e)

LEMMA AccountsInitInv == AccountsInit => AccountInv
<1>. SUFFICES ASSUME AccountsInit PROVE AccountInv OBVIOUS
<1>1. NoMail \in Mails
  BY DEF NoMail, Mails, MailSteps
<1>2. AccountTypes
  BY <1>1 DEF AccountsInit, AccountTypes
<1>3. \A m \in MailIds : MailTrue(m)
  BY DEF AccountsInit, MailTrue, NoMail
<1>. QED BY <1>2, <1>3 DEF AccountsInit, AccountInv

(* The mail to e with password p, made by a command.                       *)
LEMMA MailSendStep ==
  ASSUME AccountInv, NEW e \in Emails, NEW p \in Nat, MailSend(e, p),
         password' \in [Emails -> Nat], owned' \in [Emails -> SUBSET Nat], next_pass' \in Nat \ {0},
         told' = told, \A f \in Emails : owned[f] \subseteq owned'[f], p # 0 => p \in owned'[e],
         \A f \in Emails : password'[f] = password[f] \/ (f = e /\ password'[f] = p)
  PROVE  AccountInv'
<1>. DEFINE new == [to |-> e, pass |-> p, step |-> "queued", status |-> "none"]
<1>. USE DEF AccountInv, AccountTypes
<1>1. next_mail \in MailIds /\ mails' = [mails EXCEPT ![next_mail] = new] /\ next_mail' = next_mail + 1
  BY AccountsAssumption DEF MailSend, MailIds
<1>2. new \in Mails
  BY DEF Mails, MailSteps
<1>3. AccountTypes'
  BY <1>1, <1>2 DEF MailSend
<1>4. mails'[next_mail] = new /\ \A m \in MailIds : m # next_mail => mails'[m] = mails[m]
  BY <1>1
<1>5. next_mail \notin inbox
  BY <1>1 DEF MailTrue
<1>6. ASSUME NEW m \in MailIds PROVE MailTrue(m)'
  <2>1. CASE m = next_mail
    BY <1>1, <1>4, <1>5, <2>1 DEF MailTrue, MailSend
  <2>2. CASE m # next_mail
    <3>1. MailTrue(m) /\ mails'[m] = mails[m] /\ (m >= next_mail' => m >= next_mail)
      BY <1>1, <1>4, <2>2 DEF MailIds
    <3>. QED BY <3>1 DEF MailTrue, MailSend
  <2>. QED BY <2>1, <2>2
<1>7. ASSUME NEW f \in Emails, password'[f] # 0 PROVE password'[f] \in told' \/ Carried(f)'
  <2>1. CASE f = e /\ password'[f] = p
    BY <1>1, <1>4, <2>1 DEF Carried
  <2>2. CASE password'[f] = password[f]
    <3>1. CASE password[f] \in told
      BY <2>2, <3>1
    <3>2. CASE password[f] \notin told
      <4>1. PICK m \in MailIds : mails[m].to = f /\ mails[m].pass = password[f] /\ mails[m].step # "none"
        BY <1>7, <2>2, <3>2 DEF Carried
      <4>2. m # next_mail
        BY <1>1, <4>1 DEF MailTrue
      <4>. QED BY <1>4, <2>2, <4>1, <4>2 DEF Carried
    <3>. QED BY <3>1, <3>2
  <2>. QED BY <2>1, <2>2
<1>. QED BY <1>3, <1>6, <1>7

(* A step of the task of mail m.                                           *)
LEMMA MailTaskStep ==
  ASSUME AccountInv, NEW m \in MailIds, NEW from \in MailSteps \ {"none"}, NEW to \in MailSteps \ {"none"},
         NEW status \in {"none", "loaded", "sent", "error"},
         MailStep(m, from, to, status), inbox \subseteq inbox', inbox' \subseteq inbox \cup {m},
         spoiled \subseteq spoiled', spoiled' \subseteq MailIds,
         to = "queued" => status = "none" /\ m \notin inbox', to = "accepted" => m \in inbox',
         to = "failed" => m \in spoiled', to = "over" => m \in inbox' \cup spoiled',
         status = "sent" => m \in inbox', m \in inbox' => status # "none"
  PROVE  AccountInv'
<1>. USE DEF AccountInv, AccountTypes
<1>. DEFINE row == [mails[m] EXCEPT !.step = to, !.status = status]
<1>1. /\ mails' = [mails EXCEPT ![m] = row]
      /\ mails[m].step = from /\ UNCHANGED <<password, next_pass, next_mail, owned, told>>
  BY DEF MailStep
<1>0. /\ row \in Mails /\ row.to = mails[m].to /\ row.pass = mails[m].pass
      /\ row.step = to /\ row.status = status
  <2>1. mails[m] \in Mails
    OBVIOUS
  <2>. QED BY <2>1 DEF Mails
<1>. HIDE DEF row
<1>2. mails' \in [MailIds -> Mails]
  BY <1>0, <1>1
<1>3. /\ mails'[m].to = mails[m].to /\ mails'[m].pass = mails[m].pass
      /\ mails'[m].step = to /\ mails'[m].status = status
      /\ \A k \in MailIds : k # m => mails'[k] = mails[k]
  BY <1>0, <1>1
<1>4. AccountTypes'
  BY <1>1, <1>2
<1>5. ASSUME NEW k \in MailIds PROVE MailTrue(k)'
  <2>1. CASE k = m
    BY <1>1, <1>3, <2>1 DEF MailTrue
  <2>2. CASE k # m
    BY <1>1, <1>3, <2>2 DEF MailTrue
  <2>. QED BY <2>1, <2>2
<1>6. ASSUME NEW e \in Emails, password'[e] # 0 PROVE password'[e] \in told' \/ Carried(e)'
  <2>1. \A k \in MailIds : /\ mails'[k].to = mails[k].to /\ mails'[k].pass = mails[k].pass
                           /\ mails[k].step # "none" => mails'[k].step # "none"
    BY <1>3
  <2>. QED BY <1>1, <1>6, <2>1 DEF Carried
<1>. QED BY <1>4, <1>5, <1>6

LEMMA AccountsStep == AccountInv /\ [AccountsNext]_accountsVars => AccountInv'
<1>. SUFFICES ASSUME AccountInv, [AccountsNext]_accountsVars PROVE AccountInv' OBVIOUS
<1>0. AccountTypes /\ \A m \in MailIds : MailTrue(m)
  BY DEF AccountInv
<1>1. ASSUME NEW e \in Emails, SetPassword(e)
      PROVE  /\ password' = [password EXCEPT ![e] = next_pass] /\ password' \in [Emails -> Nat]
             /\ owned' \in [Emails -> SUBSET Nat] /\ next_pass' \in Nat \ {0} /\ next_pass \in owned'[e]
             /\ \A f \in Emails : owned[f] \subseteq owned'[f]
  BY <1>0, <1>1 DEF SetPassword, AccountTypes
<1>2. ASSUME NEW e \in Emails, RegistrationOrReset(e) PROVE AccountInv'
  <2>1. next_pass \in Nat /\ \A f \in Emails : password'[f] = password[f] \/ (f = e /\ password'[f] = next_pass)
    BY <1>0, <1>1, <1>2 DEF RegistrationOrReset, AccountTypes
  <2>. QED BY <1>1, <1>2, <2>1, MailSendStep DEF RegistrationOrReset
<1>3. ASSUME NEW e \in Emails, ChoosePassword(e) PROVE AccountInv'
  <2>1. UNCHANGED <<mails, inbox, next_mail, spoiled>> /\ told' = told \cup {next_pass}
    BY <1>3 DEF ChoosePassword, mailVars
  <2>2. AccountTypes' /\ \A m \in MailIds : MailTrue(m)'
    BY <1>0, <1>1, <1>3, <2>1 DEF ChoosePassword, AccountTypes, MailTrue
  <2>3. ASSUME NEW f \in Emails, password'[f] # 0 PROVE password'[f] \in told' \/ Carried(f)'
    <3>1. CASE f = e
      BY <1>0, <1>1, <1>3, <2>1, <3>1 DEF ChoosePassword, AccountTypes
    <3>2. CASE f # e
      <4>1. password'[f] = password[f]
        BY <1>0, <1>1, <1>3, <3>2 DEF ChoosePassword, AccountTypes
      <4>. QED BY <2>1, <2>3, <4>1 DEF AccountInv, Carried
    <3>. QED BY <3>1, <3>2
  <2>. QED BY <2>2, <2>3 DEF AccountInv
<1>4. ASSUME NEW e \in Emails, PasswordRefused(e) PROVE AccountInv'
  <2>1. UNCHANGED <<mails, inbox, next_mail, spoiled, password, owned, told>> /\ next_pass' = next_pass + 1
    BY <1>4 DEF PasswordRefused, WhenRefused, mailVars
  <2>. QED BY <1>0, <2>1 DEF AccountInv, AccountTypes, MailTrue, Carried
<1>5. ASSUME NEW e \in Emails, UsersDelete(e) PROVE AccountInv'
  <2>1. UNCHANGED <<mails, inbox, next_mail, spoiled, next_pass, owned, told>>
    BY <1>5 DEF UsersDelete, mailVars
  <2>2. password' = [password EXCEPT ![e] = 0] /\ password' \in [Emails -> Nat]
    BY <1>0, <1>5 DEF UsersDelete, AccountTypes
  <2>3. \A f \in Emails : password'[f] # 0 => password'[f] = password[f]
    BY <1>0, <2>2 DEF AccountTypes
  <2>. QED BY <1>0, <2>1, <2>2, <2>3 DEF AccountInv, AccountTypes, MailTrue, Carried
<1>6. ASSUME NEW e \in Emails, SendOther(e) PROVE AccountInv'
  BY <1>0, <1>6, MailSendStep DEF SendOther, AccountTypes
<1>7. ASSUME NEW m \in MailIds,
             \/ InsertMail(m) \/ InsertMailRefused(m) \/ SendMail(m) \/ SendMailFails(m)
             \/ MarkMail(m) \/ MarkMailRefused(m)
      PROVE  AccountInv'
  <2>. USE DEF MailSteps
  <2>0. MailTrue(m) /\ inbox \subseteq MailIds /\ spoiled \subseteq MailIds /\ mails[m].status \in {"none", "loaded", "sent", "error"}
    BY <1>0 DEF AccountTypes, Mails
  <2>1. CASE InsertMail(m)
    <3>1. m \notin inbox
      BY <2>0, <2>1 DEF InsertMail, MailStep, MailTrue
    <3>. QED BY <2>0, <2>1, <3>1, MailTaskStep DEF InsertMail
  <2>2. CASE InsertMailRefused(m)
    <3>1. m \notin inbox
      BY <2>0, <2>2 DEF InsertMailRefused, MailStep, MailTrue
    <3>. QED BY <2>0, <2>2, <3>1, MailTaskStep DEF InsertMailRefused
  <2>3. CASE SendMail(m)
    BY <2>0, <2>3, MailTaskStep DEF SendMail
  <2>4. CASE SendMailFails(m)
    BY <2>0, <2>4, MailTaskStep DEF SendMailFails
  <2>5. CASE MarkMail(m)
    <3>1. CASE mails[m].step = "accepted"
      BY <2>0, <2>5, <3>1, MailTaskStep DEF MarkMail, StatusOf, MailTrue
    <3>2. CASE mails[m].step = "failed"
      BY <2>0, <2>5, <3>2, MailTaskStep DEF MarkMail, StatusOf, MailTrue
    <3>. QED BY <2>5, <3>1, <3>2 DEF MarkMail
  <2>6. CASE MarkMailRefused(m)
    <3>1. mails[m].step \in {"accepted", "failed"} /\ inbox' = inbox /\ spoiled' = spoiled
      BY <2>6 DEF MarkMailRefused
    <3>2. /\ m \in inbox \cup spoiled
          /\ mails[m].status = "sent" => m \in inbox
          /\ m \in inbox => mails[m].status # "none"
      BY <2>0, <3>1 DEF MailTrue
    <3>3. MailStep(m, mails[m].step, "over", mails[m].status)
      BY <2>6 DEF MarkMailRefused
    <3>4. mails[m].step \in MailSteps \ {"none"} /\ "over" \in MailSteps \ {"none"}
      BY <3>1
    <3>5. /\ inbox \subseteq inbox' /\ inbox' \subseteq inbox \cup {m} /\ spoiled \subseteq spoiled'
          /\ spoiled' \subseteq MailIds /\ m \in inbox' \cup spoiled'
          /\ mails[m].status = "sent" => m \in inbox'
          /\ m \in inbox' => mails[m].status # "none"
      BY <2>0, <3>1, <3>2
    <3>. HIDE DEF MailSteps
    <3>. QED BY <2>0, <3>3, <3>4, <3>5, MailTaskStep
  <2>. QED BY <1>7, <2>1, <2>2, <2>3, <2>4, <2>5, <2>6
<1>8. CASE MailsStop
  <2>1. /\ UNCHANGED <<password, inbox, next_pass, next_mail, owned, told>> /\ spoiled' = spoiled \cup Pending
        /\ mails' = [m \in MailIds |-> IF m \in Pending THEN [mails[m] EXCEPT !.step = "over"] ELSE mails[m]]
    BY <1>8 DEF MailsStop
  <2>2. ASSUME NEW m \in MailIds
        PROVE  /\ mails'[m] \in Mails /\ mails'[m].to = mails[m].to /\ mails'[m].pass = mails[m].pass
               /\ mails'[m].status = mails[m].status
               /\ mails'[m].step = IF m \in Pending THEN "over" ELSE mails[m].step
    <3>1. mails[m] \in Mails
      BY <1>0 DEF AccountTypes
    <3>2. CASE m \in Pending
      <4>1. mails'[m] = [mails[m] EXCEPT !.step = "over"]
        BY <2>1, <3>2
      <4>. QED BY <3>1, <3>2, <4>1 DEF Mails, MailSteps
    <3>3. CASE m \notin Pending
      BY <2>1, <3>1, <3>3
    <3>. QED BY <3>2, <3>3
  <2>3. Pending \subseteq MailIds /\ \A m \in MailIds : m \in Pending <=> mails[m].step \notin {"none", "over"}
    BY DEF Pending
  <2>4. AccountTypes'
    BY <1>0, <2>1, <2>2, <2>3 DEF AccountTypes
  <2>5. \A m \in MailIds : MailTrue(m)'
    BY <1>0, <2>1, <2>2, <2>3 DEF MailTrue
  <2>6. \A m \in MailIds : mails[m].step # "none" => mails'[m].step # "none"
    BY <2>2
  <2>7. \A e \in Emails : password'[e] # 0 => password'[e] \in told' \/ Carried(e)'
    BY <2>1, <2>2, <2>6 DEF AccountInv, Carried
  <2>. QED BY <2>4, <2>5, <2>7 DEF AccountInv
<1>9. CASE UNCHANGED accountsVars
  BY <1>9 DEF accountsVars, mailVars, AccountInv, AccountTypes, MailTrue, Carried
<1>. QED BY <1>2, <1>3, <1>4, <1>5, <1>6, <1>7, <1>8, <1>9
     DEF AccountsNext, Registration, ResetPassword, UsersAdd, ChangePassword

(* The password of an account is known to somebody, on its way, or in a    *)
(* mail a fault has hit, and no mail says what was not so.                 *)
THEOREM PasswordsAreMailed == AccountsSpec => []MailedPasswords
<1>1. AccountInv => MailsTrue
  BY DEF AccountInv, MailTrue, MailsTrue
<1>2. AccountInv => PasswordReachesOwner
  <2>. SUFFICES ASSUME AccountInv, NEW e \in Emails, password[e] # 0, password[e] \notin told
       PROVE  KnowsPassword(e) \/ OnItsWay(e)
    BY DEF PasswordReachesOwner, KnowsPassword
  <2>1. PICK m \in MailIds : mails[m].to = e /\ mails[m].pass = password[e] /\ mails[m].step # "none"
    BY DEF AccountInv, Carried
  <2>2. mails[m].step = "over" => m \in inbox \cup spoiled
    BY DEF AccountInv, MailTrue
  <2>3. m \in inbox \cup spoiled \cup Pending
    BY <2>1, <2>2 DEF Pending
  <2>. QED BY <2>1, <2>3 DEF KnowsPassword, OnItsWay
<1>. QED BY AccountsInitInv, AccountsStep, <1>1, <1>2, PTL DEF AccountsSpec, MailedPasswords
-----------------------------------------------------------------------------
(* Places of users.  While a user's last task was alone, each task of his  *)
(* under way has the address of the last login; with none under way that   *)
(* address is in the row.                                                  *)
LocationSteps == {"none", "queued", "asking", "answered", "same", "written", "failed"}
LocationRows == Addresses \cup {NoIp}
LocationTasks == [user : Located \cup {"nobody"}, ip : LocationRows, by : {"none", "login", "command"},
                  answer : Places \cup {Unknown}, step : LocationSteps]

LocationTypes ==
  /\ last_ip \in [Located -> LocationRows] /\ newest \in [Located -> LocationRows]
  /\ country \in [Located -> Places \cup {Unknown}] /\ city \in [Located -> Places \cup {Unknown}]
  /\ location_tasks \in [TaskIds -> LocationTasks] /\ next_task \in Nat \ {0}
  /\ editing # NoEdit => editing.user \in Located /\ editing.country \in Places \cup {Unknown}

LocationTaskTrue(k) ==
  /\ k >= next_task => location_tasks[k].step = "none"
  /\ location_tasks[k].step # "none" => location_tasks[k].user \in Located
  /\ location_tasks[k].step \in {"asking", "answered"} => location_tasks[k].ip # LocalIp

PendingFor(k, u) == location_tasks[k].user = u /\ location_tasks[k].ip # LocalIp /\ Unfinished(k)
Followed(u) ==
  u \notin overlapped => /\ \A k \in TaskIds : PendingFor(k, u) => location_tasks[k].ip = newest[u]
                         /\ (\A k \in TaskIds : ~PendingFor(k, u)) => last_ip[u] = newest[u]
OneAnswer(u) == u \notin edited => country[u] = city[u]

LocationInv ==
  /\ LocationTypes
  /\ \A k \in TaskIds : LocationTaskTrue(k)
  /\ \A u \in Located : Followed(u) /\ OneAnswer(u)

LEMMA LocationsInitInv == LocationsInit => LocationInv
<1>. SUFFICES ASSUME LocationsInit PROVE LocationInv OBVIOUS
<1>1. NoTask \in LocationTasks
  BY DEF NoTask, LocationTasks, LocationSteps, LocationRows
<1>2. LocationTypes
  BY <1>1 DEF LocationsInit, LocationTypes, LocationRows
<1>3. \A k \in TaskIds : location_tasks[k].step = "none"
  BY DEF LocationsInit, NoTask
<1>. QED BY <1>2, <1>3 DEF LocationInv, LocationsInit, LocationTaskTrue, Followed, PendingFor, Unfinished, OneAnswer

(* A task is started.                                                      *)
LEMMA StartTaskStep ==
  ASSUME LocationInv, NEW u \in Located, NEW a \in LocationRows, NEW by \in {"login", "command"}, StartTask(u, a, by)
  PROVE  LocationInv'
<1>. DEFINE new == [user |-> u, ip |-> a, by |-> by, step |-> "queued", answer |-> Unknown]
<1>. USE DEF LocationInv, LocationTypes
<1>1. /\ next_task \in TaskIds /\ next_task' = next_task + 1
      /\ location_tasks' = [location_tasks EXCEPT ![next_task] = new]
      /\ UNCHANGED <<last_ip, country, city, editing, edited>>
  BY LocationsAssumption DEF StartTask, TaskIds, locationRows
<1>2. new \in LocationTasks
  BY DEF LocationTasks, LocationSteps
<1>3. newest' = IF a = LocalIp THEN newest ELSE [newest EXCEPT ![u] = a]
  BY DEF StartTask
<1>4. LocationTypes'
  BY <1>1, <1>2, <1>3
<1>5. location_tasks'[next_task] = new /\ \A k \in TaskIds : k # next_task => location_tasks'[k] = location_tasks[k]
  BY <1>1
<1>6. ASSUME NEW k \in TaskIds PROVE LocationTaskTrue(k)'
  <2>1. CASE k = next_task
    BY <1>1, <1>5, <2>1 DEF LocationTaskTrue
  <2>2. CASE k # next_task
    <3>1. LocationTaskTrue(k) /\ location_tasks'[k] = location_tasks[k] /\ (k >= next_task' => k >= next_task)
      BY <1>1, <1>5, <2>2 DEF TaskIds
    <3>. QED BY <3>1 DEF LocationTaskTrue
  <2>. QED BY <2>1, <2>2
<1>7. \A k \in TaskIds : \A v \in Located : ~(k = next_task) => (PendingFor(k, v)' <=> PendingFor(k, v))
  BY <1>5 DEF PendingFor, Unfinished
<1>. PICK n \in TaskIds : n = next_task
  BY <1>1
<1>8. \A v \in Located : ~PendingFor(n, v) /\ (PendingFor(n, v)' <=> v = u /\ a # LocalIp)
  BY <1>1, <1>5 DEF PendingFor, Unfinished, LocationTaskTrue
<1>9. \A v \in Located : v # u => newest'[v] = newest[v] /\ (v \in overlapped' <=> v \in overlapped)
  BY <1>3 DEF StartTask
<1>10. ASSUME NEW v \in Located PROVE Followed(v)'
  <2>1. CASE v # u \/ a = LocalIp
    <3>1. newest'[v] = newest[v] /\ (v \in overlapped' <=> v \in overlapped)
      <4>1. CASE v # u
        BY <1>9, <4>1
      <4>2. CASE a = LocalIp
        BY <1>3, <4>2 DEF StartTask
      <4>. QED BY <2>1, <4>1, <4>2
    <3>2. \A k \in TaskIds : PendingFor(k, v)' <=> PendingFor(k, v)
      BY <1>7, <1>8, <2>1
    <3>3. \A k \in TaskIds : PendingFor(k, v)' => location_tasks'[k].ip = location_tasks[k].ip
      BY <1>5, <1>8, <3>2
    <3>. QED BY <1>1, <3>1, <3>2, <3>3 DEF Followed
  <2>2. CASE v = u /\ a # LocalIp
    <3>1. HasPending(u) => u \in overlapped'
      BY <2>2 DEF StartTask
    <3>2. CASE \E k \in TaskIds : PendingFor(k, u)
      BY <2>2, <3>1, <3>2 DEF HasPending, PendingFor, Followed
    <3>3. CASE \A k \in TaskIds : ~PendingFor(k, u)
      <4>1. newest'[u] = a /\ PendingFor(n, u)' /\ location_tasks'[n].ip = a
        BY <1>3, <1>5, <1>8, <2>2
      <4>2. \A k \in TaskIds : PendingFor(k, u)' => k = n
        BY <1>7, <3>3
      <4>. QED BY <1>1, <2>2, <4>1, <4>2 DEF Followed
    <3>. QED BY <3>2, <3>3
  <2>. QED BY <2>1, <2>2
<1>11. \A v \in Located : OneAnswer(v)'
  BY <1>1 DEF OneAnswer
<1>. QED BY <1>4, <1>6, <1>10, <1>11

(* What a step of task k leaves as it is.                                  *)
LEMMA LocationTaskStep ==
  ASSUME LocationInv, NEW k \in TaskIds, NEW from, NEW to \in LocationSteps, NEW answer \in Places \cup {Unknown},
         TaskStep(k, from, to, answer), from # "none", to # "none",
         to \in {"asking", "answered"} => location_tasks[k].ip # LocalIp
  PROVE  /\ location_tasks' \in [TaskIds -> LocationTasks] /\ next_task' = next_task /\ newest' = newest /\ editing' = editing
         /\ \A j \in TaskIds : LocationTaskTrue(j)'
         /\ \A j \in TaskIds : location_tasks'[j].user = location_tasks[j].user /\ location_tasks'[j].ip = location_tasks[j].ip
         /\ location_tasks'[k].step = to /\ location_tasks[k].step = from
         /\ \A j \in TaskIds : j # k => location_tasks'[j] = location_tasks[j]
         /\ location_tasks[k].user \in Located
<1>. DEFINE row == [location_tasks[k] EXCEPT !.step = to, !.answer = answer]
<1>1. /\ location_tasks' = [location_tasks EXCEPT ![k] = row] /\ location_tasks[k].step = from
      /\ next_task' = next_task /\ newest' = newest /\ editing' = editing
  BY DEF TaskStep
<1>2. location_tasks \in [TaskIds -> LocationTasks]
  BY DEF LocationInv, LocationTypes
<1>3. row \in LocationTasks /\ row.user = location_tasks[k].user /\ row.ip = location_tasks[k].ip /\ row.step = to
  <2>1. location_tasks[k] \in LocationTasks
    BY <1>2
  <2>. QED BY <2>1 DEF LocationTasks
<1>. HIDE DEF row
<1>4. /\ location_tasks' \in [TaskIds -> LocationTasks] /\ location_tasks'[k] = row
      /\ \A j \in TaskIds : j # k => location_tasks'[j] = location_tasks[j]
  BY <1>1, <1>2, <1>3
<1>5. ASSUME NEW j \in TaskIds PROVE LocationTaskTrue(j)'
  <2>1. LocationTaskTrue(j)
    BY DEF LocationInv
  <2>2. CASE j = k
    BY <1>1, <1>3, <1>4, <2>1, <2>2 DEF LocationTaskTrue
  <2>3. CASE j # k
    BY <1>1, <1>4, <2>1, <2>3 DEF LocationTaskTrue
  <2>. QED BY <2>2, <2>3
<1>6. location_tasks[k].user \in Located
  BY <1>1 DEF LocationInv, LocationTaskTrue
<1>. QED BY <1>1, <1>3, <1>4, <1>5, <1>6

(* A user's tasks and row when task k goes on and nobody is added to       *)
(* overlapped: k is still under way, or the row has its address.           *)
LEMMA FollowedStep ==
  ASSUME LocationInv, NEW k \in TaskIds,
         \A j \in TaskIds : location_tasks'[j].user = location_tasks[j].user /\ location_tasks'[j].ip = location_tasks[j].ip,
         \A j \in TaskIds : j # k => location_tasks'[j] = location_tasks[j],
         Unfinished(k), newest' = newest, overlapped \subseteq overlapped',
         \A u \in Located : u # location_tasks[k].user => last_ip'[u] = last_ip[u],
         \/ Unfinished(k)' /\ last_ip' = last_ip
         \/ location_tasks[k].user \in overlapped' /\ last_ip' = last_ip
         \/ location_tasks[k].ip = LocalIp /\ last_ip' = last_ip
         \/ location_tasks[k].ip # LocalIp /\ last_ip'[location_tasks[k].user] = location_tasks[k].ip
  PROVE  \A u \in Located : Followed(u)'
<1>. SUFFICES ASSUME NEW u \in Located, u \notin overlapped' PROVE Followed(u)'
  BY DEF Followed
<1>1. /\ \A j \in TaskIds : PendingFor(j, u) => location_tasks[j].ip = newest[u]
      /\ (\A j \in TaskIds : ~PendingFor(j, u)) => last_ip[u] = newest[u]
  BY DEF LocationInv, Followed
<1>2. \A j \in TaskIds : j # k => (PendingFor(j, u)' <=> PendingFor(j, u))
  BY DEF PendingFor, Unfinished
<1>3. PendingFor(k, u)' => PendingFor(k, u)
  BY DEF PendingFor
<1>4. \A j \in TaskIds : PendingFor(j, u)' => PendingFor(j, u)
  BY <1>2, <1>3
<1>5. CASE location_tasks[k].user # u
  <2>1. ~PendingFor(k, u) /\ ~PendingFor(k, u)' /\ last_ip'[u] = last_ip[u]
    BY <1>5 DEF PendingFor
  <2>. QED BY <1>1, <1>2, <1>4, <2>1 DEF Followed
<1>6. CASE location_tasks[k].user = u /\ location_tasks[k].ip = LocalIp
  <2>1. ~PendingFor(k, u) /\ ~PendingFor(k, u)' /\ last_ip' = last_ip
    BY <1>6 DEF PendingFor
  <2>. QED BY <1>1, <1>2, <1>4, <2>1 DEF Followed
<1>7. CASE location_tasks[k].user = u /\ location_tasks[k].ip # LocalIp
  <2>1. PendingFor(k, u) /\ location_tasks[k].ip = newest[u]
    BY <1>1, <1>7 DEF PendingFor
  <2>2. CASE Unfinished(k)' /\ last_ip' = last_ip
    <3>1. PendingFor(k, u)'
      BY <1>7, <2>2 DEF PendingFor
    <3>. QED BY <1>1, <1>4, <3>1 DEF Followed
  <2>3. CASE last_ip'[u] = location_tasks[k].ip
    BY <1>1, <1>4, <2>1, <2>3 DEF Followed
  <2>. QED BY <1>7, <2>2, <2>3
<1>. QED BY <1>5, <1>6, <1>7

LEMMA LocationsStep == LocationInv /\ [LocationsNext]_locationsVars => LocationInv'
<1>. SUFFICES ASSUME LocationInv, [LocationsNext]_locationsVars PROVE LocationInv' OBVIOUS
<1>0. LocationTypes /\ \A k \in TaskIds : LocationTaskTrue(k)
  BY DEF LocationInv
<1>1. ASSUME NEW u \in Located, NEW a \in Addresses, LoginFrom(u, a) PROVE LocationInv'
  BY <1>1, StartTaskStep DEF LoginFrom, LocationRows
<1>2. ASSUME NEW u \in Located, UpdateUserLocation(u) PROVE LocationInv'
  <2>1. last_ip[u] \in LocationRows
    BY <1>0 DEF LocationTypes
  <2>. QED BY <1>2, <2>1, StartTaskStep DEF UpdateUserLocation
<1>3. ASSUME NEW k \in TaskIds, NEW from, NEW to \in LocationSteps, NEW answer \in Places \cup {Unknown},
             TaskStep(k, from, to, answer), from \in {"queued", "asking", "answered"}, to # "none",
             to \in {"asking", "answered"} => location_tasks[k].ip # LocalIp,
             UNCHANGED locationRows, edited' = edited, overlapped \subseteq overlapped',
             \/ to \in {"asking", "answered"} \/ location_tasks[k].ip = LocalIp
             \/ location_tasks[k].user \in overlapped' \/ location_tasks[k].ip = last_ip[location_tasks[k].user]
      PROVE  LocationInv'
  <2>1. Unfinished(k) /\ (to \in {"asking", "answered"} => Unfinished(k)') /\ last_ip' = last_ip
    BY <1>3, LocationTaskStep DEF Unfinished, locationRows
  <2>2. \A u \in Located : Followed(u)'
    <3>1. \/ Unfinished(k)' \/ location_tasks[k].user \in overlapped' \/ location_tasks[k].ip = LocalIp
          \/ location_tasks[k].ip # LocalIp /\ last_ip'[location_tasks[k].user] = location_tasks[k].ip
      BY <1>3, <2>1
    <3>. QED BY <1>3, <2>1, <3>1, LocationTaskStep, FollowedStep DEF TaskStep
  <2>3. LocationTypes' /\ \A j \in TaskIds : LocationTaskTrue(j)'
    BY <1>0, <1>3, LocationTaskStep DEF LocationTypes, locationRows
  <2>4. \A u \in Located : OneAnswer(u)'
    BY <1>3 DEF LocationInv, OneAnswer, locationRows
  <2>. QED BY <2>2, <2>3, <2>4 DEF LocationInv
<1>4. ASSUME NEW k \in TaskIds, Compare(k) PROVE LocationInv'
  <2>1. CASE SameIp(k)
    BY <1>3, <1>4, <2>1 DEF Compare, SameIp, LocationSteps
  <2>2. CASE ~SameIp(k)
    BY <1>3, <1>4, <2>2 DEF Compare, SameIp, LocationSteps
  <2>. QED BY <2>1, <2>2
<1>5. ASSUME NEW k \in TaskIds, NEW place \in Places, Answer(k, place) PROVE LocationInv'
  <2>1. location_tasks[k].step = "asking" /\ location_tasks[k].ip # LocalIp
    BY <1>0, <1>5 DEF Answer, TaskStep, LocationTaskTrue
  <2>. QED BY <1>3, <1>5, <2>1 DEF Answer, LocationSteps
<1>6. ASSUME NEW k \in TaskIds, WriteLocation(k) PROVE LocationInv'
  <2>. DEFINE u == location_tasks[k].user
              place == location_tasks[k].answer
  <2>1. /\ TaskStep(k, "answered", "written", place)
        /\ last_ip' = [last_ip EXCEPT ![u] = location_tasks[k].ip]
        /\ country' = [country EXCEPT ![u] = place] /\ city' = [city EXCEPT ![u] = place]
        /\ edited' = edited \ {u} /\ overlapped' = overlapped
    BY <1>6 DEF WriteLocation, CountryOfTask
  <2>2. location_tasks[k].step = "answered" /\ location_tasks[k].ip # LocalIp
    BY <1>0, <2>1 DEF TaskStep, LocationTaskTrue
  <2>3. place \in Places \cup {Unknown} /\ location_tasks[k].ip \in LocationRows
    <3>1. location_tasks[k] \in LocationTasks
      BY <1>0 DEF LocationTypes
    <3>. QED BY <3>1 DEF LocationTasks
  <2>. HIDE DEF place
  <2>4. "written" \in LocationSteps /\ "answered" # "none"
    BY DEF LocationSteps
  <2>5. /\ location_tasks' \in [TaskIds -> LocationTasks] /\ next_task' = next_task /\ newest' = newest /\ editing' = editing
        /\ \A j \in TaskIds : LocationTaskTrue(j)'
        /\ \A j \in TaskIds : location_tasks'[j].user = location_tasks[j].user /\ location_tasks'[j].ip = location_tasks[j].ip
        /\ \A j \in TaskIds : j # k => location_tasks'[j] = location_tasks[j]
        /\ u \in Located
    BY <2>1, <2>3, <2>4, LocationTaskStep
  <2>6. last_ip'[u] = location_tasks[k].ip /\ \A v \in Located : v # u => last_ip'[v] = last_ip[v]
    BY <1>0, <2>1, <2>5 DEF LocationTypes
  <2>7. \A v \in Located : Followed(v)'
    BY <2>1, <2>2, <2>5, <2>6, FollowedStep DEF Unfinished
  <2>8. LocationTypes'
    BY <1>0, <2>1, <2>3, <2>5 DEF LocationTypes
  <2>9. ASSUME NEW v \in Located PROVE OneAnswer(v)'
    <3>1. OneAnswer(v)
      BY DEF LocationInv
    <3>2. CASE v = u
      BY <1>0, <2>1, <2>5, <3>2 DEF LocationTypes, OneAnswer
    <3>3. CASE v # u
      BY <1>0, <2>1, <2>5, <3>1, <3>3 DEF LocationTypes, OneAnswer
    <3>. QED BY <3>2, <3>3
  <2>. QED BY <2>5, <2>7, <2>8, <2>9 DEF LocationInv
<1>7. ASSUME NEW k \in TaskIds, TaskFails(k) PROVE LocationInv'
  BY <1>3, <1>7 DEF TaskFails, Unfinished, LocationSteps
<1>8. CASE LocationsStop
  <2>1. /\ location_tasks' = [k \in TaskIds |-> IF Unfinished(k) THEN [location_tasks[k] EXCEPT !.step = "failed"] ELSE location_tasks[k]]
        /\ overlapped' = overlapped \cup {u \in Located : HasPending(u)} /\ editing' = NoEdit
        /\ UNCHANGED <<last_ip, country, city, next_task, newest, edited>>
    BY <1>8 DEF LocationsStop, locationRows
  <2>2. ASSUME NEW k \in TaskIds
        PROVE  /\ location_tasks'[k] \in LocationTasks
               /\ location_tasks'[k].user = location_tasks[k].user
               /\ location_tasks'[k].step = IF Unfinished(k) THEN "failed" ELSE location_tasks[k].step
    <3>1. location_tasks[k] \in LocationTasks
      BY <1>0 DEF LocationTypes
    <3>2. CASE Unfinished(k)
      <4>1. location_tasks'[k] = [location_tasks[k] EXCEPT !.step = "failed"]
        BY <2>1, <3>2
      <4>. QED BY <3>1, <3>2, <4>1 DEF LocationTasks, LocationSteps
    <3>3. CASE ~Unfinished(k)
      BY <2>1, <3>1, <3>3
    <3>. QED BY <3>2, <3>3
  <2>3. \A k \in TaskIds : ~Unfinished(k)'
    BY <2>2 DEF Unfinished
  <2>4. \A k \in TaskIds : LocationTaskTrue(k)'
    BY <1>0, <2>1, <2>2, <2>3 DEF LocationTaskTrue, Unfinished
  <2>5. ASSUME NEW u \in Located, u \notin overlapped' PROVE last_ip'[u] = newest'[u]
    <3>1. u \notin overlapped /\ \A k \in TaskIds : ~PendingFor(k, u)
      BY <2>1, <2>5 DEF HasPending, PendingFor
    <3>. QED BY <2>1, <3>1 DEF LocationInv, Followed
  <2>6. \A u \in Located : Followed(u)' /\ OneAnswer(u)'
    BY <2>1, <2>3, <2>5 DEF LocationInv, Followed, PendingFor, OneAnswer
  <2>7. LocationTypes'
    BY <1>0, <2>1, <2>2 DEF LocationTypes
  <2>. QED BY <2>4, <2>6, <2>7 DEF LocationInv
<1>9. ASSUME NEW u \in Located, ReadProfile(u) PROVE LocationInv'
  <2>1. UNCHANGED <<last_ip, country, city, location_tasks, next_task, newest, overlapped, edited>>
    BY <1>9 DEF ReadProfile, locationRows, taskVars
  <2>2. editing'.user \in Located /\ editing'.country \in Places \cup {Unknown}
    BY <1>0, <1>9 DEF ReadProfile, LocationTypes
  <2>. QED BY <1>0, <2>1, <2>2 DEF LocationInv, LocationTypes, LocationTaskTrue, Followed, PendingFor, Unfinished, OneAnswer
<1>10. CASE WriteProfile
  <2>. DEFINE u == editing.user
  <2>1. /\ u \in Located /\ editing.country \in Places \cup {Unknown} /\ editing' = NoEdit
        /\ country' = [country EXCEPT ![u] = editing.country]
        /\ edited' = IF editing.country = city[u] THEN edited \ {u} ELSE edited \cup {u}
        /\ UNCHANGED <<last_ip, city, location_tasks, next_task, newest, overlapped>>
    BY <1>0, <1>10 DEF WriteProfile, LocationTypes, taskVars
  <2>2. LocationTypes'
    BY <1>0, <2>1 DEF LocationTypes
  <2>3. ASSUME NEW v \in Located PROVE OneAnswer(v)'
    <3>1. OneAnswer(v)
      BY DEF LocationInv
    <3>2. CASE v = u
      BY <1>0, <2>1, <3>2 DEF LocationTypes, OneAnswer
    <3>3. CASE v # u
      BY <1>0, <2>1, <3>1, <3>3 DEF LocationTypes, OneAnswer
    <3>. QED BY <3>2, <3>3
  <2>. QED BY <2>1, <2>2, <2>3 DEF LocationInv, LocationTaskTrue, Followed, PendingFor, Unfinished
<1>11. CASE UNCHANGED locationsVars
  BY <1>11 DEF locationsVars, locationRows, taskVars, LocationInv, LocationTypes, LocationTaskTrue, Followed, PendingFor,
     Unfinished, OneAnswer
<1>. QED BY <1>1, <1>2, <1>4, <1>5, <1>6, <1>7, <1>8, <1>9, <1>10, <1>11 DEF LocationsNext

(* A user's row has the address of the last login once its task is over,   *)
(* when that was alone, and country and city are of one answer unless a    *)
(* country was written by hand.                                            *)
THEOREM LocationsFollow == LocationsSpec => []LocationFollowsLogins
<1>1. LocationInv => LocationFollowsLogins
  BY DEF LocationInv, Followed, OneAnswer, LocationFollowsLogins, HasPending, PendingFor
<1>. QED BY LocationsInitInv, LocationsStep, <1>1, PTL DEF LocationsSpec
-----------------------------------------------------------------------------
(* The two connections of a thread.  A handle is of the current one, or of *)
(* the older one and no younger than the current, or over an hour old.     *)
ConnectionRecords == [name : {0, 1, 2}, conn : Nat, opened : Nat]
Handles == [conn : Nat, since : Nat]

ConnectionTypes ==
  /\ now \in Nat /\ pairs \in [DbThreads -> [Parts -> ConnectionRecords]]
  /\ by_name \in [DbThreads -> [Names -> Nat]]
  /\ working \subseteq DbThreads \X Nat
  /\ handed \in [DbThreads -> SUBSET Handles]

Empty(t) ==
  /\ pairs[t] = NoPair /\ by_name[t] = [n \in Names |-> 0] /\ handed[t] = {}
  /\ \A c \in Nat : <<t, c>> \notin working

HandleTrue(current, older, h) ==
  \/ h.conn = current.conn /\ h.since <= now
  \/ h.conn = older.conn /\ older.conn # 0 /\ h.since <= current.opened
  \/ h.since + Hour < now

PairTrue(t, current, older) ==
  /\ current.name \in Names /\ older.name = 3 - current.name
  /\ by_name[t][current.name] = current.conn /\ by_name[t][older.name] = older.conn
  /\ current.conn = current.opened + 1 /\ current.opened <= now /\ older.conn < current.conn
  /\ \A c \in Nat : <<t, c>> \in working <=> c # 0 /\ c \in {current.conn, older.conn}
  /\ \A h \in handed[t] : HandleTrue(current, older, h)

ThreadTrue(t) == Empty(t) \/ PairTrue(t, pairs[t]["current"], pairs[t]["older"])
ConnectionInv == ConnectionTypes /\ \A t \in DbThreads : ThreadTrue(t)

LEMMA ConnectionsInitInv == ConnectionsInit => ConnectionInv
<1>. SUFFICES ASSUME ConnectionsInit PROVE ConnectionInv OBVIOUS
<1>1. NoPair \in [Parts -> ConnectionRecords]
  BY DEF NoPair, ConnectionRecords
<1>2. ConnectionTypes
  BY <1>1 DEF ConnectionsInit, ConnectionTypes
<1>3. \A t \in DbThreads : Empty(t)
  BY DEF ConnectionsInit, Empty
<1>. QED BY <1>2, <1>3 DEF ConnectionInv, ThreadTrue

(* Connecting leaves the other threads alone.                              *)
LEMMA OtherThreads ==
  ASSUME ConnectionInv, NEW t \in DbThreads, now' = now,
         \A u \in DbThreads : u # t => pairs'[u] = pairs[u] /\ by_name'[u] = by_name[u] /\ handed'[u] = handed[u],
         \A u \in DbThreads : u # t => \A c \in Nat : <<u, c>> \in working' <=> <<u, c>> \in working
  PROVE  \A u \in DbThreads : u # t => ThreadTrue(u)'
<1>. SUFFICES ASSUME NEW u \in DbThreads, u # t PROVE ThreadTrue(u)' OBVIOUS
<1>1. ThreadTrue(u)
  BY DEF ConnectionInv
<1>2. Empty(u) => Empty(u)'
  BY DEF Empty, NoPair
<1>3. PairTrue(u, pairs[u]["current"], pairs[u]["older"]) => PairTrue(u, pairs[u]["current"], pairs[u]["older"])'
  BY DEF PairTrue, HandleTrue
<1>. QED BY <1>1, <1>2, <1>3 DEF ThreadTrue

(* A thread connects for the first time.                                   *)
LEMMA FirstStep ==
  ASSUME ConnectionInv, NEW t \in DbThreads, DatabaseFirst(t)
  PROVE  ConnectionInv'
<1>. DEFINE current == [name |-> 1, conn |-> now + 1, opened |-> now]
            older == [name |-> 2, conn |-> 0, opened |-> 0]
<1>0. ConnectionTypes
  BY DEF ConnectionInv
<1>1. Empty(t)
  <2>1. pairs[t]["current"].name = 0
    BY DEF DatabaseFirst, NoPair, Parts
  <2>. QED BY <2>1 DEF ConnectionInv, ThreadTrue, PairTrue, Names
<1>2. Connected(FirstPair)["current"] = current /\ Connected(FirstPair)["older"] = older
      /\ Connected(FirstPair) \in [Parts -> ConnectionRecords]
  <2>1. /\ FirstPair["current"] = [name |-> 1, conn |-> 0, opened |-> 0] /\ FirstPair["older"] = older
        /\ DOMAIN FirstPair = Parts
    BY DEF FirstPair, Parts
  <2>2. [name |-> FirstPair["current"].name, conn |-> now + 1, opened |-> now] = current
    BY <2>1
  <2>3. Connected(FirstPair) = [part \in Parts |-> IF part = "current" THEN current ELSE older]
    BY <2>1, <2>2 DEF Connected, FirstPair, Parts
  <2>4. current \in ConnectionRecords /\ older \in ConnectionRecords
    BY <1>0 DEF ConnectionRecords, ConnectionTypes
  <2>. HIDE DEF current, older
  <2>. QED BY <2>3, <2>4 DEF Parts
<1>3. FirstPair["current"].name = 1
  BY DEF FirstPair, Parts
<1>4. /\ pairs' = [pairs EXCEPT ![t] = Connected(FirstPair)]
      /\ by_name' = [by_name EXCEPT ![t] = [by_name[t] EXCEPT ![1] = now + 1]]
      /\ working' = (working \ ({} \cup {<<t, by_name[t][1]>>})) \cup {<<t, now + 1>>}
      /\ handed' = [handed EXCEPT ![t] = handed[t] \cup {[conn |-> now + 1, since |-> now]}]
      /\ now' = now
  BY <1>3 DEF DatabaseFirst, Connect, Made
<1>. HIDE DEF current, older
<1>5. ConnectionTypes'
  BY <1>0, <1>2, <1>4 DEF ConnectionTypes, Names, Handles
<1>6. \A u \in DbThreads : u # t => ThreadTrue(u)'
  BY <1>0, <1>4, OtherThreads DEF ConnectionTypes
<1>7. PairTrue(t, pairs[t]["current"], pairs[t]["older"])'
  <2>1. pairs'[t]["current"] = current /\ pairs'[t]["older"] = older
    BY <1>0, <1>2, <1>4 DEF ConnectionTypes
  <2>2. by_name'[t][1] = now + 1 /\ by_name'[t][2] = 0
    BY <1>0, <1>1, <1>4 DEF ConnectionTypes, Empty, Names
  <2>3. \A c \in Nat : <<t, c>> \in working' <=> c = now + 1
    BY <1>0, <1>1, <1>4 DEF ConnectionTypes, Empty, Names
  <2>4. handed'[t] = {[conn |-> now + 1, since |-> now]}
    BY <1>0, <1>1, <1>4 DEF ConnectionTypes, Empty
  <2>. QED BY <1>0, <1>4, <2>1, <2>2, <2>3, <2>4 DEF PairTrue, HandleTrue, Names, current, older, ConnectionTypes
<1>. QED BY <1>5, <1>6, <1>7 DEF ConnectionInv, ThreadTrue

(* The two change places, and the older is connected anew.                 *)
LEMMA OutdatedStep ==
  ASSUME ConnectionInv, NEW t \in DbThreads, DatabaseOutdated(t)
  PROVE  ConnectionInv'
<1>. DEFINE c == pairs[t]["current"]
            o == pairs[t]["older"]
            current == [name |-> o.name, conn |-> now + 1, opened |-> now]
            older == [name |-> c.name, conn |-> c.conn, opened |-> o.opened]
            p == Swap(OlderClosed(pairs[t]))
<1>0. ConnectionTypes /\ c \in ConnectionRecords /\ o \in ConnectionRecords /\ now' = now /\ c.opened + Hour < now
  BY DEF ConnectionInv, ConnectionTypes, Parts, DatabaseOutdated, IsOutdated
<1>1. PairTrue(t, c, o)
  BY DEF ConnectionInv, ThreadTrue, Empty, DatabaseOutdated
<1>2. /\ Connected(p) \in [Parts -> ConnectionRecords]
      /\ Connected(p)["current"] = current /\ Connected(p)["older"] = older /\ p["current"].name = o.name
  <2>1. /\ OlderClosed(pairs[t])["current"] = c /\ OlderClosed(pairs[t])["older"] = [o EXCEPT !.conn = 0]
    BY <1>0 DEF OlderClosed, ConnectionTypes, Parts
  <2>2. /\ p["current"] = [[o EXCEPT !.conn = 0] EXCEPT !.opened = c.opened]
        /\ p["older"] = [c EXCEPT !.opened = [o EXCEPT !.conn = 0].opened] /\ DOMAIN p = Parts
    BY <2>1 DEF Swap, Parts
  <2>3. p["current"].name = o.name
    BY <1>0, <2>2 DEF ConnectionRecords
  <2>4. p["older"] = older
    BY <1>0, <2>2 DEF ConnectionRecords
  <2>5. [name |-> p["current"].name, conn |-> now + 1, opened |-> now] = current
    BY <2>3
  <2>6. current \in ConnectionRecords /\ older \in ConnectionRecords
    BY <1>0 DEF ConnectionRecords, ConnectionTypes
  <2>. HIDE DEF current, older, p
  <2>7. Connected(p) = [part \in Parts |-> IF part = "current" THEN current ELSE older]
    BY <2>2, <2>4, <2>5 DEF Connected, Parts
  <2>. QED BY <2>3, <2>6, <2>7 DEF Parts
<1>3. /\ pairs' = [pairs EXCEPT ![t] = Connected(p)]
      /\ by_name' = [by_name EXCEPT ![t] = [NamesAfterClose(t, o) EXCEPT ![o.name] = now + 1]]
      /\ working' = (working \ (Closed(t, o) \cup {<<t, NamesAfterClose(t, o)[o.name]>>})) \cup {<<t, now + 1>>}
      /\ handed' = [handed EXCEPT ![t] = handed[t] \cup {[conn |-> now + 1, since |-> now]}]
  BY <1>2 DEF DatabaseOutdated, Connect, Made
<1>. HIDE DEF p
<1>4. /\ o.name \in Names /\ c.name \in Names /\ c.name # o.name
      /\ by_name[t] \in [Names -> Nat] /\ by_name[t][o.name] = o.conn /\ by_name[t][c.name] = c.conn
  BY <1>0, <1>1 DEF PairTrue, Names, ConnectionRecords, ConnectionTypes
<1>5. /\ NamesAfterClose(t, o) \in [Names -> Nat] /\ NamesAfterClose(t, o)[o.name] = 0
      /\ NamesAfterClose(t, o)[c.name] = c.conn
  BY <1>4 DEF NamesAfterClose
<1>6. \A n \in Nat : <<t, n>> \in Closed(t, o) <=> n # 0 /\ n = o.conn
  BY <1>0, <1>4 DEF Closed, ConnectionRecords
<1>7. \A u \in DbThreads : u # t => \A n \in Nat : <<u, n>> \notin Closed(t, o)
  BY DEF Closed
<1>8. ConnectionTypes'
  BY <1>0, <1>2, <1>3, <1>4, <1>5 DEF ConnectionTypes, Handles
<1>9. \A u \in DbThreads : u # t => ThreadTrue(u)'
  <2>1. \A u \in DbThreads : u # t => pairs'[u] = pairs[u] /\ by_name'[u] = by_name[u] /\ handed'[u] = handed[u]
    BY <1>0, <1>3 DEF ConnectionTypes
  <2>2. \A u \in DbThreads : u # t => \A n \in Nat : <<u, n>> \in working' <=> <<u, n>> \in working
    BY <1>3, <1>7
  <2>. QED BY <1>0, <2>1, <2>2, OtherThreads
<1>10. PairTrue(t, pairs[t]["current"], pairs[t]["older"])'
  <2>1. pairs'[t]["current"] = current /\ pairs'[t]["older"] = older
    BY <1>0, <1>2, <1>3 DEF ConnectionTypes
  <2>2. by_name'[t][o.name] = now + 1 /\ by_name'[t][c.name] = c.conn
    BY <1>0, <1>3, <1>4, <1>5 DEF ConnectionTypes
  <2>3. c.conn = c.opened + 1 /\ c.opened <= now /\ o.conn < c.conn /\ c.conn < now + 1 /\ Hour \in Nat /\ now \in Nat
    BY <1>0, <1>1, ConnectionsAssumption DEF PairTrue, ConnectionRecords, ConnectionTypes
  <2>4. \A n \in Nat : <<t, n>> \in working' <=> n # 0 /\ n \in {now + 1, c.conn}
    <3>1. \A n \in Nat : <<t, n>> \in working <=> n # 0 /\ n \in {c.conn, o.conn}
      BY <1>1 DEF PairTrue
    <3>2. \A n \in Nat : <<t, n>> \in working' <=> n = now + 1 \/ (<<t, n>> \in working /\ <<t, n>> \notin Closed(t, o) /\ n # 0)
      BY <1>3, <1>5
    <3>. QED BY <1>6, <2>3, <3>1, <3>2
  <2>5. ASSUME NEW h \in handed'[t] PROVE HandleTrue(pairs[t]["current"], pairs[t]["older"], h)'
    <3>1. CASE h = [conn |-> now + 1, since |-> now]
      BY <1>0, <2>1, <2>3, <3>1 DEF HandleTrue
    <3>2. CASE h \in handed[t]
      <4>1. HandleTrue(c, o, h) /\ h.since \in Nat
        BY <1>0, <1>1, <3>2 DEF PairTrue, ConnectionTypes, Handles
      <4>2. c.opened + Hour < now /\ c.opened \in Nat /\ c.conn # 0
        BY <1>0, <2>3 DEF ConnectionRecords
      <4>. QED BY <1>0, <2>1, <2>3, <4>1, <4>2 DEF HandleTrue
    <3>. QED BY <1>0, <1>3, <3>1, <3>2 DEF ConnectionTypes
  <2>6. current.name \in Names /\ older.name = 3 - current.name
    BY <1>1, <1>4 DEF PairTrue, Names
  <2>. HIDE DEF c, o
  <2>. QED BY <1>0, <2>1, <2>2, <2>3, <2>4, <2>5, <2>6 DEF PairTrue
<1>. QED BY <1>8, <1>9, <1>10 DEF ConnectionInv, ThreadTrue

LEMMA ConnectionsStep == ConnectionInv /\ [ConnectionsNext]_connectionVars => ConnectionInv'
<1>. SUFFICES ASSUME ConnectionInv, [ConnectionsNext]_connectionVars PROVE ConnectionInv' OBVIOUS
<1>0. ConnectionTypes /\ \A t \in DbThreads : ThreadTrue(t)
  BY DEF ConnectionInv
<1>1. CASE Tick
  <2>1. now' = now + 1 /\ now \in Nat /\ UNCHANGED <<pairs, by_name, working, handed>>
    BY <1>0, <1>1 DEF Tick, ConnectionTypes
  <2>2. ConnectionTypes'
    BY <1>0, <2>1 DEF ConnectionTypes
  <2>3. ASSUME NEW t \in DbThreads PROVE ThreadTrue(t)'
    <3>1. CASE Empty(t)
      BY <2>1, <3>1 DEF ThreadTrue, Empty, NoPair
    <3>2. CASE PairTrue(t, pairs[t]["current"], pairs[t]["older"])
      <4>1. pairs[t]["current"] \in ConnectionRecords /\ \A h \in handed[t] : h.since \in Nat
        BY <1>0 DEF ConnectionTypes, Parts, Handles
      <4>. QED BY <2>1, <3>2, <4>1, ConnectionsAssumption DEF ThreadTrue, PairTrue, HandleTrue, ConnectionRecords
    <3>. QED BY <1>0, <3>1, <3>2 DEF ThreadTrue
  <2>. QED BY <2>2, <2>3 DEF ConnectionInv
<1>2. ASSUME NEW t \in DbThreads, DatabaseCurrent(t) \/ LetGo(t) PROVE ConnectionInv'
  <2>1. /\ UNCHANGED <<now, pairs, by_name, working>> /\ now \in Nat
        /\ \/ handed' = [handed EXCEPT ![t] = {}]
           \/ handed' = [handed EXCEPT ![t] = handed[t] \cup {[conn |-> pairs[t]["current"].conn, since |-> now]}]
    BY <1>0, <1>2 DEF DatabaseCurrent, LetGo, ConnectionTypes
  <2>2. pairs[t]["current"].conn \in Nat
    BY <1>0 DEF ConnectionTypes, Parts, ConnectionRecords
  <2>3. ConnectionTypes'
    BY <1>0, <2>1, <2>2 DEF ConnectionTypes, Handles
  <2>4. \A u \in DbThreads : u # t => ThreadTrue(u)'
    <3>1. \A u \in DbThreads : u # t => handed'[u] = handed[u]
      BY <1>0, <2>1 DEF ConnectionTypes
    <3>. QED BY <2>1, <3>1, OtherThreads
  <2>5. CASE Empty(t)
    <3>1. handed'[t] = {}
      BY <1>0, <1>2, <2>5 DEF Empty, DatabaseCurrent, LetGo
    <3>2. Empty(t)'
      BY <2>1, <2>5, <3>1 DEF Empty, NoPair
    <3>. QED BY <2>3, <2>4, <3>2 DEF ConnectionInv, ThreadTrue
  <2>6. CASE PairTrue(t, pairs[t]["current"], pairs[t]["older"])
    <3>1. \A h \in handed'[t] : h \in handed[t] \/ h = [conn |-> pairs[t]["current"].conn, since |-> now]
      BY <1>0, <2>1 DEF ConnectionTypes
    <3>2. \A h \in handed'[t] : HandleTrue(pairs[t]["current"], pairs[t]["older"], h)
      BY <2>1, <2>6, <3>1 DEF PairTrue, HandleTrue
    <3>3. PairTrue(t, pairs[t]["current"], pairs[t]["older"])'
      BY <2>1, <2>6, <3>2 DEF PairTrue, HandleTrue
    <3>. QED BY <2>3, <2>4, <3>3 DEF ConnectionInv, ThreadTrue
  <2>. QED BY <1>0, <2>5, <2>6 DEF ThreadTrue
<1>3. ASSUME NEW t \in DbThreads, ConnectRefused(t) PROVE ConnectionInv'
  <2>1. NoPair \in [Parts -> ConnectionRecords]
    BY DEF NoPair, ConnectionRecords
  <2>2. \A u \in DbThreads : Empty(u)'
    BY <1>3 DEF ConnectRefused, Empty, NoPair
  <2>3. ConnectionTypes'
    BY <1>0, <1>3, <2>1 DEF ConnectRefused, ConnectionTypes
  <2>. QED BY <2>2, <2>3 DEF ConnectionInv, ThreadTrue
<1>4. CASE UNCHANGED connectionVars
  BY <1>0, <1>4 DEF connectionVars, ConnectionInv, ConnectionTypes, ThreadTrue, Empty, NoPair, PairTrue, HandleTrue
<1>. QED BY <1>1, <1>2, <1>3, <1>4, FirstStep, OutdatedStep DEF ConnectionsNext

(* A connection that database() handed out works for an hour at least, and *)
(* one that works is still one of its thread's two.                        *)
THEOREM ConnectionsWorkAnHour == ConnectionsSpec => []ConnectionsKept
<1>1. ConnectionInv => HandleWorks
  <2>. SUFFICES ASSUME ConnectionInv, NEW t \in DbThreads, NEW h \in handed[t], now <= h.since + Hour
       PROVE  <<t, h.conn>> \in working
    BY DEF HandleWorks
  <2>1. /\ pairs[t]["current"] \in ConnectionRecords /\ pairs[t]["older"] \in ConnectionRecords
        /\ h.conn \in Nat /\ h.since \in Nat /\ now \in Nat
    BY DEF ConnectionInv, ConnectionTypes, Parts, Handles
  <2>2. PairTrue(t, pairs[t]["current"], pairs[t]["older"])
    BY DEF ConnectionInv, ThreadTrue, Empty
  <2>. QED BY <2>1, <2>2, ConnectionsAssumption DEF PairTrue, HandleTrue, ConnectionRecords
<1>2. ConnectionInv => NoneForgotten
  <2>. SUFFICES ASSUME ConnectionInv, NEW w \in working
       PROVE  \E part \in Parts : pairs[w[1]][part].conn = w[2]
    BY DEF NoneForgotten
  <2>1. PICK t \in DbThreads, n \in Nat : w = <<t, n>>
    BY DEF ConnectionInv, ConnectionTypes
  <2>2. PairTrue(t, pairs[t]["current"], pairs[t]["older"])
    BY <2>1 DEF ConnectionInv, ThreadTrue, Empty
  <2>3. n = pairs[t]["current"].conn \/ n = pairs[t]["older"].conn
    BY <2>1, <2>2 DEF PairTrue
  <2>. QED BY <2>1, <2>3 DEF Parts
<1>. QED BY ConnectionsInitInv, ConnectionsStep, <1>1, <1>2, PTL DEF ConnectionsSpec, ConnectionsKept
-----------------------------------------------------------------------------
(* The books of the leaks.  A row yet to be inserted has nothing; one      *)
(* that was never cheap has a score to take off a rating.                  *)
LeakTypes ==
  /\ leak_uuid \in [LeakIds -> LeakUuids \cup {NoLeak}] /\ next_leak \in Nat \ {0}
  /\ score \in [LeakIds -> Int] /\ sold \in [LeakIds -> Int] /\ sold_before \in [LeakIds -> Int]
  /\ users_leaks \in [LeakIds -> Int] /\ taken \in [Buyers -> Int]

LeakTrue(l) ==
  /\ l >= next_leak => ~IsLeak(l) /\ users_leaks[l] = 0
  /\ IsLeak(l) => sold[l] = sold_before[l] + users_leaks[l] \/ l \in unsold
  /\ IsLeak(l) => score[l] > 0 \/ l \in cheap

LeakInv == LeakTypes /\ LeakUuidsDistinct /\ PricesArePaid /\ \A l \in LeakIds : LeakTrue(l)

LEMMA LeaksInitInv == LeaksInit => LeakInv
BY DEF LeaksInit, LeakInv, LeakTypes, LeakTrue, LeakUuidsDistinct, PricesArePaid, IsLeak

LEMMA LeaksStep == LeakInv /\ [LeaksNext]_leaksVars => LeakInv'
<1>. SUFFICES ASSUME LeakInv, [LeaksNext]_leaksVars PROVE LeakInv' OBVIOUS
<1>. USE DEF LeakInv
<1>0. /\ \A k, l \in LeakIds : IsLeak(k) /\ leak_uuid[k] = leak_uuid[l] => k = l
      /\ leaks_pc = "up" => \A l \in LeakIds : IsLeak(l) => leak_uuid[l] \in cached_leaks
  BY DEF LeakUuidsDistinct, LeakUuidsStored
<1>1. CASE LeaksStart
  <2>1. /\ UNCHANGED <<leak_uuid, score, sold, next_leak, sold_before, users_leaks, taken, unsold, cheap>>
        /\ cached_leaks' = LeakUuidsStored
    BY <1>1 DEF LeaksStart, leakTable
  <2>. QED BY <2>1 DEF LeakTypes, LeakTrue, LeakUuidsDistinct, PricesArePaid, IsLeak, LeakUuidsStored
<1>2. CASE LeaksStop
  <2>1. /\ UNCHANGED <<leak_uuid, score, sold, next_leak, sold_before, users_leaks, taken, unsold, cheap>>
        /\ leaks_pc' = "down"
    BY <1>2 DEF LeaksStop, leakTable
  <2>. QED BY <2>1 DEF LeakTypes, LeakTrue, LeakUuidsDistinct, PricesArePaid, IsLeak, LeakUuidsStored
<1>3. ASSUME NEW u \in LeakUuids, NEW price \in Prices, NEW n \in 0..1, LeakAdd(u, price, n) PROVE LeakInv'
  <2>1. /\ next_leak \in LeakIds /\ next_leak' = next_leak + 1 /\ u \notin cached_leaks /\ leaks_pc = "up"
        /\ price > 0 /\ price \in Int /\ n \in Int
        /\ leak_uuid' = [leak_uuid EXCEPT ![next_leak] = u] /\ score' = [score EXCEPT ![next_leak] = price]
        /\ sold' = [sold EXCEPT ![next_leak] = n] /\ sold_before' = [sold_before EXCEPT ![next_leak] = n]
        /\ cached_leaks' = cached_leaks \cup {u}
        /\ UNCHANGED <<users_leaks, taken, leaks_pc, unsold, cheap>>
    BY <1>3, LeaksAssumption DEF LeakAdd, LeakServing, IsNewLeak, LeakIds, LeakTypes
  <2>. PICK new \in LeakIds : new = next_leak
    BY <2>1
  <2>2. LeakTypes'
    BY <2>1 DEF LeakTypes
  <2>3. ~IsLeak(new) /\ users_leaks[new] = 0
    BY DEF LeakTrue, LeakIds
  <2>4. /\ leak_uuid'[new] = u /\ score'[new] = price /\ sold'[new] = n /\ sold_before'[new] = n
        /\ \A l \in LeakIds : l # new => /\ leak_uuid'[l] = leak_uuid[l] /\ score'[l] = score[l]
                                         /\ sold'[l] = sold[l] /\ sold_before'[l] = sold_before[l]
    BY <2>1 DEF LeakTypes
  <2>5. \A l \in LeakIds : LeakTrue(l)'
    <3>. SUFFICES ASSUME NEW l \in LeakIds PROVE LeakTrue(l)' OBVIOUS
    <3>1. CASE l = new
      BY <2>1, <2>3, <2>4, <3>1 DEF LeakTrue, LeakIds
    <3>2. CASE l # new
      <4>1. LeakTrue(l) /\ (l >= next_leak' => l >= next_leak)
        BY <2>1 DEF LeakIds
      <4>. QED BY <2>1, <2>4, <3>2, <4>1 DEF LeakTrue, IsLeak
    <3>. QED BY <3>1, <3>2
  <2>6. \A l \in LeakIds : IsLeak(l) => leak_uuid[l] # u
    BY <1>0, <2>1
  <2>7. \A k, l \in LeakIds : IsLeak(k)' /\ leak_uuid'[k] = leak_uuid'[l] => k = l
    BY <1>0, <2>3, <2>4, <2>6 DEF IsLeak
  <2>8. \A l \in LeakIds : IsLeak(l)' => leak_uuid'[l] \in cached_leaks'
    BY <1>0, <2>1, <2>4 DEF IsLeak
  <2>9. LeakUuidsDistinct' /\ PricesArePaid'
    BY <2>1, <2>7, <2>8 DEF LeakUuidsDistinct, LeakUuidsStored, PricesArePaid
  <2>. QED BY <2>2, <2>5, <2>9
<1>4. ASSUME NEW l \in LeakIds, NEW price \in Prices, LeakUpdate(l, price) PROVE LeakInv'
  <2>1. /\ price \in Int /\ score' = [score EXCEPT ![l] = price]
        /\ cheap' = IF price > 0 THEN cheap ELSE cheap \cup {l}
        /\ UNCHANGED <<leak_uuid, sold, next_leak, sold_before, users_leaks, taken, cached_leaks, leaks_pc, unsold>>
    BY <1>4, LeaksAssumption DEF LeakUpdate
  <2>2. \A k \in LeakIds : LeakTrue(k)'
    BY <2>1 DEF LeakTrue, LeakTypes, IsLeak
  <2>. QED BY <2>1, <2>2 DEF LeakTypes, LeakUuidsDistinct, LeakUuidsStored, IsLeak, PricesArePaid
<1>5. ASSUME NEW l \in LeakIds, NEW done \in 1..3, LeakDelete(l, done) PROVE LeakInv'
  <2>1. /\ users_leaks' = [users_leaks EXCEPT ![l] = 0]
        /\ leak_uuid' = IF done = 3 THEN [leak_uuid EXCEPT ![l] = NoLeak] ELSE leak_uuid
        /\ unsold' = IF done = 3 THEN unsold \ {l} ELSE unsold \cup {l}
        /\ UNCHANGED <<score, sold, next_leak, sold_before, taken, cached_leaks, leaks_pc, cheap>>
    BY <1>5 DEF LeakDelete
  <2>2. /\ \A k \in LeakIds : k # l => leak_uuid'[k] = leak_uuid[k] /\ users_leaks'[k] = users_leaks[k]
        /\ users_leaks'[l] = 0 /\ leak_uuid'[l] \in {leak_uuid[l], NoLeak}
        /\ IsLeak(l)' => l \in unsold'
    BY <2>1 DEF LeakTypes, IsLeak
  <2>3. LeakTypes'
    BY <2>1 DEF LeakTypes
  <2>4. \A k \in LeakIds : LeakTrue(k)'
    <3>. SUFFICES ASSUME NEW k \in LeakIds PROVE LeakTrue(k)' OBVIOUS
    <3>1. CASE k = l
      BY <2>1, <2>2, <3>1 DEF LeakTrue, IsLeak
    <3>2. CASE k # l
      BY <2>1, <2>2, <3>2 DEF LeakTrue, IsLeak
    <3>. QED BY <3>1, <3>2
  <2>5. \A k \in LeakIds : IsLeak(k)' => IsLeak(k) /\ leak_uuid'[k] = leak_uuid[k]
    BY <2>2 DEF IsLeak
  <2>6. LeakUuidsDistinct'
    <3>1. \A k, j \in LeakIds : IsLeak(k)' /\ leak_uuid'[k] = leak_uuid'[j] => k = j
      BY <1>0, <2>5 DEF IsLeak
    <3>2. leaks_pc' = "up" => \A k \in LeakIds : IsLeak(k)' => leak_uuid'[k] \in cached_leaks'
      BY <1>0, <2>1, <2>5
    <3>. QED BY <3>1, <3>2 DEF LeakUuidsDistinct, LeakUuidsStored
  <2>. QED BY <2>1, <2>3, <2>4, <2>6 DEF PricesArePaid
<1>6. ASSUME NEW l \in LeakIds, NEW done \in 1..3, NEW u \in Buyers, LeakBuy(l, u, done) PROVE LeakInv'
  <2>1. /\ IsLeak(l) /\ taken' = [taken EXCEPT ![u] = taken[u] + score[l]]
        /\ users_leaks' = IF done >= 2 THEN [users_leaks EXCEPT ![l] = users_leaks[l] + 1] ELSE users_leaks
        /\ sold' = IF done = 3 THEN [sold EXCEPT ![l] = sold[l] + 1] ELSE sold
        /\ unsold' = IF done = 2 THEN unsold \cup {l} ELSE unsold
        /\ UNCHANGED <<leak_uuid, score, next_leak, sold_before, cached_leaks, leaks_pc, cheap>>
    BY <1>6 DEF LeakBuy
  <2>2. LeakTypes'
    BY <2>1 DEF LeakTypes
  <2>3. ASSUME NEW k \in LeakIds PROVE LeakTrue(k)'
    <3>1. CASE k = l
      <4>1. CASE done = 3
        BY <2>1, <3>1, <4>1 DEF LeakTypes, LeakTrue, IsLeak
      <4>2. CASE done # 3
        BY <2>1, <3>1, <4>2 DEF LeakTypes, LeakTrue, IsLeak
      <4>. QED BY <4>1, <4>2
    <3>2. CASE k # l
      BY <2>1, <3>2 DEF LeakTypes, LeakTrue, IsLeak
    <3>. QED BY <3>1, <3>2
  <2>4. cheap = {} => score[l] > 0
    BY <2>1 DEF LeakTrue
  <2>5. PricesArePaid'
    BY <2>1, <2>4 DEF PricesArePaid, LeakTypes
  <2>. QED BY <2>1, <2>2, <2>3, <2>5 DEF LeakUuidsDistinct, LeakUuidsStored, IsLeak
<1>7. ASSUME NEW u \in Buyers, RatingRecalculated(u) PROVE LeakInv'
  <2>1. /\ UNCHANGED <<leak_uuid, score, sold, next_leak, sold_before, users_leaks, cached_leaks, leaks_pc, unsold, cheap>>
        /\ taken' = [taken EXCEPT ![u] = 0]
    BY <1>7 DEF RatingRecalculated, leakTable
  <2>. QED BY <2>1 DEF LeakTypes, LeakTrue, LeakUuidsDistinct, PricesArePaid, IsLeak, LeakUuidsStored
<1>8. CASE UNCHANGED leaksVars
  BY <1>8 DEF leaksVars, leakTable, LeakTypes, LeakTrue, LeakUuidsDistinct, PricesArePaid, IsLeak, LeakUuidsStored
<1>. QED BY <1>1, <1>2, <1>3, <1>4, <1>5, <1>6, <1>7, <1>8 DEF LeaksNext

(* No two leaks have one uuid; each is sold as often as users_leaks has it *)
(* beyond what it was added with; buying takes nothing back.               *)
THEOREM BooksOfLeaks == LeaksSpec => []LeaksBooksTrue
<1>1. LeakInv => LeaksBooksTrue
  BY DEF LeakInv, LeaksBooksTrue, LeakTrue, SoldIsBought
<1>. QED BY LeaksInitInv, LeaksStep, <1>1, PTL DEF LeaksSpec
-----------------------------------------------------------------------------
(* The files of quests.  A file yet to be uploaded is nowhere; one being   *)
(* deleted is in the table until its row is gone, then in the cache alone. *)
FileTypes ==
  /\ quests_files \subseteq QuestFileIds /\ cached_files \subseteq QuestFileIds
  /\ downloads_counter \in [QuestFileIds -> Nat] /\ cached_downloads \in [QuestFileIds -> Nat]
  /\ next_file \in Nat \ {0} /\ files_up \in BOOLEAN
  /\ deleting \in [step : {"none", "row", "copy", "unregister"}, file : Nat, seen : Nat]
  /\ ~files_up => cached_files = {}

FileFresh(f) ==
  f >= next_file => f \notin quests_files /\ downloads_counter[f] = 0 /\ cached_downloads[f] = 0

FileLeaves ==
  /\ deleting.step = "row" => deleting.file \in quests_files
  /\ deleting.step \in {"copy", "unregister"} => deleting.file \in QuestFileIds \ quests_files
  /\ deleting.step \in {"copy", "unregister"} => deleting.file < next_file
  /\ deleting.step # "none" => files_up

FileInv ==
  /\ FileTypes /\ FileLeaves /\ RowsHaveFiles
  /\ \A f \in QuestFileIds : FileFresh(f)
  /\ files_up => CacheIsTable

LEMMA FilesInitInv == FilesInit => FileInv
<1>. SUFFICES ASSUME FilesInit PROVE FileInv OBVIOUS
<1>1. FileTypes
  <2>1. NoCounters \in [QuestFileIds -> Nat] /\ NotDeleting \in [step : {"none", "row", "copy", "unregister"}, file : Nat, seen : Nat]
    BY DEF NotDeleting, NoCounters
  <2>2. files_up \in BOOLEAN /\ cached_files = {} /\ quests_files = {} /\ next_file = 1
    BY DEF FilesInit
  <2>3. downloads_counter = NoCounters /\ cached_downloads = NoCounters /\ deleting = NotDeleting
    BY DEF FilesInit
  <2>4. next_file \in Nat \ {0}
    BY <2>2
  <2>. HIDE DEF NotDeleting, NoCounters
  <2>. QED BY <2>1, <2>2, <2>3, <2>4 DEF FileTypes
<1>2. FileLeaves /\ RowsHaveFiles /\ \A f \in QuestFileIds : FileFresh(f)
  BY DEF FilesInit, FileLeaves, RowsHaveFiles, FileFresh, NotDeleting, NoCounters
<1>. QED BY <1>1, <1>2 DEF FilesInit, FileInv

(* A download is counted: in the cache, and in the row or in behind.       *)
LEMMA CountStep ==
  ASSUME FileInv, NEW w \in WebThreads, CountInCache(w), files_up,
         \/ /\ behind' = behind \ {downloading[w]}
            /\ downloads_counter' = IF downloading[w] \in quests_files
                                    THEN [downloads_counter EXCEPT ![downloading[w]] = cached_downloads'[downloading[w]]]
                                    ELSE downloads_counter
         \/ behind' = behind \cup {downloading[w]} /\ downloads_counter' = downloads_counter
  PROVE  FileInv'
<1>. PICK f : f = downloading[w]
  OBVIOUS
<1>1. /\ f \in cached_files /\ cached_downloads' = [cached_downloads EXCEPT ![f] = cached_downloads[f] + 1]
      /\ UNCHANGED <<on_disk, quests_files, next_file, cached_files, deleting, files_up, half_deleted>>
  BY DEF CountInCache
<1>2. FileTypes /\ FileLeaves /\ RowsHaveFiles /\ CacheIsTable /\ f \in QuestFileIds
  BY <1>1 DEF FileInv, FileTypes
<1>3. cached_downloads'[f] \in Nat /\ \A g \in QuestFileIds : g # f => cached_downloads'[g] = cached_downloads[g]
  BY <1>1, <1>2 DEF FileTypes
<1>4. \A g \in QuestFileIds : g # f => downloads_counter'[g] = downloads_counter[g] /\ (g \in behind' <=> g \in behind)
  BY <1>2 DEF FileTypes
<1>5. f \in quests_files => f \in behind' \/ downloads_counter'[f] = cached_downloads'[f]
  BY <1>2 DEF FileTypes
<1>6. FileTypes'
  BY <1>1, <1>2, <1>3 DEF FileTypes
<1>7. f < next_file
  <2>1. f \in quests_files \cup Leaving
    BY <1>1, <1>2 DEF CacheIsTable
  <2>2. CASE f \in quests_files
    BY <1>2, <2>2 DEF FileInv, FileFresh, FileTypes, QuestFileIds
  <2>3. CASE f \in Leaving
    BY <1>2, <2>3 DEF Leaving, FileLeaves
  <2>. QED BY <2>1, <2>2, <2>3
<1>8. ASSUME NEW g \in QuestFileIds PROVE FileFresh(g)'
  <2>1. g >= next_file => g # f
    BY <1>2, <1>7 DEF FileTypes, QuestFileIds
  <2>. QED BY <1>1, <1>3, <1>4, <2>1 DEF FileInv, FileFresh
<1>9. CacheIsTable'
  BY <1>1, <1>2, <1>3, <1>4, <1>5 DEF CacheIsTable, Leaving, FileTypes
<1>. QED BY <1>1, <1>2, <1>6, <1>8, <1>9 DEF FileInv, FileLeaves, RowsHaveFiles

LEMMA FilesStep == FileInv /\ [FilesNext]_filesVars => FileInv'
<1>. SUFFICES ASSUME FileInv, [FilesNext]_filesVars PROVE FileInv' OBVIOUS
<1>0. FileTypes /\ FileLeaves /\ RowsHaveFiles /\ (files_up => CacheIsTable) /\ \A f \in QuestFileIds : FileFresh(f)
  BY DEF FileInv
<1>. USE DEF fileRows, fileCache, fileMarks
<1>1. CASE FilesStart
  <2>1. deleting.step = "none"
    BY <1>0, <1>1 DEF FilesStart, FileLeaves
  <2>2. /\ cached_files' = quests_files /\ cached_downloads' = downloads_counter /\ files_up' = TRUE /\ behind' = {}
        /\ UNCHANGED <<on_disk, quests_files, downloads_counter, next_file, deleting, half_deleted>>
    BY <1>1 DEF FilesStart
  <2>. QED BY <1>0, <2>1, <2>2 DEF FileInv, FileTypes, FileLeaves, RowsHaveFiles, FileFresh, CacheIsTable, Leaving
<1>2. CASE FilesStop
  <2>1. /\ files_up' = FALSE /\ cached_files' = {} /\ cached_downloads' = NoCounters /\ deleting' = NotDeleting
        /\ UNCHANGED <<on_disk, quests_files, downloads_counter, next_file, half_deleted>>
    BY <1>2 DEF FilesStop
  <2>. QED BY <1>0, <2>1 DEF FileInv, FileTypes, FileLeaves, RowsHaveFiles, FileFresh, NoCounters, NotDeleting
<1>3. CASE Upload
  <2>1. /\ next_file \in QuestFileIds /\ next_file' = next_file + 1 /\ files_up /\ deleting.step = "none"
        /\ on_disk' = on_disk \cup {next_file} /\ quests_files' = quests_files \cup {next_file}
        /\ cached_files' = cached_files \cup {next_file}
        /\ UNCHANGED <<downloads_counter, cached_downloads, deleting, files_up, half_deleted, behind>>
    BY <1>0, <1>3, QuestFilesAssumption DEF Upload, FilesServing, NotDeleting, FileTypes, QuestFileIds
  <2>2. downloads_counter[next_file] = cached_downloads[next_file]
    BY <1>0, <2>1 DEF FileFresh, QuestFileIds
  <2>3. \A f \in QuestFileIds : FileFresh(f)'
    BY <1>0, <2>1 DEF FileFresh, FileTypes, QuestFileIds
  <2>4. CacheIsTable'
    BY <1>0, <2>1, <2>2 DEF CacheIsTable, Leaving
  <2>. QED BY <1>0, <2>1, <2>3, <2>4 DEF FileInv, FileTypes, FileLeaves, RowsHaveFiles
<1>4. CASE UploadRefused
  <2>1. /\ next_file' = next_file + 1 /\ on_disk' = on_disk \cup {next_file} /\ deleting.step = "none"
        /\ UNCHANGED <<quests_files, downloads_counter, cached_files, cached_downloads, deleting, files_up, half_deleted, behind>>
    BY <1>4 DEF UploadRefused, FilesServing, NotDeleting
  <2>2. \A f \in QuestFileIds : FileFresh(f)'
    BY <1>0, <2>1 DEF FileFresh, FileTypes, QuestFileIds
  <2>. QED BY <1>0, <2>1, <2>2 DEF FileInv, FileTypes, FileLeaves, RowsHaveFiles, CacheIsTable, Leaving
<1>5. ASSUME NEW f \in QuestFileIds, DeleteFile(f) PROVE FileInv'
  <2>1. /\ f \in quests_files /\ files_up /\ deleting.step = "none" /\ deleting'.step = "row" /\ deleting'.file = f
        /\ on_disk' = on_disk \ {f} /\ half_deleted' = half_deleted \cup {f}
        /\ UNCHANGED <<quests_files, downloads_counter, next_file, cached_files, cached_downloads, files_up, behind>>
    BY <1>5 DEF DeleteFile, FilesServing, NotDeleting
  <2>2. FileTypes' /\ FileLeaves' /\ RowsHaveFiles'
    <3>1. f \in Nat /\ deleting' = [step |-> "row", file |-> f, seen |-> 0]
      BY <1>5 DEF DeleteFile, QuestFileIds
    <3>. QED BY <1>0, <2>1, <3>1 DEF FileTypes, FileLeaves, RowsHaveFiles
  <2>3. \A g \in QuestFileIds : FileFresh(g)'
    BY <1>0, <2>1 DEF FileFresh
  <2>4. CacheIsTable'
    BY <1>0, <2>1 DEF CacheIsTable, Leaving
  <2>. QED BY <2>2, <2>3, <2>4 DEF FileInv
<1>6. CASE DeleteFileRow
  <2>1. /\ deleting.step = "row" /\ deleting' = [deleting EXCEPT !.step = "copy"]
        /\ quests_files' = quests_files \ {deleting.file} /\ half_deleted' = half_deleted \ {deleting.file}
        /\ UNCHANGED <<on_disk, downloads_counter, next_file, cached_files, cached_downloads, files_up, behind>>
    BY <1>6 DEF DeleteFileRow
  <2>2. deleting.file \in quests_files /\ files_up /\ deleting.file < next_file
    BY <1>0, <2>1 DEF FileLeaves, FileFresh, FileTypes, QuestFileIds
  <2>3. deleting'.step = "copy" /\ deleting'.file = deleting.file
    BY <1>0, <2>1 DEF FileTypes
  <2>. QED BY <1>0, <2>1, <2>2, <2>3 DEF FileInv, FileTypes, FileLeaves, RowsHaveFiles, FileFresh, CacheIsTable, Leaving
<1>7. CASE DeleteFileRowRefused
  <2>1. /\ deleting.step = "row" /\ deleting' = NotDeleting
        /\ UNCHANGED <<on_disk, quests_files, downloads_counter, next_file, cached_files, cached_downloads, files_up, half_deleted, behind>>
    BY <1>7 DEF DeleteFileRowRefused
  <2>. QED BY <1>0, <2>1 DEF FileInv, FileTypes, FileLeaves, RowsHaveFiles, FileFresh, CacheIsTable, Leaving, NotDeleting
<1>8. CASE CopyCached
  <2>1. /\ deleting.step = "copy"
        /\ deleting' = [deleting EXCEPT !.step = "unregister", !.seen = cached_downloads[deleting.file]]
        /\ UNCHANGED <<on_disk, quests_files, downloads_counter, next_file, cached_files, cached_downloads, files_up, half_deleted, behind>>
    BY <1>8 DEF CopyCached
  <2>2. deleting'.step = "unregister" /\ deleting'.file = deleting.file
    BY <1>0, <2>1 DEF FileTypes
  <2>. QED BY <1>0, <2>1, <2>2 DEF FileInv, FileTypes, FileLeaves, RowsHaveFiles, FileFresh, CacheIsTable, Leaving
<1>9. CASE UnregisterFile
  <2>1. /\ deleting.step = "unregister" /\ deleting' = NotDeleting /\ cached_files' = cached_files \ {deleting.file}
        /\ UNCHANGED <<on_disk, quests_files, downloads_counter, next_file, cached_downloads, files_up, half_deleted, behind>>
    BY <1>9 DEF UnregisterFile
  <2>. QED BY <1>0, <2>1 DEF FileInv, FileTypes, FileLeaves, RowsHaveFiles, FileFresh, CacheIsTable, Leaving, NotDeleting
<1>10. ASSUME NEW w \in WebThreads, CountDownload(w) \/ CountRefused(w) PROVE FileInv'
  <2>1. files_up
    BY <1>0, <1>10 DEF FileTypes, CountDownload, CountRefused, CountInCache
  <2>. QED BY <1>10, <2>1, CountStep DEF CountDownload, CountRefused
<1>11. ASSUME NEW w \in WebThreads,
              CountNothing(w) \/ \E f \in QuestFileIds : FindFile(w, f)
       PROVE  FileInv'
  <2>1. UNCHANGED <<on_disk, quests_files, downloads_counter, next_file, cached_files, cached_downloads, deleting, files_up,
                    half_deleted, behind>>
    BY <1>11 DEF CountNothing, FindFile
  <2>. QED BY <1>0, <2>1 DEF FileInv, FileTypes, FileLeaves, RowsHaveFiles, FileFresh, CacheIsTable, Leaving
<1>12. CASE UNCHANGED filesVars
  BY <1>0, <1>12 DEF filesVars, FileInv, FileTypes, FileLeaves, RowsHaveFiles, FileFresh, CacheIsTable, Leaving
<1>. QED BY <1>1, <1>2, <1>3, <1>4, <1>5, <1>6, <1>7, <1>8, <1>9, <1>10, <1>11, <1>12 DEF FilesNext

(* The sum of the counters in the cache.                                   *)
LEMMA TotalIsSum ==
  ASSUME NEW c, NEW S
  PROVE  Total(c, S) = SumFunctionOnSet(c, S)
BY DEF Total, MapThenSumSet, SumFunctionOnSet, FoldFunctionOnSet, MapThenFoldSet

LEMMA FileSetsFinite == \A S \in SUBSET QuestFileIds : IsFiniteSet(S)
<1>1. IsFiniteSet(QuestFileIds)
  BY QuestFilesAssumption, FS_Interval DEF QuestFileIds
<1>. QED BY <1>1, FS_Subset

LEMMA TotalIsNat ==
  ASSUME NEW c \in [QuestFileIds -> Nat], NEW S \in SUBSET QuestFileIds
  PROVE  /\ Total(c, S) \in Nat
         /\ \A f \in S : Total(c, S) = c[f] + Total(c, S \ {f})
<1>1. IsFiniteSet(S) /\ \A f \in S : c[f] \in Nat
  BY FileSetsFinite
<1>2. Total(c, S) \in Nat
  BY <1>1, TotalIsSum, SumIsNat
<1>3. ASSUME NEW f \in S PROVE Total(c, S) = c[f] + Total(c, S \ {f})
  BY <1>1, TotalIsSum, SumTakesOut
<1>. QED BY <1>2, <1>3

LEMMA TotalOneMore ==
  ASSUME NEW c \in [QuestFileIds -> Nat], NEW S \in SUBSET QuestFileIds, NEW f \in S
  PROVE  Total([c EXCEPT ![f] = c[f] + 1], S) = Total(c, S) + 1
<1>. DEFINE d == [c EXCEPT ![f] = c[f] + 1]
<1>1. IsFiniteSet(S) /\ \A g \in S : c[g] \in Int /\ d[g] \in Int
  BY FileSetsFinite
<1>2. d[f] = c[f] + 1 /\ \A g \in S \ {f} : c[g] = d[g]
  OBVIOUS
<1>. HIDE DEF d
<1>3. SumFunctionOnSet(d, S) = SumFunctionOnSet(c, S) - c[f] + d[f]
  BY <1>1, <1>2, SumWithOneChanged
<1>4. SumFunctionOnSet(c, S) \in Int
  BY <1>1, SumIsInt
<1>5. Total(d, S) = Total(c, S) + 1
  BY <1>1, <1>2, <1>3, <1>4, TotalIsSum
<1>. QED BY <1>5 DEF d

(* The sum, at every step of a deletion: between the copy of the counter   *)
(* and the cache, downloads of the file are in overtaken already.          *)
Overtaking == IF deleting.step = "unregister" THEN cached_downloads[deleting.file] - deleting.seen ELSE 0

SumInv ==
  /\ all_downloads \in Nat /\ overtaken \in Nat
  /\ files_up => all_downloads = Total(cached_downloads, cached_files) + overtaken - Overtaking
  /\ deleting.step = "unregister" => deleting.seen <= cached_downloads[deleting.file]

LEMMA SumStays ==
  ASSUME SumInv, UNCHANGED <<files_up, fileCache, overtaken>>, deleting.step # "unregister",
         deleting'.step # "unregister"
  PROVE  SumInv'
BY DEF SumInv, Overtaking, fileCache

LEMMA FilesSumStep == FileInv /\ SumInv /\ [FilesNext]_filesVars => SumInv'
<1>. SUFFICES ASSUME FileInv, SumInv, [FilesNext]_filesVars PROVE SumInv' OBVIOUS
<1>0. FileTypes /\ FileLeaves /\ (files_up => CacheIsTable) /\ \A f \in QuestFileIds : FileFresh(f)
  BY DEF FileInv
<1>t. Total(cached_downloads, cached_files) \in Nat
  BY <1>0, TotalIsNat DEF FileTypes
<1>1. CASE FilesStart
  <2>1. /\ cached_files' = quests_files /\ cached_downloads' = downloads_counter /\ overtaken' = 0
        /\ all_downloads' = Total(downloads_counter, quests_files) /\ deleting' = deleting
    BY <1>1 DEF FilesStart
  <2>2. deleting.step = "none"
    BY <1>0, <1>1 DEF FilesStart, FileLeaves
  <2>3. all_downloads' \in Nat
    BY <1>0, <2>1, TotalIsNat DEF FileTypes
  <2>. QED BY <2>1, <2>2, <2>3 DEF SumInv, Overtaking
<1>2. CASE FilesStop
  <2>1. files_up' = FALSE /\ all_downloads' = 0 /\ deleting'.step = "none" /\ overtaken' = overtaken
    BY <1>2 DEF FilesStop, NotDeleting, fileMarks
  <2>. QED BY <2>1 DEF SumInv
<1>3. CASE Upload
  <2>1. /\ files_up /\ deleting.step = "none" /\ next_file \in QuestFileIds
        /\ cached_files' = cached_files \cup {next_file}
        /\ UNCHANGED <<files_up, deleting, cached_downloads, all_downloads, overtaken>>
    BY <1>0, <1>3, QuestFilesAssumption
    DEF Upload, FilesServing, NotDeleting, FileTypes, QuestFileIds, fileMarks
  <2>2. cached_downloads[next_file] = 0 /\ next_file \notin cached_files
    BY <1>0, <2>1 DEF FileFresh, FileTypes, CacheIsTable, Leaving, QuestFileIds
  <2>3. cached_files' \in SUBSET QuestFileIds /\ cached_files' \ {next_file} = cached_files
    BY <1>0, <2>1, <2>2 DEF FileTypes
  <2>4. Total(cached_downloads, cached_files') =
          cached_downloads[next_file] + Total(cached_downloads, cached_files)
    BY <1>0, <2>1, <2>3, TotalIsNat DEF FileTypes
  <2>. QED BY <1>t, <2>1, <2>2, <2>4 DEF SumInv, Overtaking
<1>4. CASE UploadRefused \/ \E f \in QuestFileIds : DeleteFile(f)
  <2>1. UNCHANGED <<files_up, fileCache, overtaken>>
    BY <1>4 DEF UploadRefused, DeleteFile, fileMarks
  <2>2. deleting.step = "none" /\ deleting'.step \in {"none", "row"}
    BY <1>4 DEF UploadRefused, DeleteFile, FilesServing, NotDeleting
  <2>. QED BY <2>1, <2>2, SumStays
<1>5. CASE DeleteFileRow \/ DeleteFileRowRefused
  <2>1. UNCHANGED <<files_up, fileCache, overtaken>>
    BY <1>5 DEF DeleteFileRow, DeleteFileRowRefused, fileMarks
  <2>2. deleting.step = "row" /\ deleting'.step \in {"none", "copy"}
    BY <1>0, <1>5 DEF DeleteFileRow, DeleteFileRowRefused, NotDeleting, FileTypes
  <2>. QED BY <2>1, <2>2, SumStays
<1>6. CASE CopyCached
  <2>1. /\ deleting.step = "copy" /\ deleting'.step = "unregister" /\ deleting'.file = deleting.file
        /\ deleting'.seen = cached_downloads[deleting.file]
        /\ UNCHANGED <<files_up, cached_files, cached_downloads, all_downloads, overtaken>>
    BY <1>0, <1>6 DEF CopyCached, FileTypes, fileCache, fileMarks
  <2>2. cached_downloads[deleting.file] \in Nat
    BY <1>0, <2>1 DEF FileTypes, FileLeaves
  <2>. QED BY <1>t, <2>1, <2>2 DEF SumInv, Overtaking
<1>7. CASE UnregisterFile
  <2>1. /\ deleting.step = "unregister" /\ deleting'.step = "none"
        /\ all_downloads' = all_downloads - deleting.seen
        /\ cached_files' = cached_files \ {deleting.file}
        /\ UNCHANGED <<files_up, cached_downloads, overtaken>>
    BY <1>7 DEF UnregisterFile, DownloadsGone, NotDeleting, fileMarks
  <2>2. files_up /\ deleting.file \in cached_files /\ deleting.file \in QuestFileIds
    BY <1>0, <2>1 DEF FileLeaves, CacheIsTable, Leaving
  <2>3. Total(cached_downloads, cached_files) =
          cached_downloads[deleting.file] + Total(cached_downloads, cached_files')
    BY <1>0, <2>1, <2>2, TotalIsNat DEF FileTypes
  <2>4. Total(cached_downloads, cached_files') \in Nat
    <3>1. cached_files' \in SUBSET QuestFileIds
      BY <1>0, <2>1 DEF FileTypes
    <3>. QED BY <1>0, <3>1, TotalIsNat DEF FileTypes
  <2>5. cached_downloads[deleting.file] \in Nat /\ deleting.seen \in Nat
    BY <1>0, <2>2 DEF FileTypes
  <2>6. all_downloads' = Total(cached_downloads, cached_files') + overtaken
    BY <2>1, <2>2, <2>3, <2>4, <2>5 DEF SumInv, Overtaking
  <2>. QED BY <2>1, <2>4, <2>6 DEF SumInv, Overtaking
<1>8. ASSUME NEW w \in WebThreads, CountDownload(w) \/ CountRefused(w) PROVE SumInv'
  <2>1. PICK f \in cached_files : f = downloading[w]
    BY <1>8 DEF CountDownload, CountRefused, CountInCache
  <2>2. /\ cached_downloads' = [cached_downloads EXCEPT ![f] = cached_downloads[f] + 1]
        /\ all_downloads' = all_downloads + 1
        /\ overtaken' = IF deleting.step = "unregister" /\ deleting.file = f THEN overtaken + 1 ELSE overtaken
        /\ UNCHANGED <<cached_files, deleting, files_up>>
    BY <1>8, <2>1 DEF CountDownload, CountRefused, CountInCache
  <2>3. f \in QuestFileIds /\ files_up /\ cached_files \in SUBSET QuestFileIds
    BY <1>0, <2>1 DEF FileTypes
  <2>4. Total(cached_downloads', cached_files) = Total(cached_downloads, cached_files) + 1
    BY <1>0, <2>2, <2>3, TotalOneMore DEF FileTypes
  <2>5. CASE deleting.step # "unregister"
    BY <1>t, <2>2, <2>3, <2>4, <2>5 DEF SumInv, Overtaking
  <2>6. CASE deleting.step = "unregister" /\ deleting.file = f
    <3>1. cached_downloads[f] \in Nat /\ cached_downloads'[f] = cached_downloads[f] + 1 /\ deleting.seen \in Nat
      BY <1>0, <2>2, <2>3 DEF FileTypes
    <3>. QED BY <1>t, <2>2, <2>3, <2>4, <2>6, <3>1 DEF SumInv, Overtaking
  <2>7. CASE deleting.step = "unregister" /\ deleting.file # f
    <3>1. /\ cached_downloads[deleting.file] \in Nat /\ deleting.seen \in Nat
          /\ cached_downloads'[deleting.file] = cached_downloads[deleting.file]
      BY <1>0, <2>2, <2>3, <2>7 DEF FileTypes, FileLeaves
    <3>. QED BY <1>t, <2>2, <2>3, <2>4, <2>7, <3>1 DEF SumInv, Overtaking
  <2>. QED BY <2>5, <2>6, <2>7
<1>9. ASSUME NEW w \in WebThreads, CountNothing(w) \/ \E f \in QuestFileIds : FindFile(w, f)
      PROVE  SumInv'
  BY <1>9 DEF CountNothing, FindFile, SumInv, Overtaking, fileCache, fileMarks
<1>10. CASE UNCHANGED filesVars
  BY <1>10 DEF filesVars, SumInv, Overtaking, fileCache, fileMarks
<1>. QED BY <1>1, <1>2, <1>3, <1>4, <1>5, <1>6, <1>7, <1>8, <1>9, <1>10 DEF FilesNext

(* Disk, table, cache and sum of the files agree after any uploads,        *)
(* deletions and downloads, at any moment of each, and across restarts.    *)
THEOREM FilesAgree == FilesSpec => []FilesTrue
<1>1. FilesInit => SumInv
  BY DEF FilesInit, SumInv, NotDeleting
<1>2. FileInv /\ SumInv => FilesTrue
  BY DEF FileInv, SumInv, Overtaking, FilesTrue, SumIsExact, FileTypes
<1>. QED BY FilesInitInv, FilesStep, FilesSumStep, <1>1, <1>2, PTL DEF FilesSpec
-----------------------------------------------------------------------------
(* The settings.  A name without a row was never set; what a process has   *)
(* passed in its second loop, or found in its first, has a row; and while  *)
(* no two processes started together, the one that fills has not yet come  *)
(* to the names without one.                                               *)
SettingPositions == 1..Len(SettingNames)

UnsetIsDefault == \A s \in SettingSet : ~IsStored(s) => last_set[s] = SettingDefault[s]

FilledHasRow ==
  \A p \in SettingProcesses :
    /\ setting_pc[p] # "down" => \A s \in SettingSet : setting_inited[p][s] => IsStored(s)
    /\ setting_pc[p] = "fill" => \A k \in SettingPositions : k < fill_at[p] => IsStored(SettingNames[k])

FillsAlone ==
  ~beside => \A p \in SettingProcesses : setting_pc[p] = "fill" =>
    /\ \A q \in SettingProcesses : setting_pc[q] = "fill" => q = p
    /\ \A k \in SettingPositions :
         k >= fill_at[p] /\ ~setting_inited[p][SettingNames[k]] => ~IsStored(SettingNames[k])

SettingInv ==
  /\ SettingsTypeOK /\ UnsetIsDefault /\ FilledHasRow /\ FillsAlone
  /\ RestartLoadsLast /\ ReadyHasRows /\ ShownIsLast /\ OneRowEach

LEMMA SettingNamesAre ==
  /\ Len(SettingNames) \in Nat
  /\ \A k \in SettingPositions : SettingNames[k] \in SettingSet
  /\ \A s \in SettingSet : \E k \in SettingPositions : SettingNames[k] = s
  /\ \A j, k \in SettingPositions : SettingNames[j] = SettingNames[k] => j = k
  /\ SettingDefault \in [SettingSet -> SettingValues] /\ \A s \in SettingSet : SettingDefault[s] \in ValuesOf(s)
BY SettingsAssumption DEF SettingPositions, SettingSet

LEMMA RowAppended ==
  ASSUME NEW T, NEW old \in Seq(T), NEW d \in T
  PROVE  /\ Append(old, d) \in Seq(T) /\ Append(old, d) # <<>> /\ Len(Append(old, d)) = Len(old) + 1
         /\ old # <<>> => Head(Append(old, d)) = Head(old)
         /\ old = <<>> => Head(Append(old, d)) = d /\ Len(old) = 0
OBVIOUS

LEMMA GivenIsValue ==
  ASSUME NEW p \in SettingProcesses, NEW s \in SettingSet, NEW text \in SettingTexts, MayUpdate(p, s, text)
  PROVE  Given(p, s, text) \in ValuesOf(s)
<1>. DEFINE g == Given(p, s, text)
<1>1. SettingKind[s] \in {"string", "number", "boolean"}
  BY SettingsAssumption
<1>2. CASE SettingKind[s] = "boolean"
  <2>1. g = "yes" \/ g = "no"
    BY <1>2 DEF Given, ToolValue, ServerValue
  <2>2. ValuesOf(s) = {"yes", "no"}
    BY <1>2 DEF ValuesOf
  <2>. QED BY <2>1, <2>2
<1>3. CASE SettingKind[s] = "number"
  <2>1. g = "0" \/ (g = text /\ text \in Numerals)
    BY <1>3 DEF Given, ToolValue, ServerValue, MayUpdate, ToolTakes
  <2>2. ValuesOf(s) = Numerals \cup {"0"}
    BY <1>3 DEF ValuesOf
  <2>. QED BY <1>1, <2>1, <2>2
<1>4. CASE SettingKind[s] = "string"
  <2>1. g = text
    BY <1>4 DEF Given, ToolValue, ServerValue
  <2>2. ValuesOf(s) = SettingTexts \cup {SettingDefault[s]}
    BY <1>4 DEF ValuesOf
  <2>. QED BY <1>1, <2>1, <2>2
<1>. QED BY <1>1, <1>2, <1>3, <1>4

LEMMA SettingsInitInv == SettingsInit => SettingInv
<1>. SUFFICES ASSUME SettingsInit PROVE SettingInv
  OBVIOUS
<1>1. SettingsTypeOK
  <2>1. 1 \in 1..(Len(SettingNames) + 1) /\ <<>> \in Seq(SettingValues)
    BY SettingNamesAre
  <2>. QED BY <2>1, SettingNamesAre DEF SettingsInit, SettingsTypeOK, NoneInited
<1>. QED BY <1>1, SettingNamesAre DEF SettingsInit, SettingInv, UnsetIsDefault, FilledHasRow, FillsAlone, RestartLoadsLast,
              ReadyHasRows, ShownIsLast, OneRowEach, IsStored, Shown, NoneInited

LEMMA SettingsLoadStep ==
  ASSUME SettingInv, NEW p \in SettingProcesses, SettingsLoad(p)
  PROVE  SettingInv'
<1>1. /\ setting_pc[p] = "down" /\ UNCHANGED <<settings_rows, last_set>>
      /\ setting_pc' = [setting_pc EXCEPT ![p] = "fill"] /\ fill_at' = [fill_at EXCEPT ![p] = 1]
      /\ setting_inited' = [setting_inited EXCEPT ![p] = [s \in SettingSet |-> IsStored(s)]]
      /\ setting_value' = [setting_value EXCEPT ![p] =
           [s \in SettingSet |-> IF IsStored(s) THEN FromRow(s, FirstRow(s)) ELSE SettingDefault[s]]]
      /\ parted' = [parted EXCEPT ![p] = {}]
      /\ beside' = (beside \/ \E q \in SettingProcesses : setting_pc[q] = "fill")
  BY DEF SettingsLoad
<1>2. \A s \in SettingSet : IsStored(s)' = IsStored(s) /\ FirstRow(s)' = FirstRow(s) /\ (IsStored(s) \in BOOLEAN)
  BY <1>1 DEF IsStored, FirstRow
<1>3. \A s \in SettingSet : IsStored(s) => FromRow(s, FirstRow(s)) = last_set[s]
  <2>. SUFFICES ASSUME NEW s \in SettingSet, IsStored(s) PROVE FromRow(s, FirstRow(s)) = last_set[s]
    OBVIOUS
  <2>1. FirstRow(s) = last_set[s] /\ last_set[s] \in ValuesOf(s)
    BY DEF SettingInv, RestartLoadsLast, SettingsTypeOK
  <2>. QED BY <2>1 DEF FromRow, ValuesOf
<1>4. SettingsTypeOK'
  <2>1. 1 \in 1..(Len(SettingNames) + 1)
    BY SettingNamesAre
  <2>2. [s \in SettingSet |-> IsStored(s)] \in [SettingSet -> BOOLEAN]
    BY <1>2
  <2>3. \A s \in SettingSet : last_set[s] \in SettingValues
    BY DEF SettingInv, SettingsTypeOK
  <2>4. [s \in SettingSet |-> IF IsStored(s) THEN FromRow(s, FirstRow(s)) ELSE SettingDefault[s]] \in [SettingSet -> SettingValues]
    BY <1>3, <2>3, SettingNamesAre
  <2>5. beside' \in BOOLEAN
    BY <1>1 DEF SettingInv, SettingsTypeOK
  <2>. QED BY <1>1, <2>1, <2>2, <2>4, <2>5 DEF SettingInv, SettingsTypeOK
<1>5. (UnsetIsDefault /\ RestartLoadsLast /\ OneRowEach)'
  BY <1>1, <1>2 DEF SettingInv, UnsetIsDefault, RestartLoadsLast, OneRowEach, SettingsTypeOK
<1>6. (FilledHasRow /\ ReadyHasRows)'
  BY <1>1, <1>2, SettingNamesAre DEF SettingInv, SettingsTypeOK, FilledHasRow, ReadyHasRows, SettingPositions
<1>7. FillsAlone'
  BY <1>1, <1>2, SettingNamesAre DEF SettingInv, SettingsTypeOK, FillsAlone, SettingPositions
<1>8. ShownIsLast'
  BY <1>1, <1>2, <1>3 DEF SettingInv, SettingsTypeOK, ShownIsLast, Shown, UnsetIsDefault
<1>. QED BY <1>4, <1>5, <1>6, <1>7, <1>8 DEF SettingInv

LEMMA SettingsFillStep ==
  ASSUME SettingInv, NEW p \in SettingProcesses, SettingsFill(p)
  PROVE  SettingInv'
<1>0. PICK n \in SettingSet : n = SettingNames[fill_at[p]]
  BY SettingNamesAre DEF SettingsFill, SettingInv, SettingsTypeOK, SettingPositions
<1>1. /\ setting_pc[p] = "fill" /\ fill_at[p] \in SettingPositions
      /\ settings_rows' = IF setting_inited[p][n] THEN settings_rows
                          ELSE [settings_rows EXCEPT ![n] = Append(@, SettingDefault[n])]
      /\ fill_at' = [fill_at EXCEPT ![p] = fill_at[p] + 1]
      /\ UNCHANGED <<setting_pc, setting_inited, setting_value, last_set, parted, beside>>
  BY <1>0, SettingNamesAre DEF SettingsFill, settingItems, SettingInv, SettingsTypeOK, SettingPositions
<1>2. \A s \in SettingSet : s # n => settings_rows'[s] = settings_rows[s]
  BY <1>1 DEF SettingInv, SettingsTypeOK
<1>3. /\ settings_rows[n] \in Seq(SettingValues) /\ SettingDefault[n] \in SettingValues
      /\ setting_inited[p][n] => IsStored(n)
  BY <1>1, SettingNamesAre DEF SettingInv, SettingsTypeOK, FilledHasRow
<1>4. settings_rows'[n] = IF setting_inited[p][n] THEN settings_rows[n] ELSE Append(settings_rows[n], SettingDefault[n])
  BY <1>1 DEF SettingInv, SettingsTypeOK
<1>5. /\ IsStored(n)' /\ settings_rows'[n] \in Seq(SettingValues)
      /\ IsStored(n) => FirstRow(n)' = FirstRow(n)
      /\ ~IsStored(n) => FirstRow(n)' = SettingDefault[n]
      /\ ~setting_inited[p][n] => Len(settings_rows'[n]) = Len(settings_rows[n]) + 1
      /\ ~IsStored(n) => Len(settings_rows[n]) = 0
  <2>. DEFINE old == settings_rows[n]
              d == SettingDefault[n]
  <2>1. /\ Append(old, d) \in Seq(SettingValues) /\ Append(old, d) # <<>> /\ Len(Append(old, d)) = Len(old) + 1
        /\ old # <<>> => Head(Append(old, d)) = Head(old)
        /\ old = <<>> => Head(Append(old, d)) = d /\ Len(old) = 0
    BY <1>3, RowAppended
  <2>. HIDE DEF d
  <2>2. CASE setting_inited[p][n]
    BY <1>3, <1>4, <2>2 DEF IsStored, FirstRow
  <2>3. CASE ~setting_inited[p][n]
    <3>1. settings_rows'[n] = Append(old, d)
      BY <1>4, <2>3 DEF d
    <3>. QED BY <2>1, <2>3, <3>1 DEF IsStored, FirstRow, d
  <2>. QED BY <2>2, <2>3
<1>6. \A s \in SettingSet : s # n => IsStored(s)' = IsStored(s) /\ FirstRow(s)' = FirstRow(s)
  BY <1>2 DEF IsStored, FirstRow
<1>7. \A s \in SettingSet : IsStored(s) => IsStored(s)'
  BY <1>5, <1>6
<1>8. SettingsTypeOK'
  <2>1. fill_at[p] + 1 \in 1..(Len(SettingNames) + 1)
    BY <1>1, SettingNamesAre DEF SettingPositions
  <2>2. settings_rows' \in [SettingSet -> Seq(SettingValues)]
    BY <1>1, <1>3, <1>4, <1>5 DEF SettingInv, SettingsTypeOK
  <2>. QED BY <1>1, <2>1, <2>2 DEF SettingInv, SettingsTypeOK
<1>9. (UnsetIsDefault /\ RestartLoadsLast)'
  BY <1>1, <1>5, <1>6 DEF SettingInv, UnsetIsDefault, RestartLoadsLast
<1>10. ReadyHasRows' /\ ShownIsLast'
  BY <1>1, <1>7 DEF SettingInv, ReadyHasRows, ShownIsLast, Shown
<1>11. FilledHasRow'
  <2>1. ASSUME NEW k \in SettingPositions, k < fill_at[p] + 1 PROVE IsStored(SettingNames[k])'
    <3>1. CASE k = fill_at[p]
      BY <1>0, <1>5, <3>1
    <3>2. CASE k < fill_at[p]
      BY <1>1, <1>7, <3>2, SettingNamesAre DEF SettingInv, FilledHasRow
    <3>. QED BY <1>1, <2>1, <3>1, <3>2, SettingNamesAre DEF SettingPositions
  <2>. QED BY <1>1, <1>7, <2>1, SettingNamesAre DEF SettingInv, SettingsTypeOK, FilledHasRow
<1>12. FillsAlone' /\ OneRowEach'
  <2>. SUFFICES ASSUME ~beside PROVE FillsAlone' /\ OneRowEach'
    BY <1>1 DEF FillsAlone, OneRowEach
  <2>1. /\ \A q \in SettingProcesses : setting_pc[q] = "fill" => q = p
        /\ \A k \in SettingPositions :
             k >= fill_at[p] /\ ~setting_inited[p][SettingNames[k]] => ~IsStored(SettingNames[k])
    BY <1>1 DEF SettingInv, FillsAlone
  <2>2. ~setting_inited[p][n] => ~IsStored(n)
    <3>1. fill_at[p] >= fill_at[p]
      BY <1>1, SettingNamesAre DEF SettingPositions
    <3>. QED BY <1>0, <1>1, <2>1, <3>1
  <2>3. \A k \in SettingPositions : k >= fill_at[p] + 1 => SettingNames[k] # n /\ k >= fill_at[p]
    BY <1>0, <1>1, SettingNamesAre DEF SettingPositions
  <2>4. FillsAlone'
    BY <1>1, <1>6, <2>1, <2>3, SettingNamesAre DEF FillsAlone, SettingInv, SettingsTypeOK
  <2>5. OneRowEach'
    <3>1. Len(settings_rows'[n]) <= 1
      BY <1>1, <1>3, <1>4, <1>5, <2>2 DEF SettingInv, OneRowEach
    <3>. QED BY <1>1, <1>2, <3>1 DEF SettingInv, OneRowEach
  <2>. QED BY <2>4, <2>5
<1>. QED BY <1>8, <1>9, <1>10, <1>11, <1>12 DEF SettingInv

LEMMA SettingsUpdateStep ==
  ASSUME SettingInv, NEW p \in SettingProcesses, NEW s \in SettingSet, NEW text \in SettingTexts,
         SettingsUpdate(p, s, text) \/ SettingsUpdateRefused(p, s, text)
  PROVE  SettingInv'
<1>. DEFINE v == Given(p, s, text)
<1>1. /\ setting_pc[p] = "ready" /\ IsStored(s) /\ v \in ValuesOf(s) /\ v \in SettingValues
  <2>1. MayUpdate(p, s, text)
    BY DEF SettingsUpdate, SettingsUpdateRefused
  <2>2. v \in ValuesOf(s)
    BY <2>1, GivenIsValue
  <2>. QED BY <2>1, <2>2 DEF MayUpdate, SettingInv, ReadyHasRows, SettingValues
<1>2. /\ setting_inited' = [setting_inited EXCEPT ![p][s] = TRUE]
      /\ setting_value' = [setting_value EXCEPT ![p][s] = v]
      /\ setting_pc' = [setting_pc EXCEPT ![p] = IF p \in SettingTools THEN "done" ELSE "ready"]
      /\ UNCHANGED <<fill_at, beside>>
  BY DEF SettingsUpdate, SettingsUpdateRefused, SetItem
<1>. HIDE DEF v
<1>3. \/ /\ settings_rows' = [settings_rows EXCEPT ![s] = [k \in DOMAIN @ |-> v]]
         /\ last_set' = [last_set EXCEPT ![s] = v]
         /\ parted' = [q \in SettingProcesses |-> IF q = p THEN parted[q] \ {s} ELSE parted[q] \cup {s}]
      \/ /\ parted' = [parted EXCEPT ![p] = parted[p] \cup {s}] /\ UNCHANGED <<settings_rows, last_set>>
  BY DEF SettingsUpdate, SettingsUpdateRefused, v
<1>4. /\ settings_rows' \in [SettingSet -> Seq(SettingValues)] /\ last_set' \in [SettingSet -> SettingValues]
      /\ \A t \in SettingSet : Len(settings_rows'[t]) = Len(settings_rows[t]) /\ IsStored(t)' = IsStored(t)
      /\ \A t \in SettingSet : last_set'[t] \in ValuesOf(t)
      /\ \A t \in SettingSet : IsStored(t) => FirstRow(t)' = last_set'[t]
  <2>1. CASE UNCHANGED <<settings_rows, last_set>>
    BY <2>1 DEF SettingInv, SettingsTypeOK, IsStored, FirstRow, RestartLoadsLast
  <2>2. CASE /\ settings_rows' = [settings_rows EXCEPT ![s] = [k \in DOMAIN @ |-> v]]
             /\ last_set' = [last_set EXCEPT ![s] = v]
    <3>. DEFINE row == settings_rows[s]
                new == [k \in DOMAIN row |-> v]
    <3>1. row \in Seq(SettingValues) /\ row # <<>>
      BY <1>1 DEF SettingInv, SettingsTypeOK, IsStored
    <3>2. new \in Seq(SettingValues) /\ Len(new) = Len(row) /\ new # <<>> /\ Head(new) = v
      BY <1>1, <3>1
    <3>3. settings_rows'[s] = new /\ \A t \in SettingSet : t # s => settings_rows'[t] = settings_rows[t]
      BY <2>2 DEF SettingInv, SettingsTypeOK
    <3>4. last_set'[s] = v /\ \A t \in SettingSet : t # s => last_set'[t] = last_set[t]
      BY <2>2 DEF SettingInv, SettingsTypeOK
    <3>5. settings_rows' \in [SettingSet -> Seq(SettingValues)] /\ last_set' \in [SettingSet -> SettingValues]
      BY <1>1, <2>2, <3>2 DEF SettingInv, SettingsTypeOK
    <3>. HIDE DEF new
    <3>. QED BY <1>1, <3>1, <3>2, <3>3, <3>4, <3>5 DEF SettingInv, SettingsTypeOK, IsStored, FirstRow, RestartLoadsLast
  <2>. QED BY <1>3, <2>1, <2>2
<1>5. /\ parted' \in [SettingProcesses -> SUBSET SettingSet]
      /\ \A q \in SettingProcesses, t \in SettingSet : t # s => (t \in parted'[q] <=> t \in parted[q])
      /\ \A q \in SettingProcesses : q # p /\ s \notin parted'[q] => UNCHANGED last_set /\ s \notin parted[q]
      /\ s \notin parted'[p] => last_set'[s] = v
  <2>0. parted \in [SettingProcesses -> SUBSET SettingSet] /\ last_set \in [SettingSet -> SettingValues]
    BY DEF SettingInv, SettingsTypeOK
  <2>1. CASE parted' = [parted EXCEPT ![p] = parted[p] \cup {s}] /\ UNCHANGED <<settings_rows, last_set>>
    BY <2>0, <2>1
  <2>2. CASE /\ last_set' = [last_set EXCEPT ![s] = v]
             /\ parted' = [q \in SettingProcesses |-> IF q = p THEN parted[q] \ {s} ELSE parted[q] \cup {s}]
    BY <2>0, <2>2
  <2>. QED BY <1>3, <2>1, <2>2
<1>6. \A t \in SettingSet : t # s => last_set'[t] = last_set[t]
  BY <1>3 DEF SettingInv, SettingsTypeOK
<1>7. /\ setting_value'[p][s] = v /\ setting_inited'[p][s]
      /\ \A q \in SettingProcesses, t \in SettingSet : q # p \/ t # s =>
           setting_value'[q][t] = setting_value[q][t] /\ setting_inited'[q][t] = setting_inited[q][t]
  BY <1>2 DEF SettingInv, SettingsTypeOK
<1>8. /\ setting_pc'[p] \in {"ready", "done"}
      /\ \A q \in SettingProcesses : q # p => setting_pc'[q] = setting_pc[q]
  BY <1>2 DEF SettingInv, SettingsTypeOK
<1>9. SettingsTypeOK'
  BY <1>1, <1>2, <1>4, <1>5 DEF SettingInv, SettingsTypeOK
<1>10. (UnsetIsDefault /\ RestartLoadsLast /\ OneRowEach)'
  BY <1>1, <1>2, <1>4, <1>6 DEF SettingInv, UnsetIsDefault, RestartLoadsLast, OneRowEach
<1>11. (FilledHasRow /\ ReadyHasRows)'
  BY <1>1, <1>2, <1>4, <1>7, <1>8, SettingNamesAre DEF SettingInv, FilledHasRow, ReadyHasRows
<1>12. FillsAlone'
  BY <1>1, <1>2, <1>4, <1>7, <1>8, SettingNamesAre DEF SettingInv, FillsAlone
<1>13. ShownIsLast'
  BY <1>1, <1>5, <1>6, <1>7, <1>8 DEF SettingInv, ShownIsLast, Shown
<1>. QED BY <1>9, <1>10, <1>11, <1>12, <1>13 DEF SettingInv

LEMMA SettingsStep == SettingInv /\ [SettingsNext]_settingsVars => SettingInv'
<1>. SUFFICES ASSUME SettingInv, [SettingsNext]_settingsVars PROVE SettingInv'
  OBVIOUS
<1>1. ASSUME NEW p \in SettingProcesses, SettingsReady(p) PROVE SettingInv'
  <2>1. /\ setting_pc[p] = "fill" /\ fill_at[p] > Len(SettingNames)
        /\ setting_pc' = [setting_pc EXCEPT ![p] = "ready"]
        /\ UNCHANGED <<settings_rows, fill_at, setting_inited, setting_value, last_set, parted, beside>>
    BY <1>1 DEF SettingsReady, settingItems
  <2>2. \A s \in SettingSet : IsStored(s)
    <3>1. \A k \in SettingPositions : k < fill_at[p]
      BY <2>1, SettingNamesAre DEF SettingInv, SettingsTypeOK, SettingPositions
    <3>. QED BY <2>1, <3>1, SettingNamesAre DEF SettingInv, FilledHasRow
  <2>. QED BY <2>1, <2>2 DEF SettingInv, SettingsTypeOK, UnsetIsDefault, FilledHasRow, FillsAlone,
              RestartLoadsLast, ReadyHasRows, ShownIsLast, Shown, OneRowEach, IsStored, FirstRow
<1>2. ASSUME NEW p \in SettingProcesses, SettingsEnd(p) PROVE SettingInv'
  <2>1. /\ setting_pc' = [setting_pc EXCEPT ![p] = "down"] /\ fill_at' = [fill_at EXCEPT ![p] = 1]
        /\ setting_inited' = [setting_inited EXCEPT ![p] = NoneInited]
        /\ setting_value' = [setting_value EXCEPT ![p] = SettingDefault]
        /\ parted' = [parted EXCEPT ![p] = {}] /\ UNCHANGED <<settings_rows, last_set, beside>>
    BY <1>2 DEF SettingsEnd
  <2>2. SettingsTypeOK'
    <3>1. 1 \in 1..(Len(SettingNames) + 1)
      BY SettingNamesAre
    <3>. QED BY <2>1, <3>1, SettingNamesAre DEF SettingInv, SettingsTypeOK, NoneInited
  <2>3. /\ setting_pc'[p] = "down"
        /\ \A q \in SettingProcesses : q # p => /\ setting_pc'[q] = setting_pc[q] /\ fill_at'[q] = fill_at[q]
             /\ setting_inited'[q] = setting_inited[q] /\ setting_value'[q] = setting_value[q] /\ parted'[q] = parted[q]
    BY <2>1 DEF SettingInv, SettingsTypeOK
  <2>. QED BY <2>1, <2>2, <2>3 DEF SettingInv, UnsetIsDefault, FilledHasRow, FillsAlone,
              RestartLoadsLast, ReadyHasRows, ShownIsLast, Shown, OneRowEach, IsStored, FirstRow
<1>3. CASE UNCHANGED settingsVars
  BY <1>3 DEF settingsVars, settingItems, SettingInv, SettingsTypeOK, UnsetIsDefault, FilledHasRow, FillsAlone,
              RestartLoadsLast, ReadyHasRows, ShownIsLast, Shown, OneRowEach, IsStored, FirstRow
<1>. QED BY <1>1, <1>2, <1>3, SettingsLoadStep, SettingsFillStep, SettingsUpdateStep DEF SettingsNext

(* For any settings and processes, started together or ended anywhere, the *)
(* next start loads what was written last.                                 *)
THEOREM SettingsAreKept == SettingsSpec => []SettingsKept
<1>1. SettingInv => SettingsKept
  BY DEF SettingInv, SettingsKept
<1>. QED BY SettingsInitInv, SettingsStep, <1>1, PTL DEF SettingsSpec
-----------------------------------------------------------------------------
(* The types of leaks: scores and ratings are integers, sales are counted. *)
LEMMA LeaksTypesStep == LeaksTypeOK /\ [LeaksNext]_leaksVars => LeaksTypeOK'
<1>. SUFFICES ASSUME LeaksTypeOK, [LeaksNext]_leaksVars PROVE LeaksTypeOK' OBVIOUS
<1>. USE LeaksAssumption DEF LeaksTypeOK
<1>1. CASE LeaksStart
  <2>1. LeakUuidsStored \subseteq LeakUuids
    BY DEF LeakUuidsStored, IsLeak
  <2>. QED BY <1>1, <2>1 DEF LeaksStart, leakTable
<1>2. CASE LeaksStop
  BY <1>2 DEF LeaksStop, LeakServing, LeakRequest, leakTable
<1>3. ASSUME NEW u \in LeakUuids, NEW price \in Prices, NEW n \in 0..1, LeakAdd(u, price, n) PROVE LeaksTypeOK'
  <2>1. next_leak \in LeakIds /\ next_leak' \in 1..(MaxLeaks + 1) /\ price \in Int /\ n \in Nat
    BY <1>3 DEF LeakAdd, LeakIds
  <2>2. /\ leak_uuid' \in [LeakIds -> LeakUuids \cup {NoLeak}] /\ score' \in [LeakIds -> Int]
        /\ sold' \in [LeakIds -> Nat] /\ sold_before' \in [LeakIds -> Nat]
    BY <1>3, <2>1 DEF LeakAdd
  <2>. QED BY <1>3, <2>1, <2>2 DEF LeakAdd, LeakServing, LeakRequest
<1>4. ASSUME NEW l \in LeakIds, NEW price \in Prices, LeakUpdate(l, price) PROVE LeaksTypeOK'
  <2>1. score' \in [LeakIds -> Int] /\ cheap' \subseteq LeakIds
    BY <1>4 DEF LeakUpdate
  <2>. QED BY <1>4, <2>1 DEF LeakUpdate, LeakServing, LeakRequest
<1>5. ASSUME NEW l \in LeakIds, NEW done \in 1..3, LeakDelete(l, done) PROVE LeaksTypeOK'
  <2>1. /\ users_leaks' \in [LeakIds -> Nat] /\ leak_uuid' \in [LeakIds -> LeakUuids \cup {NoLeak}]
        /\ unsold' \subseteq LeakIds
    BY <1>5 DEF LeakDelete
  <2>. QED BY <1>5, <2>1 DEF LeakDelete, LeakServing, LeakRequest
<1>6. ASSUME NEW l \in LeakIds, NEW done \in 1..3, NEW u \in Buyers, LeakBuy(l, u, done) PROVE LeaksTypeOK'
  <2>1. taken[u] + score[l] \in Int /\ users_leaks[l] + 1 \in Nat /\ sold[l] + 1 \in Nat
    OBVIOUS
  <2>2. /\ taken' \in [Buyers -> Int] /\ users_leaks' \in [LeakIds -> Nat] /\ sold' \in [LeakIds -> Nat]
        /\ unsold' \subseteq LeakIds
    BY <1>6, <2>1 DEF LeakBuy
  <2>. QED BY <1>6, <2>2 DEF LeakBuy, LeakServing, LeakRequest
<1>7. ASSUME NEW u \in Buyers, RatingRecalculated(u) PROVE LeaksTypeOK'
  <2>1. taken' \in [Buyers -> Int]
    BY <1>7 DEF RatingRecalculated
  <2>. QED BY <1>7, <2>1 DEF RatingRecalculated, LeakServing, LeakRequest, leakTable
<1>8. CASE UNCHANGED leaksVars
  BY <1>8 DEF leaksVars, leakTable
<1>. QED BY <1>1, <1>2, <1>3, <1>4, <1>5, <1>6, <1>7, <1>8 DEF LeaksNext

(* Scores and ratings are integers; sales are counted from zero, and       *)
(* uuids in the cache are some leak's.                                     *)
THEOREM LeaksTypesHold == LeaksSpec => []LeaksTypeOK
<1>1. LeaksInit => LeaksTypeOK
  BY LeaksAssumption DEF LeaksInit, LeaksTypeOK, LeakIds
<1>. QED BY LeaksTypesStep, <1>1, PTL DEF LeaksSpec
-----------------------------------------------------------------------------
(* The types of useful links.                                              *)
LinkBounds ==
  /\ next_link <= MaxLinks + 1 /\ next_comment <= MaxComments + 1
  /\ link_requests \in 0..MaxLinkRequests /\ off \subseteq links \X Kinds

LEMMA LinkBoundsStep == LinkTypes /\ LinkBounds /\ [LinksNext]_linksVars => LinkBounds'
<1>. SUFFICES ASSUME LinkTypes, LinkBounds, [LinksNext]_linksVars PROVE LinkBounds' OBVIOUS
<1>. USE LinksAssumption DEF LinkTypes, LinkBounds
<1>0. ASSUME NEW l, NEW k \in Kinds, NEW done, Recounted(l, k, done) PROVE off' \subseteq links \X Kinds
  BY <1>0 DEF Recounted
<1>1. CASE LinkAdd
  <2>1. off' \subseteq links' \X Kinds
    BY <1>1 DEF LinkAdd, EarlyRows
  <2>. QED BY <1>1, <2>1 DEF LinkAdd, LinkServing
<1>2. ASSUME NEW l \in LinkIds, NEW done \in 1..4, LinkDelete(l, done) PROVE LinkBounds'
  <2>1. off' \subseteq links' \X Kinds
    BY <1>2 DEF LinkDelete
  <2>. QED BY <1>2, <2>1 DEF LinkDelete, LinkServing, linkCounters
<1>3. ASSUME NEW l \in LinkIds, Clicked(l) PROVE LinkBounds'
  BY <1>3 DEF Clicked, LinkServing, linkCounters
<1>4. ASSUME NEW l \in LinkIds, NEW u \in LinkUsers, NEW done \in 1..2, Favorite(l, u, done) \/ Unfavorite(l, u, done)
      PROVE  LinkBounds'
  <2>1. off' \subseteq links \X Kinds
    BY <1>0, <1>4 DEF Favorite, Unfavorite, Kinds
  <2>. QED BY <1>4, <2>1 DEF Favorite, Unfavorite, LinkServing, linkCounters
<1>5. ASSUME NEW l \in LinkIds, NEW t \in LinkTags, NEW done \in 1..2, TagAdd(l, t, done) \/ TagDelete(l, t, done)
      PROVE  LinkBounds'
  <2>1. off' \subseteq links \X Kinds
    BY <1>0, <1>5 DEF TagAdd, TagDelete, Kinds
  <2>. QED BY <1>5, <2>1 DEF TagAdd, TagDelete, LinkServing, linkCounters
<1>6. ASSUME NEW l \in LinkIds, NEW done \in 1..2, CommentAdd(l, done) PROVE LinkBounds'
  <2>1. off' \subseteq links \X Kinds
    BY <1>0, <1>6 DEF CommentAdd, Kinds
  <2>. QED BY <1>6, <2>1 DEF CommentAdd, LinkServing
<1>7. ASSUME NEW c \in 1..MaxComments, NEW done \in 1..2, CommentDelete(c, done) PROVE LinkBounds'
  <2>1. off' \subseteq links \X Kinds
    BY <1>0, <1>7 DEF CommentDelete, Kinds
  <2>. QED BY <1>7, <2>1 DEF CommentDelete, LinkServing, linkCounters
<1>8. CASE UNCHANGED linksVars
  BY <1>8 DEF linksVars, linkCounters
<1>. QED BY <1>1, <1>2, <1>3, <1>4, <1>5, <1>6, <1>7, <1>8 DEF LinksNext

(* What a list of comments or favorites adds up to is a number.            *)
LEMMA ColumnsAreNumbers == Totals \subseteq Nat /\ Counts \subseteq Nat
<1>1. ASSUME NEW f \in [LinkUsers -> Nat] PROVE TotalOf(f) \in Nat
  BY LinksAssumption, SumIsNat DEF TotalOf, SumFunction
<1>2. ASSUME NEW c \in [1..MaxComments -> 0..MaxLinks], NEW l \in LinkIds PROVE CommentsOf(c, l) \in Nat
  <2>1. {d \in DOMAIN c : c[d] = l} \subseteq 1..MaxComments
    OBVIOUS
  <2>2. IsFiniteSet(1..MaxComments)
    BY LinksAssumption, FS_Interval
  <2>. QED BY <2>1, <2>2, FS_Subset, FS_CardinalityType DEF CommentsOf
<1>. QED BY <1>1, <1>2 DEF Totals, Counts

(* Links, rows and columns are of their types: a column is a number or a   *)
(* set of tags, whatever rows it was made of.                              *)
THEOREM LinksTypesHold == LinksSpec => []LinksTypeOK
<1>1. LinksInit => LinkBounds
  BY LinksAssumption DEF LinksInit, LinkBounds
<1>2. LinkInv => LinkTypes
  BY DEF LinkInv
<1>3. LinkInv /\ LinkBounds => LinksTypeOK
  <2>. SUFFICES ASSUME LinkTypes, LinkBounds PROVE LinksTypeOK
    BY DEF LinkInv
  <2>1. \A l \in LinkIds : shown[l] \in [favorites : Nat, tags : SUBSET LinkTags, comments : Nat, clicks : Nat]
    BY ColumnsAreNumbers DEF LinkTypes
  <2>2. shown \in [LinkIds -> [favorites : Nat, tags : SUBSET LinkTags, comments : Nat, clicks : Nat]]
    BY <2>1 DEF LinkTypes
  <2>. QED BY <2>2, LinksAssumption DEF LinkTypes, LinkBounds, LinksTypeOK
<1>. QED BY LinksInitInv, LinksStep, LinkBoundsStep, <1>1, <1>2, <1>3, PTL DEF LinksSpec
-----------------------------------------------------------------------------
(* The types of connections: times up to the present.                      *)
LEMMA ConnectionsTypesStep == ConnectionsTypeOK /\ [ConnectionsNext]_connectionVars => ConnectionsTypeOK'
<1>. SUFFICES ASSUME ConnectionsTypeOK, [ConnectionsNext]_connectionVars PROVE ConnectionsTypeOK' OBVIOUS
<1>. DEFINE Records == [name : 0..2, conn : ConnTimes, opened : ConnTimes]
            Taken == [conn : ConnTimes, since : ConnTimes]
<1>0. /\ now \in 0..MaxClock /\ pairs \in [DbThreads -> [Parts -> Records]]
      /\ by_name \in [DbThreads -> [Names -> ConnTimes]] /\ working \subseteq DbThreads \X ConnTimes
      /\ handed \in [DbThreads -> SUBSET Taken]
  BY DEF ConnectionsTypeOK
<1>1. 0 \in ConnTimes /\ now \in ConnTimes /\ now + 1 \in ConnTimes
  BY <1>0, ConnectionsAssumption DEF ConnTimes
<1>2. NoPair \in [Parts -> Records] /\ FirstPair \in [Parts -> Records]
  BY <1>1 DEF NoPair, FirstPair, Parts
<1>3. ASSUME NEW t \in DbThreads, NEW p \in [Parts -> Records], NEW names \in [Names -> ConnTimes], NEW closed,
             Connect(t, p, names, closed), UNCHANGED now
      PROVE  ConnectionsTypeOK'
  <2>1. Connected(p) \in [Parts -> Records]
    BY <1>1 DEF Connected, Parts
  <2>2. pairs' \in [DbThreads -> [Parts -> Records]]
    BY <1>0, <1>3, <2>1 DEF Connect
  <2>3. by_name' \in [DbThreads -> [Names -> ConnTimes]]
    BY <1>0, <1>1, <1>3 DEF Connect
  <2>4. working' \subseteq DbThreads \X ConnTimes
    BY <1>0, <1>1, <1>3 DEF Connect, Made
  <2>5. [conn |-> now + 1, since |-> now] \in Taken
    BY <1>1
  <2>6. handed' \in [DbThreads -> SUBSET Taken]
    BY <1>0, <1>3, <2>5 DEF Connect
  <2>. QED BY <1>0, <1>3, <2>2, <2>3, <2>4, <2>6 DEF ConnectionsTypeOK
<1>4. CASE Tick
  BY <1>4, <1>0, ConnectionsAssumption DEF Tick, ConnectionsTypeOK
<1>5. ASSUME NEW t \in DbThreads, DatabaseFirst(t) PROVE ConnectionsTypeOK'
  BY <1>0, <1>2, <1>3, <1>5 DEF DatabaseFirst
<1>6. ASSUME NEW t \in DbThreads, DatabaseCurrent(t) PROVE ConnectionsTypeOK'
  <2>1. [conn |-> pairs[t]["current"].conn, since |-> now] \in Taken
    BY <1>0, <1>1 DEF Parts
  <2>2. handed' \in [DbThreads -> SUBSET Taken]
    BY <1>0, <1>6, <2>1 DEF DatabaseCurrent
  <2>. QED BY <1>0, <1>6, <2>2 DEF DatabaseCurrent, ConnectionsTypeOK
<1>7. ASSUME NEW t \in DbThreads, DatabaseOutdated(t) PROVE ConnectionsTypeOK'
  <2>1. OlderClosed(pairs[t]) \in [Parts -> Records]
    <3>. DEFINE p == pairs[t]
    <3>1. p \in [Parts -> Records] /\ "older" \in Parts
      BY <1>0 DEF Parts
    <3>. DEFINE c == [p["older"] EXCEPT !.conn = 0]
    <3>. HIDE DEF p
    <3>2. c \in Records
      BY <1>1, <3>1
    <3>3. OlderClosed(p) = [p EXCEPT !["older"] = c]
      BY DEF OlderClosed
    <3>. HIDE DEF c, Records
    <3>4. OlderClosed(p) \in [Parts -> Records]
      BY <3>1, <3>2, <3>3
    <3>. QED BY <3>4 DEF p
  <2>2. \A p \in [Parts -> Records] : Swap(p) \in [Parts -> Records]
    BY DEF Swap, Parts
  <2>3. NamesAfterClose(t, pairs[t]["older"]) \in [Names -> ConnTimes]
    BY <1>0, <1>1 DEF NamesAfterClose
  <2>. DEFINE p == Swap(OlderClosed(pairs[t]))
              names == NamesAfterClose(t, pairs[t]["older"])
  <2>4. p \in [Parts -> Records] /\ names \in [Names -> ConnTimes]
    BY <2>1, <2>2, <2>3
  <2>5. Connect(t, p, names, Closed(t, pairs[t]["older"])) /\ UNCHANGED now
    BY <1>7 DEF DatabaseOutdated
  <2>. HIDE DEF p, names, Records
  <2>. QED BY <1>3, <2>4, <2>5
<1>8. ASSUME NEW t \in DbThreads, ConnectRefused(t) PROVE ConnectionsTypeOK'
  BY <1>0, <1>1, <1>2, <1>8 DEF ConnectRefused, ConnectionsTypeOK
<1>9. ASSUME NEW t \in DbThreads, LetGo(t) PROVE ConnectionsTypeOK'
  BY <1>0, <1>9 DEF LetGo, ConnectionsTypeOK
<1>10. CASE UNCHANGED connectionVars
  BY <1>10 DEF connectionVars, ConnectionsTypeOK
<1>. QED BY <1>4, <1>5, <1>6, <1>7, <1>8, <1>9, <1>10 DEF ConnectionsNext

(* A connection is known by a time up to the present, whoever holds it.    *)
THEOREM ConnectionsTypesHold == ConnectionsSpec => []ConnectionsTypeOK
<1>1. ConnectionsInit => ConnectionsTypeOK
  BY ConnectionsAssumption DEF ConnectionsInit, ConnectionsTypeOK, ConnTimes, NoPair
<1>. QED BY ConnectionsTypesStep, <1>1, PTL DEF ConnectionsSpec
-----------------------------------------------------------------------------
(* The types of files.                                                     *)
FileBounds ==
  /\ on_disk \subseteq QuestFileIds /\ half_deleted \subseteq QuestFileIds /\ behind \subseteq QuestFileIds
  /\ next_file <= MaxFiles + 1 /\ deleting.file \in 0..MaxFiles
  /\ downloading \in [WebThreads -> 0..MaxFiles]
  /\ downloads \in 0..MaxDownloads /\ quest_file_faults \in 0..MaxQuestFileFaults

LEMMA FileBoundsStep == FileTypes /\ FileBounds /\ [FilesNext]_filesVars => FileBounds'
<1>. SUFFICES ASSUME FileTypes, FileBounds, [FilesNext]_filesVars PROVE FileBounds' OBVIOUS
<1>. USE QuestFilesAssumption DEF FileBounds, FileTypes, fileRows, fileCache, fileMarks, QuestFileIds
<1>n. NotDeleting.file \in 0..MaxFiles
  BY DEF NotDeleting
<1>0. ASSUME NEW w \in WebThreads, CountInCache(w)
      PROVE  /\ downloading[w] \in QuestFileIds /\ downloading' \in [WebThreads -> 0..MaxFiles]
             /\ on_disk' = on_disk /\ half_deleted' = half_deleted /\ next_file' = next_file
             /\ deleting' = deleting /\ downloads' = downloads
  <2>1. downloading[w] \in QuestFileIds /\ 0 \in 0..MaxFiles
    BY <1>0 DEF CountInCache
  <2>2. downloading' = [downloading EXCEPT ![w] = 0]
    BY <1>0 DEF CountInCache
  <2>. QED BY <1>0, <2>1, <2>2 DEF CountInCache
<1>1. CASE FilesStart
  BY <1>1 DEF FilesStart
<1>2. CASE FilesStop
  BY <1>n, <1>2 DEF FilesStop, QuestFileFault
<1>3. CASE Upload
  BY <1>3 DEF Upload
<1>4. CASE UploadRefused
  BY <1>4 DEF UploadRefused, QuestFileFault
<1>5. CASE DeleteFileRow
  BY <1>5 DEF DeleteFileRow
<1>6. CASE DeleteFileRowRefused
  BY <1>n, <1>6 DEF DeleteFileRowRefused, QuestFileFault
<1>7. CASE CopyCached
  BY <1>7 DEF CopyCached
<1>8. CASE UnregisterFile
  BY <1>n, <1>8 DEF UnregisterFile
<1>9. ASSUME NEW f \in QuestFileIds, DeleteFile(f) PROVE FileBounds'
  BY <1>9 DEF DeleteFile
<1>10. ASSUME NEW f \in QuestFileIds, NEW w \in WebThreads, FindFile(w, f) PROVE FileBounds'
  BY <1>10 DEF FindFile
<1>11. ASSUME NEW w \in WebThreads, CountDownload(w) PROVE FileBounds'
  <2>1. behind' \subseteq QuestFileIds
    BY <1>11 DEF CountDownload
  <2>. QED BY <1>0, <1>11, <2>1 DEF CountDownload
<1>12. ASSUME NEW w \in WebThreads, CountRefused(w) PROVE FileBounds'
  <2>1. behind' \subseteq QuestFileIds
    BY <1>0, <1>12 DEF CountRefused
  <2>2. quest_file_faults' \in 0..MaxQuestFileFaults
    BY <1>12 DEF CountRefused, QuestFileFault
  <2>. QED BY <1>0, <1>12, <2>1, <2>2 DEF CountRefused
<1>13. ASSUME NEW w \in WebThreads, CountNothing(w) PROVE FileBounds'
  BY <1>13 DEF CountNothing
<1>14. CASE UNCHANGED filesVars
  BY <1>14 DEF filesVars
<1>. QED BY <1>1, <1>2, <1>3, <1>4, <1>5, <1>6, <1>7, <1>8, <1>9, <1>10, <1>11, <1>12, <1>13, <1>14 DEF FilesNext

(* Files, counters and the sum of downloads are of their types: the sum    *)
(* loses no more than was counted.                                         *)
THEOREM FilesTypesHold == FilesSpec => []FilesTypeOK
<1>1. FilesInit => FileBounds /\ SumInv
  BY QuestFilesAssumption DEF FilesInit, FileBounds, SumInv, NotDeleting
<1>2. FileInv => FileTypes
  BY DEF FileInv
<1>3. FileInv /\ SumInv /\ FileBounds => FilesTypeOK
  <2>. SUFFICES ASSUME FileTypes, SumInv, FileBounds PROVE FilesTypeOK
    BY DEF FileInv
  <2>1. deleting \in [step : {"none", "row", "copy", "unregister"}, file : 0..MaxFiles, seen : Nat]
    BY DEF FileTypes, FileBounds
  <2>. QED BY <2>1, QuestFilesAssumption DEF FileTypes, SumInv, FileBounds, FilesTypeOK
<1>. QED BY FilesInitInv, FilesStep, FilesSumStep, FileBoundsStep, <1>1, <1>2, <1>3, PTL DEF FilesSpec
-----------------------------------------------------------------------------
(* The types of uuids and events.                                          *)
EventBounds ==
  /\ next_event <= MaxEvents + 1 /\ filling \in {"idle", "begin", "next", "update", "done", "cut"}
  /\ unfilled \subseteq EventIds /\ filled_id \in 0..MaxEvents
  /\ events_up \in BOOLEAN /\ event_faults \in 0..MaxEventFaults /\ removed \subseteq EventUuids

LEMMA EventBoundsStep == EventTypes /\ EventBounds /\ [EventsNext]_eventsVars => EventBounds'
<1>. SUFFICES ASSUME EventTypes, EventBounds, [EventsNext]_eventsVars PROVE EventBounds' OBVIOUS
<1>. USE EventsAssumption DEF EventBounds, uuidMaps, eventRows, backfill
<1>n. next_event \in Nat
  BY DEF EventTypes
<1>0. ASSUME ProcessEnds, next_event' = next_event, removed' = removed, event_faults' \in 0..MaxEventFaults
      PROVE  EventBounds'
  <2>1. unfilled' = {} /\ filled_id' = 0 /\ filling' = "idle" /\ events_up' = FALSE
    BY <1>0 DEF ProcessEnds
  <2>2. 0 \in 0..MaxEvents
    OBVIOUS
  <2>. QED BY <1>0, <2>1, <2>2
<1>f. ASSUME EventFault PROVE event_faults' \in 0..MaxEventFaults
  BY <1>f DEF EventFault
<1>1. CASE EventsStart
  BY <1>1 DEF EventsStart
<1>2. CASE EventsStop
  BY <1>0, <1>f, <1>2 DEF EventsStop
<1>3. ASSUME NEW t \in EventThreads, NEW u \in EventUuids, BeginAddEvent(t, u) PROVE EventBounds'
  BY <1>3 DEF BeginAddEvent, Generate
<1>4. ASSUME NEW t \in EventThreads, NEW u \in EventUuids, GenerateRefused(t, u) PROVE EventBounds'
  <2>1. CASE t = Main
    BY <1>4, <1>f, <2>1 DEF GenerateRefused, Refused
  <2>2. CASE t # Main
    BY <1>4, <1>0, <1>f, <2>2 DEF GenerateRefused, Refused
  <2>. QED BY <2>1, <2>2
<1>5. ASSUME NEW t \in EventThreads, InsertEvent(t) \/ InsertEventRefused(t) PROVE EventBounds'
  <2>1. CASE InsertEvent(t)
    BY <1>n, <2>1 DEF InsertEvent
  <2>2. CASE InsertEventRefused(t)
    BY <1>f, <2>2 DEF InsertEventRefused
  <2>. QED BY <1>5, <2>1, <2>2
<1>6. ASSUME NEW u \in EventUuids, UuidGenerate(u) \/ DeleteEvent(u) PROVE EventBounds'
  BY <1>6 DEF UuidGenerate, DeleteEvent
<1>7. CASE BeginFill
  BY <1>7 DEF BeginFill, Missing
<1>8. CASE BeginFillRefused
  BY <1>f, <1>8 DEF BeginFillRefused
<1>9. CASE FillUpdate
  BY <1>9 DEF FillUpdate, AfterFill
<1>10. CASE FillUpdateRefused
  BY <1>f, <1>10 DEF FillUpdateRefused
<1>11. ASSUME NEW i \in EventIds, NEW u \in EventUuids, FillNext(i, u) PROVE EventBounds'
  BY <1>11 DEF FillNext, Generate, EventIds
<1>12. ASSUME NEW i \in EventIds, DeleteEventById(i) PROVE EventBounds'
  BY <1>f, <1>12 DEF DeleteEventById
<1>13. CASE UNCHANGED eventsVars
  BY <1>13 DEF eventsVars
<1>. QED BY <1>1, <1>2, <1>3, <1>4, <1>5, <1>6, <1>7, <1>8, <1>9, <1>10, <1>11, <1>12, <1>13 DEF EventsNext

(* Uuids, events and the backfill's place are of their types.              *)
THEOREM EventsTypesHold == EventsSpec => []EventsTypeOK
<1>1. EventsInit => EventBounds
  <2>1. OldEvents + 1 <= MaxEvents + 1 /\ 0 \in 0..MaxEvents /\ 0 \in 0..MaxEventFaults
    BY EventsAssumption
  <2>. QED BY <2>1 DEF EventsInit, EventBounds
<1>2. EventInv => EventTypes
  BY DEF EventInv
<1>3. EventTypes /\ EventBounds => EventsTypeOK
  BY EventsAssumption DEF EventTypes, EventBounds, EventsTypeOK
<1>. QED BY EventsInitInv, EventsStep, EventBoundsStep, <1>1, <1>2, <1>3, PTL DEF EventsSpec
-----------------------------------------------------------------------------
(* The types of accounts: passwords up to the next one.                    *)
LEMMA AccountsTypesStep == AccountsTypeOK /\ [AccountsNext]_accountsVars => AccountsTypeOK'
<1>. SUFFICES ASSUME AccountsTypeOK, [AccountsNext]_accountsVars PROVE AccountsTypeOK' OBVIOUS
<1>. DEFINE Mail == [to : Emails \cup {"nobody"}, pass : Passwords,
                     step : {"none", "queued", "inserted", "accepted", "failed", "over"},
                     status : {"none", "loaded", "sent", "error"}]
<1>0. /\ password \in [Emails -> Passwords] /\ mails \in [MailIds -> Mail]
      /\ inbox \subseteq MailIds /\ spoiled \subseteq MailIds
      /\ next_pass \in 1..(MaxPasswords + 1) /\ next_mail \in 1..(MaxMails + 1) /\ mail_faults \in 0..MaxMailFaults
      /\ owned \in [Emails -> SUBSET Passwords] /\ told \subseteq Passwords
  BY DEF AccountsTypeOK
<1>f. ASSUME MailFault PROVE mail_faults' \in 0..MaxMailFaults
  BY <1>0, <1>f, AccountsAssumption DEF MailFault
<1>z. 0 \in Passwords
  BY AccountsAssumption DEF Passwords
<1>m. ASSUME NEW e \in Emails, NEW p \in Passwords, MailSend(e, p)
      PROVE  mails' \in [MailIds -> Mail] /\ next_mail' \in 1..(MaxMails + 1) /\ UNCHANGED <<inbox, spoiled>>
  <2>1. next_mail \in MailIds /\ [to |-> e, pass |-> p, step |-> "queued", status |-> "none"] \in Mail
    BY <1>0, <1>m, AccountsAssumption DEF MailSend, MailIds
  <2>. HIDE DEF Mail
  <2>. QED BY <1>0, <1>m, <2>1, AccountsAssumption DEF MailSend
<1>p. ASSUME NEW e \in Emails, SetPassword(e)
      PROVE  /\ next_pass \in Passwords /\ next_pass' \in 1..(MaxPasswords + 1)
             /\ password' \in [Emails -> Passwords] /\ owned' \in [Emails -> SUBSET Passwords]
  <2>1. next_pass \in Passwords /\ next_pass' \in 1..(MaxPasswords + 1)
    BY <1>0, <1>p, AccountsAssumption DEF SetPassword, Passwords
  <2>. QED BY <1>0, <1>p, <2>1 DEF SetPassword
<1>1. ASSUME NEW e \in Emails, RegistrationOrReset(e) PROVE AccountsTypeOK'
  <2>. HIDE DEF Mail
  <2>1. SetPassword(e) /\ MailSend(e, next_pass) /\ UNCHANGED <<mail_faults, told>>
    BY <1>1 DEF RegistrationOrReset
  <2>. QED BY <1>0, <1>m, <1>p, <2>1 DEF AccountsTypeOK, Mail
<1>2. ASSUME NEW e \in Emails, PasswordRefused(e) PROVE AccountsTypeOK'
  BY <1>0, <1>2, <1>f, AccountsAssumption DEF PasswordRefused, WhenRefused, mailVars, AccountsTypeOK
<1>3. ASSUME NEW e \in Emails, ChoosePassword(e) PROVE AccountsTypeOK'
  BY <1>0, <1>3, <1>p DEF ChoosePassword, mailVars, AccountsTypeOK
<1>4. ASSUME NEW e \in Emails, UsersDelete(e) PROVE AccountsTypeOK'
  BY <1>0, <1>4, <1>z DEF UsersDelete, mailVars, AccountsTypeOK
<1>5. ASSUME NEW e \in Emails, SendOther(e) PROVE AccountsTypeOK'
  BY <1>0, <1>5, <1>m, <1>z DEF SendOther, AccountsTypeOK
<1>6. ASSUME NEW m \in MailIds, NEW from, NEW to \in MailSteps, NEW status \in {"none", "loaded", "sent", "error"},
             MailStep(m, from, to, status), inbox' \subseteq MailIds, spoiled' \subseteq MailIds,
             mail_faults' \in 0..MaxMailFaults
      PROVE  AccountsTypeOK'
  <2>1. [mails[m] EXCEPT !.step = to, !.status = status] \in Mail
    BY <1>0 DEF MailSteps
  <2>2. mails' = [mails EXCEPT ![m] = [mails[m] EXCEPT !.step = to, !.status = status]]
    BY <1>0, <1>6 DEF MailStep
  <2>. HIDE DEF Mail
  <2>3. mails' \in [MailIds -> Mail]
    BY <1>0, <2>1, <2>2
  <2>. QED BY <1>0, <1>6, <2>3 DEF MailStep, AccountsTypeOK, Mail
<1>7. ASSUME NEW m \in MailIds,
             InsertMail(m) \/ InsertMailRefused(m) \/ SendMail(m) \/ SendMailFails(m) \/ MarkMail(m) \/ MarkMailRefused(m)
      PROVE  AccountsTypeOK'
  <2>. HIDE DEF Mail
  <2>0. \A x : x \in {"queued", "inserted", "accepted", "failed", "over"} => x \in MailSteps
    BY DEF MailSteps
  <2>1. CASE InsertMail(m)
    BY <1>0, <1>6, <2>0, <2>1 DEF InsertMail
  <2>2. CASE InsertMailRefused(m)
    BY <1>0, <1>6, <1>f, <2>0, <2>2 DEF InsertMailRefused
  <2>3. CASE SendMail(m)
    BY <1>0, <1>6, <2>0, <2>3 DEF SendMail
  <2>4. CASE SendMailFails(m)
    BY <1>0, <1>6, <1>f, <2>0, <2>4 DEF SendMailFails
  <2>5. CASE MarkMail(m)
    BY <1>0, <1>6, <2>0, <2>5 DEF MarkMail, StatusOf
  <2>6. CASE MarkMailRefused(m)
    <3>1. mails[m].status \in {"none", "loaded", "sent", "error"}
      BY <1>0 DEF Mail
    <3>. QED BY <1>0, <1>6, <1>f, <2>0, <2>6, <3>1 DEF MarkMailRefused
  <2>. QED BY <1>7, <2>1, <2>2, <2>3, <2>4, <2>5, <2>6
<1>8. CASE MailsStop
  <2>1. \A m \in MailIds : [mails[m] EXCEPT !.step = "over"] \in Mail
    BY <1>0
  <2>. HIDE DEF Mail
  <2>2. mails' \in [MailIds -> Mail] /\ spoiled' \subseteq MailIds
    BY <1>0, <1>8, <2>1 DEF MailsStop, Pending
  <2>. QED BY <1>0, <1>8, <1>f, <2>2 DEF MailsStop, AccountsTypeOK, Mail
<1>9. CASE UNCHANGED accountsVars
  BY <1>9 DEF accountsVars, mailVars, AccountsTypeOK
<1>. QED BY <1>1, <1>2, <1>3, <1>4, <1>5, <1>7, <1>8, <1>9
         DEF AccountsNext, Registration, ResetPassword, UsersAdd, ChangePassword

(* Passwords and mails are of their types, and none is used that was not   *)
(* given.                                                                  *)
THEOREM AccountsTypesHold == AccountsSpec => []AccountsTypeOK
<1>1. AccountsInit => AccountsTypeOK
  BY AccountsAssumption DEF AccountsInit, AccountsTypeOK, NoMail, Passwords
<1>. QED BY AccountsTypesStep, <1>1, PTL DEF AccountsSpec
-----------------------------------------------------------------------------
(* The types of locations.                                                 *)
LocationBounds ==
  /\ next_task <= MaxLocationTasks + 1
  /\ editing \in [user : Located \cup {"nobody"}, country : Places \cup {Unknown}]
  /\ edits \in 0..MaxEdits /\ location_faults \in 0..MaxLocationFaults
  /\ overlapped \subseteq Located /\ edited \subseteq Located

LEMMA LocationBoundsStep ==
  LocationTypes /\ (\A k \in TaskIds : LocationTaskTrue(k)) /\ LocationBounds /\ [LocationsNext]_locationsVars
    => LocationBounds'
<1>. SUFFICES ASSUME LocationTypes, \A k \in TaskIds : LocationTaskTrue(k), LocationBounds,
                     [LocationsNext]_locationsVars
              PROVE  LocationBounds'
  OBVIOUS
<1>. USE LocationsAssumption DEF LocationBounds, locationRows, taskVars
<1>n. next_task \in Nat /\ country \in [Located -> Places \cup {Unknown}]
  BY DEF LocationTypes
<1>e. NoEdit \in [user : Located \cup {"nobody"}, country : Places \cup {Unknown}]
  BY DEF NoEdit
<1>u. \A k \in TaskIds : location_tasks[k].step # "none" => location_tasks[k].user \in Located
  BY DEF LocationTaskTrue
<1>f. ASSUME LocationFault PROVE location_faults' \in 0..MaxLocationFaults
  BY <1>f DEF LocationFault
<1>1. ASSUME NEW u \in Located, NEW a, NEW by, StartTask(u, a, by) PROVE LocationBounds'
  <2>1. overlapped' \subseteq Located
    BY <1>1 DEF StartTask
  <2>. QED BY <1>1, <1>n, <2>1 DEF StartTask
<1>2. ASSUME NEW u \in Located, (\E a \in Addresses : LoginFrom(u, a)) \/ UpdateUserLocation(u) PROVE LocationBounds'
  BY <1>1, <1>2 DEF LoginFrom, UpdateUserLocation
<1>3. ASSUME NEW u \in Located, ReadProfile(u) PROVE LocationBounds'
  <2>1. editing' \in [user : Located \cup {"nobody"}, country : Places \cup {Unknown}]
    BY <1>3, <1>n DEF ReadProfile
  <2>. QED BY <1>3, <2>1 DEF ReadProfile
<1>4. ASSUME NEW k \in TaskIds, Compare(k) PROVE LocationBounds'
  BY <1>4 DEF Compare, TaskStep
<1>5. ASSUME NEW k \in TaskIds, NEW place \in Places, Answer(k, place) PROVE LocationBounds'
  BY <1>5 DEF Answer, TaskStep
<1>6. ASSUME NEW k \in TaskIds, WriteLocation(k) PROVE LocationBounds'
  BY <1>6 DEF WriteLocation, TaskStep
<1>7. ASSUME NEW k \in TaskIds, TaskFails(k) PROVE LocationBounds'
  <2>1. location_tasks[k].user \in Located
    BY <1>7, <1>u DEF TaskFails, Unfinished
  <2>2. overlapped' \subseteq Located
    BY <1>7, <2>1 DEF TaskFails
  <2>. QED BY <1>7, <1>f, <2>2 DEF TaskFails, TaskStep
<1>8. CASE LocationsStop
  BY <1>8, <1>e, <1>f DEF LocationsStop
<1>9. CASE WriteProfile
  <2>1. editing.user \in Located
    BY <1>9 DEF WriteProfile, LocationTypes
  <2>2. edited' \subseteq Located
    BY <1>9, <2>1 DEF WriteProfile
  <2>. QED BY <1>9, <1>e, <2>2 DEF WriteProfile
<1>10. CASE UNCHANGED locationsVars
  BY <1>10 DEF locationsVars
<1>. QED BY <1>2, <1>3, <1>4, <1>5, <1>6, <1>7, <1>8, <1>9, <1>10 DEF LocationsNext

(* Addresses, places and tasks are of their types.                         *)
THEOREM LocationsTypesHold == LocationsSpec => []LocationsTypeOK
<1>1. LocationsInit => LocationBounds
  BY LocationsAssumption DEF LocationsInit, LocationBounds, NoEdit
<1>2. LocationInv => LocationTypes /\ \A k \in TaskIds : LocationTaskTrue(k)
  BY DEF LocationInv
<1>3. LocationTypes /\ LocationBounds => LocationsTypeOK
  BY LocationsAssumption DEF LocationTypes, LocationBounds, LocationsTypeOK, LocationRows, LocationTasks, LocationSteps
<1>. QED BY LocationsInitInv, LocationsStep, LocationBoundsStep, <1>1, <1>2, <1>3, PTL DEF LocationsSpec
-----------------------------------------------------------------------------
(* The types of the start.                                                 *)
StartPlaces == InitPhases \cup ProcessGone \cup {"down", "handlers", "listen", "listening", "started", "open"}

StartBounds ==
  /\ start_pc \in StartPlaces /\ cursor <= Len(Employees) + 1 /\ again \in BOOLEAN
  /\ notices \in {"none", "queued", "sent"} /\ server_set \in BOOLEAN
  /\ start_faults \in 0..MaxStartFaults

LEMMA StartBoundsStep == StartTypes /\ StartBounds /\ [StartNext]_startVars => StartBounds'
<1>. SUFFICES ASSUME StartTypes, StartBounds, [StartNext]_startVars PROVE StartBounds' OBVIOUS
<1>. USE EmployeesAssumption DEF StartBounds, StartPlaces, InitPhases, ProcessGone
<1>n. cursor \in Nat /\ Len(Employees) \in Nat /\ 1 <= Len(Employees) + 1
  BY DEF StartTypes
<1>f. ASSUME StartFault PROVE start_faults' \in 0..MaxStartFaults
  BY <1>f DEF StartFault
<1>c. ASSUME NEW phase \in InitPhases, NEW tags, CallInit(phase, tags), UNCHANGED start_faults PROVE StartBounds'
  BY <1>c, <1>n DEF CallInit
<1>1. CASE StartServer \/ StartCommand \/ ConstructServer
  BY <1>1, <1>c DEF StartServer, StartCommand, ConstructServer
<1>2. CASE PassBy \/ Load
  <2>1. cursor' = cursor + 1 /\ cursor <= Len(Employees)
    BY <1>2 DEF PassBy, Load, InPass
  <2>2. cursor' <= Len(Employees) + 1
    BY <2>1, <1>n
  <2>. QED BY <1>2, <2>2 DEF PassBy, Load
<1>3. CASE LoadFails
  <2>1. start_pc' \in StartPlaces
    BY <1>3 DEF LoadFails, InPass, AfterFalse
  <2>. QED BY <1>3, <1>f, <2>1 DEF LoadFails
<1>4. CASE EndPass
  <2>1. AfterTrue \in StartPlaces
    BY DEF AfterTrue
  <2>2. start_pc' \in StartPlaces /\ cursor' <= Len(Employees) + 1 /\ again' \in BOOLEAN
    BY <1>4, <1>n, <2>1 DEF EndPass
  <2>. QED BY <1>4, <2>2 DEF EndPass
<1>5. CASE Listen \/ OpenAndServe
  <2>1. start_faults' \in 0..MaxStartFaults
    BY <1>5, <1>f DEF Listen, OpenAndServe
  <2>2. start_pc' \in StartPlaces
    BY <1>5 DEF Listen, OpenAndServe
  <2>. QED BY <1>5, <2>1, <2>2 DEF Listen, OpenAndServe
<1>6. CASE ServerStarted \/ SetServer \/ SendNotice
  BY <1>6 DEF ServerStarted, SetServer, SendNotice
<1>7. CASE StartAgain
  <2>1. start_faults' \in 0..MaxStartFaults
    BY <1>7, <1>f DEF StartAgain
  <2>. QED BY <1>7, <1>n, <2>1 DEF StartAgain
<1>8. CASE UNCHANGED startVars
  BY <1>8 DEF startVars
<1>. QED BY <1>1, <1>2, <1>3, <1>4, <1>5, <1>6, <1>7, <1>8 DEF StartNext

(* The start is at one of its places, and a pass between two employees.    *)
THEOREM StartTypesHold == StartSpec => []StartTypeOK
<1>1. StartInit => StartBounds
  <2>1. 1 <= Len(Employees) + 1 /\ 0 \in 0..MaxStartFaults
    BY EmployeesAssumption
  <2>. QED BY <2>1 DEF StartInit, StartBounds, StartPlaces
<1>2. StartInv => StartTypes
  BY DEF StartInv
<1>3. StartTypes /\ StartBounds => StartTypeOK
  BY EmployeesAssumption DEF StartTypes, StartBounds, StartTypeOK, StartPlaces
<1>. QED BY StartInitInv, StartStep, StartBoundsStep, <1>1, <1>2, <1>3, PTL DEF StartSpec
=============================================================================
