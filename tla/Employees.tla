----------------------------- MODULE Employees ------------------------------
(* How the server starts: WsjcppEmployees::init loads the employees, each  *)
(* after those it names, in passes over the map until a pass loads none.   *)
(* EmployWebServer::start calls it and ignores the result, the constructor *)
(* of WebSocketServer calls it again and does not.  The commands of the    *)
(* command line call it once, without a tag: those of the database stop    *)
(* when it fails, those of cfg and api go on with what has been loaded.    *)
(*                                                                         *)
(* The constructor starts two tasks of the thread pool before it gives     *)
(* EmployServer the server to send with; a task that sends before that     *)
(* uses a null pointer, and the process ends.                              *)
EXTENDS Naturals, Sequences, SequencesExt

CONSTANTS
  Employees,         \* the names in the order of the map
  After,             \* loadAfter of each: names of employees and tags
  MaxStartFaults     \* bound: failing steps of the starts, and stops

EmployeeNames == {Employees[i] : i \in DOMAIN Employees}
ServerTag == "start_server"
WsTag == "start_ws_server"

ASSUME EmployeesAssumption ==
  /\ Employees \in Seq(STRING)
  /\ \A i, j \in DOMAIN Employees : Employees[i] = Employees[j] => i = j
  /\ DOMAIN After = EmployeeNames
  /\ ServerTag \notin EmployeeNames /\ WsTag \notin EmployeeNames
  /\ MaxStartFaults \in Nat

(* The employees name each other and the tags, and not in a circle.        *)
ASSUME AfterAssumption ==
  /\ \A e \in EmployeeNames : After[e] \subseteq EmployeeNames \cup {ServerTag, WsTag}
  /\ \A S \in SUBSET EmployeeNames : S # {} => \E e \in S : After[e] \cap S = {}

VARIABLES
  start_pc,       \* where the process is
  inited,         \* g_pWsjcppInitEmployees: the tags and the employees, in order
  cursor, again,  \* the position of the pass, and whether it has loaded one
  notices,        \* NotifyToAllTask of "Server started": none, queued, sent
  server_set,     \* EmployServer has its WebSocketServer
  start_faults

startVars == <<start_pc, inited, cursor, again, notices, server_set, start_faults>>

InitPhases == {"command_init", "first_init", "ws_init"}
StartFault == start_faults < MaxStartFaults /\ start_faults' = start_faults + 1

StartInit ==
  /\ start_pc = "down" /\ inited = <<>> /\ cursor = 1 /\ again = FALSE
  /\ notices = "none" /\ server_set = FALSE /\ start_faults = 0

(* The first lines of init.                                                *)
CallInit(phase, tags) ==
  /\ start_pc' = phase /\ inited' = inited \o tags
  /\ cursor' = 1 /\ again' = FALSE
  /\ UNCHANGED <<notices, server_set>>

StartServer == start_pc = "down" /\ CallInit("first_init", <<ServerTag>>) /\ UNCHANGED start_faults
StartCommand == start_pc = "down" /\ CallInit("command_init", <<>>) /\ UNCHANGED start_faults
-----------------------------------------------------------------------------
Loaded(name) == \E i \in DOMAIN inited : inited[i] = name

ReadyByOne(e) == After[e] = {} \/ \E n \in After[e] : Loaded(n)

Ready(e) == \A n \in After[e] : Loaded(n)

InPass == start_pc \in InitPhases /\ cursor <= Len(Employees)
ToLoad == ~Loaded(Employees[cursor]) /\ Ready(Employees[cursor])

PassBy ==
  /\ InPass /\ ~ToLoad /\ cursor' = cursor + 1
  /\ UNCHANGED <<start_pc, inited, again, notices, server_set, start_faults>>

Load ==
  /\ InPass /\ ToLoad
  /\ inited' = Append(inited, Employees[cursor]) /\ again' = TRUE /\ cursor' = cursor + 1
  /\ UNCHANGED <<start_pc, notices, server_set, start_faults>>

(* What follows init in each of its callers, by its result; the callers    *)
(* on the command line differ in what they do with a false.                *)
AfterTrue == CASE start_pc = "command_init" -> "command" [] start_pc = "first_init" -> "handlers" [] OTHER -> "listen"
AfterFalse ==
  CASE start_pc = "command_init" -> {"command_failed", "command_anyway"}
    [] start_pc = "first_init" -> {"handlers"}
    [] OTHER -> {"ended"}

(* An employee's init returns false, or throws.                            *)
LoadFails ==
  /\ InPass /\ ToLoad /\ StartFault /\ start_pc' \in AfterFalse \cup {"crashed"}
  /\ UNCHANGED <<inited, cursor, again, notices, server_set>>

RepeatNever == FALSE

Repeat == again

EndPass ==
  /\ start_pc \in InitPhases /\ cursor > Len(Employees)
  /\ IF Repeat THEN cursor' = 1 /\ again' = FALSE /\ UNCHANGED start_pc
     ELSE start_pc' = AfterTrue /\ UNCHANGED <<cursor, again>>
  /\ UNCHANGED <<inited, notices, server_set, start_faults>>
-----------------------------------------------------------------------------
(* The constructor of WebSocketServer.                                     *)
ConstructServer == start_pc = "handlers" /\ CallInit("ws_init", <<WsTag>>) /\ UNCHANGED start_faults

Listen ==
  /\ start_pc = "listen"
  /\ \/ start_pc' = "listening" /\ UNCHANGED start_faults
     \/ StartFault /\ start_pc' = "ended"
  /\ UNCHANGED <<inited, cursor, again, notices, server_set>>

ServerStarted ==
  /\ start_pc = "listening" /\ start_pc' = "started" /\ notices' = "queued"
  /\ UNCHANGED <<inited, cursor, again, server_set, start_faults>>

SetServer ==
  /\ start_pc = "started" /\ start_pc' = "open" /\ server_set' = TRUE
  /\ UNCHANGED <<inited, cursor, again, notices, start_faults>>

(* NotifyToAllTask::run on a thread of the pool.                           *)
SendNotice ==
  /\ notices = "queued" /\ start_pc # "crashed" /\ notices' = "sent"
  /\ start_pc' = IF server_set THEN start_pc ELSE "crashed"
  /\ UNCHANGED <<inited, cursor, again, server_set, start_faults>>

(* The rest of EmployWebServer::start: the thread's connection, the ports. *)
OpenAndServe ==
  /\ start_pc = "open"
  /\ \/ start_pc' = "serving" /\ UNCHANGED start_faults
     \/ StartFault /\ start_pc' \in {"ended", "crashed"}
  /\ UNCHANGED <<inited, cursor, again, notices, server_set>>

ProcessGone == {"ended", "crashed", "command", "command_failed", "command_anyway", "serving"}

StartAgain ==
  /\ start_pc \in ProcessGone /\ StartFault
  /\ start_pc' = "down" /\ inited' = <<>> /\ cursor' = 1 /\ again' = FALSE
  /\ notices' = "none" /\ server_set' = FALSE
-----------------------------------------------------------------------------
StartNext ==
  \/ StartServer \/ StartCommand \/ PassBy \/ Load \/ LoadFails \/ EndPass
  \/ ConstructServer \/ Listen \/ ServerStarted \/ SetServer \/ SendNotice \/ OpenAndServe \/ StartAgain

StartSpec == StartInit /\ [][StartNext]_startVars
-----------------------------------------------------------------------------
StartTypeOK ==
  /\ start_pc \in InitPhases \cup ProcessGone \cup {"down", "handlers", "listen", "listening", "started", "open"}
  /\ inited \in Seq(EmployeeNames \cup {ServerTag, WsTag})
  /\ cursor \in 1..(Len(Employees) + 1) /\ again \in BOOLEAN
  /\ notices \in {"none", "queued", "sent"} /\ server_set \in BOOLEAN
  /\ start_faults \in 0..MaxStartFaults

(* An employee is initialised after all those it names, and once, though   *)
(* init is called twice and the first call may have stopped anywhere       *)
(* (WsjcppEmployees::init).                                                *)
LoadOrder ==
  \A i \in DOMAIN inited :
    /\ \A j \in DOMAIN inited : inited[i] = inited[j] => i = j
    /\ inited[i] \in EmployeeNames => \A n \in After[inited[i]] : \E j \in 1..(i - 1) : inited[j] = n

(* Where init has returned true.                                           *)
InitDone == start_pc \in {"command", "listen", "listening", "started", "open", "serving"}

(* A reference for what init loads: what the tags given make loadable.     *)
Loadable(tags) ==
  LET can[e \in EmployeeNames] == \A n \in After[e] : IF n \in EmployeeNames THEN can[n] ELSE n \in tags
  IN {e \in EmployeeNames : can[e]}
TagsGiven == {t \in {ServerTag, WsTag} : Loaded(t)}

(* A server that listens has every employee initialised, though the result *)
(* of the first init is ignored, and a command of the command line those   *)
(* that need no server (WsjcppEmployees::init, EmployWebServer::start and  *)
(* the constructor of WebSocketServer).                                    *)
InitReachesAll ==
  /\ InitDone => {e \in EmployeeNames : Loaded(e)} = Loadable(TagsGiven)
  /\ InitDone /\ start_pc # "command" => \A e \in EmployeeNames : Loaded(e)
=============================================================================
