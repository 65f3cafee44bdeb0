------------------------------ MODULE Locations -----------------------------
(* Where a user is: UpdateUserLocationTask, which each login, registration *)
(* and updateuserlocation starts on the thread pool, and user_update,      *)
(* which writes the country it has read before.                            *)
(*                                                                         *)
(* A task compares the address it is given with last_ip, asks a service on *)
(* the network, and writes address and place together; the row may change  *)
(* in between.  City, region and coordinates are written with the country  *)
(* and by nothing else: "city" stands for them.  Commands run one at a     *)
(* time.                                                                   *)
EXTENDS Naturals, FiniteSets

CONSTANTS
  Located,           \* users
  Addresses,         \* of clients
  Places,            \* what the service may answer, and users may give for a country
  MaxLocationTasks,  \* bound: tasks ever started
  MaxEdits,          \* bound: user_update commands
  MaxLocationFaults  \* bound: refused requests and statements, ends of the process

NoIp == ""
Unknown == "unknown"
LocalIp == "::1"

ASSUME LocationsAssumption ==
  /\ NoIp \notin Addresses /\ Unknown \notin Places
  /\ MaxLocationTasks \in Nat /\ MaxEdits \in Nat /\ MaxLocationFaults \in Nat

VARIABLES
  last_ip, country, city,   \* of the row of each user
  location_tasks,   \* each task: user, address, by which command, step, answer
  next_task,
  editing,          \* user_update between its SELECT and its UPDATE
  edits, location_faults,
  newest,           \* auxiliary: the last address a task was started with for each user
  overlapped,       \* auxiliary: users whose last task was not alone, or failed
  edited            \* auxiliary: users whose country is not the task's

locationRows == <<last_ip, country, city>>
taskVars == <<location_tasks, next_task, newest, overlapped>>
locationsVars == <<locationRows, taskVars, editing, edits, location_faults, edited>>

TaskIds == 1..MaxLocationTasks
NoTask == [user |-> "nobody", ip |-> NoIp, by |-> "none", step |-> "none", answer |-> Unknown]
NoEdit == [user |-> "nobody", country |-> Unknown]
LocationFault == location_faults < MaxLocationFaults /\ location_faults' = location_faults + 1

LocationsInit ==
  /\ last_ip = [u \in Located |-> NoIp]
  /\ country = [u \in Located |-> Unknown] /\ city = [u \in Located |-> Unknown]
  /\ location_tasks = [k \in TaskIds |-> NoTask] /\ next_task = 1
  /\ editing = NoEdit /\ edits = 0 /\ location_faults = 0
  /\ newest = [u \in Located |-> NoIp] /\ overlapped = {} /\ edited = {}
-----------------------------------------------------------------------------
Unfinished(k) == location_tasks[k].step \in {"queued", "asking", "answered"}
HasPending(u) == \E k \in TaskIds : location_tasks[k].user = u /\ location_tasks[k].ip # LocalIp /\ Unfinished(k)

(* RunTasks::UpdateUserLocation.                                           *)
StartTask(u, a, by) ==
  /\ next_task <= MaxLocationTasks /\ next_task' = next_task + 1
  /\ location_tasks' = [location_tasks EXCEPT ![next_task] =
                          [user |-> u, ip |-> a, by |-> by, step |-> "queued", answer |-> Unknown]]
  /\ newest' = IF a = LocalIp THEN newest ELSE [newest EXCEPT ![u] = a]
  /\ overlapped' = IF a = LocalIp THEN overlapped
                   ELSE IF HasPending(u) THEN overlapped \cup {u}
                   ELSE overlapped \ {u}
  /\ UNCHANGED <<locationRows, editing, edits, location_faults, edited>>

(* login, token and registration.                                          *)
LoginFrom(u, a) == editing = NoEdit /\ StartTask(u, a, "login")

(* updateuserlocation: with no last_ip the handler asks for a table there  *)
(* is not, and starts no task.                                             *)
UpdateUserLocation(u) == editing = NoEdit /\ last_ip[u] # NoIp /\ StartTask(u, last_ip[u], "command")
-----------------------------------------------------------------------------
(* UpdateUserLocationTask::run.                                            *)
TaskStep(k, from, to, answer) ==
  /\ location_tasks[k].step = from
  /\ location_tasks' = [location_tasks EXCEPT ![k] = [@ EXCEPT !.step = to, !.answer = answer]]
  /\ UNCHANGED <<next_task, newest, editing, edits>>

SameIp(k) == location_tasks[k].ip \in {LocalIp, last_ip[location_tasks[k].user]}

Compare(k) ==
  /\ TaskStep(k, "queued", IF SameIp(k) THEN "same" ELSE "asking", Unknown)
  /\ UNCHANGED <<locationRows, location_faults, overlapped, edited>>

Answer(k, place) ==
  /\ TaskStep(k, "asking", "answered", place)
  /\ UNCHANGED <<locationRows, location_faults, overlapped, edited>>

CountryKept(k) ==
  LET u == location_tasks[k].user
  IN IF country[u] = Unknown THEN location_tasks[k].answer ELSE country[u]

CountryOfTask(k) == location_tasks[k].answer

WriteLocation(k) ==
  LET u == location_tasks[k].user
  IN /\ TaskStep(k, "answered", "written", location_tasks[k].answer)
     /\ last_ip' = [last_ip EXCEPT ![u] = location_tasks[k].ip]
     /\ country' = [country EXCEPT ![u] = CountryOfTask(k)]
     /\ city' = [city EXCEPT ![u] = location_tasks[k].answer]
     /\ edited' = edited \ {u}
     /\ UNCHANGED <<location_faults, overlapped>>

(* The service cannot be asked, or a statement is refused.                 *)
TaskFails(k) ==
  /\ Unfinished(k) /\ LocationFault
  /\ TaskStep(k, location_tasks[k].step, "failed", Unknown)
  /\ overlapped' = overlapped \cup {location_tasks[k].user}
  /\ UNCHANGED <<locationRows, edited>>

LocationsStop ==
  /\ LocationFault
  /\ location_tasks' = [k \in TaskIds |-> IF Unfinished(k) THEN [location_tasks[k] EXCEPT !.step = "failed"] ELSE location_tasks[k]]
  /\ overlapped' = overlapped \cup {u \in Located : HasPending(u)} /\ editing' = NoEdit
  /\ UNCHANGED <<locationRows, next_task, newest, edits, edited>>
-----------------------------------------------------------------------------
(* user_update: the country given, or the one just read.                   *)
ReadProfile(u) ==
  /\ editing = NoEdit /\ edits < MaxEdits /\ edits' = edits + 1
  /\ \E c \in Places \cup {country[u]} : editing' = [user |-> u, country |-> c]
  /\ UNCHANGED <<locationRows, taskVars, location_faults, edited>>

WriteProfile ==
  LET u == editing.user
  IN /\ editing # NoEdit /\ editing' = NoEdit
     /\ country' = [country EXCEPT ![u] = editing.country]
     /\ edited' = IF editing.country = city[u] THEN edited \ {u} ELSE edited \cup {u}
     /\ UNCHANGED <<last_ip, city, taskVars, edits, location_faults>>
-----------------------------------------------------------------------------
LocationsNext ==
  \/ \E u \in Located : (\E a \in Addresses : LoginFrom(u, a)) \/ UpdateUserLocation(u) \/ ReadProfile(u)
  \/ \E k \in TaskIds :
       Compare(k) \/ (\E place \in Places : Answer(k, place)) \/ WriteLocation(k) \/ TaskFails(k)
  \/ LocationsStop \/ WriteProfile

LocationsSpec == LocationsInit /\ [][LocationsNext]_locationsVars
-----------------------------------------------------------------------------
LocationsTypeOK ==
  /\ last_ip \in [Located -> Addresses \cup {NoIp}] /\ newest \in [Located -> Addresses \cup {NoIp}]
  /\ country \in [Located -> Places \cup {Unknown}] /\ city \in [Located -> Places \cup {Unknown}]
  /\ location_tasks \in [TaskIds -> [user : Located \cup {"nobody"}, ip : Addresses \cup {NoIp},
       by : {"none", "login", "command"}, answer : Places \cup {Unknown},
       step : {"none", "queued", "asking", "answered", "same", "written", "failed"}]]
  /\ next_task \in 1..(MaxLocationTasks + 1)
  /\ editing \in [user : Located \cup {"nobody"}, country : Places \cup {Unknown}]
  /\ edits \in 0..MaxEdits /\ location_faults \in 0..MaxLocationFaults
  /\ overlapped \subseteq Located /\ edited \subseteq Located

(* The address of a user is that of the last login once its task is over,  *)
(* when that task was alone and did not fail; and country and city are of  *)
(* one answer, unless user_update has written a country since: the one     *)
(* given, or the one read before a task wrote.                             *)
LocationFollowsLogins ==
  \A u \in Located :
    /\ u \notin overlapped /\ ~HasPending(u) => last_ip[u] = newest[u]
    /\ u \notin edited => country[u] = city[u]
=============================================================================
