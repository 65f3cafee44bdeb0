----------------------------- MODULE QuestScore -----------------------------
(***************************************************************************)
(* Solving quests and keeping score.                                       *)
(*                                                                         *)
(* The WebSocket handlers run one at a time on the Qt main thread; each is *)
(* a series of separate SQL statements with no transaction around them.    *)
(* What they derive from the tables -- users.rating,                       *)
(* quest.count_user_solved, games.maxscore -- is recomputed by tasks of    *)
(* the global QThreadPool, which run between the statements of the         *)
(* handlers and beside each other.  EmployServerInfo keeps three counters  *)
(* in memory, loaded when the server starts.  Any statement can be refused *)
(* by the database, and the process and the database server can be killed  *)
(* at any point.  New accounts and games are not made.                     *)
(*                                                                         *)
(* Answers are compared case-insensitively in the code: a member of        *)
(* Answers stands for a class of answers equal up to case and spaces.      *)
(***************************************************************************)
EXTENDS Integers, Sequences, FiniteSets, Functions, SequencesExt

CONSTANTS
  Users,          \* the accounts that exist when the behaviour starts
  Admins,         \* those of them whose role is not 'user'
  Games,          \* ids of rows of the table games
  MaxQuest,       \* bound: the last quest id auto_increment hands out
  Answers,        \* answers, up to case
  Seed,           \* the quests in the tables at the start, by id
  Requests,       \* the requests clients may send
  Threads,        \* the threads of QThreadPool::globalInstance()
  StrictSqlMode,  \* does the database refuse NULL for a NOT NULL column
  MaxRequests,    \* bound: requests served
  MaxFaults       \* bound: refused statements, crashes and restarts

QuestId == 1..MaxQuest
States == {"open", "broken", "closed"}
Fields == {"gameid", "score", "answer", "state"}
Cmds == {"quest_pass", "quests.add", "quest_delete", "quest_update",
         "game_delete", "users_delete", "leaks.buy"}

(* The parameters a request may carry; a handler reads only its own.       *)
Request == [cmd : Cmds, user : Users, userid : Users, questid : QuestId,
            gameid : Games, score : Nat, state : States, answer : Answers,
            price : Int,   \* of the leak asked for, a column of the table leaks
            has : SUBSET Fields]

SeedRow == [gameid : Games, score : Nat, state : States, answer : Answers]

ASSUME QuestAssumption ==
  /\ Admins \subseteq Users
  /\ IsFiniteSet(Users) /\ IsFiniteSet(Answers)
  /\ Games # {} /\ Answers # {}
  /\ MaxQuest \in Nat /\ MaxRequests \in Nat /\ MaxFaults \in Nat
  /\ Seed \in Seq(SeedRow) /\ Len(Seed) <= MaxQuest
  /\ Requests \subseteq Request /\ Requests # {}
  /\ StrictSqlMode \in BOOLEAN

VARIABLES
  users, games, quests,    \* ids of the rows present in the three tables
  next_id,                 \* auto_increment of the table quest
  gameid, score, state, answer, count_user_solved,  \* columns of quest
  maxscore,                \* column of games
  rating,                  \* column of users
  spent,                   \* history: taken off rating since it was recomputed
  users_quests,            \* rows <<userid, questid>>, a unique index
  users_quests_answers,    \* how many rows <<userid, questid, answer, passed>>
  m_nCountQuests, m_nCountQuestsAttempt, m_nCountQuestsCompleted,
  pc, req, starting,       \* the handler, and the tasks it is to start next
  queue, job, nNewRating,  \* the pool: waiting tasks, each thread's task
  served, faults,          \* what the two bounds count
  ratingDrift, countDrift, maxDrift, torn  \* history, see below

tables   == <<users, games, quests, next_id>>
columns  == <<gameid, score, state, answer>>
derived  == <<count_user_solved, maxscore, rating, spent>>
solving  == <<users_quests, users_quests_answers>>
counters == <<m_nCountQuests, m_nCountQuestsAttempt, m_nCountQuestsCompleted>>
handler  == <<pc, req, starting>>
pool     == <<queue, job, nNewRating>>
drift    == <<ratingDrift, countDrift, maxDrift, torn>>

vars == <<tables, columns, derived, solving, counters, handler, pool,
          served, faults, drift>>
-----------------------------------------------------------------------------
(* What the derived columns are meant to hold.                             *)

SolvedBy(u) == {q \in quests : <<u, q>> \in users_quests}

SumScore(u) == SumFunction([q \in SolvedBy(u) |-> score[q]])

Solvers(q) == {u \in users \ Admins : <<u, q>> \in users_quests}

OpenQuests(g) == {q \in quests : gameid[q] = g /\ state[q] = "open"}

SumOpen(g) == SumFunction([q \in OpenQuests(g) |-> score[q]])

(* The tasks of the pool, by what they recompute.                          *)
Rating(u) == <<"UpdateUserRating", u>>
Solved(q) == <<"UpdateQuestSolved", q>>
MaxScore(g) == <<"UpdateMaxScoreGame", g>>
NoTask == <<"none">>
Task == {Rating(u) : u \in Users} \cup {Solved(q) : q \in QuestId}
          \cup {MaxScore(g) : g \in Games}

Unread == -1   \* nNewRating of a thread that has not run its SELECT

Waiting(task) == Contains(starting, task) \/ Contains(queue, task)
Running(task) == \E t \in Threads : job[t] = task
Pending(task) == Waiting(task) \/ Running(task)

Mid(t, u) == job[t] = Rating(u) /\ nNewRating[t] # Unread

SumTries == SumFunction(users_quests_answers)
-----------------------------------------------------------------------------
NoRequest == CHOOSE r \in Requests : TRUE
NoGame == CHOOSE g \in Games : TRUE

SeedScore(q) == IF q \in DOMAIN Seed THEN Seed[q].score ELSE 0

Init ==
  /\ users = Users /\ games = Games /\ quests = DOMAIN Seed
  /\ next_id = Len(Seed) + 1
  /\ gameid = [q \in QuestId |-> IF q \in DOMAIN Seed THEN Seed[q].gameid
                                 ELSE NoGame]
  /\ score = [q \in QuestId |-> SeedScore(q)]
  /\ state = [q \in QuestId |-> IF q \in DOMAIN Seed THEN Seed[q].state
                                ELSE "closed"]
  /\ answer = [q \in QuestId |-> IF q \in DOMAIN Seed THEN Seed[q].answer
                                 ELSE CHOOSE a \in Answers : TRUE]
  /\ users_quests = {}
  /\ users_quests_answers =
       [row \in Users \X QuestId \X Answers \X {"Yes", "No"} |-> 0]
  /\ count_user_solved = [q \in QuestId |-> Cardinality(Solvers(q))]
  /\ maxscore = [g \in Games |-> SumOpen(g)]
  /\ rating = [u \in Users |-> SumScore(u)] /\ spent = [u \in Users |-> 0]
  /\ m_nCountQuests = Cardinality(quests)
  /\ m_nCountQuestsAttempt = 0 /\ m_nCountQuestsCompleted = 0
  /\ pc = "idle" /\ req = NoRequest /\ starting = <<>>
  /\ queue = <<>>
  /\ job = [t \in Threads |-> NoTask]
  /\ nNewRating = [t \in Threads |-> Unread]
  /\ served = 0 /\ faults = 0
  /\ ratingDrift = {} /\ countDrift = {} /\ maxDrift = {} /\ torn = {}
-----------------------------------------------------------------------------
(* The main thread.  A handler is at pc before its next statement; "idle"  *)
(* is the event loop.  A request that is refused (404, 403) changes        *)
(* nothing and is not a step.                                              *)

At(l) == pc = l /\ starting = <<>>

Goto(l) == pc' = l /\ UNCHANGED req

Finish == pc' = "idle" /\ req' = NoRequest

(* quest_pass is open to all, leaks.buy to ordinary users only and the     *)
(* other commands to administrators only.                                  *)
Serve(r, l) ==
  /\ At("idle") /\ served < MaxRequests /\ served' = served + 1
  /\ r.cmd # "quest_pass" => (r.user \in Admins <=> r.cmd # "leaks.buy")
  /\ pc' = l
  /\ req' = IF l = "idle" THEN req ELSE r

(* RunTasks::...: one task of those the handler starts at this point.      *)
StartTask ==
  /\ starting # <<>>
  /\ queue' = Append(queue, Head(starting)) /\ starting' = Tail(starting)
  /\ UNCHANGED <<tables, columns, derived, solving, counters, pc, req, job,
                 nNewRating, served, faults, drift>>

(* The SELECT names :user_asnwer and the handler binds :user_answer: the   *)
(* column is compared with NULL and no earlier answer is ever found.       *)
AlreadyTried(u, q, a) == FALSE

(* Mutant: a wrong answer goes on to be credited.                          *)
AfterAnswerAnyway(passed) == "pass.credit"

AfterAnswer(passed) == IF passed = "Yes" THEN "pass.credit" ELSE "idle"

(* quest_pass: the checks, and the answer recorded whether right or wrong. *)
(* The session outlives its user, so the user's row need not exist.        *)
QuestPass(r) ==
  /\ r.cmd = "quest_pass"
  /\ r.questid \in quests /\ gameid[r.questid] \in games
  /\ <<r.user, r.questid>> \notin users_quests
  /\ ~AlreadyTried(r.user, r.questid, r.answer)
  /\ LET passed == IF answer[r.questid] = r.answer THEN "Yes" ELSE "No"
     IN /\ users_quests_answers' =
             [users_quests_answers EXCEPT ![<<r.user, r.questid, r.answer, passed>>] = @ + 1]
        /\ Serve(r, AfterAnswer(passed))
  /\ m_nCountQuestsAttempt' = m_nCountQuestsAttempt + 1
  /\ UNCHANGED <<tables, columns, derived, users_quests, m_nCountQuests,
                 m_nCountQuestsCompleted, starting, pool, faults, drift>>

(* Mutants: one of the two tasks is not started.                           *)
PassTasksNoRating == <<Solved(req.questid)>>
PassTasksNoSolved == <<Rating(req.user)>>

PassTasks == <<Rating(req.user), Solved(req.questid)>>

(* The solved quest is inserted; the unique index cannot refuse it, since  *)
(* no other handler ran after the check.                                   *)
PassCredit ==
  /\ At("pass.credit") /\ Finish
  /\ users_quests' = users_quests \cup {<<req.user, req.questid>>}
  /\ m_nCountQuestsCompleted' = m_nCountQuestsCompleted + 1
  /\ starting' = PassTasks
  /\ UNCHANGED <<tables, columns, derived, users_quests_answers, m_nCountQuests,
                 m_nCountQuestsAttempt, pool, served, faults, drift>>

(* Who has solved a quest of Q: "TODO recalculate rating/score for users". *)
Passers(Q) == {u \in Users : \E q \in Q : <<u, q>> \in users_quests}

(* A number given before, whose solved rows a deletion cut short has left. *)
LeftOver(q) == IF Passers({q}) = {} THEN {} ELSE {q}

QuestsAdd(r) ==
  /\ r.cmd = "quests.add" /\ Serve(r, "idle")
  /\ r.gameid \in games
  /\ next_id \in QuestId /\ next_id' = next_id + 1
  /\ quests' = quests \cup {next_id}
  /\ gameid' = [gameid EXCEPT ![next_id] = r.gameid]
  /\ score' = [score EXCEPT ![next_id] = r.score]
  /\ state' = [state EXCEPT ![next_id] = r.state]
  /\ answer' = [answer EXCEPT ![next_id] = r.answer]
  /\ count_user_solved' = [count_user_solved EXCEPT ![next_id] = 0]
  /\ m_nCountQuests' = m_nCountQuests + 1
  /\ starting' = <<MaxScore(r.gameid)>>
  /\ ratingDrift' = ratingDrift \cup Passers({next_id})
  /\ countDrift' = countDrift \cup LeftOver(next_id)
  /\ torn' = torn \cup LeftOver(next_id)
  /\ UNCHANGED <<users, games, maxscore, rating, spent, solving, m_nCountQuestsAttempt,
                 m_nCountQuestsCompleted, pool, faults, maxDrift>>

(* leaks.buy: the price of the leak is taken off the rating and no task is *)
(* started; the other statements are on the tables of module Leaks.        *)
LeaksBuy(r) ==
  /\ r.cmd = "leaks.buy" /\ Serve(r, "idle")
  /\ IF r.user \in users
     THEN /\ rating' = [rating EXCEPT ![r.user] = @ - r.price]
          /\ spent' = [spent EXCEPT ![r.user] = @ + r.price]
     ELSE UNCHANGED <<rating, spent>>
  /\ UNCHANGED <<tables, columns, count_user_solved, maxscore, solving, counters,
                 starting, pool, faults, drift>>

(* quest_delete: the quest first, then its answers, then its solved rows.  *)
QuestDelete(r) ==
  /\ r.cmd = "quest_delete" /\ Serve(r, "delete.answers")
  /\ r.questid \in quests
  /\ quests' = quests \ {r.questid}
  /\ ratingDrift' = ratingDrift \cup Passers({r.questid})
  /\ maxDrift' = maxDrift \cup {gameid[r.questid]}
  /\ UNCHANGED <<users, games, next_id, columns, derived, solving, counters,
                 starting, pool, faults, countDrift, torn>>

WithoutAnswers(Q) ==
  [row \in DOMAIN users_quests_answers |->
     IF row[2] \in Q THEN 0 ELSE users_quests_answers[row]]

DeleteAnswers ==
  /\ At("delete.answers") /\ Goto("delete.passes")
  /\ users_quests_answers' = WithoutAnswers({req.questid})
  /\ UNCHANGED <<tables, columns, derived, users_quests, counters, starting, pool,
                 served, faults, drift>>

decrementQuests ==
  /\ m_nCountQuests' = m_nCountQuests - 1
  /\ UNCHANGED <<m_nCountQuestsAttempt, m_nCountQuestsCompleted>>

DeletePasses ==
  /\ At("delete.passes") /\ Finish
  /\ users_quests' = {row \in users_quests : row[2] # req.questid}
  /\ decrementQuests
  /\ UNCHANGED <<tables, columns, derived, users_quests_answers, starting, pool,
                 served, faults, drift>>

(* quest_update: a statement for each field given and changed.             *)
QuestUpdate(r) ==
  /\ r.cmd = "quest_update" /\ Serve(r, "update.gameid")
  /\ r.questid \in quests
  /\ UNCHANGED <<tables, columns, derived, solving, counters, starting, pool,
                 faults, drift>>

(* The request gives the field a value other than the one it has.          *)
Sets(field, new, old) == field \in req.has /\ new # old

UpdateGameNotFound ==
  /\ At("update.gameid") /\ Finish
  /\ "gameid" \in req.has /\ req.gameid \notin games
  /\ UNCHANGED <<tables, columns, derived, solving, counters, starting, pool,
                 served, faults, drift>>

(* Mutant: only the game the quest comes to is summed again.               *)
MoveTasksNew == <<MaxScore(req.gameid)>>

MoveTasks == <<MaxScore(req.gameid), MaxScore(gameid[req.questid])>>

UpdateGameId ==
  /\ At("update.gameid") /\ Goto("update.score")
  /\ "gameid" \in req.has => req.gameid \in games
  /\ IF Sets("gameid", req.gameid, gameid[req.questid])
     THEN /\ gameid' = [gameid EXCEPT ![req.questid] = req.gameid]
          /\ starting' = MoveTasks
     ELSE UNCHANGED <<gameid, starting>>
  /\ UNCHANGED <<tables, score, state, answer, derived, solving, counters, pool,
                 served, faults, drift>>

(* The game is summed again, the ratings are not.                          *)
UpdateScore ==
  /\ At("update.score") /\ Goto("update.answer")
  /\ IF Sets("score", req.score, score[req.questid])
     THEN /\ score' = [score EXCEPT ![req.questid] = req.score]
          /\ starting' = <<MaxScore(gameid[req.questid])>>
          /\ ratingDrift' = ratingDrift \cup Passers({req.questid})
     ELSE UNCHANGED <<score, starting, ratingDrift>>
  /\ UNCHANGED <<tables, gameid, state, answer, derived, solving, counters, pool,
                 served, faults, countDrift, maxDrift, torn>>

UpdateAnswer ==
  /\ At("update.answer") /\ Goto("update.state")
  /\ IF Sets("answer", req.answer, answer[req.questid])
     THEN answer' = [answer EXCEPT ![req.questid] = req.answer]
     ELSE UNCHANGED answer
  /\ UNCHANGED <<tables, gameid, score, state, derived, solving, counters, starting,
                 pool, served, faults, drift>>

(* Which quests count changes, and the game is not summed again.           *)
UpdateState ==
  /\ At("update.state") /\ Finish
  /\ IF Sets("state", req.state, state[req.questid])
     THEN /\ state' = [state EXCEPT ![req.questid] = req.state]
          /\ maxDrift' = maxDrift \cup {gameid[req.questid]}
     ELSE UNCHANGED <<state, maxDrift>>
  /\ UNCHANGED <<tables, gameid, score, answer, derived, solving, counters, starting,
                 pool, served, faults, ratingDrift, countDrift, torn>>

QuestsOf(g) == {q \in quests : gameid[q] = g}

(* game_delete: the answers, the solved quests, the quests, the game.      *)
GameDelete(r) ==
  /\ r.cmd = "game_delete" /\ Serve(r, "game.passes")
  /\ r.user \in users /\ r.gameid \in games
  /\ users_quests_answers' = WithoutAnswers(QuestsOf(r.gameid))
  /\ torn' = torn \cup QuestsOf(r.gameid)
  /\ UNCHANGED <<tables, columns, derived, users_quests, counters, starting, pool,
                 faults, ratingDrift, countDrift, maxDrift>>

GameDeletePasses ==
  /\ At("game.passes") /\ Goto("game.quests")
  /\ LET Q == QuestsOf(req.gameid)
     IN /\ users_quests' = {row \in users_quests : row[2] \notin Q}
        /\ torn' = torn \ Q
        /\ ratingDrift' = ratingDrift \cup Passers(Q)
        /\ countDrift' = countDrift \cup Q
  /\ UNCHANGED <<tables, columns, derived, users_quests_answers, counters, starting,
                 pool, served, faults, maxDrift>>

GameDeleteQuests ==
  /\ At("game.quests") /\ Goto("game.row")
  /\ quests' = quests \ QuestsOf(req.gameid)
  /\ maxDrift' = maxDrift \cup {req.gameid}
  /\ UNCHANGED <<users, games, next_id, columns, derived, solving, counters,
                 starting, pool, served, faults, ratingDrift, countDrift, torn>>

GameDeleteRow ==
  /\ At("game.row") /\ Finish
  /\ games' = games \ {req.gameid}
  /\ UNCHANGED <<users, quests, next_id, columns, derived, solving, counters,
                 starting, pool, served, faults, drift>>

(* Mutant: the answers go before the solved quests.                        *)
UsersDeleteAnswersFirst(r) ==
  /\ r.cmd = "users_delete" /\ Serve(r, "user.answers")
  /\ r.user # r.userid /\ {r.user, r.userid} \subseteq users
  /\ users_quests_answers' =
       [row \in DOMAIN users_quests_answers |->
          IF row[1] = r.userid THEN 0 ELSE users_quests_answers[row]]
  /\ UNCHANGED <<tables, columns, derived, users_quests, counters, starting,
                 pool, faults, drift>>

(* users_delete of r.userid, the statements on the tables modelled here.   *)
(* quest.userid is 0 in every row, so its DELETE FROM quest finds none.    *)
UsersDelete(r) ==
  /\ r.cmd = "users_delete" /\ Serve(r, "user.answers")
  /\ r.user # r.userid /\ {r.user, r.userid} \subseteq users
  /\ users_quests' = {row \in users_quests : row[1] # r.userid}
  /\ ratingDrift' = ratingDrift \cup {r.userid}
  /\ countDrift' = countDrift \cup {q \in QuestId : <<r.userid, q>> \in users_quests}
  /\ UNCHANGED <<tables, columns, derived, users_quests_answers, counters, starting,
                 pool, faults, maxDrift, torn>>

UsersDeleteAnswers ==
  /\ At("user.answers") /\ Goto("user.row")
  /\ users_quests_answers' =
       [row \in DOMAIN users_quests_answers |->
          IF row[1] = req.userid THEN 0 ELSE users_quests_answers[row]]
  /\ UNCHANGED <<tables, columns, derived, users_quests, counters, starting, pool,
                 served, faults, drift>>

UsersDeleteRow ==
  /\ At("user.row") /\ Finish
  /\ users' = users \ {req.userid}
  /\ UNCHANGED <<games, quests, next_id, columns, derived, solving, counters,
                 starting, pool, served, faults, drift>>
-----------------------------------------------------------------------------
(* The pool: a thread takes the oldest task.  UpdateUserRating is a SELECT *)
(* and an UPDATE, the other two are one UPDATE each.                       *)

Idle(t) == job' = [job EXCEPT ![t] = NoTask]
             /\ nNewRating' = [nNewRating EXCEPT ![t] = Unread]

TakeTask(t) ==
  /\ job[t] = NoTask /\ queue # <<>>
  /\ job' = [job EXCEPT ![t] = Head(queue)] /\ queue' = Tail(queue)
  /\ UNCHANGED <<tables, columns, derived, solving, counters, handler, nNewRating,
                 served, faults, drift>>

(* Two reads of one user before either write: the older sum may be written *)
(* last, and no task is left to correct it.                                *)
ReadRating(t) ==
  \E u \in Users :
    /\ job[t] = Rating(u) /\ nNewRating[t] = Unread
    /\ nNewRating' = [nNewRating EXCEPT ![t] = SumScore(u)]
    /\ ratingDrift' = IF \E s \in Threads : Mid(s, u) THEN ratingDrift \cup {u}
                      ELSE ratingDrift \ {u}
    /\ UNCHANGED <<tables, columns, derived, solving, counters, handler, queue, job,
                   served, faults, countDrift, maxDrift, torn>>

WriteRating(t) ==
  \E u \in Users :
    /\ Mid(t, u) /\ Idle(t)
    /\ IF u \in users
       THEN /\ rating' = [rating EXCEPT ![u] = nNewRating[t]]
            /\ spent' = [spent EXCEPT ![u] = 0]
       ELSE UNCHANGED <<rating, spent>>
    /\ UNCHANGED <<tables, columns, count_user_solved, maxscore, solving, counters,
                   handler, queue, served, faults, drift>>

CountSolved(t) ==
  \E q \in QuestId :
    /\ job[t] = Solved(q) /\ Idle(t)
    /\ count_user_solved' = IF q \in quests
          THEN [count_user_solved EXCEPT ![q] = Cardinality(Solvers(q))]
          ELSE count_user_solved
    /\ countDrift' = countDrift \ {q}
    /\ UNCHANGED <<tables, columns, maxscore, rating, spent, solving, counters, handler,
                   queue, served, faults, ratingDrift, maxDrift, torn>>

(* SUM over no rows is NULL, and maxscore is NOT NULL: a strict server     *)
(* refuses the statement, another stores 0.                                *)
SumMaxScore(t) ==
  \E g \in Games :
    /\ job[t] = MaxScore(g) /\ Idle(t)
    /\ IF OpenQuests(g) = {} /\ StrictSqlMode
       THEN UNCHANGED maxscore /\ maxDrift' = maxDrift \cup {g}
       ELSE /\ maxscore' = IF g \in games THEN [maxscore EXCEPT ![g] = SumOpen(g)]
                           ELSE maxscore
            /\ maxDrift' = maxDrift \ {g}
    /\ UNCHANGED <<tables, columns, count_user_solved, rating, spent, solving, counters,
                   handler, queue, served, faults, ratingDrift, countDrift, torn>>
-----------------------------------------------------------------------------
(* Faults.  The tasks in T will not be run to their end.                   *)
Lose(T) ==
  /\ faults < MaxFaults /\ faults' = faults + 1
  /\ ratingDrift' = ratingDrift \cup {u \in Users : Rating(u) \in T}
  /\ countDrift' = countDrift \cup {q \in QuestId : Solved(q) \in T}
  /\ maxDrift' = maxDrift \cup {g \in Games : MaxScore(g) \in T}
  /\ UNCHANGED torn

(* The handler's next statement is refused: it answers 500 and returns.    *)
StatementFails ==
  /\ pc # "idle" /\ At(pc) /\ Finish /\ Lose({})
  /\ UNCHANGED <<tables, columns, derived, solving, counters, starting, pool, served>>

(* A statement of a task is refused: the task logs it and ends.            *)
TaskFails(t) ==
  /\ job[t] # NoTask /\ Idle(t) /\ Lose({job[t]})
  /\ UNCHANGED <<tables, columns, derived, solving, counters, handler, queue, served>>

(* Mutant: the second of three alike queries reads the third's table.      *)
LoadCountersPasted ==
  /\ m_nCountQuests' = Cardinality(quests)
  /\ m_nCountQuestsAttempt' = Cardinality(users_quests)
  /\ m_nCountQuestsCompleted' = Cardinality(users_quests)

(* EmployServerInfo::init                                                  *)
LoadCounters ==
  /\ m_nCountQuests' = Cardinality(quests)
  /\ m_nCountQuestsAttempt' = SumTries
  /\ m_nCountQuestsCompleted' = Cardinality(users_quests)

(* The process is killed and started again.                                *)
Crash ==
  /\ Lose(ToSet(starting) \cup ToSet(queue) \cup {job[t] : t \in Threads})
  /\ Finish /\ starting' = <<>> /\ queue' = <<>>
  /\ job' = [t \in Threads |-> NoTask]
  /\ nNewRating' = [t \in Threads |-> Unread]
  /\ LoadCounters
  /\ UNCHANGED <<tables, columns, derived, solving, served>>

(* The database server is started again (mysql:5.7, restart: always): the  *)
(* connection is gone, so the handler's next statement is refused, and     *)
(* auto_increment goes on from the largest number in the table.            *)
DatabaseRestart ==
  /\ At(pc) /\ Finish /\ Lose({})
  /\ \E n \in 1..next_id :
       /\ \A q \in quests : q < n
       /\ n > 1 => n - 1 \in quests
       /\ next_id' = n
  /\ UNCHANGED <<users, games, quests, columns, derived, solving, counters, starting,
                 pool, served>>
-----------------------------------------------------------------------------
TakeRequest ==
  \E r \in Requests : \/ QuestPass(r) \/ QuestsAdd(r) \/ QuestDelete(r)
                       \/ QuestUpdate(r) \/ GameDelete(r) \/ UsersDelete(r)
                       \/ LeaksBuy(r)

(* What the main thread does once it has begun a request.                  *)
Handle ==
  \/ StartTask \/ PassCredit
  \/ DeleteAnswers \/ DeletePasses
  \/ UpdateGameNotFound \/ UpdateGameId \/ UpdateScore \/ UpdateAnswer \/ UpdateState
  \/ GameDeletePasses \/ GameDeleteQuests \/ GameDeleteRow
  \/ UsersDeleteAnswers \/ UsersDeleteRow

RunTask(t) ==
  TakeTask(t) \/ ReadRating(t) \/ WriteRating(t) \/ CountSolved(t) \/ SumMaxScore(t)

Next ==
  \/ TakeRequest \/ Handle
  \/ \E t \in Threads : RunTask(t) \/ TaskFails(t)
  \/ StatementFails \/ Crash \/ DatabaseRestart

Spec == Init /\ [][Next]_vars

(* A handler runs to its end and QThreadPool gives a waiting task a thread.*)
Fairness == WF_vars(Handle) /\ \A t \in Threads : WF_vars(RunTask(t))

FairSpec == Spec /\ Fairness
-----------------------------------------------------------------------------
Labels == {"idle", "pass.credit", "delete.answers", "delete.passes",
           "update.gameid", "update.score", "update.answer", "update.state",
           "game.passes", "game.quests", "game.row", "user.answers", "user.row"}

(* The types of the tables, of the handler and of the pool.                *)
TypeOK ==
  /\ users \subseteq Users /\ games \subseteq Games /\ quests \subseteq QuestId
  /\ next_id \in Nat
  /\ gameid \in [QuestId -> Games] /\ score \in [QuestId -> Nat]
  /\ state \in [QuestId -> States] /\ answer \in [QuestId -> Answers]
  /\ count_user_solved \in [QuestId -> Nat]
  /\ maxscore \in [Games -> Nat]
  /\ rating \in [Users -> Int] /\ spent \in [Users -> Int]
  /\ users_quests \subseteq Users \X QuestId
  /\ users_quests_answers \in [Users \X QuestId \X Answers \X {"Yes", "No"} -> Nat]
  /\ m_nCountQuests \in Int /\ m_nCountQuestsAttempt \in Nat
  /\ m_nCountQuestsCompleted \in Nat
  /\ pc \in Labels /\ req \in Requests
  /\ starting \in Seq(Task) /\ queue \in Seq(Task)
  /\ job \in [Threads -> Task \cup {NoTask}]
  /\ nNewRating \in [Threads -> Nat \cup {Unread}]
  /\ served \in Nat /\ faults \in Nat
  /\ ratingDrift \subseteq Users /\ countDrift \subseteq QuestId
  /\ maxDrift \subseteq Games /\ torn \subseteq QuestId

(* What users.rating is to hold: the sum of the scores of the quests the   *)
(* user solved, less the leaks bought since it was last recomputed.        *)
RatingDue(u) == SumScore(u) - spent[u]

(* users.rating is that, or a task that recomputes it is on its way, which *)
(* also undoes every purchase, one made between its SELECT and its UPDATE  *)
(* included.  The exceptions, ratingDrift, are the ways the code leaves it *)
(* wrong: a score changed, a quest, game or user deleted, a quest added    *)
(* with a number whose solved rows had stayed, a task lost, two tasks of   *)
(* one user that overlapped.  The next task of that user to run alone ends *)
(* the exception.                                                          *)
RatingExact ==
  \A u \in users \ ratingDrift : rating[u] # RatingDue(u) => Pending(Rating(u))

(* quest.count_user_solved counts the ordinary users who solved the quest, *)
(* or a task that recomputes it is on its way; countDrift has the quests   *)
(* whose solvers were deleted, those whose task was lost and those added   *)
(* with a number whose solved rows had stayed.                             *)
CountExact ==
  \A q \in quests \ countDrift :
    count_user_solved[q] # Cardinality(Solvers(q)) => Pending(Solved(q))

(* games.maxscore is the sum over the game's open quests, or a task that   *)
(* recomputes it is on its way; maxDrift has the games where a quest was   *)
(* deleted, opened or closed and those whose task was refused or lost.     *)
MaxExact ==
  \A g \in games \ maxDrift : maxscore[g] # SumOpen(g) => Pending(MaxScore(g))

HasYes(u, q) == \E a \in Answers : users_quests_answers[<<u, q, a, "Yes">>] > 0

(* Every solved quest still in the tables has the right answer on record,  *)
(* whatever statements were refused and whenever the process was killed.   *)
(* torn has the quests of a game whose deletion has begun, and those added *)
(* with a number whose solved rows had stayed.                             *)
PassHasYesAnswer ==
  \A row \in users_quests :
    row[2] \in quests \ torn => HasYes(row[1], row[2])

(* With no fault, between two requests a right answer on record is a       *)
(* solved quest, and the reverse.                                          *)
YesAnswerIsCredited ==
  pc = "idle" /\ faults = 0 =>
    \A u \in Users, q \in QuestId : HasYes(u, q) <=> <<u, q>> \in users_quests

(* The in-memory counters never show less than the tables hold: an add     *)
(* counts once, and only what was removed is taken off, faults included.   *)
CountersNeverUnder ==
  /\ m_nCountQuests >= Cardinality(quests)
  /\ m_nCountQuestsAttempt >= SumTries
  /\ m_nCountQuestsCompleted >= Cardinality(users_quests)

(* A solved quest reaches the rating: once the row is in users_quests the  *)
(* user's rating comes to hold the sum, less the leaks bought after it was *)
(* taken, unless an exception sets in or the row, the quest or the user is *)
(* deleted.                                                                *)
CreditShows ==
  \A u \in Users, q \in QuestId :
    (<<u, q>> \in users_quests /\ q \in quests /\ u \in users) ~>
      \/ rating[u] = RatingDue(u) \/ u \in ratingDrift
      \/ <<u, q>> \notin users_quests \/ q \notin quests \/ u \notin users

Settled == pc = "idle" /\ starting = <<>> /\ queue = <<>>
             /\ \A t \in Threads : job[t] = NoTask

(* "How much append to user score after solve quest by them": when nothing *)
(* is left to run, the user's rating has the score of every quest solved.  *)
RatingSettles == Settled => \A u \in users : rating[u] = SumScore(u)
=============================================================================
