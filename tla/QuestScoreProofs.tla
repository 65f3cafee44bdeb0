-------------------------- MODULE QuestScoreProofs --------------------------
(* What QuestScore keeps true for every value of its constants.            *)
EXTENDS QuestScore, Sums, TLAPS

(* The part of TypeOK that does not rest on a sum being a number.          *)
TablesOK ==
  /\ users \subseteq Users /\ games \subseteq Games /\ quests \subseteq QuestId
  /\ next_id \in Nat
  /\ gameid \in [QuestId -> Games] /\ score \in [QuestId -> Nat]
  /\ state \in [QuestId -> States] /\ answer \in [QuestId -> Answers]
  /\ users_quests \subseteq Users \X QuestId
  /\ users_quests_answers \in [Users \X QuestId \X Answers \X {"Yes", "No"} -> Nat]
  /\ DOMAIN count_user_solved = QuestId /\ DOMAIN maxscore = Games
  /\ DOMAIN rating = Users /\ DOMAIN spent = Users
  /\ served \in Nat /\ faults \in Nat

HandlerOK ==
  /\ pc \in Labels /\ req \in Requests
  /\ pc = "pass.credit" => req.questid \in quests
  /\ pc \in {"delete.answers", "delete.passes"} => req.questid \notin quests
  /\ pc = "game.quests" =>
       \A row \in users_quests : row[2] \notin QuestsOf(req.gameid)
  /\ pc \in {"user.answers", "user.row"} =>
       \A row \in users_quests : row[1] # req.userid

PoolOK ==
  /\ starting \in Seq(Task) /\ queue \in Seq(Task)
  /\ job \in [Threads -> Task \cup {NoTask}]
  /\ DOMAIN nNewRating = Threads

(* auto_increment: no quest has the id that is still to be handed out.  A  *)
(* solved row left by a failed deletion may name it.                       *)
IdsOK == \A q \in quests : q < next_id

Structure == TablesOK /\ HandlerOK /\ PoolOK /\ IdsOK

LEMMA InitStructure == Init => Structure
<1> SUFFICES ASSUME Init PROVE Structure OBVIOUS
<1> USE QuestAssumption
<1>1. TablesOK
  <2>1. DOMAIN Seed \subseteq QuestId /\ \A q \in DOMAIN Seed : Seed[q] \in SeedRow
    BY DEF QuestId
  <2>2. next_id \in Nat
    BY DEF Init
  <2>3. gameid \in [QuestId -> Games] /\ score \in [QuestId -> Nat]
    BY <2>1 DEF Init, SeedRow, NoGame, SeedScore
  <2>4. state \in [QuestId -> States] /\ answer \in [QuestId -> Answers]
    BY <2>1 DEF Init, SeedRow, States
  <2>5. users_quests_answers \in [Users \X QuestId \X Answers \X {"Yes", "No"} -> Nat]
    BY DEF Init
  <2> QED BY <2>1, <2>2, <2>3, <2>4, <2>5 DEF Init, TablesOK
<1>2. HandlerOK
  BY DEF Init, HandlerOK, Labels, NoRequest
<1>3. PoolOK
  BY DEF Init, PoolOK
<1>4. IdsOK
  BY DEF Init, IdsOK
<1> QED BY <1>1, <1>2, <1>3, <1>4 DEF Structure

LEMMA RequestTypes ==
  ASSUME NEW r \in Requests
  PROVE  /\ r.user \in Users /\ r.userid \in Users /\ r.questid \in QuestId
         /\ r.gameid \in Games /\ r.score \in Nat /\ r.state \in States
         /\ r.answer \in Answers /\ r.price \in Int
  BY QuestAssumption DEF Request

LEMMA NoRequestType == NoRequest \in Requests
  BY QuestAssumption DEF NoRequest

LEMMA TaskTypes ==
  /\ \A u \in Users : Rating(u) \in Task
  /\ \A q \in QuestId : Solved(q) \in Task
  /\ \A g \in Games : MaxScore(g) \in Task
  BY DEF Task

LEMMA QueueTypes ==
  ASSUME NEW T, NEW a \in T, NEW b \in T, NEW s \in Seq(T)
  PROVE  /\ <<a>> \in Seq(T) /\ <<a, b>> \in Seq(T)
         /\ Append(s, a) \in Seq(T)
         /\ s # <<>> => Head(s) \in T /\ Tail(s) \in Seq(T)
  OBVIOUS

LEMMA NextStructure == Structure /\ [Next]_vars => Structure'
<1> SUFFICES ASSUME Structure, [Next]_vars PROVE Structure'
  OBVIOUS
<1> USE DEF Structure
<1>r. req \in Requests BY DEF HandlerOK
<1>1. ASSUME NEW r \in Requests, QuestPass(r) PROVE Structure'
  <2>1. TablesOK'
    BY <1>1, <1>r, RequestTypes DEF TablesOK, QuestPass, Serve, AfterAnswer, tables, columns, derived, solving, counters, handler, pool
  <2>2. HandlerOK'
    BY <1>1, <1>r, RequestTypes, NoRequestType DEF HandlerOK, IdsOK, TablesOK, Labels, QuestsOf, QuestPass, Serve, AfterAnswer, tables, columns, derived, solving, counters, handler, pool
  <2>3. PoolOK'
    BY <1>1, <1>r, RequestTypes DEF PoolOK, TablesOK, QuestPass, Serve, AfterAnswer, tables, columns, derived, solving, counters, handler, pool
  <2>4. IdsOK'
    BY <1>1, <1>r, RequestTypes DEF IdsOK, HandlerOK, TablesOK, QuestId, QuestPass, Serve, AfterAnswer, tables, columns, derived, solving, counters, handler, pool
  <2> QED BY <2>1, <2>2, <2>3, <2>4
<1>2. ASSUME NEW r \in Requests, QuestsAdd(r) PROVE Structure'
  <2>1. TablesOK'
    <3>1. next_id \in QuestId /\ next_id' \in Nat /\ quests' \subseteq QuestId
      <4>1. /\ next_id \in QuestId /\ next_id' = next_id + 1
            /\ quests' = quests \cup {next_id}
        BY <1>2 DEF QuestsAdd
      <4>2. next_id \in Nat /\ quests \subseteq QuestId
        BY DEF TablesOK
      <4>3. next_id' \in Nat
        BY <4>1, <4>2
      <4>4. quests' \subseteq QuestId
        BY <4>1, <4>2
      <4> QED BY <4>1, <4>3, <4>4
    <3>2. /\ gameid' \in [QuestId -> Games] /\ score' \in [QuestId -> Nat]
          /\ state' \in [QuestId -> States] /\ answer' \in [QuestId -> Answers]
          /\ DOMAIN count_user_solved' = QuestId
      BY <1>2, <3>1, RequestTypes DEF QuestsAdd, TablesOK
    <3> QED BY <1>2, <3>1, <3>2 DEF TablesOK, QuestsAdd, solving, Serve
  <2>2. HandlerOK'
    BY <1>2, <1>r, RequestTypes, NoRequestType DEF HandlerOK, IdsOK, TablesOK, Labels, QuestsOf, QuestsAdd, Serve, tables, columns, derived, solving, counters, handler, pool
  <2>3. PoolOK'
    BY <1>2, <1>r, RequestTypes, TaskTypes, QueueTypes DEF PoolOK, TablesOK, QuestsAdd, Serve, tables, columns, derived, solving, counters, handler, pool
  <2>4. IdsOK'
    BY <1>2, <1>r, RequestTypes DEF IdsOK, HandlerOK, TablesOK, QuestId, QuestsAdd, Serve, tables, columns, derived, solving, counters, handler, pool
  <2> QED BY <2>1, <2>2, <2>3, <2>4
<1>3. ASSUME NEW r \in Requests, QuestDelete(r) PROVE Structure'
  <2>1. TablesOK'
    BY <1>3, <1>r, RequestTypes DEF TablesOK, QuestDelete, Serve, tables, columns, derived, solving, counters, handler, pool
  <2>2. HandlerOK'
    BY <1>3, <1>r, RequestTypes, NoRequestType DEF HandlerOK, IdsOK, TablesOK, Labels, QuestsOf, QuestDelete, Serve, tables, columns, derived, solving, counters, handler, pool
  <2>3. PoolOK'
    BY <1>3, <1>r, RequestTypes DEF PoolOK, TablesOK, QuestDelete, Serve, tables, columns, derived, solving, counters, handler, pool
  <2>4. IdsOK'
    BY <1>3, <1>r, RequestTypes DEF IdsOK, HandlerOK, TablesOK, QuestId, QuestDelete, Serve, tables, columns, derived, solving, counters, handler, pool
  <2> QED BY <2>1, <2>2, <2>3, <2>4
<1>4. ASSUME NEW r \in Requests, QuestUpdate(r) PROVE Structure'
  <2>1. TablesOK'
    BY <1>4, <1>r, RequestTypes DEF TablesOK, QuestUpdate, Serve, tables, columns, derived, solving, counters, handler, pool
  <2>2. HandlerOK'
    BY <1>4, <1>r, RequestTypes, NoRequestType DEF HandlerOK, IdsOK, TablesOK, Labels, QuestsOf, QuestUpdate, Serve, tables, columns, derived, solving, counters, handler, pool
  <2>3. PoolOK'
    BY <1>4, <1>r, RequestTypes DEF PoolOK, TablesOK, QuestUpdate, Serve, tables, columns, derived, solving, counters, handler, pool
  <2>4. IdsOK'
    BY <1>4, <1>r, RequestTypes DEF IdsOK, HandlerOK, TablesOK, QuestId, QuestUpdate, Serve, tables, columns, derived, solving, counters, handler, pool
  <2> QED BY <2>1, <2>2, <2>3, <2>4
<1>5. ASSUME NEW r \in Requests, GameDelete(r) PROVE Structure'
  <2>1. TablesOK'
    BY <1>5, <1>r, RequestTypes DEF TablesOK, GameDelete, Serve, WithoutAnswers, tables, columns, derived, solving, counters, handler, pool
  <2>2. HandlerOK'
    BY <1>5, <1>r, RequestTypes, NoRequestType DEF HandlerOK, IdsOK, TablesOK, Labels, QuestsOf, GameDelete, Serve, WithoutAnswers, tables, columns, derived, solving, counters, handler, pool
  <2>3. PoolOK'
    BY <1>5, <1>r, RequestTypes DEF PoolOK, TablesOK, GameDelete, Serve, WithoutAnswers, tables, columns, derived, solving, counters, handler, pool
  <2>4. IdsOK'
    BY <1>5, <1>r, RequestTypes DEF IdsOK, HandlerOK, TablesOK, QuestId, GameDelete, Serve, WithoutAnswers, tables, columns, derived, solving, counters, handler, pool
  <2> QED BY <2>1, <2>2, <2>3, <2>4
<1>6. ASSUME NEW r \in Requests, UsersDelete(r) PROVE Structure'
  <2>1. TablesOK'
    BY <1>6, <1>r, RequestTypes DEF TablesOK, UsersDelete, Serve, tables, columns, derived, solving, counters, handler, pool
  <2>2. HandlerOK'
    BY <1>6, <1>r, RequestTypes, NoRequestType DEF HandlerOK, IdsOK, TablesOK, Labels, QuestsOf, UsersDelete, Serve, tables, columns, derived, solving, counters, handler, pool
  <2>3. PoolOK'
    BY <1>6, <1>r, RequestTypes DEF PoolOK, TablesOK, UsersDelete, Serve, tables, columns, derived, solving, counters, handler, pool
  <2>4. IdsOK'
    BY <1>6, <1>r, RequestTypes DEF IdsOK, HandlerOK, TablesOK, QuestId, UsersDelete, Serve, tables, columns, derived, solving, counters, handler, pool
  <2> QED BY <2>1, <2>2, <2>3, <2>4
<1>7. CASE StartTask
  <2>1. TablesOK'
    BY <1>7, <1>r, RequestTypes DEF TablesOK, StartTask, tables, columns, derived, solving, counters, handler, pool
  <2>2. HandlerOK'
    BY <1>7, <1>r, RequestTypes, NoRequestType DEF HandlerOK, IdsOK, TablesOK, Labels, QuestsOf, StartTask, tables, columns, derived, solving, counters, handler, pool
  <2>3. PoolOK'
    BY <1>7, <1>r, RequestTypes, TaskTypes, QueueTypes DEF PoolOK, TablesOK, StartTask, tables, columns, derived, solving, counters, handler, pool
  <2>4. IdsOK'
    BY <1>7, <1>r, RequestTypes DEF IdsOK, HandlerOK, TablesOK, QuestId, StartTask, tables, columns, derived, solving, counters, handler, pool
  <2> QED BY <2>1, <2>2, <2>3, <2>4
<1>8. CASE PassCredit
  <2>1. TablesOK'
    BY <1>8, <1>r, RequestTypes DEF TablesOK, PassCredit, PassTasks, Finish, At, tables, columns, derived, solving, counters, handler, pool
  <2>2. HandlerOK'
    BY <1>8, <1>r, RequestTypes, NoRequestType DEF HandlerOK, IdsOK, TablesOK, Labels, QuestsOf, PassCredit, PassTasks, Finish, At, tables, columns, derived, solving, counters, handler, pool
  <2>3. PoolOK'
    BY <1>8, <1>r, RequestTypes, TaskTypes, QueueTypes DEF PoolOK, TablesOK, PassCredit, PassTasks, Finish, At, tables, columns, derived, solving, counters, handler, pool
  <2>4. IdsOK'
    BY <1>8, <1>r, RequestTypes DEF IdsOK, HandlerOK, TablesOK, QuestId, PassCredit, PassTasks, Finish, At, tables, columns, derived, solving, counters, handler, pool
  <2> QED BY <2>1, <2>2, <2>3, <2>4
<1>9. CASE DeleteAnswers
  <2>1. TablesOK'
    BY <1>9, <1>r, RequestTypes DEF TablesOK, DeleteAnswers, WithoutAnswers, Goto, At, tables, columns, derived, solving, counters, handler, pool
  <2>2. HandlerOK'
    BY <1>9, <1>r, RequestTypes, NoRequestType DEF HandlerOK, IdsOK, TablesOK, Labels, QuestsOf, DeleteAnswers, WithoutAnswers, Goto, At, tables, columns, derived, solving, counters, handler, pool
  <2>3. PoolOK'
    BY <1>9, <1>r, RequestTypes DEF PoolOK, TablesOK, DeleteAnswers, WithoutAnswers, Goto, At, tables, columns, derived, solving, counters, handler, pool
  <2>4. IdsOK'
    BY <1>9, <1>r, RequestTypes DEF IdsOK, HandlerOK, TablesOK, QuestId, DeleteAnswers, WithoutAnswers, Goto, At, tables, columns, derived, solving, counters, handler, pool
  <2> QED BY <2>1, <2>2, <2>3, <2>4
<1>10. CASE DeletePasses
  <2>1. TablesOK'
    BY <1>10, <1>r, RequestTypes DEF TablesOK, DeletePasses, Finish, At, tables, columns, derived, solving, counters, handler, pool
  <2>2. HandlerOK'
    BY <1>10, <1>r, RequestTypes, NoRequestType DEF HandlerOK, IdsOK, TablesOK, Labels, QuestsOf, DeletePasses, Finish, At, tables, columns, derived, solving, counters, handler, pool
  <2>3. PoolOK'
    BY <1>10, <1>r, RequestTypes DEF PoolOK, TablesOK, DeletePasses, Finish, At, tables, columns, derived, solving, counters, handler, pool
  <2>4. IdsOK'
    BY <1>10, <1>r, RequestTypes DEF IdsOK, HandlerOK, TablesOK, QuestId, DeletePasses, Finish, At, tables, columns, derived, solving, counters, handler, pool
  <2> QED BY <2>1, <2>2, <2>3, <2>4
<1>11. CASE UpdateGameNotFound
  <2>1. TablesOK'
    BY <1>11, <1>r, RequestTypes DEF TablesOK, UpdateGameNotFound, Finish, At, tables, columns, derived, solving, counters, handler, pool
  <2>2. HandlerOK'
    BY <1>11, <1>r, RequestTypes, NoRequestType DEF HandlerOK, IdsOK, TablesOK, Labels, QuestsOf, UpdateGameNotFound, Finish, At, tables, columns, derived, solving, counters, handler, pool
  <2>3. PoolOK'
    BY <1>11, <1>r, RequestTypes DEF PoolOK, TablesOK, UpdateGameNotFound, Finish, At, tables, columns, derived, solving, counters, handler, pool
  <2>4. IdsOK'
    BY <1>11, <1>r, RequestTypes DEF IdsOK, HandlerOK, TablesOK, QuestId, UpdateGameNotFound, Finish, At, tables, columns, derived, solving, counters, handler, pool
  <2> QED BY <2>1, <2>2, <2>3, <2>4
<1>12. CASE UpdateGameId
  <2>1. TablesOK'
    BY <1>12, <1>r, RequestTypes DEF TablesOK, UpdateGameId, MoveTasks, Goto, At, tables, columns, derived, solving, counters, handler, pool
  <2>2. HandlerOK'
    BY <1>12, <1>r, RequestTypes, NoRequestType DEF HandlerOK, IdsOK, TablesOK, Labels, QuestsOf, UpdateGameId, MoveTasks, Goto, At, tables, columns, derived, solving, counters, handler, pool
  <2>3. PoolOK'
    <3>1. starting \in Seq(Task) /\ gameid[req.questid] \in Games
      BY <1>r, RequestTypes DEF PoolOK, TablesOK
    <3>2. MaxScore(req.gameid) \in Task /\ MaxScore(gameid[req.questid]) \in Task
      BY <3>1, <1>r, RequestTypes, TaskTypes
    <3>3. <<MaxScore(req.gameid), MaxScore(gameid[req.questid])>> \in Seq(Task)
      BY <3>2
    <3>4. starting' = starting \/ starting' = <<MaxScore(req.gameid), MaxScore(gameid[req.questid])>>
      BY <1>12 DEF UpdateGameId, MoveTasks
    <3> QED BY <1>12, <3>1, <3>3, <3>4 DEF PoolOK, UpdateGameId, pool
  <2>4. IdsOK'
    BY <1>12, <1>r, RequestTypes DEF IdsOK, HandlerOK, TablesOK, QuestId, UpdateGameId, MoveTasks, Goto, At, tables, columns, derived, solving, counters, handler, pool
  <2> QED BY <2>1, <2>2, <2>3, <2>4
<1>13. CASE UpdateScore
  <2>1. TablesOK'
    BY <1>13, <1>r, RequestTypes DEF TablesOK, UpdateScore, Goto, At, tables, columns, derived, solving, counters, handler, pool
  <2>2. HandlerOK'
    BY <1>13, <1>r, RequestTypes, NoRequestType DEF HandlerOK, IdsOK, TablesOK, Labels, QuestsOf, UpdateScore, Goto, At, tables, columns, derived, solving, counters, handler, pool
  <2>3. PoolOK'
    <3>1. starting \in Seq(Task) /\ gameid[req.questid] \in Games
      BY <1>r, RequestTypes DEF PoolOK, TablesOK
    <3>2. MaxScore(req.gameid) \in Task /\ MaxScore(gameid[req.questid]) \in Task
      BY <3>1, <1>r, RequestTypes, TaskTypes
    <3>3. <<MaxScore(gameid[req.questid])>> \in Seq(Task)
      BY <3>2
    <3>4. starting' = starting \/ starting' = <<MaxScore(gameid[req.questid])>>
      BY <1>13 DEF UpdateScore
    <3> QED BY <1>13, <3>1, <3>3, <3>4 DEF PoolOK, UpdateScore, pool
  <2>4. IdsOK'
    BY <1>13, <1>r, RequestTypes DEF IdsOK, HandlerOK, TablesOK, QuestId, UpdateScore, Goto, At, tables, columns, derived, solving, counters, handler, pool
  <2> QED BY <2>1, <2>2, <2>3, <2>4
<1>14. CASE UpdateAnswer
  <2>1. TablesOK'
    BY <1>14, <1>r, RequestTypes DEF TablesOK, UpdateAnswer, Goto, At, tables, columns, derived, solving, counters, handler, pool
  <2>2. HandlerOK'
    BY <1>14, <1>r, RequestTypes, NoRequestType DEF HandlerOK, IdsOK, TablesOK, Labels, QuestsOf, UpdateAnswer, Goto, At, tables, columns, derived, solving, counters, handler, pool
  <2>3. PoolOK'
    BY <1>14, <1>r, RequestTypes DEF PoolOK, TablesOK, UpdateAnswer, Goto, At, tables, columns, derived, solving, counters, handler, pool
  <2>4. IdsOK'
    BY <1>14, <1>r, RequestTypes DEF IdsOK, HandlerOK, TablesOK, QuestId, UpdateAnswer, Goto, At, tables, columns, derived, solving, counters, handler, pool
  <2> QED BY <2>1, <2>2, <2>3, <2>4
<1>15. CASE UpdateState
  <2>1. TablesOK'
    BY <1>15, <1>r, RequestTypes DEF TablesOK, UpdateState, Finish, At, tables, columns, derived, solving, counters, handler, pool
  <2>2. HandlerOK'
    BY <1>15, <1>r, RequestTypes, NoRequestType DEF HandlerOK, IdsOK, TablesOK, Labels, QuestsOf, UpdateState, Finish, At, tables, columns, derived, solving, counters, handler, pool
  <2>3. PoolOK'
    BY <1>15, <1>r, RequestTypes DEF PoolOK, TablesOK, UpdateState, Finish, At, tables, columns, derived, solving, counters, handler, pool
  <2>4. IdsOK'
    BY <1>15, <1>r, RequestTypes DEF IdsOK, HandlerOK, TablesOK, QuestId, UpdateState, Finish, At, tables, columns, derived, solving, counters, handler, pool
  <2> QED BY <2>1, <2>2, <2>3, <2>4
<1>16. CASE GameDeletePasses
  <2>1. TablesOK'
    BY <1>16, <1>r, RequestTypes DEF TablesOK, GameDeletePasses, Goto, At, tables, columns, derived, solving, counters, handler, pool
  <2>2. HandlerOK'
    BY <1>16, <1>r, RequestTypes, NoRequestType DEF HandlerOK, IdsOK, TablesOK, Labels, QuestsOf, GameDeletePasses, Goto, At, tables, columns, derived, solving, counters, handler, pool
  <2>3. PoolOK'
    BY <1>16, <1>r, RequestTypes DEF PoolOK, TablesOK, GameDeletePasses, Goto, At, tables, columns, derived, solving, counters, handler, pool
  <2>4. IdsOK'
    BY <1>16, <1>r, RequestTypes DEF IdsOK, HandlerOK, TablesOK, QuestId, GameDeletePasses, Goto, At, tables, columns, derived, solving, counters, handler, pool
  <2> QED BY <2>1, <2>2, <2>3, <2>4
<1>17. CASE GameDeleteQuests
  <2>1. TablesOK'
    BY <1>17, <1>r, RequestTypes DEF TablesOK, GameDeleteQuests, Goto, At, tables, columns, derived, solving, counters, handler, pool
  <2>2. HandlerOK'
    BY <1>17, <1>r, RequestTypes, NoRequestType DEF HandlerOK, IdsOK, TablesOK, Labels, QuestsOf, GameDeleteQuests, Goto, At, tables, columns, derived, solving, counters, handler, pool
  <2>3. PoolOK'
    BY <1>17, <1>r, RequestTypes DEF PoolOK, TablesOK, GameDeleteQuests, Goto, At, tables, columns, derived, solving, counters, handler, pool
  <2>4. IdsOK'
    BY <1>17, <1>r, RequestTypes DEF IdsOK, HandlerOK, TablesOK, QuestId, GameDeleteQuests, Goto, At, tables, columns, derived, solving, counters, handler, pool
  <2> QED BY <2>1, <2>2, <2>3, <2>4
<1>18. CASE GameDeleteRow
  <2>1. TablesOK'
    BY <1>18, <1>r, RequestTypes DEF TablesOK, GameDeleteRow, Finish, At, tables, columns, derived, solving, counters, handler, pool
  <2>2. HandlerOK'
    BY <1>18, <1>r, RequestTypes, NoRequestType DEF HandlerOK, IdsOK, TablesOK, Labels, QuestsOf, GameDeleteRow, Finish, At, tables, columns, derived, solving, counters, handler, pool
  <2>3. PoolOK'
    BY <1>18, <1>r, RequestTypes DEF PoolOK, TablesOK, GameDeleteRow, Finish, At, tables, columns, derived, solving, counters, handler, pool
  <2>4. IdsOK'
    BY <1>18, <1>r, RequestTypes DEF IdsOK, HandlerOK, TablesOK, QuestId, GameDeleteRow, Finish, At, tables, columns, derived, solving, counters, handler, pool
  <2> QED BY <2>1, <2>2, <2>3, <2>4
<1>19. CASE UsersDeleteAnswers
  <2>1. TablesOK'
    BY <1>19, <1>r, RequestTypes DEF TablesOK, UsersDeleteAnswers, Goto, At, tables, columns, derived, solving, counters, handler, pool
  <2>2. HandlerOK'
    BY <1>19, <1>r, RequestTypes, NoRequestType DEF HandlerOK, IdsOK, TablesOK, Labels, QuestsOf, UsersDeleteAnswers, Goto, At, tables, columns, derived, solving, counters, handler, pool
  <2>3. PoolOK'
    BY <1>19, <1>r, RequestTypes DEF PoolOK, TablesOK, UsersDeleteAnswers, Goto, At, tables, columns, derived, solving, counters, handler, pool
  <2>4. IdsOK'
    BY <1>19, <1>r, RequestTypes DEF IdsOK, HandlerOK, TablesOK, QuestId, UsersDeleteAnswers, Goto, At, tables, columns, derived, solving, counters, handler, pool
  <2> QED BY <2>1, <2>2, <2>3, <2>4
<1>20. CASE UsersDeleteRow
  <2>1. TablesOK'
    BY <1>20, <1>r, RequestTypes DEF TablesOK, UsersDeleteRow, Finish, At, tables, columns, derived, solving, counters, handler, pool
  <2>2. HandlerOK'
    BY <1>20, <1>r, RequestTypes, NoRequestType DEF HandlerOK, IdsOK, TablesOK, Labels, QuestsOf, UsersDeleteRow, Finish, At, tables, columns, derived, solving, counters, handler, pool
  <2>3. PoolOK'
    BY <1>20, <1>r, RequestTypes DEF PoolOK, TablesOK, UsersDeleteRow, Finish, At, tables, columns, derived, solving, counters, handler, pool
  <2>4. IdsOK'
    BY <1>20, <1>r, RequestTypes DEF IdsOK, HandlerOK, TablesOK, QuestId, UsersDeleteRow, Finish, At, tables, columns, derived, solving, counters, handler, pool
  <2> QED BY <2>1, <2>2, <2>3, <2>4
<1>21. ASSUME NEW t \in Threads, TakeTask(t) PROVE Structure'
  <2>1. TablesOK'
    BY <1>21, <1>r, RequestTypes DEF TablesOK, TakeTask, tables, columns, derived, solving, counters, handler, pool
  <2>2. HandlerOK'
    BY <1>21, <1>r, RequestTypes, NoRequestType DEF HandlerOK, IdsOK, TablesOK, Labels, QuestsOf, TakeTask, tables, columns, derived, solving, counters, handler, pool
  <2>3. PoolOK'
    BY <1>21, <1>r, RequestTypes, TaskTypes, QueueTypes DEF PoolOK, TablesOK, TakeTask, tables, columns, derived, solving, counters, handler, pool
  <2>4. IdsOK'
    BY <1>21, <1>r, RequestTypes DEF IdsOK, HandlerOK, TablesOK, QuestId, TakeTask, tables, columns, derived, solving, counters, handler, pool
  <2> QED BY <2>1, <2>2, <2>3, <2>4
<1>22. ASSUME NEW t \in Threads, ReadRating(t) PROVE Structure'
  <2>1. TablesOK'
    BY <1>22, <1>r, RequestTypes DEF TablesOK, ReadRating, tables, columns, derived, solving, counters, handler, pool
  <2>2. HandlerOK'
    BY <1>22, <1>r, RequestTypes, NoRequestType DEF HandlerOK, IdsOK, TablesOK, Labels, QuestsOf, ReadRating, tables, columns, derived, solving, counters, handler, pool
  <2>3. PoolOK'
    BY <1>22, <1>r, RequestTypes DEF PoolOK, TablesOK, ReadRating, tables, columns, derived, solving, counters, handler, pool
  <2>4. IdsOK'
    BY <1>22, <1>r, RequestTypes DEF IdsOK, HandlerOK, TablesOK, QuestId, ReadRating, tables, columns, derived, solving, counters, handler, pool
  <2> QED BY <2>1, <2>2, <2>3, <2>4
<1>23. ASSUME NEW t \in Threads, WriteRating(t) PROVE Structure'
  <2>1. TablesOK'
    BY <1>23, <1>r, RequestTypes DEF TablesOK, WriteRating, Idle, tables, columns, derived, solving, counters, handler, pool
  <2>2. HandlerOK'
    BY <1>23, <1>r, RequestTypes, NoRequestType DEF HandlerOK, IdsOK, TablesOK, Labels, QuestsOf, WriteRating, Idle, tables, columns, derived, solving, counters, handler, pool
  <2>3. PoolOK'
    BY <1>23, <1>r, RequestTypes DEF PoolOK, TablesOK, WriteRating, Idle, tables, columns, derived, solving, counters, handler, pool
  <2>4. IdsOK'
    BY <1>23, <1>r, RequestTypes DEF IdsOK, HandlerOK, TablesOK, QuestId, WriteRating, Idle, tables, columns, derived, solving, counters, handler, pool
  <2> QED BY <2>1, <2>2, <2>3, <2>4
<1>24. ASSUME NEW t \in Threads, CountSolved(t) PROVE Structure'
  <2>1. TablesOK'
    BY <1>24, <1>r, RequestTypes DEF TablesOK, CountSolved, Idle, tables, columns, derived, solving, counters, handler, pool
  <2>2. HandlerOK'
    BY <1>24, <1>r, RequestTypes, NoRequestType DEF HandlerOK, IdsOK, TablesOK, Labels, QuestsOf, CountSolved, Idle, tables, columns, derived, solving, counters, handler, pool
  <2>3. PoolOK'
    BY <1>24, <1>r, RequestTypes DEF PoolOK, TablesOK, CountSolved, Idle, tables, columns, derived, solving, counters, handler, pool
  <2>4. IdsOK'
    BY <1>24, <1>r, RequestTypes DEF IdsOK, HandlerOK, TablesOK, QuestId, CountSolved, Idle, tables, columns, derived, solving, counters, handler, pool
  <2> QED BY <2>1, <2>2, <2>3, <2>4
<1>25. ASSUME NEW t \in Threads, SumMaxScore(t) PROVE Structure'
  <2>1. TablesOK'
    BY <1>25, <1>r, RequestTypes DEF TablesOK, SumMaxScore, Idle, tables, columns, derived, solving, counters, handler, pool
  <2>2. HandlerOK'
    BY <1>25, <1>r, RequestTypes, NoRequestType DEF HandlerOK, IdsOK, TablesOK, Labels, QuestsOf, SumMaxScore, Idle, tables, columns, derived, solving, counters, handler, pool
  <2>3. PoolOK'
    BY <1>25, <1>r, RequestTypes DEF PoolOK, TablesOK, SumMaxScore, Idle, tables, columns, derived, solving, counters, handler, pool
  <2>4. IdsOK'
    BY <1>25, <1>r, RequestTypes DEF IdsOK, HandlerOK, TablesOK, QuestId, SumMaxScore, Idle, tables, columns, derived, solving, counters, handler, pool
  <2> QED BY <2>1, <2>2, <2>3, <2>4
<1>26. ASSUME NEW t \in Threads, TaskFails(t) PROVE Structure'
  <2>1. TablesOK'
    BY <1>26, <1>r, RequestTypes DEF TablesOK, TaskFails, Idle, Lose, tables, columns, derived, solving, counters, handler, pool
  <2>2. HandlerOK'
    BY <1>26, <1>r, RequestTypes, NoRequestType DEF HandlerOK, IdsOK, TablesOK, Labels, QuestsOf, TaskFails, Idle, Lose, tables, columns, derived, solving, counters, handler, pool
  <2>3. PoolOK'
    BY <1>26, <1>r, RequestTypes DEF PoolOK, TablesOK, TaskFails, Idle, Lose, tables, columns, derived, solving, counters, handler, pool
  <2>4. IdsOK'
    BY <1>26, <1>r, RequestTypes DEF IdsOK, HandlerOK, TablesOK, QuestId, TaskFails, Idle, Lose, tables, columns, derived, solving, counters, handler, pool
  <2> QED BY <2>1, <2>2, <2>3, <2>4
<1>27. CASE StatementFails
  <2>1. TablesOK'
    BY <1>27, <1>r, RequestTypes DEF TablesOK, StatementFails, Finish, At, Lose, tables, columns, derived, solving, counters, handler, pool
  <2>2. HandlerOK'
    BY <1>27, <1>r, RequestTypes, NoRequestType DEF HandlerOK, IdsOK, TablesOK, Labels, QuestsOf, StatementFails, Finish, At, Lose, tables, columns, derived, solving, counters, handler, pool
  <2>3. PoolOK'
    BY <1>27, <1>r, RequestTypes DEF PoolOK, TablesOK, StatementFails, Finish, At, Lose, tables, columns, derived, solving, counters, handler, pool
  <2>4. IdsOK'
    BY <1>27, <1>r, RequestTypes DEF IdsOK, HandlerOK, TablesOK, QuestId, StatementFails, Finish, At, Lose, tables, columns, derived, solving, counters, handler, pool
  <2> QED BY <2>1, <2>2, <2>3, <2>4
<1>28. CASE Crash
  <2>1. TablesOK'
    BY <1>28, <1>r, RequestTypes DEF TablesOK, Crash, Finish, Lose, tables, columns, derived, solving, counters, handler, pool
  <2>2. HandlerOK'
    BY <1>28, <1>r, RequestTypes, NoRequestType DEF HandlerOK, IdsOK, TablesOK, Labels, QuestsOf, Crash, Finish, Lose, tables, columns, derived, solving, counters, handler, pool
  <2>3. PoolOK'
    BY <1>28, <1>r, RequestTypes DEF PoolOK, TablesOK, Crash, Finish, Lose, tables, columns, derived, solving, counters, handler, pool
  <2>4. IdsOK'
    BY <1>28, <1>r, RequestTypes DEF IdsOK, HandlerOK, TablesOK, QuestId, Crash, Finish, Lose, tables, columns, derived, solving, counters, handler, pool
  <2> QED BY <2>1, <2>2, <2>3, <2>4
<1>30. ASSUME NEW r \in Requests, LeaksBuy(r) PROVE Structure'
  <2>1. TablesOK'
    BY <1>30, <1>r, RequestTypes DEF TablesOK, LeaksBuy, Serve, tables, columns, derived, solving, counters, handler, pool
  <2>2. HandlerOK'
    BY <1>30, <1>r, RequestTypes, NoRequestType DEF HandlerOK, IdsOK, TablesOK, Labels, QuestsOf, LeaksBuy, Serve, tables, columns, derived, solving, counters, handler, pool
  <2>3. PoolOK'
    BY <1>30, <1>r, RequestTypes DEF PoolOK, TablesOK, LeaksBuy, Serve, tables, columns, derived, solving, counters, handler, pool
  <2>4. IdsOK'
    BY <1>30, <1>r, RequestTypes DEF IdsOK, HandlerOK, TablesOK, QuestId, LeaksBuy, Serve, tables, columns, derived, solving, counters, handler, pool
  <2> QED BY <2>1, <2>2, <2>3, <2>4
<1>31. CASE DatabaseRestart
  <2>1. TablesOK'
    BY <1>31, <1>r, RequestTypes DEF TablesOK, DatabaseRestart, At, Finish, Lose, tables, columns, derived, solving, counters, handler, pool
  <2>2. HandlerOK'
    BY <1>31, <1>r, RequestTypes, NoRequestType DEF HandlerOK, IdsOK, TablesOK, Labels, QuestsOf, DatabaseRestart, At, Finish, Lose, tables, columns, derived, solving, counters, handler, pool
  <2>3. PoolOK'
    BY <1>31, <1>r, RequestTypes DEF PoolOK, TablesOK, DatabaseRestart, At, Finish, Lose, tables, columns, derived, solving, counters, handler, pool
  <2>4. IdsOK'
    BY <1>31, <1>r, RequestTypes DEF IdsOK, HandlerOK, TablesOK, QuestId, DatabaseRestart, At, Finish, Lose, tables, columns, derived, solving, counters, handler, pool
  <2> QED BY <2>1, <2>2, <2>3, <2>4
<1>29. CASE UNCHANGED vars
  <2>1. TablesOK'
    BY <1>29, <1>r, RequestTypes DEF TablesOK, vars, tables, columns, derived, solving, counters, handler, pool
  <2>2. HandlerOK'
    BY <1>29, <1>r, RequestTypes, NoRequestType DEF HandlerOK, IdsOK, TablesOK, Labels, QuestsOf, vars, tables, columns, derived, solving, counters, handler, pool
  <2>3. PoolOK'
    BY <1>29, <1>r, RequestTypes DEF PoolOK, TablesOK, vars, tables, columns, derived, solving, counters, handler, pool
  <2>4. IdsOK'
    BY <1>29, <1>r, RequestTypes DEF IdsOK, HandlerOK, TablesOK, QuestId, vars, tables, columns, derived, solving, counters, handler, pool
  <2> QED BY <2>1, <2>2, <2>3, <2>4
<1> QED BY <1>1, <1>2, <1>3, <1>4, <1>5, <1>6, <1>7, <1>8, <1>9, <1>10, <1>11, <1>12, <1>13, <1>14, <1>15, <1>16, <1>17, <1>18, <1>19, <1>20, <1>21, <1>22, <1>23, <1>24, <1>25, <1>26, <1>27, <1>28, <1>29,
         <1>30, <1>31
       DEF Next, TakeRequest, Handle, RunTask

(* The tables, the handler and the pool keep their types; no quest has the *)
(* id that auto_increment is still to hand out, restarts of the database   *)
(* included, and a handler that deletes finds what its earlier statements  *)
(* left (quest_delete, game_delete, users_delete).                         *)
THEOREM StructureHolds == Spec => []Structure
<1>1. Init => Structure BY InitStructure
<1>2. Structure /\ [Next]_vars => Structure' BY NextStructure
<1> QED BY <1>1, <1>2, PTL DEF Spec
-----------------------------------------------------------------------------
(* Solved quests and answers.  At pass.credit the row about to be inserted *)
(* has its answer already.                                                 *)
YesInv == PassHasYesAnswer
            /\ (pc = "pass.credit" => HasYes(req.user, req.questid))

LEMMA NextYesInv == Structure /\ YesInv /\ [Next]_vars => YesInv'
<1> SUFFICES ASSUME Structure, YesInv, [Next]_vars PROVE YesInv'
  OBVIOUS
<1>r. req \in Requests BY DEF Structure, HandlerOK
<1>t. TablesOK BY DEF Structure
<1>u. CASE UNCHANGED <<quests, solving, torn>> /\ (pc' # "pass.credit" \/ UNCHANGED <<pc, req>>)
  BY <1>u DEF YesInv, PassHasYesAnswer, HasYes, solving
<1>1. ASSUME NEW r \in Requests, QuestPass(r) PROVE YesInv'
  <2>1. \A u \in Users, q \in QuestId : HasYes(u, q) => HasYes(u, q)'
    <3>1. \A row \in DOMAIN users_quests_answers :
            users_quests_answers'[row] >= users_quests_answers[row]
      BY <1>1, <1>t DEF QuestPass, TablesOK
    <3>2. ASSUME NEW u \in Users, NEW q \in QuestId, NEW a \in Answers,
                 users_quests_answers[<<u, q, a, "Yes">>] > 0
          PROVE  users_quests_answers'[<<u, q, a, "Yes">>] > 0
      <4>1. <<u, q, a, "Yes">> \in Users \X QuestId \X Answers \X {"Yes", "No"}
        OBVIOUS
      <4>2. PICK row \in Users \X QuestId \X Answers \X {"Yes", "No"} : row = <<u, q, a, "Yes">>
        BY <4>1
      <4>3. users_quests_answers'[row] >= users_quests_answers[row]
            /\ users_quests_answers[row] \in Nat /\ users_quests_answers'[row] \in Nat
        BY <3>1, <1>1, <1>t DEF QuestPass, TablesOK
      <4> QED BY <3>2, <4>2, <4>3
    <3> QED BY <3>2 DEF HasYes
  <2>2. pc' = "pass.credit" => req' = r /\ HasYes(r.user, r.questid)'
    BY <1>1, <1>t, RequestTypes DEF QuestPass, Serve, AfterAnswer, TablesOK, HasYes
  <2> QED BY <2>1, <2>2, <1>1, <1>t DEF QuestPass, YesInv, PassHasYesAnswer, tables,
            drift, TablesOK
<1>2. ASSUME NEW r \in Requests, QuestsAdd(r) PROVE YesInv'
  <2>1. ASSUME NEW row \in users_quests, row[2] \in quests' \ torn'
        PROVE  row[2] \in quests \ torn
    <3>1. row[1] \in Users /\ row = <<row[1], row[2]>>
      BY <1>t DEF TablesOK
    <3>2. CASE row[2] = next_id
      BY <1>2, <2>1, <3>1, <3>2 DEF QuestsAdd, LeftOver, Passers
    <3>3. CASE row[2] # next_id
      BY <1>2, <2>1, <3>3 DEF QuestsAdd
    <3> QED BY <3>2, <3>3
  <2>2. PassHasYesAnswer'
    BY <1>2, <2>1 DEF QuestsAdd, YesInv, PassHasYesAnswer, HasYes, solving
  <2> QED BY <1>2, <2>2 DEF QuestsAdd, Serve, YesInv
<1>3. ASSUME NEW r \in Requests, QuestDelete(r) PROVE YesInv'
  BY <1>3 DEF QuestDelete, Serve, YesInv, PassHasYesAnswer, HasYes, solving
<1>4. ASSUME NEW r \in Requests, QuestUpdate(r) PROVE YesInv'
  BY <1>4, <1>u DEF QuestUpdate, Serve, tables, drift
<1>5. ASSUME NEW r \in Requests, GameDelete(r) PROVE YesInv'
  BY <1>5, <1>t DEF GameDelete, Serve, WithoutAnswers, YesInv, PassHasYesAnswer, HasYes,
       TablesOK, tables
<1>6. ASSUME NEW r \in Requests, UsersDelete(r) PROVE YesInv'
  BY <1>6 DEF UsersDelete, Serve, YesInv, PassHasYesAnswer, HasYes, tables
<1>7. CASE StartTask
  BY <1>7, <1>u DEF StartTask, tables, drift
<1>8. CASE PassCredit
  <2>1. HasYes(req.user, req.questid) /\ UNCHANGED <<users_quests_answers, quests, torn>>
    BY <1>8 DEF PassCredit, At, YesInv, tables, drift
  <2>2. \A u, q : HasYes(u, q)' <=> HasYes(u, q)
    BY <2>1 DEF HasYes
  <2>3. ASSUME NEW row \in users_quests', row[2] \in quests \ torn
        PROVE  HasYes(row[1], row[2])
    <3>1. CASE row \in users_quests
      BY <3>1, <2>3 DEF YesInv, PassHasYesAnswer
    <3>2. CASE row = <<req.user, req.questid>>
      BY <3>2, <2>1
    <3> QED BY <3>1, <3>2, <1>8 DEF PassCredit
  <2> QED BY <2>1, <2>2, <2>3, <1>8 DEF PassCredit, Finish, YesInv, PassHasYesAnswer
<1>9. CASE DeleteAnswers
  BY <1>9, <1>r, <1>t, RequestTypes DEF DeleteAnswers, At, Goto, Structure, HandlerOK,
       WithoutAnswers, YesInv, PassHasYesAnswer, HasYes, TablesOK, tables, drift
<1>10. CASE DeletePasses
  BY <1>10 DEF DeletePasses, At, Finish, YesInv, PassHasYesAnswer, HasYes, tables, drift
<1>11. CASE UpdateGameNotFound
  BY <1>11, <1>u DEF UpdateGameNotFound, At, Finish, tables, drift
<1>12. CASE UpdateGameId
  BY <1>12, <1>u DEF UpdateGameId, At, Goto, tables, drift
<1>13. CASE UpdateScore
  BY <1>13, <1>u DEF UpdateScore, At, Goto, tables
<1>14. CASE UpdateAnswer
  BY <1>14, <1>u DEF UpdateAnswer, At, Goto, tables, drift
<1>15. CASE UpdateState
  BY <1>15, <1>u DEF UpdateState, At, Finish, tables
<1>16. CASE GameDeletePasses
  BY <1>16 DEF GameDeletePasses, At, Goto, YesInv, PassHasYesAnswer, HasYes, tables
<1>17. CASE GameDeleteQuests
  BY <1>17 DEF GameDeleteQuests, At, Goto, YesInv, PassHasYesAnswer, HasYes, solving
<1>18. CASE GameDeleteRow
  BY <1>18, <1>u DEF GameDeleteRow, At, Finish, drift
<1>19. CASE UsersDeleteAnswers
  BY <1>19, <1>r, <1>t, RequestTypes DEF UsersDeleteAnswers, At, Goto, Structure,
       HandlerOK, YesInv, PassHasYesAnswer, HasYes, TablesOK, tables, drift
<1>20. CASE UsersDeleteRow
  BY <1>20, <1>u DEF UsersDeleteRow, At, Finish, drift
<1>21. ASSUME NEW t \in Threads, RunTask(t) \/ TaskFails(t) PROVE YesInv'
  BY <1>21, <1>u DEF RunTask, TakeTask, ReadRating, WriteRating, CountSolved, SumMaxScore,
       TaskFails, Lose, handler, tables, drift
<1>22. CASE StatementFails \/ Crash \/ DatabaseRestart
  BY <1>22, <1>u DEF StatementFails, Crash, DatabaseRestart, Finish, Lose, tables
<1>24. ASSUME NEW r \in Requests, LeaksBuy(r) PROVE YesInv'
  BY <1>24, <1>u DEF LeaksBuy, Serve, tables, drift
<1>23. CASE UNCHANGED vars
  BY <1>23, <1>u DEF vars, tables, drift, handler
<1> QED BY <1>1, <1>2, <1>3, <1>4, <1>5, <1>6, <1>7, <1>8, <1>9, <1>10, <1>11, <1>12,
         <1>13, <1>14, <1>15, <1>16, <1>17, <1>18, <1>19, <1>20, <1>21, <1>22, <1>23,
         <1>24
       DEF Next, TakeRequest, Handle

(* Whatever statements are refused and whenever the process is killed, a   *)
(* solved quest still in the tables has its right answer on record.        *)
THEOREM PassesHaveAnswers == Spec => []PassHasYesAnswer
<1>1. Init => YesInv
  BY DEF Init, YesInv, PassHasYesAnswer
<1>2. Structure /\ YesInv /\ [Next]_vars => YesInv' BY NextYesInv
<1>3. YesInv => PassHasYesAnswer BY DEF YesInv
<1> QED BY <1>1, <1>2, <1>3, StructureHolds, PTL DEF Spec
-----------------------------------------------------------------------------
(* Right answers and solved quests agree but for what the handler is in    *)
(* the middle of: the row it has still to insert, those still to delete.   *)
Agree(u, q) == HasYes(u, q) <=> <<u, q>> \in users_quests

(* The answers to the quest are deleted, its solved rows are next.         *)
Cleared(q) == \/ pc = "delete.passes" /\ q = req.questid
              \/ pc = "game.passes" /\ q \in QuestsOf(req.gameid)

InPassing(u, q) == \/ pc = "pass.credit" /\ u = req.user /\ q = req.questid
                   \/ pc = "user.answers" /\ u = req.userid

CreditOK(u, q) == IF Cleared(q) THEN ~HasYes(u, q) ELSE Agree(u, q) \/ InPassing(u, q)

CreditInv == faults = 0 => \A u \in Users, q \in QuestId : CreditOK(u, q)

LEMMA CreditKept ==
  ASSUME NEW u, NEW q, CreditOK(u, q), UNCHANGED <<solving, pc, req, quests, gameid>>
  PROVE  CreditOK(u, q)'
BY DEF CreditOK, Cleared, Agree, InPassing, HasYes, QuestsOf, solving

LEMMA NextCreditInv == Structure /\ YesInv /\ CreditInv /\ [Next]_vars => CreditInv'
<1> SUFFICES ASSUME Structure, YesInv, CreditInv, [Next]_vars, faults' = 0,
                    NEW u \in Users, NEW q \in QuestId
             PROVE  CreditOK(u, q)'
  BY DEF CreditInv
<1>r. req \in Requests BY DEF Structure, HandlerOK
<1>t. TablesOK BY DEF Structure
<1>i. faults = 0 => CreditOK(u, q)
  BY DEF CreditInv
<1>z. ~ (0 > 0)
  OBVIOUS
<1>row. \A a \in Answers : /\ <<u, q, a, "Yes">> \in DOMAIN users_quests_answers
                           /\ <<u, q, a, "Yes">>[1] = u /\ <<u, q, a, "Yes">>[2] = q
  BY <1>t DEF TablesOK
<1>u. CASE /\ UNCHANGED <<solving, faults>> /\ ~Cleared(q) /\ ~InPassing(u, q) /\ ~Cleared(q)'
  BY <1>u, <1>i DEF CreditOK, Agree, HasYes, solving
<1>1. ASSUME NEW r \in Requests, QuestPass(r) PROVE CreditOK(u, q)'
  <2>1. Agree(u, q) /\ ~Cleared(q)'
    BY <1>1, <1>i DEF QuestPass, Serve, At, AfterAnswer, CreditOK, Cleared, InPassing
  <2>2. CASE r.user = u /\ r.questid = q /\ answer[q] = r.answer
    <3>1. InPassing(u, q)'
      BY <1>1, <2>2 DEF QuestPass, Serve, AfterAnswer, InPassing
    <3> QED BY <2>1, <3>1 DEF CreditOK
  <2>3. CASE ~(r.user = u /\ r.questid = q /\ answer[q] = r.answer)
    <3>1. Agree(u, q)'
      BY <1>1, <2>1, <2>3, <1>t, RequestTypes DEF QuestPass, Agree, HasYes, TablesOK
    <3> QED BY <2>1, <3>1 DEF CreditOK
  <2> QED BY <2>2, <2>3
<1>2. ASSUME NEW r \in Requests,
             QuestsAdd(r) \/ QuestDelete(r) \/ QuestUpdate(r) \/ LeaksBuy(r)
      PROVE  CreditOK(u, q)'
  BY <1>2, <1>u DEF QuestsAdd, QuestDelete, QuestUpdate, LeaksBuy, Serve, At, Cleared, InPassing
<1>5. ASSUME NEW r \in Requests, GameDelete(r) PROVE CreditOK(u, q)'
  <2>1. Agree(u, q)
    BY <1>5, <1>i DEF GameDelete, Serve, At, CreditOK, Cleared, InPassing
  <2>2. Cleared(q)' <=> q \in QuestsOf(r.gameid)
    BY <1>5 DEF GameDelete, Serve, QuestsOf, tables, columns, Cleared
  <2>3. \A a \in Answers : users_quests_answers'[<<u, q, a, "Yes">>] =
            IF q \in QuestsOf(r.gameid) THEN 0 ELSE users_quests_answers[<<u, q, a, "Yes">>]
    BY <1>5, <1>row DEF GameDelete, WithoutAnswers
  <2>4. HasYes(u, q)' <=> HasYes(u, q) /\ q \notin QuestsOf(r.gameid)
    BY <1>z, <2>3 DEF HasYes
  <2>5. users_quests' = users_quests
    BY <1>5 DEF GameDelete
  <2> QED BY <2>1, <2>2, <2>4, <2>5 DEF CreditOK, Agree
<1>6. ASSUME NEW r \in Requests, UsersDelete(r) PROVE CreditOK(u, q)'
  <2>1. Agree(u, q)
    BY <1>6, <1>i DEF UsersDelete, Serve, At, CreditOK, Cleared, InPassing
  <2> QED BY <1>6, <2>1 DEF UsersDelete, Serve, CreditOK, Cleared, Agree, InPassing, HasYes
<1>7. CASE StartTask
  <2>1. UNCHANGED <<solving, faults, pc, req, quests, gameid>>
    BY <1>7 DEF StartTask, tables, columns
  <2> QED BY <1>i, <2>1, CreditKept
<1>8. CASE PassCredit
  <2>1. ~Cleared(q)' /\ (Agree(u, q) \/ (u = req.user /\ q = req.questid))
    BY <1>8, <1>i DEF PassCredit, At, Finish, CreditOK, Cleared, InPassing
  <2>2. Agree(u, q)'
    BY <1>8, <2>1 DEF PassCredit, At, YesInv, Agree, HasYes
  <2> QED BY <2>1, <2>2 DEF CreditOK
<1>9. CASE DeleteAnswers
  <2>1. Agree(u, q)
    BY <1>9, <1>i DEF DeleteAnswers, At, CreditOK, Cleared, InPassing
  <2>2. Cleared(q)' <=> q = req.questid
    BY <1>9 DEF DeleteAnswers, Goto, Cleared
  <2>3. \A a \in Answers : users_quests_answers'[<<u, q, a, "Yes">>] =
            IF q = req.questid THEN 0 ELSE users_quests_answers[<<u, q, a, "Yes">>]
    BY <1>9, <1>row DEF DeleteAnswers, WithoutAnswers
  <2>4. HasYes(u, q)' <=> HasYes(u, q) /\ q # req.questid
    BY <1>z, <2>3 DEF HasYes
  <2>5. users_quests' = users_quests
    BY <1>9 DEF DeleteAnswers
  <2> QED BY <2>1, <2>2, <2>4, <2>5 DEF CreditOK, Agree
<1>10. CASE DeletePasses
  <2>1. IF q = req.questid THEN ~HasYes(u, q) ELSE Agree(u, q)
    BY <1>10, <1>i DEF DeletePasses, At, CreditOK, Cleared, InPassing
  <2>2. Agree(u, q)' /\ ~Cleared(q)'
    BY <1>10, <2>1 DEF DeletePasses, Finish, Cleared, Agree, HasYes
  <2> QED BY <2>2 DEF CreditOK
<1>11. CASE UpdateGameNotFound \/ UpdateGameId \/ UpdateScore \/ UpdateAnswer \/ UpdateState
  BY <1>11, <1>u DEF UpdateGameNotFound, UpdateGameId, UpdateScore, UpdateAnswer, UpdateState,
       At, Goto, Finish, Cleared, InPassing
<1>16. CASE GameDeletePasses
  <2>1. IF q \in QuestsOf(req.gameid) THEN ~HasYes(u, q) ELSE Agree(u, q)
    BY <1>16, <1>i DEF GameDeletePasses, At, CreditOK, Cleared, InPassing
  <2>2. Agree(u, q)' /\ ~Cleared(q)'
    BY <1>16, <2>1 DEF GameDeletePasses, Goto, Cleared, Agree, HasYes
  <2> QED BY <2>2 DEF CreditOK
<1>17. CASE GameDeleteQuests \/ GameDeleteRow \/ UsersDeleteRow
  BY <1>17, <1>u DEF GameDeleteQuests, GameDeleteRow, UsersDeleteRow, At, Goto, Finish, Cleared,
       InPassing
<1>19. CASE UsersDeleteAnswers
  <2>1. ~Cleared(q)' /\ (Agree(u, q) \/ u = req.userid)
    BY <1>19, <1>i DEF UsersDeleteAnswers, At, Goto, CreditOK, Cleared, InPassing
  <2>2. u = req.userid => <<u, q>> \notin users_quests
    BY <1>19 DEF UsersDeleteAnswers, At, Structure, HandlerOK
  <2>3. \A a \in Answers : users_quests_answers'[<<u, q, a, "Yes">>] =
            IF u = req.userid THEN 0 ELSE users_quests_answers[<<u, q, a, "Yes">>]
    BY <1>19, <1>row DEF UsersDeleteAnswers
  <2>4. HasYes(u, q)' <=> HasYes(u, q) /\ u # req.userid
    BY <1>z, <2>3 DEF HasYes
  <2>5. users_quests' = users_quests
    BY <1>19 DEF UsersDeleteAnswers
  <2> QED BY <2>1, <2>2, <2>4, <2>5 DEF CreditOK, Agree
<1>21. ASSUME NEW t \in Threads, RunTask(t) PROVE CreditOK(u, q)'
  <2>1. UNCHANGED <<solving, faults, pc, req, quests, gameid>>
    BY <1>21 DEF RunTask, TakeTask, ReadRating, WriteRating, CountSolved, SumMaxScore, handler,
         tables, columns
  <2> QED BY <1>i, <2>1, CreditKept
<1>22. ~(StatementFails \/ Crash \/ DatabaseRestart \/ \E t \in Threads : TaskFails(t))
  BY DEF StatementFails, Crash, DatabaseRestart, TaskFails, Lose, Structure, TablesOK
<1>23. CASE UNCHANGED vars
  <2>1. UNCHANGED <<solving, faults, pc, req, quests, gameid>>
    BY <1>23 DEF vars, handler, tables, columns
  <2> QED BY <1>i, <2>1, CreditKept
<1> QED BY <1>1, <1>2, <1>5, <1>6, <1>7, <1>8, <1>9, <1>10, <1>11, <1>16, <1>17, <1>19, <1>21,
         <1>22, <1>23 DEF Next, TakeRequest, Handle

(* With no fault, between two requests a right answer on record is a       *)
(* solved quest, and the reverse.                                          *)
THEOREM AnswersAreCredited == Spec => []YesAnswerIsCredited
<1>1. Init => CreditInv
  <2> SUFFICES ASSUME Init, NEW u \in Users, NEW q \in QuestId PROVE CreditOK(u, q)
    BY DEF CreditInv
  <2>1. ~HasYes(u, q)
    <3>1. \A a \in Answers : users_quests_answers[<<u, q, a, "Yes">>] = 0
      BY DEF Init
    <3>2. ~ (0 > 0)
      OBVIOUS
    <3> QED BY <3>1, <3>2 DEF HasYes
  <2>2. <<u, q>> \notin users_quests
    BY DEF Init
  <2> QED BY <2>1, <2>2 DEF CreditOK, Agree
<1>2. Init => YesInv
  BY DEF Init, YesInv, PassHasYesAnswer
<1>3. Structure /\ YesInv /\ [Next]_vars => YesInv'
  BY NextYesInv
<1>4. Structure /\ YesInv /\ CreditInv /\ [Next]_vars => CreditInv'
  BY NextCreditInv
<1>5. CreditInv => YesAnswerIsCredited
  BY DEF CreditInv, CreditOK, Cleared, InPassing, Agree, YesAnswerIsCredited
<1> QED BY <1>1, <1>2, <1>3, <1>4, <1>5, StructureHolds, PTL DEF Spec
-----------------------------------------------------------------------------
(* The counters.  The rows counted are finitely many.                      *)
Rows == Users \X QuestId \X Answers \X {"Yes", "No"}

LEMMA RowsFinite == IsFiniteSet(Rows)
<1> DEFINE S == Users \X QuestId
           T == Answers \X {"Yes", "No"}
           f == [row \in Rows |-> <<<<row[1], row[2]>>, <<row[3], row[4]>>>>]
<1>1. IsFiniteSet(QuestId)
  BY QuestAssumption, FS_Interval DEF QuestId
<1>2. IsFiniteSet({"Yes", "No"})
  <2>1. IsFiniteSet({"Yes"})
    BY FS_Singleton
  <2>2. IsFiniteSet({"Yes"} \cup {"No"})
    BY <2>1, FS_AddElement
  <2>3. {"Yes", "No"} = {"Yes"} \cup {"No"}
    OBVIOUS
  <2> QED BY <2>2, <2>3
<1>3. IsFiniteSet(S) /\ IsFiniteSet(T)
  BY <1>1, <1>2, QuestAssumption, FS_Product
<1>4. f \in Injection(Rows, S \X T)
  <2>1. f \in [Rows -> S \X T]
    BY DEF Rows
  <2>2. ASSUME NEW a \in Rows, NEW b \in Rows, f[a] = f[b] PROVE a = b
    <3>1. f[a] = <<<<a[1], a[2]>>, <<a[3], a[4]>>>> /\ f[b] = <<<<b[1], b[2]>>, <<b[3], b[4]>>>>
      OBVIOUS
    <3>2. a[1] = b[1] /\ a[2] = b[2] /\ a[3] = b[3] /\ a[4] = b[4]
      BY <2>2, <3>1
    <3>3. a = <<a[1], a[2], a[3], a[4]>> /\ b = <<b[1], b[2], b[3], b[4]>>
      BY DEF Rows
    <3> QED BY <3>2, <3>3
  <2> QED BY <2>1, <2>2 DEF Injection, IsInjective
<1>5. IsFiniteSet(S \X T)
  BY <1>3, FS_Product
<1> QED BY <1>4, <1>5, FS_Injection

LEMMA TablesFinite ==
  ASSUME TablesOK
  PROVE  /\ IsFiniteSet(quests) /\ Cardinality(quests) \in Nat
         /\ IsFiniteSet(users_quests) /\ Cardinality(users_quests) \in Nat
<1>1. IsFiniteSet(QuestId)
  BY QuestAssumption, FS_Interval DEF QuestId
<1>2. IsFiniteSet(Users \X QuestId)
  BY <1>1, QuestAssumption, FS_Product
<1>3. quests \in SUBSET QuestId /\ users_quests \in SUBSET (Users \X QuestId)
  BY DEF TablesOK
<1>4. IsFiniteSet(quests) /\ IsFiniteSet(users_quests)
  BY <1>1, <1>2, <1>3, FS_Subset
<1> QED BY <1>4, FS_CardinalityType

LEMMA TriesDef == TablesOK => SumTries = SumFunctionOnSet(users_quests_answers, Rows)
BY DEF TablesOK, SumTries, SumFunction, Rows

LEMMA TriesNat == TablesOK => SumTries \in Nat
<1> SUFFICES ASSUME TablesOK PROVE SumTries \in Nat
  OBVIOUS
<1>1. \A row \in Rows : users_quests_answers[row] \in Nat
  BY DEF TablesOK, Rows
<1> QED BY <1>1, RowsFinite, TriesDef, SumIsNat

LEMMA TriesLess ==
  ASSUME TablesOK, TablesOK',
         \A row \in Rows : users_quests_answers'[row] <= users_quests_answers[row]
  PROVE  SumTries' <= SumTries
<1>1. \A row \in Rows : users_quests_answers[row] \in Int /\ users_quests_answers'[row] \in Int
  BY DEF TablesOK, Rows
<1>2. SumFunctionOnSet(users_quests_answers', Rows) <= SumFunctionOnSet(users_quests_answers, Rows)
  BY <1>1, RowsFinite, SumIsMonotone
<1>3. SumTries' = SumFunctionOnSet(users_quests_answers', Rows)
  BY DEF TablesOK, SumTries, SumFunction, Rows
<1> QED BY <1>2, <1>3, TriesDef

LEMMA TriesOneMore ==
  ASSUME TablesOK, TablesOK', NEW row \in Rows,
         users_quests_answers' = [users_quests_answers EXCEPT ![row] = @ + 1]
  PROVE  SumTries' = SumTries + 1
<1> DEFINE f == users_quests_answers
           g == users_quests_answers'
<1>1. \A y \in Rows : f[y] \in Nat /\ g[y] \in Nat
  BY DEF TablesOK, Rows
<1>2. g[row] = f[row] + 1 /\ \A y \in Rows \ {row} : f[y] = g[y]
  BY DEF TablesOK, Rows
<1>3. SumTries' = SumFunctionOnSet(g, Rows)
  BY DEF TablesOK, SumTries, SumFunction, Rows
<1>4. SumTries = SumFunctionOnSet(f, Rows)
  BY TriesDef
<1> HIDE DEF f, g
<1>5. SumFunctionOnSet(g, Rows) = SumFunctionOnSet(f, Rows) - f[row] + g[row]
  BY <1>1, <1>2, RowsFinite, SumWithOneChanged
<1>6. SumFunctionOnSet(f, Rows) \in Nat /\ f[row] \in Nat
  BY <1>1, RowsFinite, SumIsNat
<1> QED BY <1>2, <1>3, <1>4, <1>5, <1>6

(* The counter of the quests is one ahead while a deletion is under way.   *)
Deleting == pc \in {"delete.answers", "delete.passes"}

QuestsCounted == /\ m_nCountQuests \in Int /\ m_nCountQuests >= Cardinality(quests)
                 /\ Deleting => m_nCountQuests >= Cardinality(quests) + 1

TriesCounted == m_nCountQuestsAttempt \in Nat /\ m_nCountQuestsAttempt >= SumTries

PassesCounted ==
  m_nCountQuestsCompleted \in Nat /\ m_nCountQuestsCompleted >= Cardinality(users_quests)

LEMMA NextQuestsCounted == Structure /\ QuestsCounted /\ [Next]_vars => QuestsCounted'
<1> SUFFICES ASSUME Structure, QuestsCounted, [Next]_vars PROVE QuestsCounted'
  OBVIOUS
<1>t. IsFiniteSet(quests) /\ Cardinality(quests) \in Nat
  BY TablesFinite DEF Structure
<1>c. m_nCountQuests \in Int /\ m_nCountQuests >= Cardinality(quests)
  BY DEF QuestsCounted
<1>u. CASE UNCHANGED <<quests, m_nCountQuests>> /\ (Deleting' => Deleting)
  BY <1>u DEF QuestsCounted
<1>1. ASSUME NEW r \in Requests, QuestPass(r) PROVE QuestsCounted'
  BY <1>1, <1>u DEF QuestPass, Serve, AfterAnswer, Deleting, tables
<1>2. ASSUME NEW r \in Requests, QuestsAdd(r) PROVE QuestsCounted'
  <2>1. quests' = quests \cup {next_id} /\ m_nCountQuests' = m_nCountQuests + 1 /\ ~Deleting'
    BY <1>2 DEF QuestsAdd, Serve, Deleting
  <2>2. Cardinality(quests') \in Nat /\ Cardinality(quests') <= Cardinality(quests) + 1
    BY <1>t, <2>1, FS_AddElement
  <2> QED BY <1>c, <1>t, <2>1, <2>2 DEF QuestsCounted
<1>3. ASSUME NEW r \in Requests, QuestDelete(r) PROVE QuestsCounted'
  <2>1. quests' = quests \ {r.questid} /\ r.questid \in quests /\ UNCHANGED m_nCountQuests
    BY <1>3 DEF QuestDelete, counters
  <2>2. Cardinality(quests') = Cardinality(quests) - 1
    BY <1>t, <2>1, FS_RemoveElement
  <2> QED BY <1>c, <1>t, <2>1, <2>2 DEF QuestsCounted
<1>4. ASSUME NEW r \in Requests, QuestUpdate(r) \/ GameDelete(r) \/ UsersDelete(r) \/ LeaksBuy(r)
      PROVE  QuestsCounted'
  BY <1>4, <1>u DEF LeaksBuy, QuestUpdate, GameDelete, UsersDelete, Serve, Deleting, tables, counters
<1>5. CASE DeleteAnswers
  BY <1>5, <1>u DEF DeleteAnswers, At, Deleting, tables, counters
<1>6. CASE DeletePasses
  <2>1. m_nCountQuests' = m_nCountQuests - 1 /\ UNCHANGED quests /\ Deleting /\ ~Deleting'
    BY <1>6 DEF DeletePasses, decrementQuests, At, Finish, Deleting, tables
  <2> QED BY <1>t, <2>1 DEF QuestsCounted
<1>7. CASE GameDeleteQuests
  <2>1. quests' \in SUBSET quests /\ UNCHANGED m_nCountQuests /\ ~Deleting'
    BY <1>7 DEF GameDeleteQuests, Goto, Deleting, counters
  <2>2. Cardinality(quests') <= Cardinality(quests) /\ Cardinality(quests') \in Nat
    BY <1>t, <2>1, FS_Subset, FS_CardinalityType
  <2> QED BY <1>c, <1>t, <2>1, <2>2 DEF QuestsCounted
<1>8. CASE \/ StartTask \/ PassCredit \/ UpdateGameNotFound \/ UpdateGameId \/ UpdateScore
           \/ UpdateAnswer \/ UpdateState \/ GameDeletePasses \/ GameDeleteRow
           \/ UsersDeleteAnswers \/ UsersDeleteRow
  BY <1>8, <1>u DEF StartTask, PassCredit, UpdateGameNotFound, UpdateGameId, UpdateScore,
       UpdateAnswer, UpdateState, GameDeletePasses, GameDeleteRow, UsersDeleteAnswers,
       UsersDeleteRow, Goto, Finish, Deleting, tables, counters
<1>9. ASSUME NEW t \in Threads, RunTask(t) \/ TaskFails(t) PROVE QuestsCounted'
  BY <1>9, <1>u DEF RunTask, TakeTask, ReadRating, WriteRating, CountSolved, SumMaxScore,
       TaskFails, Deleting, tables, counters, handler
<1>10. CASE StatementFails \/ DatabaseRestart
  BY <1>10, <1>u DEF StatementFails, DatabaseRestart, Finish, Deleting, tables, counters
<1>11. CASE Crash
  BY <1>11, <1>t DEF Crash, Finish, LoadCounters, Deleting, QuestsCounted, tables
<1>12. CASE UNCHANGED vars
  BY <1>12, <1>u DEF vars, tables, counters, handler, Deleting
<1> QED BY <1>1, <1>2, <1>3, <1>4, <1>5, <1>6, <1>7, <1>8, <1>9, <1>10, <1>11, <1>12
       DEF Next, TakeRequest, Handle

LEMMA NextTriesCounted == Structure /\ TriesCounted /\ [Next]_vars => TriesCounted'
<1> SUFFICES ASSUME Structure, TriesCounted, [Next]_vars PROVE TriesCounted'
  OBVIOUS
<1>t. TablesOK /\ TablesOK' /\ SumTries \in Nat /\ SumTries' \in Nat
  <2>1. TablesOK /\ TablesOK'
    BY NextStructure DEF Structure
  <2>2. SumTries' \in Nat
    <3>1. \A row \in Rows : users_quests_answers'[row] \in Nat
      BY <2>1 DEF TablesOK, Rows
    <3>2. SumTries' = SumFunctionOnSet(users_quests_answers', Rows)
      BY <2>1 DEF TablesOK, SumTries, SumFunction, Rows
    <3> QED BY <3>1, <3>2, RowsFinite, SumIsNat
  <2> QED BY <2>1, <2>2, TriesNat
<1>c. m_nCountQuestsAttempt \in Nat /\ m_nCountQuestsAttempt >= SumTries
  BY DEF TriesCounted
<1>0. \A row \in Rows : users_quests_answers[row] \in Nat
  BY <1>t DEF TablesOK, Rows
<1>l. ASSUME UNCHANGED m_nCountQuestsAttempt,
             \A row \in Rows : users_quests_answers'[row] <= users_quests_answers[row]
      PROVE  TriesCounted'
  <2>1. SumTries' <= SumTries
    BY <1>l, <1>t, TriesLess
  <2> QED BY <1>c, <1>l, <1>t, <2>1 DEF TriesCounted
<1>u. CASE UNCHANGED <<users_quests_answers, m_nCountQuestsAttempt>>
  BY <1>u DEF TriesCounted, SumTries
<1>1. ASSUME NEW r \in Requests, QuestPass(r) PROVE TriesCounted'
  <2>1. PICK row \in Rows :
          users_quests_answers' = [users_quests_answers EXCEPT ![row] = @ + 1]
    BY <1>1, RequestTypes DEF QuestPass, Rows
  <2>2. SumTries' = SumTries + 1
    BY <1>t, <2>1, TriesOneMore
  <2>3. m_nCountQuestsAttempt' = m_nCountQuestsAttempt + 1
    BY <1>1 DEF QuestPass
  <2> QED BY <1>c, <1>t, <2>2, <2>3 DEF TriesCounted
<1>2. ASSUME NEW r \in Requests,
             QuestsAdd(r) \/ QuestDelete(r) \/ QuestUpdate(r) \/ UsersDelete(r) \/ LeaksBuy(r)
      PROVE  TriesCounted'
  BY <1>2, <1>u DEF LeaksBuy, QuestsAdd, QuestDelete, QuestUpdate, UsersDelete, solving, counters
<1>3. ASSUME NEW Q, users_quests_answers' = WithoutAnswers(Q), UNCHANGED counters
      PROVE  TriesCounted'
  <2>1. \A row \in Rows : users_quests_answers'[row] <= users_quests_answers[row]
    BY <1>0, <1>3, <1>t DEF WithoutAnswers, TablesOK, Rows
  <2> QED BY <1>3, <1>l, <2>1 DEF counters
<1>4. ASSUME NEW r \in Requests, GameDelete(r) PROVE TriesCounted'
  BY <1>4, <1>3 DEF GameDelete
<1>5. CASE DeleteAnswers
  BY <1>5, <1>3 DEF DeleteAnswers
<1>6. CASE UsersDeleteAnswers
  <2>1. \A row \in Rows : users_quests_answers'[row] <= users_quests_answers[row]
    BY <1>0, <1>6, <1>t DEF UsersDeleteAnswers, TablesOK, Rows
  <2> QED BY <1>6, <1>l, <2>1 DEF UsersDeleteAnswers, counters
<1>7. CASE \/ StartTask \/ PassCredit \/ DeletePasses \/ UpdateGameNotFound \/ UpdateGameId
           \/ UpdateScore \/ UpdateAnswer \/ UpdateState \/ GameDeletePasses
           \/ GameDeleteQuests \/ GameDeleteRow \/ UsersDeleteRow
  BY <1>7, <1>u DEF StartTask, PassCredit, DeletePasses, decrementQuests, UpdateGameNotFound,
       UpdateGameId, UpdateScore, UpdateAnswer, UpdateState, GameDeletePasses, GameDeleteQuests,
       GameDeleteRow, UsersDeleteRow, solving, counters
<1>8. ASSUME NEW t \in Threads, RunTask(t) \/ TaskFails(t) PROVE TriesCounted'
  BY <1>8, <1>u DEF RunTask, TakeTask, ReadRating, WriteRating, CountSolved, SumMaxScore,
       TaskFails, solving, counters
<1>9. CASE StatementFails \/ DatabaseRestart
  BY <1>9, <1>u DEF StatementFails, DatabaseRestart, solving, counters
<1>10. CASE Crash
  <2>1. m_nCountQuestsAttempt' = SumTries /\ SumTries' = SumTries
    BY <1>10 DEF Crash, LoadCounters, solving, SumTries
  <2> QED BY <1>t, <2>1 DEF TriesCounted
<1>11. CASE UNCHANGED vars
  BY <1>11, <1>u DEF vars, solving, counters
<1> QED BY <1>1, <1>2, <1>4, <1>5, <1>6, <1>7, <1>8, <1>9, <1>10, <1>11
       DEF Next, TakeRequest, Handle

LEMMA NextPassesCounted == Structure /\ PassesCounted /\ [Next]_vars => PassesCounted'
<1> SUFFICES ASSUME Structure, PassesCounted, [Next]_vars PROVE PassesCounted'
  OBVIOUS
<1>t. IsFiniteSet(users_quests) /\ Cardinality(users_quests) \in Nat
  BY TablesFinite DEF Structure
<1>c. m_nCountQuestsCompleted \in Nat /\ m_nCountQuestsCompleted >= Cardinality(users_quests)
  BY DEF PassesCounted
<1>l. ASSUME UNCHANGED m_nCountQuestsCompleted, users_quests' \in SUBSET users_quests
      PROVE  PassesCounted'
  <2>1. Cardinality(users_quests') \in Nat /\ Cardinality(users_quests') <= Cardinality(users_quests)
    BY <1>l, <1>t, FS_Subset, FS_CardinalityType
  <2> QED BY <1>c, <1>l, <1>t, <2>1 DEF PassesCounted
<1>1. ASSUME NEW r \in Requests,
             QuestPass(r) \/ QuestsAdd(r) \/ QuestDelete(r) \/ QuestUpdate(r)
               \/ GameDelete(r) \/ UsersDelete(r) \/ LeaksBuy(r)
      PROVE  PassesCounted'
  BY <1>1, <1>l DEF LeaksBuy, QuestPass, QuestsAdd, QuestDelete, QuestUpdate, GameDelete, UsersDelete,
       solving, counters
<1>2. CASE PassCredit
  <2>1. /\ users_quests' = users_quests \cup {<<req.user, req.questid>>}
        /\ m_nCountQuestsCompleted' = m_nCountQuestsCompleted + 1
    BY <1>2 DEF PassCredit
  <2>2. /\ Cardinality(users_quests') \in Nat
        /\ Cardinality(users_quests') <= Cardinality(users_quests) + 1
    <3>1. PICK row : row = <<req.user, req.questid>>
      OBVIOUS
    <3>2. users_quests' = users_quests \cup {row}
      BY <2>1, <3>1
    <3> QED BY <1>t, <3>2, FS_AddElement
  <2> QED BY <1>c, <1>t, <2>1, <2>2 DEF PassesCounted
<1>3. CASE \/ StartTask \/ DeleteAnswers \/ DeletePasses \/ UpdateGameNotFound \/ UpdateGameId
           \/ UpdateScore \/ UpdateAnswer \/ UpdateState \/ GameDeletePasses
           \/ GameDeleteQuests \/ GameDeleteRow \/ UsersDeleteAnswers \/ UsersDeleteRow
  BY <1>3, <1>l DEF StartTask, DeleteAnswers, DeletePasses, decrementQuests, UpdateGameNotFound,
       UpdateGameId, UpdateScore, UpdateAnswer, UpdateState, GameDeletePasses, GameDeleteQuests,
       GameDeleteRow, UsersDeleteAnswers, UsersDeleteRow, solving, counters
<1>4. ASSUME NEW t \in Threads, RunTask(t) \/ TaskFails(t) PROVE PassesCounted'
  BY <1>4, <1>l DEF RunTask, TakeTask, ReadRating, WriteRating, CountSolved, SumMaxScore,
       TaskFails, solving, counters
<1>5. CASE StatementFails \/ DatabaseRestart
  BY <1>5, <1>l DEF StatementFails, DatabaseRestart, solving, counters
<1>6. CASE Crash
  BY <1>6, <1>t DEF Crash, LoadCounters, PassesCounted, solving
<1>7. CASE UNCHANGED vars
  BY <1>7, <1>l DEF vars, solving, counters
<1> QED BY <1>1, <1>2, <1>3, <1>4, <1>5, <1>6, <1>7 DEF Next, TakeRequest, Handle

Counted == QuestsCounted /\ TriesCounted /\ PassesCounted

LEMMA CountedHolds == Spec => []Counted
<1>1. Init => Counted
  <2> SUFFICES ASSUME Init PROVE Counted
    OBVIOUS
  <2>1. TablesOK
    BY InitStructure DEF Structure
  <2>2. QuestsCounted
    BY <2>1, TablesFinite DEF Init, QuestsCounted, Deleting
  <2>3. TriesCounted
    <3>1. \A row \in Rows : users_quests_answers[row] = 0
      BY DEF Init, Rows
    <3>2. SumFunctionOnSet(users_quests_answers, Rows) = 0
      BY <3>1, RowsFinite, SumIsZero
    <3> QED BY <2>1, <3>2, TriesDef DEF Init, TriesCounted
  <2>4. PassesCounted
    BY FS_EmptySet DEF Init, PassesCounted
  <2> QED BY <2>2, <2>3, <2>4 DEF Counted
<1>2. Structure /\ Counted /\ [Next]_vars => Counted'
  BY NextQuestsCounted, NextTriesCounted, NextPassesCounted DEF Counted
<1> QED BY <1>1, <1>2, StructureHolds, PTL DEF Spec

(* The three counters never show less than the tables hold, whatever       *)
(* statements are refused and whenever the process is killed.              *)
THEOREM CountersCoverTables == Spec => []CountersNeverUnder
<1>1. Counted => CountersNeverUnder
  BY DEF Counted, QuestsCounted, TriesCounted, PassesCounted, CountersNeverUnder
<1> QED BY <1>1, CountedHolds, PTL
-----------------------------------------------------------------------------
(* The rest of the types: what is derived is a number since a sum of       *)
(* scores is, and the history names what exists.                           *)
DerivedOK ==
  /\ count_user_solved \in [QuestId -> Nat]
  /\ maxscore \in [Games -> Nat]
  /\ rating \in [Users -> Int] /\ spent \in [Users -> Int]
  /\ nNewRating \in [Threads -> Nat \cup {Unread}]

DriftOK ==
  /\ ratingDrift \subseteq Users /\ countDrift \subseteq QuestId
  /\ maxDrift \subseteq Games /\ torn \subseteq QuestId

LEMMA DerivedNat ==
  ASSUME TablesOK
  PROVE  /\ \A u \in Users : SumScore(u) \in Nat
         /\ \A g \in Games : SumOpen(g) \in Nat
         /\ \A q \in QuestId : Cardinality(Solvers(q)) \in Nat
<1>1. ASSUME NEW S \in SUBSET quests PROVE SumFunction([q \in S |-> score[q]]) \in Nat
  <2> DEFINE f == [q \in S |-> score[q]]
  <2>1. IsFiniteSet(S)
    BY TablesFinite, FS_Subset
  <2>2. \A q \in S : f[q] \in Nat
    BY DEF TablesOK
  <2>3. SumFunction(f) = SumFunctionOnSet(f, S)
    BY DEF SumFunction
  <2> HIDE DEF f
  <2>4. SumFunctionOnSet(f, S) \in Nat
    BY <2>1, <2>2, SumIsNat
  <2> QED BY <2>3, <2>4 DEF f
<1>2. ASSUME NEW u \in Users PROVE SumScore(u) \in Nat
  <2>1. SolvedBy(u) \in SUBSET quests
    BY DEF SolvedBy
  <2> QED BY <1>1, <2>1 DEF SumScore
<1>3. ASSUME NEW g \in Games PROVE SumOpen(g) \in Nat
  <2>1. OpenQuests(g) \in SUBSET quests
    BY DEF OpenQuests
  <2> QED BY <1>1, <2>1 DEF SumOpen
<1>4. ASSUME NEW q \in QuestId PROVE Cardinality(Solvers(q)) \in Nat
  <2>1. Solvers(q) \in SUBSET Users
    BY DEF Solvers, TablesOK
  <2>2. IsFiniteSet(Solvers(q))
    BY <2>1, QuestAssumption, FS_Subset
  <2> QED BY <2>2, FS_CardinalityType
<1> QED BY <1>2, <1>3, <1>4

LEMMA NextDerivedOK == Structure /\ DerivedOK /\ [Next]_vars => DerivedOK'
<1> SUFFICES ASSUME Structure, DerivedOK, [Next]_vars PROVE DerivedOK'
  OBVIOUS
<1>t. TablesOK
  BY DEF Structure
<1>u. CASE UNCHANGED <<derived, nNewRating>>
  BY <1>u DEF DerivedOK, derived
<1>1. ASSUME NEW r \in Requests, QuestsAdd(r) PROVE DerivedOK'
  BY <1>1 DEF QuestsAdd, DerivedOK, pool
<1>2. ASSUME NEW r \in Requests,
             QuestPass(r) \/ QuestDelete(r) \/ QuestUpdate(r) \/ GameDelete(r) \/ UsersDelete(r)
      PROVE  DerivedOK'
  BY <1>2, <1>u DEF QuestPass, QuestDelete, QuestUpdate, GameDelete, UsersDelete, pool
<1>3. CASE Handle
  BY <1>3, <1>u DEF Handle, StartTask, PassCredit, DeleteAnswers, DeletePasses, UpdateGameNotFound,
       UpdateGameId, UpdateScore, UpdateAnswer, UpdateState, GameDeletePasses, GameDeleteQuests,
       GameDeleteRow, UsersDeleteAnswers, UsersDeleteRow, pool
<1>4. ASSUME NEW t \in Threads, TakeTask(t) PROVE DerivedOK'
  BY <1>4, <1>u DEF TakeTask
<1>5. ASSUME NEW t \in Threads, ReadRating(t) PROVE DerivedOK'
  <2>1. PICK u \in Users : nNewRating' = [nNewRating EXCEPT ![t] = SumScore(u)]
    BY <1>5 DEF ReadRating
  <2>2. SumScore(u) \in Nat
    BY <1>t, DerivedNat
  <2> QED BY <1>5, <2>1, <2>2 DEF ReadRating, DerivedOK, derived
<1>6. ASSUME NEW t \in Threads, WriteRating(t) PROVE DerivedOK'
  <2>1. PICK u \in Users :
          /\ Mid(t, u) /\ Idle(t)
          /\ \/ rating' = [rating EXCEPT ![u] = nNewRating[t]]
                /\ spent' = [spent EXCEPT ![u] = 0]
             \/ UNCHANGED <<rating, spent>>
    BY <1>6 DEF WriteRating
  <2>2. nNewRating[t] \in Nat
    BY <2>1 DEF Mid, DerivedOK
  <2> QED BY <1>6, <2>1, <2>2 DEF WriteRating, Idle, DerivedOK
<1>7. ASSUME NEW t \in Threads, CountSolved(t) PROVE DerivedOK'
  <2>1. PICK q \in QuestId : count_user_solved' = IF q \in quests
          THEN [count_user_solved EXCEPT ![q] = Cardinality(Solvers(q))] ELSE count_user_solved
    BY <1>7 DEF CountSolved
  <2>2. Cardinality(Solvers(q)) \in Nat
    BY <1>t, DerivedNat
  <2> QED BY <1>7, <2>1, <2>2 DEF CountSolved, Idle, DerivedOK
<1>8. ASSUME NEW t \in Threads, SumMaxScore(t) PROVE DerivedOK'
  <2>1. PICK g \in Games :
          maxscore' = maxscore \/ maxscore' = [maxscore EXCEPT ![g] = SumOpen(g)]
    BY <1>8 DEF SumMaxScore
  <2>2. SumOpen(g) \in Nat
    BY <1>t, DerivedNat
  <2> QED BY <1>8, <2>1, <2>2 DEF SumMaxScore, Idle, DerivedOK
<1>9. ASSUME NEW t \in Threads, TaskFails(t) PROVE DerivedOK'
  BY <1>9 DEF TaskFails, Idle, DerivedOK, derived
<1>10. CASE StatementFails \/ DatabaseRestart
  BY <1>10, <1>u DEF StatementFails, DatabaseRestart, pool
<1>11. CASE Crash
  BY <1>11 DEF Crash, DerivedOK, derived
<1>12. CASE UNCHANGED vars
  BY <1>12, <1>u DEF vars, pool
<1>13. ASSUME NEW r \in Requests, LeaksBuy(r) PROVE DerivedOK'
  BY <1>13, RequestTypes DEF LeaksBuy, DerivedOK, pool
<1> QED BY <1>1, <1>2, <1>3, <1>4, <1>5, <1>6, <1>7, <1>8, <1>9, <1>10, <1>11, <1>12, <1>13
       DEF Next, TakeRequest, RunTask

LEMMA NextDriftOK == Structure /\ DriftOK /\ [Next]_vars => DriftOK'
<1> SUFFICES ASSUME Structure, DriftOK, [Next]_vars PROVE DriftOK'
  OBVIOUS
<1>t. TablesOK
  BY DEF Structure
<1>q. req.questid \in QuestId /\ req.gameid \in Games /\ gameid[req.questid] \in Games
  BY RequestTypes DEF Structure, HandlerOK, TablesOK
<1>p. \A Q : Passers(Q) \subseteq Users
  BY DEF Passers
<1>g. \A g : QuestsOf(g) \subseteq QuestId
  BY <1>t DEF QuestsOf, TablesOK
<1>u. CASE UNCHANGED drift
  BY <1>u DEF DriftOK, drift
<1>l. ASSUME NEW T, Lose(T) PROVE DriftOK'
  BY <1>l DEF Lose, DriftOK
<1>1. ASSUME NEW r \in Requests, QuestDelete(r) PROVE DriftOK'
  BY <1>1, <1>p, <1>t, RequestTypes DEF QuestDelete, DriftOK, TablesOK
<1>2. ASSUME NEW r \in Requests, GameDelete(r) PROVE DriftOK'
  BY <1>2, <1>g DEF GameDelete, DriftOK
<1>3. ASSUME NEW r \in Requests, UsersDelete(r) PROVE DriftOK'
  BY <1>3, RequestTypes DEF UsersDelete, DriftOK
<1>4. ASSUME NEW r \in Requests, QuestPass(r) \/ LeaksBuy(r) \/ QuestUpdate(r) PROVE DriftOK'
  BY <1>4, <1>u DEF QuestPass, LeaksBuy, QuestUpdate
<1>5. CASE UpdateScore
  BY <1>5, <1>p DEF UpdateScore, DriftOK
<1>6. CASE UpdateState
  BY <1>6, <1>q DEF UpdateState, DriftOK
<1>7. CASE GameDeletePasses
  BY <1>7, <1>g, <1>p DEF GameDeletePasses, DriftOK
<1>8. CASE GameDeleteQuests
  BY <1>8, <1>q DEF GameDeleteQuests, DriftOK
<1>9. CASE \/ StartTask \/ PassCredit \/ DeleteAnswers \/ DeletePasses \/ UpdateGameNotFound
           \/ UpdateGameId \/ UpdateAnswer \/ GameDeleteRow \/ UsersDeleteAnswers \/ UsersDeleteRow
  BY <1>9, <1>u DEF StartTask, PassCredit, DeleteAnswers, DeletePasses, UpdateGameNotFound,
       UpdateGameId, UpdateAnswer, GameDeleteRow, UsersDeleteAnswers, UsersDeleteRow
<1>10. ASSUME NEW t \in Threads, RunTask(t) PROVE DriftOK'
  BY <1>10 DEF RunTask, TakeTask, ReadRating, WriteRating, CountSolved, SumMaxScore, DriftOK, drift
<1>11. ASSUME NEW t \in Threads, TaskFails(t) PROVE DriftOK'
  BY <1>11, <1>l DEF TaskFails
<1>12. CASE StatementFails \/ Crash \/ DatabaseRestart
  BY <1>12, <1>l DEF StatementFails, Crash, DatabaseRestart
<1>13. CASE UNCHANGED vars
  BY <1>13, <1>u DEF vars
<1>14. ASSUME NEW r \in Requests, QuestsAdd(r) PROVE DriftOK'
  BY <1>14, <1>p DEF QuestsAdd, LeftOver, DriftOK
<1> QED BY <1>1, <1>2, <1>3, <1>4, <1>5, <1>6, <1>7, <1>8, <1>9, <1>10, <1>11, <1>12, <1>13,
         <1>14
       DEF Next, TakeRequest, Handle

LEMMA DerivedHolds == Spec => []DerivedOK
<1>1. Init => DerivedOK
  <2> SUFFICES ASSUME Init PROVE DerivedOK
    OBVIOUS
  <2>1. TablesOK
    BY InitStructure DEF Structure
  <2> QED BY <2>1, DerivedNat DEF Init, DerivedOK
<1>2. Structure /\ DerivedOK /\ [Next]_vars => DerivedOK'
  BY NextDerivedOK
<1> QED BY <1>1, <1>2, StructureHolds, PTL DEF Spec

(* Every variable keeps its type: no derived column and no counter is ever *)
(* NULL or a sum of something that is not a score.                         *)
THEOREM TypesHold == Spec => []TypeOK
<1>1. Init => DriftOK
  BY DEF Init, DriftOK
<1>2. Structure /\ DriftOK /\ [Next]_vars => DriftOK'
  BY NextDriftOK
<1>3. Structure /\ DerivedOK /\ DriftOK /\ Counted => TypeOK
  BY DEF Structure, TablesOK, HandlerOK, PoolOK, DerivedOK, DriftOK, Counted, QuestsCounted,
     TriesCounted, PassesCounted, TypeOK
<1> QED BY <1>1, <1>2, <1>3, StructureHolds, DerivedHolds, CountedHolds, PTL DEF Spec
-----------------------------------------------------------------------------
(* The derived columns: count_user_solved, maxscore, rating.  A pending    *)
(* task is a promise: each is kept by every step except the one that runs  *)
(* the task to its end and those that lose it.                             *)
LEMMA WaitingHandler ==
  ASSUME NEW k, starting = <<>> \/ UNCHANGED starting, UNCHANGED queue, Waiting(k)
  PROVE  Waiting(k)'
  BY DEF Waiting, Contains

LEMMA WaitingStart ==
  ASSUME PoolOK, StartTask, NEW k, Waiting(k)
  PROVE  Waiting(k)'
<1> starting \in Seq(Task) /\ queue \in Seq(Task) /\ starting # <<>>
  BY DEF PoolOK, StartTask
<1> queue' = Append(queue, Head(starting)) /\ starting' = Tail(starting)
  BY DEF StartTask
<1>1. CASE Contains(queue, k)
  <2>1. PICK i \in 1..Len(queue) : queue[i] = k
    BY <1>1 DEF Contains
  <2>2. i \in 1..Len(queue') /\ queue'[i] = k
    BY <2>1
  <2> QED BY <2>2 DEF Waiting, Contains
<1>2. CASE Contains(starting, k)
  <2>1. PICK i \in 1..Len(starting) : starting[i] = k
    BY <1>2 DEF Contains
  <2>2. CASE i = 1
    <3>1. Len(queue') \in 1..Len(queue') /\ queue'[Len(queue')] = k
      BY <2>1, <2>2
    <3> QED BY <3>1 DEF Waiting, Contains
  <2>3. CASE i # 1
    <3>1. (i - 1) \in 1..Len(starting') /\ starting'[i - 1] = k
      BY <2>1, <2>3
    <3> QED BY <3>1 DEF Waiting, Contains
  <2> QED BY <2>2, <2>3
<1> QED BY <1>1, <1>2 DEF Waiting

LEMMA WaitingTake ==
  ASSUME PoolOK, NEW t \in Threads, TakeTask(t), NEW k, Waiting(k)
  PROVE  Waiting(k)' \/ job'[t] = k
<1> queue \in Seq(Task) /\ queue # <<>> /\ queue' = Tail(queue)
      /\ job'[t] = Head(queue) /\ UNCHANGED starting
  BY DEF PoolOK, TakeTask, handler
<1>1. CASE Contains(starting, k)
  BY <1>1 DEF Waiting
<1>2. CASE Contains(queue, k)
  <2>1. PICK i \in 1..Len(queue) : queue[i] = k
    BY <1>2 DEF Contains
  <2>2. CASE i = 1
    BY <2>1, <2>2
  <2>3. CASE i # 1
    <3>1. (i - 1) \in 1..Len(queue') /\ queue'[i - 1] = k
      BY <2>1, <2>3
    <3> QED BY <3>1 DEF Waiting, Contains
  <2> QED BY <2>2, <2>3
<1> QED BY <1>1, <1>2 DEF Waiting

LEMMA NoTaskIsNone == NoTask \notin Task
  BY DEF NoTask, Task, Rating, Solved, MaxScore

LEMMA PendingStart ==
  ASSUME PoolOK, StartTask, NEW k, Pending(k)
  PROVE  Pending(k)'
  BY WaitingStart DEF Pending, Running, StartTask

LEMMA PendingTake ==
  ASSUME PoolOK, NEW t \in Threads, TakeTask(t), NEW k \in Task, Pending(k)
  PROVE  Pending(k)'
<1>1. CASE Waiting(k)
  BY <1>1, WaitingTake DEF Pending, Running
<1>2. CASE Running(k)
  <2>1. PICK s \in Threads : job[s] = k
    BY <1>2 DEF Running
  <2>2. s # t
    BY <2>1, NoTaskIsNone DEF TakeTask
  <2> QED BY <2>1, <2>2 DEF TakeTask, Pending, Running, PoolOK
<1> QED BY <1>1, <1>2 DEF Pending

(* A step of the handler that starts tasks, or none, keeps those pending.  *)
LEMMA PendingHandler ==
  ASSUME starting = <<>> \/ UNCHANGED starting, UNCHANGED <<queue, job>>,
         NEW k, Pending(k)
  PROVE  Pending(k)'
  BY WaitingHandler DEF Pending, Running

(* A thread that is done with its task leaves every other one pending.     *)
LEMMA PendingOther ==
  ASSUME PoolOK, NEW t \in Threads, Idle(t), UNCHANGED <<starting, queue>>,
         NEW k, Pending(k), job[t] # k
  PROVE  Pending(k)'
  BY WaitingHandler DEF Pending, Running, Idle, PoolOK

LEMMA PendingLost ==
  ASSUME PoolOK, NEW k, Pending(k)
  PROVE  k \in ToSet(starting) \cup ToSet(queue) \cup {job[t] : t \in Threads}
  BY DEF PoolOK, Pending, Waiting, Running, Contains, ToSet
-----------------------------------------------------------------------------
LEMMA TaskNames ==
  /\ \A u, v : Rating(u) = Rating(v) => u = v
  /\ \A p, q : Solved(p) = Solved(q) => p = q
  /\ \A g, h : MaxScore(g) = MaxScore(h) => g = h
  /\ \A u, q, g : /\ Rating(u) # Solved(q) /\ Rating(u) # MaxScore(g)
                  /\ Solved(q) # MaxScore(g)
  BY DEF Rating, Solved, MaxScore

(* One quest: its count is right or a task that counts again is pending.   *)
CountOK(q) == count_user_solved[q] = Cardinality(Solvers(q)) \/ Pending(Solved(q))

LEMMA CountExactDef == CountExact <=> \A q \in quests \ countDrift : CountOK(q)
  BY DEF CountExact, CountOK

LEMMA CountKept ==
  ASSUME NEW q, CountOK(q), Pending(Solved(q)) => Pending(Solved(q))',
         UNCHANGED <<count_user_solved, Solvers(q)>>
  PROVE  CountOK(q)'
  BY DEF CountOK

LEMMA NextCount == Structure /\ CountExact /\ [Next]_vars => CountExact'
<1> SUFFICES ASSUME Structure, CountExact, [Next]_vars,
                    NEW q \in quests' \ countDrift'
             PROVE  CountOK(q)'
  BY DEF CountExact, CountOK
<1>r. req \in Requests BY DEF Structure, HandlerOK
<1>t. TablesOK /\ PoolOK BY DEF Structure
<1>q. q \in quests /\ q \notin countDrift => q \in QuestId /\ CountOK(q)
  BY <1>t, CountExactDef DEF TablesOK
(* The handler's steps that touch neither solvers nor counts.              *)
<1>h. ASSUME UNCHANGED <<users, users_quests, count_user_solved, queue, job>>,
             q \in quests, q \notin countDrift, starting = <<>> \/ UNCHANGED starting
      PROVE  CountOK(q)'
  <2>1. Solvers(q)' = Solvers(q) BY <1>h DEF Solvers
  <2> QED BY <2>1, <1>h, <1>q, CountKept, PendingHandler
<1>1. ASSUME NEW r \in Requests, QuestPass(r) PROVE CountOK(q)'
  BY <1>1, <1>h DEF QuestPass, tables, derived, pool, drift
<1>2. ASSUME NEW r \in Requests, QuestsAdd(r) PROVE CountOK(q)'
  <2>1. Solvers(q)' = Solvers(q) /\ q \notin countDrift /\ q \notin LeftOver(next_id)
    BY <1>2 DEF QuestsAdd, Solvers, solving
  <2>2. CASE q = next_id
    <3>1. Solvers(q) = {}
      BY <2>1, <2>2, <1>t DEF TablesOK, Solvers, LeftOver, Passers
    <3>2. count_user_solved'[q] = 0
      BY <2>2, <1>2, <1>t DEF QuestsAdd, TablesOK
    <3> QED BY <3>1, <3>2, <2>1, FS_EmptySet DEF CountOK
  <2>3. CASE q # next_id
    <3>1. q \in quests /\ count_user_solved'[q] = count_user_solved[q]
      BY <2>3, <1>2, <1>t DEF QuestsAdd, TablesOK
    <3>2. Pending(Solved(q)) => Pending(Solved(q))'
      BY <1>2, PendingHandler DEF QuestsAdd, Serve, At, pool
    <3> QED BY <3>1, <3>2, <2>1, <1>q DEF CountOK
  <2> QED BY <2>2, <2>3
<1>31. ASSUME NEW r \in Requests, LeaksBuy(r) PROVE CountOK(q)'
  BY <1>31, <1>h DEF LeaksBuy, tables, solving, pool, drift
<1>3. ASSUME NEW r \in Requests, QuestDelete(r) PROVE CountOK(q)'
  BY <1>3, <1>h DEF QuestDelete, derived, solving, pool
<1>4. ASSUME NEW r \in Requests, QuestUpdate(r) PROVE CountOK(q)'
  BY <1>4, <1>h DEF QuestUpdate, tables, derived, solving, pool, drift
<1>5. ASSUME NEW r \in Requests, GameDelete(r) PROVE CountOK(q)'
  BY <1>5, <1>h DEF GameDelete, tables, derived, pool
<1>6. ASSUME NEW r \in Requests, UsersDelete(r) PROVE CountOK(q)'
  <2>1. q \in quests /\ q \notin countDrift /\ <<r.userid, q>> \notin users_quests
    BY <1>6, <1>t DEF UsersDelete, tables, TablesOK
  <2>2. Solvers(q)' = Solvers(q)
    BY <1>6, <2>1 DEF UsersDelete, Solvers, tables
  <2>3. Pending(Solved(q)) => Pending(Solved(q))'
    BY <1>6, PendingHandler DEF UsersDelete, pool
  <2> QED BY <2>1, <2>2, <2>3, <1>6, <1>q, CountKept DEF UsersDelete, derived
<1>7. CASE StartTask
  <2>1. Solvers(q)' = Solvers(q) /\ q \in quests /\ q \notin countDrift
        /\ UNCHANGED count_user_solved
    BY <1>7 DEF StartTask, Solvers, solving, tables, drift, derived
  <2> QED BY <2>1, <1>7, <1>q, <1>t, PendingStart, CountKept
<1>8. CASE PassCredit
  <2>1. q \in quests /\ q \notin countDrift /\ UNCHANGED count_user_solved
    BY <1>8 DEF PassCredit, tables, drift, derived
  <2>2. CASE q = req.questid
    <3>1. starting' = <<Rating(req.user), Solved(q)>>
      BY <1>8, <2>2 DEF PassCredit, PassTasks
    <3>2. Contains(starting', Solved(q))
      BY <3>1 DEF Contains
    <3> QED BY <3>2 DEF CountOK, Pending, Waiting
  <2>3. CASE q # req.questid
    <3>1. Solvers(q)' = Solvers(q)
      BY <1>8, <2>3 DEF PassCredit, Solvers, tables
    <3> QED BY <2>1, <3>1, <1>8, <1>q, PendingHandler, CountKept DEF PassCredit, At, pool
  <2> QED BY <2>2, <2>3
<1>9. CASE DeleteAnswers
  BY <1>9, <1>h DEF DeleteAnswers, tables, derived, pool, drift
<1>10. CASE DeletePasses
  <2>1. q \in quests /\ q \notin countDrift /\ q # req.questid
    BY <1>10 DEF DeletePasses, At, Structure, HandlerOK, tables, drift
  <2>2. Solvers(q)' = Solvers(q)
    BY <1>10, <2>1 DEF DeletePasses, Solvers, tables
  <2> QED BY <2>1, <2>2, <1>10, <1>q, PendingHandler, CountKept
          DEF DeletePasses, derived, pool
<1>11. CASE UpdateGameNotFound
  BY <1>11, <1>h DEF UpdateGameNotFound, tables, derived, solving, pool, drift
<1>12. CASE UpdateGameId
  BY <1>12, <1>h DEF UpdateGameId, At, tables, derived, solving, pool, drift
<1>13. CASE UpdateScore
  BY <1>13, <1>h DEF UpdateScore, At, tables, derived, solving, pool
<1>14. CASE UpdateAnswer
  BY <1>14, <1>h DEF UpdateAnswer, tables, derived, solving, pool, drift
<1>15. CASE UpdateState
  BY <1>15, <1>h DEF UpdateState, tables, derived, solving, pool
<1>16. CASE GameDeletePasses
  <2>1. q \in quests /\ q \notin countDrift /\ q \notin QuestsOf(req.gameid)
    BY <1>16 DEF GameDeletePasses, tables
  <2>2. Solvers(q)' = Solvers(q)
    BY <1>16, <2>1 DEF GameDeletePasses, Solvers, tables
  <2> QED BY <2>1, <2>2, <1>16, <1>q, PendingHandler, CountKept
          DEF GameDeletePasses, derived, pool
<1>17. CASE GameDeleteQuests
  BY <1>17, <1>h DEF GameDeleteQuests, derived, solving, pool
<1>18. CASE GameDeleteRow
  BY <1>18, <1>h DEF GameDeleteRow, derived, solving, pool, drift
<1>19. CASE UsersDeleteAnswers
  BY <1>19, <1>h DEF UsersDeleteAnswers, tables, derived, pool, drift
<1>20. CASE UsersDeleteRow
  <2>1. q \in quests /\ q \notin countDrift
    BY <1>20 DEF UsersDeleteRow, drift
  <2>2. \A row \in users_quests : row[1] # req.userid
    BY <1>20 DEF UsersDeleteRow, At, Structure, HandlerOK
  <2>3. Solvers(q)' = Solvers(q)
    BY <1>20, <2>2 DEF UsersDeleteRow, Solvers, solving
  <2> QED BY <2>1, <2>3, <1>20, <1>q, PendingHandler, CountKept
          DEF UsersDeleteRow, derived, pool
<1>21. ASSUME NEW t \in Threads, TakeTask(t) PROVE CountOK(q)'
  <2>1. Solvers(q)' = Solvers(q) /\ q \in quests /\ q \notin countDrift
        /\ UNCHANGED count_user_solved
    BY <1>21 DEF TakeTask, Solvers, solving, tables, drift, derived
  <2>2. Solved(q) \in Task BY <2>1, <1>q, TaskTypes
  <2> QED BY <2>1, <2>2, <1>21, <1>q, <1>t, PendingTake, CountKept
<1>22. ASSUME NEW t \in Threads, ReadRating(t) PROVE CountOK(q)'
  BY <1>22, <1>h DEF ReadRating, tables, derived, solving, handler
<1>23. ASSUME NEW t \in Threads, job[t] # Solved(q), Idle(t), UNCHANGED <<handler, queue>>,
              UNCHANGED <<users, quests, users_quests>>,
              count_user_solved'[q] = count_user_solved[q], q \notin countDrift
       PROVE CountOK(q)'
  <2>1. Solvers(q)' = Solvers(q) /\ q \in quests
    BY <1>23 DEF Solvers
  <2>2. Pending(Solved(q)) => Pending(Solved(q))'
    BY <1>23, <1>t, PendingOther DEF handler
  <2> QED BY <1>23, <2>1, <2>2, <1>q DEF CountOK
<1>24. ASSUME NEW t \in Threads, WriteRating(t) PROVE CountOK(q)'
  BY <1>24, <1>23, TaskNames DEF WriteRating, Mid, tables, solving, drift
<1>25. ASSUME NEW t \in Threads, CountSolved(t) PROVE CountOK(q)'
  <2> PICK p \in QuestId : job[t] = Solved(p) /\ Idle(t)
         /\ count_user_solved' = (IF p \in quests
              THEN [count_user_solved EXCEPT ![p] = Cardinality(Solvers(p))]
              ELSE count_user_solved)
         /\ countDrift' = countDrift \ {p}
         /\ UNCHANGED <<tables, solving, handler, queue>>
    BY <1>25 DEF CountSolved
  <2>1. Solvers(q)' = Solvers(q) /\ q \in quests
    BY DEF Solvers, tables, solving
  <2>2. CASE p = q
    <3>1. count_user_solved'[q] = Cardinality(Solvers(q))
      BY <2>1, <2>2, <1>t DEF TablesOK
    <3> QED BY <3>1, <2>1 DEF CountOK
  <2>3. CASE p # q
    BY <2>1, <2>3, <1>23, <1>t, TaskNames DEF tables, solving, TablesOK
  <2> QED BY <2>2, <2>3
<1>26. ASSUME NEW t \in Threads, SumMaxScore(t) PROVE CountOK(q)'
  BY <1>26, <1>23, TaskNames DEF SumMaxScore, tables, solving
<1>27. ASSUME NEW t \in Threads, TaskFails(t) PROVE CountOK(q)'
  <2>1. q \in QuestId /\ q \notin countDrift /\ job[t] # Solved(q)
    BY <1>27, <1>t DEF TaskFails, Lose, tables, TablesOK
  <2> QED BY <2>1, <1>27, <1>23 DEF TaskFails, tables, solving, derived
<1>28. CASE StatementFails \/ DatabaseRestart
  BY <1>28, <1>h DEF StatementFails, DatabaseRestart, Lose, tables, derived, solving, pool
<1>29. CASE Crash
  <2>1. q \in quests /\ q \notin countDrift /\ q \in QuestId
    BY <1>29, <1>t DEF Crash, Lose, tables, TablesOK
  <2>2. Solved(q) \notin ToSet(starting) \cup ToSet(queue) \cup {job[t] : t \in Threads}
    BY <1>29, <2>1 DEF Crash, Lose
  <2>3. ~Pending(Solved(q))
    BY <2>2, <1>t, PendingLost
  <2>4. Solvers(q)' = Solvers(q)
    BY <1>29 DEF Crash, Solvers, tables, solving
  <2> QED BY <2>1, <2>3, <2>4, <1>q, <1>29, CountKept DEF Crash, derived
<1>30. CASE UNCHANGED vars
  BY <1>30, <1>h DEF vars, tables, derived, solving, pool, handler, drift
<1> QED BY <1>1, <1>2, <1>3, <1>4, <1>5, <1>6, <1>7, <1>8, <1>9, <1>10, <1>11, <1>12,
         <1>13, <1>14, <1>15, <1>16, <1>17, <1>18, <1>19, <1>20, <1>21, <1>22, <1>24,
         <1>25, <1>26, <1>27, <1>28, <1>29, <1>30, <1>31
       DEF Next, TakeRequest, Handle, RunTask

(* quest.count_user_solved counts the ordinary users who solved the quest, *)
(* or an UpdateQuestSolved task is pending, outside countDrift.            *)
THEOREM CountsAreExact == Spec => []CountExact
<1>1. Init => CountExact
  <2> SUFFICES ASSUME Init, NEW q \in quests
               PROVE  count_user_solved[q] = Cardinality(Solvers(q))
    BY DEF CountExact
  <2>1. q \in QuestId
    BY QuestAssumption DEF Init, QuestId
  <2> QED BY <2>1 DEF Init
<1>2. Structure /\ CountExact /\ [Next]_vars => CountExact' BY NextCount
<1> QED BY <1>1, <1>2, StructureHolds, PTL DEF Spec
-----------------------------------------------------------------------------
(* One game: its maxscore is the sum or a task that sums again is pending. *)
MaxOK(g) == maxscore[g] = SumOpen(g) \/ Pending(MaxScore(g))

LEMMA MaxKept ==
  ASSUME NEW g, MaxOK(g), Pending(MaxScore(g)) => Pending(MaxScore(g))',
         maxscore'[g] = maxscore[g], UNCHANGED OpenQuests(g),
         \A q \in OpenQuests(g) : score'[q] = score[q]
  PROVE  MaxOK(g)'
<1>1. [q \in OpenQuests(g) |-> score[q]] = [q \in OpenQuests(g)' |-> score'[q]]
  OBVIOUS
<1>2. SumOpen(g)' = SumOpen(g)
  BY <1>1 DEF SumOpen
<1> QED BY <1>2 DEF MaxOK

LEMMA NextMax == Structure /\ MaxExact /\ [Next]_vars => MaxExact'
<1> SUFFICES ASSUME Structure, MaxExact, [Next]_vars,
                    NEW g \in games' \ maxDrift'
             PROVE  MaxOK(g)'
  BY DEF MaxExact, MaxOK
<1>r. req \in Requests BY DEF Structure, HandlerOK
<1>t. TablesOK /\ PoolOK BY DEF Structure
<1>g. g \in games /\ g \notin maxDrift => g \in Games /\ MaxOK(g)
  BY <1>t DEF TablesOK, MaxExact, MaxOK
(* The handler's steps that touch neither quests nor sums.                 *)
<1>h. ASSUME UNCHANGED <<quests, gameid, score, state, maxscore, queue, job>>,
             g \in games, g \notin maxDrift, starting = <<>> \/ UNCHANGED starting
      PROVE  MaxOK(g)'
  BY <1>h, <1>g, MaxKept, PendingHandler DEF OpenQuests
<1>1. ASSUME NEW r \in Requests, QuestPass(r) PROVE MaxOK(g)'
  BY <1>1, <1>h DEF QuestPass, tables, columns, derived, pool, drift
<1>2. ASSUME NEW r \in Requests, QuestsAdd(r) PROVE MaxOK(g)'
  <2>1. CASE g = r.gameid
    <3>1. Contains(starting', MaxScore(g))
      BY <2>1, <1>2 DEF QuestsAdd, Contains
    <3> QED BY <3>1 DEF MaxOK, Pending, Waiting
  <2>2. CASE g # r.gameid
    <3>1. next_id \notin quests
      BY <1>t DEF Structure, IdsOK, TablesOK, QuestId
    <3>2. OpenQuests(g)' = OpenQuests(g)
      BY <2>2, <3>1, <1>2, <1>t DEF QuestsAdd, OpenQuests, TablesOK
    <3>3. \A q \in OpenQuests(g) : score'[q] = score[q]
      BY <3>1, <1>2, <1>t DEF QuestsAdd, OpenQuests, TablesOK
    <3>4. Pending(MaxScore(g)) => Pending(MaxScore(g))'
      BY <1>2, PendingHandler DEF QuestsAdd, Serve, At, pool
    <3> QED BY <3>2, <3>3, <3>4, <1>2, <1>g, MaxKept DEF QuestsAdd, drift
  <2> QED BY <2>1, <2>2
<1>31. ASSUME NEW r \in Requests, LeaksBuy(r) PROVE MaxOK(g)'
  BY <1>31, <1>h DEF LeaksBuy, tables, columns, pool, drift
<1>3. ASSUME NEW r \in Requests, QuestDelete(r) PROVE MaxOK(g)'
  <2>1. g \in games /\ g \notin maxDrift /\ gameid[r.questid] # g
    BY <1>3 DEF QuestDelete
  <2>2. OpenQuests(g)' = OpenQuests(g)
    BY <1>3, <2>1 DEF QuestDelete, OpenQuests, columns
  <2> QED BY <2>1, <2>2, <1>3, <1>g, MaxKept, PendingHandler
          DEF QuestDelete, columns, derived, pool
<1>4. ASSUME NEW r \in Requests, QuestUpdate(r) PROVE MaxOK(g)'
  BY <1>4, <1>h DEF QuestUpdate, tables, columns, derived, pool, drift
<1>5. ASSUME NEW r \in Requests, GameDelete(r) PROVE MaxOK(g)'
  BY <1>5, <1>h DEF GameDelete, tables, columns, derived, pool
<1>6. ASSUME NEW r \in Requests, UsersDelete(r) PROVE MaxOK(g)'
  BY <1>6, <1>h DEF UsersDelete, tables, columns, derived, pool
<1>7. CASE StartTask
  BY <1>7, <1>t, <1>g, PendingStart, MaxKept
     DEF StartTask, OpenQuests, tables, columns, derived, drift
<1>8. CASE PassCredit
  BY <1>8, <1>h DEF PassCredit, At, tables, columns, derived, pool, drift
<1>9. CASE DeleteAnswers
  BY <1>9, <1>h DEF DeleteAnswers, tables, columns, derived, pool, drift
<1>10. CASE DeletePasses
  BY <1>10, <1>h DEF DeletePasses, tables, columns, derived, pool, drift
<1>11. CASE UpdateGameNotFound
  BY <1>11, <1>h DEF UpdateGameNotFound, tables, columns, derived, pool, drift
<1>12. CASE UpdateGameId
  <2>1. CASE UNCHANGED <<gameid, starting>>
    BY <1>12, <1>h, <2>1 DEF UpdateGameId, tables, derived, pool, drift
  <2>2. CASE /\ gameid' = [gameid EXCEPT ![req.questid] = req.gameid]
             /\ starting' = <<MaxScore(req.gameid), MaxScore(gameid[req.questid])>>
    <3>1. CASE g \in {req.gameid, gameid[req.questid]}
      <4>1. Contains(starting', MaxScore(g))
        BY <2>2, <3>1 DEF Contains
      <4> QED BY <4>1 DEF MaxOK, Pending, Waiting
    <3>2. CASE g \notin {req.gameid, gameid[req.questid]}
      <4>1. OpenQuests(g)' = OpenQuests(g)
        BY <1>12, <2>2, <3>2, <1>t DEF UpdateGameId, OpenQuests, TablesOK, tables
      <4> QED BY <4>1, <1>12, <1>g, MaxKept, PendingHandler
              DEF UpdateGameId, At, tables, derived, pool, drift
    <3> QED BY <3>1, <3>2
  <2> QED BY <2>1, <2>2, <1>12 DEF UpdateGameId, MoveTasks
<1>13. CASE UpdateScore
  <2>1. CASE UNCHANGED <<score, starting>>
    BY <1>13, <1>h, <2>1 DEF UpdateScore, tables, derived, pool
  <2>2. CASE /\ score' = [score EXCEPT ![req.questid] = req.score]
             /\ starting' = <<MaxScore(gameid[req.questid])>>
    <3>1. CASE g = gameid[req.questid]
      <4>1. Contains(starting', MaxScore(g))
        BY <2>2, <3>1 DEF Contains
      <4> QED BY <4>1 DEF MaxOK, Pending, Waiting
    <3>2. CASE g # gameid[req.questid]
      <4>1. OpenQuests(g)' = OpenQuests(g)
        BY <1>13 DEF UpdateScore, OpenQuests, tables
      <4>2. \A q \in OpenQuests(g) : score'[q] = score[q]
        BY <2>2, <3>2, <1>t DEF OpenQuests, TablesOK
      <4> QED BY <4>1, <4>2, <1>13, <1>g, MaxKept, PendingHandler
              DEF UpdateScore, At, tables, derived, pool
    <3> QED BY <3>1, <3>2
  <2> QED BY <2>1, <2>2, <1>13 DEF UpdateScore
<1>14. CASE UpdateAnswer
  BY <1>14, <1>h DEF UpdateAnswer, tables, derived, pool, drift
<1>15. CASE UpdateState
  <2>1. CASE UNCHANGED <<state, maxDrift>>
    BY <1>15, <1>h, <2>1 DEF UpdateState, tables, derived, pool
  <2>2. CASE /\ state' = [state EXCEPT ![req.questid] = req.state]
             /\ maxDrift' = maxDrift \cup {gameid[req.questid]}
    <3>1. OpenQuests(g)' = OpenQuests(g)
      BY <1>15, <2>2, <1>t DEF UpdateState, OpenQuests, TablesOK, tables
    <3> QED BY <3>1, <2>2, <1>15, <1>g, MaxKept, PendingHandler
            DEF UpdateState, tables, derived, pool
  <2> QED BY <2>1, <2>2, <1>15 DEF UpdateState
<1>16. CASE GameDeletePasses
  BY <1>16, <1>h DEF GameDeletePasses, tables, columns, derived, pool
<1>17. CASE GameDeleteQuests
  <2>1. g \in games /\ g \notin maxDrift /\ req.gameid # g
    BY <1>17 DEF GameDeleteQuests
  <2>2. OpenQuests(g)' = OpenQuests(g)
    BY <1>17, <2>1 DEF GameDeleteQuests, QuestsOf, OpenQuests, columns
  <2> QED BY <2>1, <2>2, <1>17, <1>g, MaxKept, PendingHandler
          DEF GameDeleteQuests, columns, derived, pool
<1>18. CASE GameDeleteRow
  BY <1>18, <1>h DEF GameDeleteRow, columns, derived, pool, drift
<1>19. CASE UsersDeleteAnswers
  BY <1>19, <1>h DEF UsersDeleteAnswers, tables, columns, derived, pool, drift
<1>20. CASE UsersDeleteRow
  BY <1>20, <1>h DEF UsersDeleteRow, columns, derived, pool, drift
<1>21. ASSUME NEW t \in Threads, TakeTask(t) PROVE MaxOK(g)'
  <2>1. g \in games /\ g \notin maxDrift /\ UNCHANGED <<quests, gameid, score, state, maxscore>>
    BY <1>21 DEF TakeTask, tables, columns, derived, drift
  <2>2. MaxScore(g) \in Task BY <2>1, <1>g, TaskTypes
  <2> QED BY <2>1, <2>2, <1>21, <1>g, <1>t, PendingTake, MaxKept DEF OpenQuests
<1>22. ASSUME NEW t \in Threads, ReadRating(t) PROVE MaxOK(g)'
  BY <1>22, <1>h DEF ReadRating, tables, columns, derived, handler
<1>23. ASSUME NEW t \in Threads, job[t] # MaxScore(g), Idle(t), UNCHANGED <<handler, queue>>,
              UNCHANGED <<quests, games, gameid, score, state>>,
              maxscore'[g] = maxscore[g], g \notin maxDrift
       PROVE MaxOK(g)'
  <2>1. Pending(MaxScore(g)) => Pending(MaxScore(g))'
    BY <1>23, <1>t, PendingOther DEF handler
  <2> QED BY <1>23, <2>1, <1>g, MaxKept DEF OpenQuests
<1>24. ASSUME NEW t \in Threads, WriteRating(t) PROVE MaxOK(g)'
  BY <1>24, <1>23, TaskNames DEF WriteRating, Mid, tables, columns, drift
<1>25. ASSUME NEW t \in Threads, CountSolved(t) PROVE MaxOK(g)'
  BY <1>25, <1>23, TaskNames DEF CountSolved, tables, columns
<1>26. ASSUME NEW t \in Threads, SumMaxScore(t) PROVE MaxOK(g)'
  <2> PICK h \in Games : job[t] = MaxScore(h) /\ Idle(t)
         /\ (IF OpenQuests(h) = {} /\ StrictSqlMode
             THEN UNCHANGED maxscore /\ maxDrift' = maxDrift \cup {h}
             ELSE /\ maxscore' = (IF h \in games THEN [maxscore EXCEPT ![h] = SumOpen(h)]
                                 ELSE maxscore)
                  /\ maxDrift' = maxDrift \ {h})
         /\ UNCHANGED <<tables, columns, handler, queue>>
    BY <1>26 DEF SumMaxScore
  <2>1. SumOpen(g)' = SumOpen(g) /\ g \in games
    BY DEF SumOpen, OpenQuests, tables, columns
  <2>2. CASE h = g
    <3>1. maxscore'[g] = SumOpen(g)
      BY <2>1, <2>2, <1>t DEF TablesOK
    <3> QED BY <3>1, <2>1 DEF MaxOK
  <2>3. CASE h # g
    BY <2>3, <2>1, <1>23, <1>t, TaskNames DEF tables, columns, TablesOK
  <2> QED BY <2>2, <2>3
<1>27. ASSUME NEW t \in Threads, TaskFails(t) PROVE MaxOK(g)'
  <2>1. g \in Games /\ g \notin maxDrift /\ job[t] # MaxScore(g)
    BY <1>27, <1>t DEF TaskFails, Lose, tables, TablesOK
  <2> QED BY <2>1, <1>27, <1>23 DEF TaskFails, tables, columns, derived
<1>28. CASE StatementFails \/ DatabaseRestart
  BY <1>28, <1>h DEF StatementFails, DatabaseRestart, Lose, tables, columns, derived, pool
<1>29. CASE Crash
  <2>1. g \in games /\ g \notin maxDrift /\ g \in Games
    BY <1>29, <1>t DEF Crash, Lose, tables, TablesOK
  <2>2. MaxScore(g) \notin ToSet(starting) \cup ToSet(queue) \cup {job[t] : t \in Threads}
    BY <1>29, <2>1 DEF Crash, Lose
  <2>3. ~Pending(MaxScore(g))
    BY <2>2, <1>t, PendingLost
  <2> QED BY <2>1, <2>3, <1>g, <1>29, MaxKept DEF Crash, OpenQuests, tables, columns, derived
<1>30. CASE UNCHANGED vars
  BY <1>30, <1>h DEF vars, tables, columns, derived, pool, handler, drift
<1> QED BY <1>1, <1>2, <1>3, <1>4, <1>5, <1>6, <1>7, <1>8, <1>9, <1>10, <1>11, <1>12,
         <1>13, <1>14, <1>15, <1>16, <1>17, <1>18, <1>19, <1>20, <1>21, <1>22, <1>24,
         <1>25, <1>26, <1>27, <1>28, <1>29, <1>30, <1>31
       DEF Next, TakeRequest, Handle, RunTask

(* games.maxscore is the sum over the game's open quests, or an            *)
(* UpdateMaxScoreGame task is pending, outside maxDrift.                   *)
THEOREM MaxScoresAreExact == Spec => []MaxExact
<1>1. Init => MaxExact
  BY DEF Init, MaxExact
<1>2. Structure /\ MaxExact /\ [Next]_vars => MaxExact' BY NextMax
<1> QED BY <1>1, <1>2, StructureHolds, PTL DEF Spec
-----------------------------------------------------------------------------
(* Ratings.  RatingExact is not inductive: the sum a thread holds between  *)
(* its SELECT and its UPDATE may be out of date, and is harmless only      *)
(* because another task is still to read.  Fresh: such a task exists.      *)
Fresh(u) == Waiting(Rating(u))
              \/ \E t \in Threads : job[t] = Rating(u) /\ nNewRating[t] = Unread

RatingOK(u) ==
  /\ \/ rating[u] = RatingDue(u) \/ Fresh(u)
     \/ \E t \in Threads : Mid(t, u) /\ nNewRating[t] = SumScore(u)
  /\ \A t \in Threads : Mid(t, u) => nNewRating[t] = SumScore(u) \/ Fresh(u)
  /\ \A s, t \in Threads : Mid(s, u) /\ Mid(t, u) => s = t

RatingInv ==
  /\ \A t \in Threads : nNewRating[t] # Unread => \E u \in Users : job[t] = Rating(u)
  /\ \A u \in users \ ratingDrift : RatingOK(u)

LEMMA SumKept ==
  ASSUME NEW u, UNCHANGED SolvedBy(u), \A q \in SolvedBy(u) : score'[q] = score[q]
  PROVE  UNCHANGED SumScore(u)
<1>1. [q \in SolvedBy(u) |-> score[q]] = [q \in SolvedBy(u)' |-> score'[q]]
  OBVIOUS
<1> QED BY <1>1 DEF SumScore

LEMMA RatingKept ==
  ASSUME NEW u, RatingOK(u), Fresh(u) => Fresh(u)', rating'[u] = rating[u],
         spent'[u] = spent[u], UNCHANGED SumScore(u), \A t \in Threads : Mid(t, u)' <=> Mid(t, u),
         \A t \in Threads : Mid(t, u) => nNewRating'[t] = nNewRating[t]
  PROVE  RatingOK(u)'
  BY DEF RatingOK, RatingDue

LEMMA FreshHandler ==
  ASSUME starting = <<>> \/ UNCHANGED starting, UNCHANGED <<queue, job, nNewRating>>,
         NEW u, Fresh(u)
  PROVE  Fresh(u)'
  BY WaitingHandler DEF Fresh

(* A step of the handler after which u's sum is what it was.               *)
LEMMA RatingHandler ==
  ASSUME NEW u, RatingOK(u), starting = <<>> \/ UNCHANGED starting, UNCHANGED pool,
         rating'[u] = rating[u], spent'[u] = spent[u], UNCHANGED SumScore(u)
  PROVE  RatingOK(u)'
<1>1. UNCHANGED <<queue, job, nNewRating>>
  BY DEF pool
<1>2. \A t \in Threads : (Mid(t, u)' <=> Mid(t, u)) /\ nNewRating'[t] = nNewRating[t]
  BY <1>1 DEF Mid
<1> QED BY <1>1, <1>2, FreshHandler, RatingKept

(* A thread that was not at work on u's rating, before or after the step.  *)
LEMMA RatingPool ==
  ASSUME PoolOK, NEW u, RatingOK(u), NEW t \in Threads, job[t] # Rating(u),
         job'[t] # Rating(u), \A s \in Threads \ {t} : job'[s] = job[s]
                                   /\ nNewRating'[s] = nNewRating[s],
         UNCHANGED <<starting, queue, SumScore(u)>>, rating'[u] = rating[u],
         spent'[u] = spent[u]
  PROVE  RatingOK(u)'
<1>1. \A s \in Threads : Mid(s, u)' <=> Mid(s, u)
  BY DEF Mid
<1>2. \A s \in Threads : Mid(s, u) => nNewRating'[s] = nNewRating[s]
  BY DEF Mid
<1>3. Fresh(u) => Fresh(u)'
  BY WaitingHandler DEF Fresh
<1> QED BY <1>1, <1>2, <1>3, RatingKept

LEMMA NextRating == Structure /\ DerivedOK /\ RatingInv /\ [Next]_vars => RatingInv'
<1> SUFFICES ASSUME Structure, DerivedOK, RatingInv, [Next]_vars PROVE RatingInv'
  OBVIOUS
<1>r. req \in Requests BY DEF Structure, HandlerOK
<1>t. TablesOK /\ PoolOK BY DEF Structure
<1>1. ASSUME NEW t \in Threads, nNewRating'[t] # Unread
      PROVE  \E u \in Users : job'[t] = Rating(u)
  <2>1. CASE UNCHANGED <<job, nNewRating>>
    BY <2>1, <1>1 DEF RatingInv
  <2>2. ASSUME NEW s \in Threads, TakeTask(s) PROVE \E u \in Users : job'[t] = Rating(u)
    <3>1. s # t \/ nNewRating[t] = Unread
      BY <2>2, NoTaskIsNone, TaskTypes DEF TakeTask, RatingInv
    <3> QED BY <3>1, <2>2, <1>1, <1>t DEF TakeTask, RatingInv, PoolOK
  <2>3. ASSUME NEW s \in Threads, ReadRating(s) PROVE \E u \in Users : job'[t] = Rating(u)
    BY <2>3, <1>1, <1>t DEF ReadRating, RatingInv, PoolOK
  <2>4. ASSUME NEW s \in Threads, Idle(s) PROVE \E u \in Users : job'[t] = Rating(u)
    BY <2>4, <1>1, <1>t DEF Idle, RatingInv, PoolOK
  <2>5. CASE Crash
    BY <2>5, <1>1 DEF Crash
  <2> QED BY <2>1, <2>2, <2>3, <2>4, <2>5
      DEF Next, TakeRequest, Handle, RunTask, vars, pool, QuestPass, QuestsAdd, QuestDelete,
          QuestUpdate, GameDelete, UsersDelete, LeaksBuy, StartTask, PassCredit, DeleteAnswers,
          DeletePasses, UpdateGameNotFound, UpdateGameId, UpdateScore, UpdateAnswer,
          UpdateState, GameDeletePasses, GameDeleteQuests, GameDeleteRow,
          UsersDeleteAnswers, UsersDeleteRow, WriteRating, CountSolved, SumMaxScore,
          TaskFails, StatementFails, DatabaseRestart
<1>2. ASSUME NEW u \in users' \ ratingDrift' PROVE RatingOK(u)'
  <2>u. u \in users /\ u \notin ratingDrift => u \in Users /\ RatingOK(u)
    BY <1>t DEF TablesOK, RatingInv
  <2>s. ASSUME UNCHANGED <<quests, score, users_quests>> PROVE UNCHANGED SumScore(u)
    BY <2>s DEF SumScore, SolvedBy
  (* The handler's steps that touch neither scores nor solved quests.      *)
  <2>h. ASSUME UNCHANGED <<quests, score, users_quests, rating, spent, pool>>, u \in users,
               u \notin ratingDrift, starting = <<>> \/ UNCHANGED starting
        PROVE  RatingOK(u)'
    BY <2>h, <2>s, <2>u, RatingHandler
  <2>1. ASSUME NEW r \in Requests, QuestPass(r) PROVE RatingOK(u)'
    BY <2>1, <2>h DEF QuestPass, tables, columns, derived, drift
  <2>2. ASSUME NEW r \in Requests, QuestsAdd(r) PROVE RatingOK(u)'
    <3>1. /\ u \in users /\ u \notin ratingDrift /\ u \notin Passers({next_id})
          /\ UNCHANGED <<rating, spent, pool, users_quests>>
          /\ quests' = quests \cup {next_id} /\ score' = [score EXCEPT ![next_id] = r.score]
          /\ starting = <<>>
      BY <2>2 DEF QuestsAdd, Serve, At, solving
    <3>2. <<u, next_id>> \notin users_quests
      BY <3>1, <1>t DEF Passers, TablesOK
    <3>3. UNCHANGED SolvedBy(u)
      BY <3>1, <3>2 DEF SolvedBy
    <3>4. \A q \in SolvedBy(u) : score'[q] = score[q]
      BY <3>1, <3>2, <1>t DEF SolvedBy, TablesOK
    <3> QED BY <3>1, <3>3, <3>4, <2>u, SumKept, RatingHandler
  <2>3. ASSUME NEW r \in Requests, QuestDelete(r) PROVE RatingOK(u)'
    <3>1. /\ u \in users /\ u \notin ratingDrift
          /\ UNCHANGED <<rating, spent, pool, users_quests, score, starting>>
          /\ quests' = quests \ {r.questid} /\ <<u, r.questid>> \notin users_quests
      BY <2>3, <1>t DEF QuestDelete, Passers, columns, solving, derived, TablesOK
    <3>2. UNCHANGED SolvedBy(u)
      BY <3>1 DEF SolvedBy
    <3> QED BY <3>1, <3>2, <2>u, SumKept, RatingHandler
  <2>4. ASSUME NEW r \in Requests, QuestUpdate(r) PROVE RatingOK(u)'
    BY <2>4, <2>h DEF QuestUpdate, tables, columns, derived, solving, drift
  <2>5. ASSUME NEW r \in Requests, GameDelete(r) PROVE RatingOK(u)'
    BY <2>5, <2>h DEF GameDelete, tables, columns, derived
  <2>6. ASSUME NEW r \in Requests, UsersDelete(r) PROVE RatingOK(u)'
    <3>1. /\ u \in users /\ u \notin ratingDrift /\ u # r.userid
          /\ UNCHANGED <<quests, rating, spent, pool, score, starting>>
          /\ users_quests' = {row \in users_quests : row[1] # r.userid}
      BY <2>6 DEF UsersDelete, tables, columns, derived
    <3>2. UNCHANGED SolvedBy(u)
      BY <3>1 DEF SolvedBy
    <3> QED BY <3>1, <3>2, <2>u, SumKept, RatingHandler
  <2>31. ASSUME NEW r \in Requests, LeaksBuy(r) PROVE RatingOK(u)'
    <3>1. /\ u \in users /\ u \notin ratingDrift
          /\ UNCHANGED <<quests, score, users_quests, pool, starting>>
      BY <2>31 DEF LeaksBuy, tables, columns, solving, drift
    <3>2. CASE u # r.user
      <4>1. rating'[u] = rating[u] /\ spent'[u] = spent[u]
        BY <2>31, <3>1, <3>2, <1>t DEF LeaksBuy, TablesOK
      <4> QED BY <3>1, <4>1, <2>s, <2>u, RatingHandler
    <3>3. CASE u = r.user
      <4>1. rating'[u] = rating[u] - r.price /\ spent'[u] = spent[u] + r.price
        BY <2>31, <3>1, <3>3, <1>t DEF LeaksBuy, TablesOK
      <4>2. rating[u] = RatingDue(u) => rating'[u] = RatingDue(u)'
        <5>1. SumScore(u) \in Nat /\ spent[u] \in Int /\ r.price \in Int
          BY <3>1, <2>u, <1>t, DerivedNat, RequestTypes DEF DerivedOK
        <5>2. SumScore(u)' = SumScore(u)
          BY <3>1, <2>s
        <5> QED BY <4>1, <5>1, <5>2 DEF RatingDue
      <4>3. \A t \in Threads : (Mid(t, u)' <=> Mid(t, u)) /\ nNewRating'[t] = nNewRating[t]
        BY <3>1 DEF Mid, pool
      <4>4. Fresh(u) => Fresh(u)'
        BY <3>1, FreshHandler DEF pool
      <4> QED BY <3>1, <4>2, <4>3, <4>4, <2>s, <2>u DEF RatingOK
    <3> QED BY <3>2, <3>3
  <2>7. CASE StartTask
    <3>1. /\ u \in users /\ u \notin ratingDrift
          /\ UNCHANGED <<quests, score, users_quests, rating, spent, job, nNewRating>>
      BY <2>7 DEF StartTask, tables, columns, derived, solving, drift
    <3>2. Fresh(u) => Fresh(u)'
      BY <3>1, <2>7, <1>t, WaitingStart DEF Fresh
    <3>3. \A t \in Threads : (Mid(t, u)' <=> Mid(t, u)) /\ nNewRating'[t] = nNewRating[t]
      BY <3>1 DEF Mid
    <3> QED BY <3>1, <3>2, <3>3, <2>s, <2>u, RatingKept
  <2>8. CASE PassCredit
    <3>1. /\ u \in users /\ u \notin ratingDrift /\ starting = <<>>
          /\ UNCHANGED <<quests, score, rating, spent, pool>>
          /\ users_quests' = users_quests \cup {<<req.user, req.questid>>}
          /\ starting' = <<Rating(req.user), Solved(req.questid)>>
      BY <2>8 DEF PassCredit, At, PassTasks, tables, columns, derived, drift
    <3>2. CASE u = req.user
      <4>1. Contains(starting', Rating(u))
        BY <3>1, <3>2 DEF Contains
      <4>2. Fresh(u)'
        BY <4>1 DEF Fresh, Waiting
      <4>3. \A t \in Threads : Mid(t, u)' <=> Mid(t, u)
        BY <3>1 DEF Mid, pool
      <4> QED BY <3>1, <4>2, <4>3, <2>u DEF RatingOK
    <3>3. CASE u # req.user
      <4>1. UNCHANGED SolvedBy(u)
        BY <3>1, <3>3 DEF SolvedBy
      <4> QED BY <3>1, <4>1, <2>u, SumKept, RatingHandler
    <3> QED BY <3>2, <3>3
  <2>9. CASE DeleteAnswers
    BY <2>9, <2>h DEF DeleteAnswers, tables, columns, derived, drift
  <2>10. CASE DeletePasses
    <3>1. /\ u \in users /\ u \notin ratingDrift /\ req.questid \notin quests
          /\ UNCHANGED <<quests, score, rating, spent, pool, starting>>
          /\ users_quests' = {row \in users_quests : row[2] # req.questid}
      BY <2>10 DEF DeletePasses, At, Structure, HandlerOK, tables, columns, derived, drift
    <3>2. UNCHANGED SolvedBy(u)
      BY <3>1 DEF SolvedBy
    <3> QED BY <3>1, <3>2, <2>u, SumKept, RatingHandler
  <2>11. CASE UpdateGameNotFound
    BY <2>11, <2>h DEF UpdateGameNotFound, tables, columns, derived, solving, drift
  <2>12. CASE UpdateGameId
    BY <2>12, <2>h DEF UpdateGameId, At, tables, derived, solving, drift
  <2>13. CASE UpdateScore
    <3>1. CASE UNCHANGED <<score, starting, ratingDrift>>
      BY <2>13, <3>1, <2>h DEF UpdateScore, tables, derived, solving
    <3>2. CASE /\ score' = [score EXCEPT ![req.questid] = req.score]
               /\ ratingDrift' = ratingDrift \cup Passers({req.questid})
      <4>1. /\ u \in users /\ u \notin ratingDrift /\ starting = <<>>
            /\ UNCHANGED <<quests, users_quests, rating, spent, pool>>
            /\ <<u, req.questid>> \notin users_quests
        BY <2>13, <3>2, <1>t DEF UpdateScore, At, Passers, tables, derived, solving, TablesOK
      <4>2. UNCHANGED SolvedBy(u)
        BY <4>1 DEF SolvedBy
      <4>3. \A q \in SolvedBy(u) : score'[q] = score[q]
        BY <4>1, <3>2, <1>t DEF SolvedBy, TablesOK
      <4> QED BY <4>1, <4>2, <4>3, <2>u, SumKept, RatingHandler
    <3> QED BY <3>1, <3>2, <2>13 DEF UpdateScore
  <2>14. CASE UpdateAnswer
    BY <2>14, <2>h DEF UpdateAnswer, tables, derived, solving, drift
  <2>15. CASE UpdateState
    BY <2>15, <2>h DEF UpdateState, tables, derived, solving
  <2>16. CASE GameDeletePasses
    <3>1. /\ u \in users /\ u \notin ratingDrift
          /\ UNCHANGED <<quests, score, rating, spent, pool, starting>>
          /\ users_quests' = {row \in users_quests : row[2] \notin QuestsOf(req.gameid)}
          /\ \A q \in QuestsOf(req.gameid) : <<u, q>> \notin users_quests
      BY <2>16, <1>t DEF GameDeletePasses, Passers, tables, columns, derived, TablesOK
    <3>2. UNCHANGED SolvedBy(u)
      BY <3>1 DEF SolvedBy
    <3> QED BY <3>1, <3>2, <2>u, SumKept, RatingHandler
  <2>17. CASE GameDeleteQuests
    <3>1. /\ u \in users /\ u \notin ratingDrift
          /\ UNCHANGED <<users_quests, score, rating, spent, pool, starting>>
          /\ quests' = quests \ QuestsOf(req.gameid)
          /\ \A row \in users_quests : row[2] \notin QuestsOf(req.gameid)
      BY <2>17 DEF GameDeleteQuests, At, Structure, HandlerOK, columns, solving, derived
    <3>2. UNCHANGED SolvedBy(u)
      BY <3>1 DEF SolvedBy
    <3> QED BY <3>1, <3>2, <2>u, SumKept, RatingHandler
  <2>18. CASE GameDeleteRow
    BY <2>18, <2>h DEF GameDeleteRow, columns, derived, solving, drift
  <2>19. CASE UsersDeleteAnswers
    BY <2>19, <2>h DEF UsersDeleteAnswers, tables, columns, derived, drift
  <2>20. CASE UsersDeleteRow
    BY <2>20, <2>h DEF UsersDeleteRow, columns, derived, solving, drift
  <2>21. ASSUME NEW t \in Threads, TakeTask(t) PROVE RatingOK(u)'
    <3>1. /\ u \in users /\ u \notin ratingDrift
          /\ UNCHANGED <<quests, score, users_quests, rating, spent, nNewRating>>
          /\ job[t] = NoTask /\ \A s \in Threads \ {t} : job'[s] = job[s]
      BY <2>21, <1>t DEF TakeTask, tables, columns, derived, solving, drift, PoolOK
    <3>2. nNewRating[t] = Unread
      BY <3>1, NoTaskIsNone, TaskTypes DEF RatingInv
    <3>3. NoTask # Rating(u)
      BY <3>1, <2>u, NoTaskIsNone, TaskTypes
    <3>4. \A s \in Threads : Mid(s, u)' <=> Mid(s, u)
      BY <3>1, <3>2, <3>3 DEF Mid
    <3>5. Fresh(u) => Fresh(u)'
      <4>1. CASE Waiting(Rating(u))
        BY <4>1, <2>21, <3>1, <3>2, <1>t, WaitingTake DEF Fresh
      <4>2. ASSUME NEW s \in Threads, job[s] = Rating(u), nNewRating[s] = Unread
            PROVE  Fresh(u)'
        BY <4>2, <3>1, <3>3 DEF Fresh
      <4> QED BY <4>1, <4>2 DEF Fresh
    <3> QED BY <3>1, <3>4, <3>5, <2>s, <2>u, RatingKept
  <2>22. ASSUME NEW t \in Threads, ReadRating(t) PROVE RatingOK(u)'
    <3> PICK v \in Users :
          /\ job[t] = Rating(v) /\ nNewRating[t] = Unread
          /\ nNewRating' = [nNewRating EXCEPT ![t] = SumScore(v)]
          /\ ratingDrift' = (IF \E s \in Threads : Mid(s, v) THEN ratingDrift \cup {v}
                            ELSE ratingDrift \ {v})
          /\ UNCHANGED <<tables, columns, derived, solving, handler, queue, job>>
      BY <2>22 DEF ReadRating
    <3>1. u \in users /\ UNCHANGED <<quests, score, users_quests, rating, spent, starting>>
      BY DEF tables, columns, derived, solving, handler
    <3>2. UNCHANGED SumScore(u)
      BY <3>1, <2>s
    <3>3. CASE u = v
      <4>1. \A s \in Threads : ~Mid(s, u)
        BY <3>3
      <4>2. /\ nNewRating'[t] = SumScore(u)
            /\ \A s \in Threads \ {t} : ~Mid(s, u)'
        BY <3>3, <4>1, <1>t DEF Mid, PoolOK
      <4>3. CASE SumScore(u) = Unread
        BY <3>2, <3>3, <4>2, <4>3 DEF RatingOK, Fresh, Mid
      <4>4. CASE SumScore(u) # Unread
        BY <3>2, <3>3, <4>2, <4>4 DEF RatingOK, Mid
      <4> QED BY <4>3, <4>4
    <3>4. CASE u # v
      <4>1. u \notin ratingDrift /\ job[t] # Rating(u)
        BY <3>4, TaskNames
      <4> QED BY <3>1, <3>2, <4>1, <2>u, <1>t, RatingPool DEF PoolOK
    <3> QED BY <3>3, <3>4
  (* A thread ends a task other than u's.                                  *)
  <2>23. ASSUME NEW t \in Threads, job[t] # Rating(u), Idle(t), rating'[u] = rating[u],
                spent'[u] = spent[u], UNCHANGED <<users, quests, score, users_quests, starting, queue>>,
                u \notin ratingDrift
         PROVE  RatingOK(u)'
    <3>1. job'[t] # Rating(u)
      BY <2>23, <2>u, <1>t, NoTaskIsNone, TaskTypes DEF Idle, PoolOK
    <3>2. \A s \in Threads \ {t} : job'[s] = job[s] /\ nNewRating'[s] = nNewRating[s]
      BY <2>23, <1>t DEF Idle, PoolOK
    <3> QED BY <3>1, <3>2, <2>23, <2>s, <2>u, <1>t, RatingPool
  <2>24. ASSUME NEW t \in Threads, WriteRating(t) PROVE RatingOK(u)'
    <3> PICK v \in Users :
          /\ Mid(t, v) /\ Idle(t)
          /\ IF v \in users
             THEN /\ rating' = [rating EXCEPT ![v] = nNewRating[t]]
                  /\ spent' = [spent EXCEPT ![v] = 0]
             ELSE UNCHANGED <<rating, spent>>
          /\ UNCHANGED <<tables, columns, solving, handler, queue, drift>>
      BY <2>24 DEF WriteRating
    <3>1. /\ u \in users /\ u \notin ratingDrift
          /\ UNCHANGED <<users, quests, score, users_quests, starting, queue>>
      BY DEF tables, columns, solving, handler, drift
    <3>2. CASE u = v
      <4>1. rating'[u] = nNewRating[t] /\ spent'[u] = 0
        BY <3>1, <3>2, <1>t DEF TablesOK
      <4>2. \A s \in Threads : ~Mid(s, u)'
        BY <3>1, <3>2, <2>u, <1>t DEF RatingOK, Mid, Idle, PoolOK
      <4>3. Fresh(u) => Fresh(u)'
        BY <3>1, <3>2, <1>t, WaitingHandler DEF Fresh, Mid, Idle, PoolOK
      <4>4. RatingDue(u)' = SumScore(u)
        <5>1. SumScore(u) \in Nat
          BY <3>1, <2>u, <1>t, DerivedNat
        <5>2. SumScore(u)' = SumScore(u)
          BY <3>1, <2>s
        <5> QED BY <4>1, <5>1, <5>2 DEF RatingDue
      <4> QED BY <4>1, <4>2, <4>3, <4>4, <3>1, <3>2, <2>s, <2>u DEF RatingOK
    <3>3. CASE u # v
      BY <3>1, <3>3, <2>23, <1>t, TaskNames DEF Mid, TablesOK
    <3> QED BY <3>2, <3>3
  <2>25. ASSUME NEW t \in Threads, CountSolved(t) PROVE RatingOK(u)'
    BY <2>25, <2>23, TaskNames DEF CountSolved, tables, columns, solving, handler
  <2>26. ASSUME NEW t \in Threads, SumMaxScore(t) PROVE RatingOK(u)'
    BY <2>26, <2>23, TaskNames DEF SumMaxScore, tables, columns, solving, handler
  <2>27. ASSUME NEW t \in Threads, TaskFails(t) PROVE RatingOK(u)'
    <3>1. u \in Users /\ u \notin ratingDrift /\ job[t] # Rating(u)
      BY <2>27, <1>t DEF TaskFails, Lose, tables, TablesOK
    <3> QED BY <3>1, <2>27, <2>23 DEF TaskFails, tables, columns, derived, solving, handler
  <2>28. CASE StatementFails \/ DatabaseRestart
    BY <2>28, <2>h DEF StatementFails, DatabaseRestart, Lose, tables, columns, derived, solving
  <2>29. CASE Crash
    <3>1. /\ u \in users /\ u \notin ratingDrift
          /\ UNCHANGED <<quests, score, users_quests, rating, spent>>
      BY <2>29 DEF Crash, Lose, tables, columns, derived, solving
    <3>2. Rating(u) \notin ToSet(starting) \cup ToSet(queue) \cup {job[t] : t \in Threads}
      BY <2>29, <3>1, <2>u DEF Crash, Lose
    <3>3. ~Pending(Rating(u))
      BY <3>2, <1>t, PendingLost
    <3>4. rating[u] = RatingDue(u)
      BY <3>1, <3>3, <2>u DEF RatingOK, Fresh, Mid, Pending, Running
    <3>5. \A t \in Threads : ~Mid(t, u)'
      BY <2>29 DEF Crash, Mid
    <3> QED BY <3>1, <3>4, <3>5, <2>s DEF RatingOK, RatingDue
  <2>30. CASE UNCHANGED vars
    BY <2>30, <2>h DEF vars, tables, columns, derived, solving, handler, drift
  <2> QED BY <2>1, <2>2, <2>3, <2>4, <2>5, <2>6, <2>7, <2>8, <2>9, <2>10, <2>11, <2>12,
           <2>13, <2>14, <2>15, <2>16, <2>17, <2>18, <2>19, <2>20, <2>21, <2>22, <2>24,
           <2>25, <2>26, <2>27, <2>28, <2>29, <2>30, <2>31
         DEF Next, TakeRequest, Handle, RunTask
<1> QED BY <1>1, <1>2 DEF RatingInv

(* users.rating is the sum of the scores of the quests the user solved,    *)
(* less what leaks.buy took off since it was last recomputed, or an        *)
(* UpdateUserRating task is pending, outside ratingDrift: a task that runs *)
(* alone makes the rating right, or leaves one that will, whatever is      *)
(* bought or solved while it runs.                                         *)
THEOREM RatingsAreExact == Spec => []RatingExact
<1>1. Init => RatingInv
  <2> SUFFICES ASSUME Init PROVE RatingInv OBVIOUS
  <2>1. \A t \in Threads : nNewRating[t] = Unread
    BY DEF Init
  <2>2. \A u \in Users : rating[u] = RatingDue(u)
    <3>1. \A u \in Users : SumScore(u) \in Nat
      BY InitStructure, DerivedNat DEF Structure
    <3>2. \A u \in Users : rating[u] = SumScore(u) /\ spent[u] = 0
      BY DEF Init
    <3> QED BY <3>1, <3>2 DEF RatingDue
  <2> QED BY <2>1, <2>2 DEF Init, RatingInv, RatingOK, Mid
<1>2. Structure /\ DerivedOK /\ RatingInv /\ [Next]_vars => RatingInv' BY NextRating
<1>3. RatingInv => RatingExact
  BY DEF RatingInv, RatingOK, RatingExact, Fresh, Mid, Pending, Running
<1> QED BY <1>1, <1>2, <1>3, StructureHolds, DerivedHolds, PTL DEF Spec
=============================================================================
