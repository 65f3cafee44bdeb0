---------------------------- MODULE MCQuestScore ----------------------------
(* Small instances of QuestScore: two players, an administrator, two games. *)
EXTENDS QuestScore

CONSTANTS ann, root, g1, g2, right, wrong, t1, t2

(* The two threads do the same; no formula of a safety run tells them apart. *)
ThreadsAlike == Permutations({t1, t2})

Blank == [cmd |-> "quest_pass", user |-> ann, userid |-> ann, questid |-> 1,
          gameid |-> g1, score |-> 0, state |-> "open", answer |-> right, price |-> 1, has |-> {}]

Pass(u, q, a) == [Blank EXCEPT !.user = u, !.questid = q, !.answer = a]
Add(g, n, s) == [Blank EXCEPT !.cmd = "quests.add", !.user = root, !.gameid = g,
                              !.score = n, !.state = s]
Delete(q) == [Blank EXCEPT !.cmd = "quest_delete", !.user = root, !.questid = q]
Update(q, has) == [Blank EXCEPT !.cmd = "quest_update", !.user = root,
                                !.questid = q, !.gameid = g2, !.score = 3,
                                !.state = "closed", !.answer = wrong, !.has = has]
GameDel(g) == [Blank EXCEPT !.cmd = "game_delete", !.user = root, !.gameid = g]
Buy(u) == [Blank EXCEPT !.cmd = "leaks.buy", !.user = u]
UserDel(u) == [Blank EXCEPT !.cmd = "users_delete", !.user = root, !.userid = u]

Row(g, n, s) == [gameid |-> g, score |-> n, state |-> s, answer |-> right]

(* Quests 1 and 2 are open and of different scores; 3 may be added.        *)
SeedTwo == <<Row(g1, 1, "open"), Row(g1, 2, "open")>>

(* Players solving, the administrator too, and a leak bought; nothing is   *)
(* edited.                                                                 *)
Solving == {Pass(ann, 1, right), Pass(ann, 2, right), Pass(root, 1, right),
            Pass(ann, 1, wrong), Add(g1, 2, "open"), Buy(ann)}

(* One player and the right answers only.                                  *)
SolvingOnly == {Pass(ann, q, right) : q \in 1..2}

(* Quests, games and users edited and deleted while quests are solved and  *)
(* a leak is bought; the quest deleted has the largest number.             *)
Editing == {Pass(ann, 1, right), Pass(ann, 2, right), Pass(root, 1, right),
            Add(g2, 2, "open"), Delete(2), Update(1, {"gameid", "score"}),
            Update(1, {"state"}), Update(1, Fields),
            GameDel(g1), GameDel(g2), UserDel(ann), Buy(ann)}
=============================================================================
