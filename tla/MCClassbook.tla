---------------------------- MODULE MCClassbook ----------------------------
(* Articles, one uuid to choose, English and one other language.           *)
EXTENDS Classbook

CONSTANTS u1, en, ru, x, y

TheUuids == {u1}
TheLangs == {en, ru}
TheTexts == {x, y}
=============================================================================
