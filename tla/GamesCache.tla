----------------------------- MODULE GamesCache -----------------------------
(* EmployGames and the game commands: the games table, the two caches of   *)
(* it -- a map by uuid and a vector that games_list and findGame(int) go   *)
(* through -- the games described by files, and the logos on disk.         *)
(*                                                                         *)
(* One thread runs the handlers, so only the end of the process or of the  *)
(* database server comes between the steps of one.  The database is        *)
(* mysql:5.7 with restart: always (tests/test-fhq-run/docker-compose.yml): *)
(* its auto_increment lives in memory and goes on from the largest number  *)
(* in the table when it is started again.  The cached objects are the      *)
(* elements of the vector; the map points at them.  The columns are those  *)
(* the database gives back as it got them: title, type_game, description,  *)
(* state, form, organizators, with values that fit, and not the dates.     *)
EXTENDS Naturals, Sequences, FiniteSets, Functions

CONSTANTS
  GameUuids, Values,
  NFields,     \* how many columns updateGame compares
  FileGames,   \* what file_storage/games/*/game.json may describe
  MaxGames,    \* bound: numbers given and taken back, so games created
  MaxGameFaults    \* bound: refused statements, ends of the process and restarts of the database

Columns == 1..NFields
Fields == [Columns -> Values]
Game == [uuid : GameUuids, id : Nat, fields : Fields]

ASSUME GamesAssumption ==
  /\ IsFiniteSet(GameUuids) /\ GameUuids # {} /\ Values # {} /\ NFields \in Nat /\ MaxGames \in Nat /\ MaxGameFaults \in Nat
  /\ IsFiniteSet(FileGames) /\ FileGames \subseteq Game /\ \A g \in FileGames : g.id = 0

VARIABLES
  row_id, row,      \* the table by its unique index idx_game_uuid; 0: no row
  next_id,          \* its auto_increment
  logos,            \* the numbers n of the files public/games/n.png
  vect,             \* m_vectCacheGame
  map,              \* m_mapCacheGames: the index in vect, 0: no entry
  game_pc, del, del_id,  \* the next step of game_delete, the game and its number
  game_faults,
  hidden,           \* auxiliary: games whose deletion was refused since init,
  left,             \* numbers of removed games whose logo stayed on disk,
  taken_back        \* and numbers that a restart of the database freed

table == <<row_id, row, next_id>>
cache == <<vect, map>>
handler == <<game_pc, del, del_id>>
history == <<hidden, left, taken_back>>
gamesVars == <<table, logos, cache, handler, game_faults, history>>

HasRow(u) == row_id[u] # 0
Cached(u) == map[u] # 0
GamesServing == game_pc = "idle"
GameFault == game_faults < MaxGameFaults /\ game_faults' = game_faults + 1

(* Values that no step reads.                                              *)
Blank == [c \in Columns |-> CHOOSE v \in Values : TRUE]
AnyUuid == CHOOSE u \in GameUuids : TRUE
HandlerOver == del' = AnyUuid /\ del_id' = 0

(* What the end of game_delete before the logo is removed leaves of it.    *)
LogoLeft == {del_id} \cap logos

GamesInit ==
  /\ row_id = [u \in GameUuids |-> 0] /\ row = [u \in GameUuids |-> Blank] /\ next_id = 1
  /\ logos = {} /\ vect = <<>> /\ map = [u \in GameUuids |-> 0]
  /\ game_pc = "down" /\ del = AnyUuid /\ del_id = 0 /\ game_faults = 0
  /\ hidden = {} /\ left = {} /\ taken_back = {}
-----------------------------------------------------------------------------
(* EmployGames::init.  Neither the SELECT nor the list of directories has  *)
(* an order; the first of the files with one uuid wins.  A file may be put *)
(* there between two starts, and one that does not parse is left out.      *)
GameRows == {[uuid |-> u, id |-> row_id[u], fields |-> row[u]] : u \in {v \in GameUuids : HasRow(v)}}

FileIsNew(f) == ~HasRow(f.uuid)

FromFiles ==
  {C \in SUBSET FileGames :
     \A f \in C : FileIsNew(f) /\ \A g \in C : f.uuid = g.uuid => f = g}

Orders(S) == Bijection(1..Cardinality(S), S)

IndexOf(s, u) ==
  IF \E k \in DOMAIN s : s[k].uuid = u THEN CHOOSE k \in DOMAIN s : s[k].uuid = u ELSE 0

GamesStart ==
  /\ game_pc = "down" /\ game_pc' = "idle"
  /\ \E C \in FromFiles : \E r \in Orders(GameRows), f \in Orders(C) : vect' = r \o f
  /\ map' = [u \in GameUuids |-> IndexOf(vect', u)]
  /\ UNCHANGED <<table, logos, del, del_id, game_faults, history>>

(* The process ends, between handlers or inside one.                       *)
GamesStop ==
  /\ game_pc # "down" /\ GameFault /\ game_pc' = "down"
  /\ vect' = <<>> /\ map' = [u \in GameUuids |-> 0]
  /\ left' = IF game_pc = "logo" THEN left \cup LogoLeft ELSE left
  /\ HandlerOver /\ hidden' = {}
  /\ UNCHANGED <<table, logos, taken_back>>

(* The database server is started again.  When game_delete was at work on  *)
(* the rows its statement is refused, which is DeleteRefused.              *)
GamesDatabaseRestart ==
  /\ game_pc # "row" /\ GameFault
  /\ \E n \in 1..next_id :
       /\ \A u \in GameUuids : row_id[u] < n
       /\ n > 1 => \E u \in GameUuids : row_id[u] = n - 1
       /\ next_id' = n /\ taken_back' = taken_back \cup n..(next_id - 1)
  /\ UNCHANGED <<row_id, row, logos, cache, handler, hidden, left>>
-----------------------------------------------------------------------------
(* addGame.  A game the map lacks may still have its row, and the INSERT   *)
(* is then refused; so it may be for any reason, and nothing is changed.   *)
ToMapPast(u) == map' = [map EXCEPT ![u] = Len(vect') + 1]

ToMap(u) == map' = [map EXCEPT ![u] = Len(vect')]

GameCreate(u, new) ==
  /\ GamesServing /\ next_id + Cardinality(taken_back) <= MaxGames
  /\ ~Cached(u) /\ ~HasRow(u)
  /\ row_id' = [row_id EXCEPT ![u] = next_id] /\ row' = [row EXCEPT ![u] = new]
  /\ next_id' = next_id + 1
  /\ vect' = Append(vect, [uuid |-> u, id |-> next_id, fields |-> new])
  /\ ToMap(u)
  /\ UNCHANGED <<logos, handler, game_faults, history>>

(* updateGame: one UPDATE for each field that differs, its cached copy set *)
(* right after; the first refused one ends the handler.  The UPDATE of a   *)
(* game that only a file describes matches no row.                         *)
Written(old, new, n) == [c \in Columns |-> IF c <= n THEN new[c] ELSE old[c]]

SetInCacheAll(old, new, n) == new

SetInCache(old, new, n) == Written(old, new, n)

GameUpdate(u, new) ==
  /\ GamesServing /\ Cached(u)
  /\ LET old == vect[map[u]].fields IN
     \E n \in 0..NFields :
       /\ IF n = NFields THEN UNCHANGED game_faults ELSE GameFault /\ new[n + 1] # old[n + 1]
       /\ vect' = [vect EXCEPT ![map[u]].fields = SetInCache(old, new, n)]
       /\ row' = IF HasRow(u) THEN [row EXCEPT ![u] = Written(row[u], new, n)] ELSE row
  /\ UNCHANGED <<row_id, next_id, logos, map, handler, history>>

(* The game is found in the cache, its logo is named after its number.     *)
UpdateLogo(u) ==
  /\ GamesServing /\ Cached(u)
  /\ logos' = logos \cup {vect[map[u]].id}
  /\ UNCHANGED <<table, cache, handler, game_faults, history>>

(* game_delete: the row is looked up, the map entry erased, and the rows   *)
(* of the quests and of the game are deleted, then the logo.               *)
GameDelete(u) ==
  /\ GamesServing /\ HasRow(u)
  /\ map' = [map EXCEPT ![u] = 0]
  /\ game_pc' = "row" /\ del' = u /\ del_id' = row_id[u]
  /\ UNCHANGED <<table, logos, vect, game_faults, history>>

DeleteRefused ==
  /\ game_pc = "row" /\ GameFault /\ game_pc' = "idle" /\ hidden' = hidden \cup {del}
  /\ HandlerOver /\ UNCHANGED <<table, logos, cache, left, taken_back>>

DeleteRow ==
  /\ game_pc = "row" /\ game_pc' = "logo"
  /\ row_id' = [row_id EXCEPT ![del] = 0] /\ row' = [row EXCEPT ![del] = Blank]
  /\ UNCHANGED <<next_id, logos, cache, del, del_id, game_faults, history>>

(* Mutant: the number is looked up in the cache, which has lost the game.  *)
LogoNumberCached == IF Cached(del) THEN vect[map[del]].id ELSE 0

LogoNumber == del_id

(* remove() may fail: it is logged and the answer is success all the same. *)
DeleteLogo ==
  /\ game_pc = "logo" /\ game_pc' = "idle" /\ hidden' = hidden \ {del}
  /\ \/ logos' = logos \ {LogoNumber} /\ left' = left \ {del_id} /\ UNCHANGED game_faults
     \/ GameFault /\ UNCHANGED logos /\ left' = left \cup LogoLeft
  /\ HandlerOver /\ UNCHANGED <<table, cache, taken_back>>
-----------------------------------------------------------------------------
GamesNext ==
  \/ GamesStart \/ GamesStop \/ GamesDatabaseRestart \/ DeleteRefused \/ DeleteRow \/ DeleteLogo
  \/ \E u \in GameUuids : UpdateLogo(u) \/ GameDelete(u)
  \/ \E u \in GameUuids, new \in Fields : GameCreate(u, new) \/ GameUpdate(u, new)

GamesSpec == GamesInit /\ [][GamesNext]_gamesVars
-----------------------------------------------------------------------------
GamesTypeOK ==
  /\ row_id \in [GameUuids -> Nat] /\ row \in [GameUuids -> Fields] /\ next_id \in Nat
  /\ logos \subseteq Nat
  /\ vect \in Seq(Game) /\ map \in [GameUuids -> Nat]
  /\ \A u \in GameUuids : Cached(u) => map[u] \in DOMAIN vect
  /\ game_pc \in {"down", "idle", "row", "logo"} /\ del \in GameUuids /\ del_id \in Nat
  /\ game_faults \in Nat /\ hidden \subseteq GameUuids
  /\ left \subseteq Nat /\ taken_back \subseteq Nat

(* What the map holds of a game with a number is what its row holds, after *)
(* an update refused half-way too; a game without a number has no row.     *)
CacheMatchesRow ==
  \A u \in GameUuids : Cached(u) =>
    LET g == vect[map[u]] IN
    /\ g.uuid = u /\ g.id = row_id[u] /\ (g.id # 0 => g.fields = row[u])

(* A game in the table is in the cache, but for one whose deletion was     *)
(* refused after the cache had already forgotten it.                       *)
RowIsCached == GamesServing => \A u \in GameUuids : HasRow(u) => Cached(u) \/ u \in hidden

(* Of all that games_list shows with one uuid or one number, the game in   *)
(* the map is the last, and the only one that findGame(int) can return:    *)
(* unless its number is one given before, of a removed game that stays in  *)
(* the vector, which is then found in its place.                           *)
ListedOnce ==
  \A u \in GameUuids, k \in DOMAIN vect : Cached(u) =>
    LET g == vect[map[u]] IN
    /\ vect[k].uuid = u => k <= map[u]
    /\ vect[k].id = g.id /\ g.id # 0 => k = map[u] \/ g.id \in taken_back

(* The cache and the table tell the same of every game, whatever was       *)
(* refused or cut off before (EmployGames and the four game commands).     *)
CacheTrue == CacheMatchesRow /\ RowIsCached /\ ListedOnce

(* A new game comes with a logo on disk only when the database was started *)
(* again after the last game was removed, and that game's logo had stayed: *)
(* the process ended, or remove() failed, before it was gone.  A deletion  *)
(* that runs to its end leaves none, whatever came before.                 *)
NewGameHasNoLogo ==
  [][\A u \in GameUuids : ~HasRow(u) /\ HasRow(u)' /\ row_id'[u] \in logos =>
        row_id'[u] \in left \cap taken_back]_gamesVars
=============================================================================
