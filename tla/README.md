# fhq-server in TLA+

fhq-server is the server of a jeopardy-style CTF: players solve quests of games, a scoreboard shows
their ratings, administrators edit quests, games, users, articles and links. Clients speak JSON over one
WebSocket each. This directory has TLA+ modules of the parts where order, failure and restarts matter,
TLC configurations that check them on small instances, and TLAPS proofs of their invariants for all
sizes.

Paths below are relative to the repository; `src/` is its own source directory.

## The system

| Part | State it keeps | Operations | Correct means |
|---|---|---|---|
| Quests (`src/cmd/cmd_handlers_quests.cpp`) | tables `quest`, `users_quests`, `users_quests_answers` | pass, add, update, delete | a solved quest has its answer on record, is credited once and reaches the score |
| Derived columns (`src/tasks/update_*_task.cpp`, `runtasks.cpp`) | `users.rating`, `quest.count_user_solved`, `games.maxscore` | a task each, on a thread of the pool | equal to what the tables say, or a task that makes them so is on its way |
| Server info (`src/fhq/employees/employ_server_info.cpp`) | counters in memory | increment, decrement, load at start | never below the tables |
| JobsPool (`src/core/jobs_pool.cpp`) | deque, two flags for each worker | add, cleanup, start, stop, waitForDone; the workers' loop | each job once, in order; a wait means drained; a stop ends the threads |
| Games (`employ_games.cpp`, `cmd_handlers_games.cpp`) | table `games`, a map and a vector over it, `game.json` files, logos | init, create, update, update logo, delete | cache and table agree after refused statements and restarts |
| WebSocketServer (`src/core/websocketserver.cpp`, `cmd_handlers_users.cpp`) | sockets, sessions, tokens | connect, disconnect, login, token, delete token or user, send to all | a session belongs to the connection that opened it, and to a user that is there |
| FhqServerDatabaseFile (`src/database/`) | an sqlite file, `db_version`, numbered backups | open, install updates, execute, back up | versions tell the truth, nothing is written without a backup |
| Uuids, public events (`employ_uuids.cpp`, `employ_public_events.cpp`, two tasks) | a map, `uuids.db`, table `public_events` | generate, add, remove, backfill at start | a uuid names one object, each event gets one |
| Accounts and mails (`cmd_handlers_users.cpp`, `mail_send_task.cpp`) | `users`, `email_delivery` | register, reset and change a password, a mail for each | no password is lost but with a mail a fault has hit |
| Locations (`update_user_location_task.cpp`) | columns of `users` | a task for each login, edits of the profile | the row is of the last login |
| Classbook (`src/cmd/cmd_handlers_classbook.cpp`) | tables `classbook`, `classbook_localization`, `classbook_proposal` | add, move, delete, localize, propose, approve | a tree without missing parents, one text for each language, hashes that match |
| Useful links (`cmd_handlers_useful_links.cpp`) | a table of links, three of what users attach to them | add, delete, click, favour, tag, comment | columns that repeat rows agree with them |
| Leaks (`employ_leaks.cpp`, `cmd_handlers_leaks.cpp`) | `leaks`, `users_leaks`, a cache, ratings | add, update, delete, buy | what is paid, bought and sold agrees |
| Quest files (`employ_files.cpp`, `cmd_handlers_quests.cpp`) | files on disk, `quests_files`, a cache with counters | upload, delete, download | disk, table, cache and sum agree |
| Employees (`src.wsjcpp/wsjcpp_employees`) | registry of services | init in order of `loadAfter`, from three places | each after what it needs, and every one |
| EmployDatabase (`employ_database.cpp`) | two MySQL connections for each thread | swap after an hour | a handle in use stays open |
| MySQL updates (`src/storages/`, `wsjcpp_storages.cpp`) | the schema, table `updates` | sort, replay, execute and record at start | a server that is up has its whole schema |
| Light web server (`src.wsjcpp/wsjcpp_light_web_server`) | deque of connections, a signal, workers | accept, take, answer | every connection is answered once |
| Commands (`src/core/cmd_handlers.cpp`, `employ_server.cpp`) | registry of handlers and their inputs | look up, check access, check inputs | only checked requests reach a handler |
| Global settings (`src/fhq/employees/employ_global_settings.cpp`) | table `settings`, a copy in the memory of each process | load and fill at start, update by the server and by `cfg set` | the next start loads what was written last |
| Writeups, chats, scoreboard, command line, exports, images | | | |

How they run: **one Qt thread** runs every WebSocket slot and every command handler to its end. Handlers
issue SQL statements one by one and no transaction surrounds them. `RunTasks::*` gives tasks to
`QThreadPool::globalInstance()`, of at most five threads, which run between the statements of a handler
and beside each other. `AddPublicEventsTask` and others end in `NotifyToAllTask`, whose signal is queued
for the main thread. HTTP requests are served by threads of their own. Each thread has a MySQL
connection of its own; the sqlite files are guarded by a mutex each.

What is hard in this code: tasks that read and then write (two of one user overlap); handlers of several
statements that are refused or cut off half-way; tasks that exist only in memory; caches beside tables;
addresses of objects used as keys; flags of threads without atomicity; files and rows that change one
after the other. `PROJECT.json` lists each such place under "hazards".

## Modules

| Module | Models | Composes |
|---|---|---|
| `QuestScore` | handlers of quests, what games and users delete of them, what `leaks.buy` takes off a rating, the three tasks on the pool's threads, the counters, refused statements, kills of the process and of the database server | main thread, pool, database |
| `JobQueue` | what a pool promises of its jobs (abstract) | |
| `JobsPool` | the deque, the workers' loop, the caller | implements `JobQueue` |
| `LightWeb` | the accepting thread, the deque, the mutex used as a signal, the workers | two kinds of threads |
| `GamesCache` | table, map, vector, files, logos, restarts of the process and of the database server | |
| `WsSessions` | sockets, sessions, tokens, users, chats and notices | main thread, pool, event loop |
| `DbFile` | updates, versions, backups, each step interruptible | |
| `Classbook` | the tree of articles, localizations, proposals, the path `classbook_info` shows | |
| `UsefulLinks` | links and their favorites, tags and comments | |
| `Leaks` | leaks, sales, the cache of uuids, what ratings have paid | main thread, rating task |
| `QuestFiles` | disk, rows, cache and counters of files | main thread, web threads |
| `UuidEvents` | the registry of uuids, events, the backfill at start | main thread, pool, restarts |
| `Accounts` | passwords and the mails that carry them | main thread, pool |
| `Locations` | addresses and places of users | main thread, pool |
| `StorageUpdates`, `StorageChain` | the updates of the MySQL schema; `StorageChain` is the fourteen the program registers | |
| `Employees`, `EmployeesGraph` | the start of the server; `EmployeesGraph` is its eighteen employees | main thread, pool |
| `DbConnections` | the pair of connections of each thread | |
| `Settings` | the settings in the database | server and command line: processes with one table |
| `MCParts`, `MCThreads` | the parts that share no state, in one run each | see Runs |
| `MC*`, the rest | the constants of the runs | |
| `Sums` | lemmas: induction over numbers and finite sets, the sums the models use | |
| `*Proofs` | theorems: `ThreadProofs` of `JobsPool` and `LightWeb`, `ContentProofs` of `Classbook` and `GamesCache`, `UpdateProofs` of `DbFile` and `StorageUpdates`, `ServerProofs` of the other parts, `PartsProofs` of `MCParts` | |

Each action is one step that nothing of the same thread can come into: a SQL statement with the code up
to the next one, a critical section, a read or write of a shared flag. Where one thread alone uses a
table, a handler of several statements is one action, with the number of statements done before one is
refused or the process ends. `map` in `PROJECT.json` has the lines of each definition.

Variables called *auxiliary* are not in the code: they remember what a property needs to name its
exceptions. Each is set where its cause is, and a later step that repairs takes it back; the properties
quantify over all the rest and would be false with one cause fewer.

### QuestScore

`pc` says before which statement the one handler is, `req` is its request, `starting` the tasks it
starts before that statement. `queue` is the pool's queue and `job[t]` what thread `t` runs.
`UpdateUserRating` reads (`nNewRating`) and writes in two steps; the other two tasks are one `UPDATE ...
(SELECT ...)` each. `StatementFails` and `TaskFails` are a refused statement, `Crash` is the end of the
process and its next start, which loads the counters and nothing else.

`users.rating` has a writer outside the module's tables: `leaks.buy` takes the price of a leak off it
and starts no task (`LeaksBuy`; its other statements are in `Leaks`). The auxiliary `spent` is what was
taken off since the rating was last recomputed, and `RatingDue` the sum over the solved quests less
that: it is what `RatingExact` and `CreditShows` compare the rating with. A rating task writes the whole
sum and so gives back every purchase, also one made between its SELECT and its UPDATE; that is what the
code does, and the properties say it.

The database is `mysql:5.7` with `restart: always` (`tests/test-fhq-run/docker-compose.yml`), whose
`auto_increment` is kept in memory and goes on from the largest number in the table after a restart
(`DatabaseRestart`). A deletion of the last quest, refused before its solved rows were gone, and a
restart after it make the next quest start with those rows: `LeftOver` marks it in the exceptions.

A wrong answer sent again is recorded again: the SELECT that looks for it names `:user_asnwer`, which
the handler never binds (`cmd_handlers_quests.cpp:446`); `AlreadyTried` is therefore FALSE.
`StrictSqlMode` is whether the database refuses NULL for `maxscore` of a game with no open quest.

The auxiliary `ratingDrift`, `countDrift`, `maxDrift` and `torn` hold what the code is known to leave
wrong: a score changed, a row deleted, a task lost, two tasks of a user that overlapped, a quest added
with a number that has solved rows.

### JobsPool and JobQueue

`thread[t]` is where thread `t` is in `JobsThreadWorker::run`. The flags `m_bStop` and `m_bBuzy` are
plain fields: each read and write is a step of its own. A second `start()` gives a worker a new thread
while the old one may still run, so a thread is a pair of a worker and a start. `cleanup` and a stop
lose jobs, which is why `JobQueue` has `Discard` and `Abandon`.

### LightWeb

A push or a pop of the deque is one step under `m_mtxDequeRequests`; the size is read without it, by the
accepting thread after a push (`AfterPush`) and by a worker before it waits (`AskSize`).
`m_mtxWaiterRequests` is locked by a worker that saw no request and unlocked by the accepting thread
after a push that left exactly one: it is a signal, and the model lets a thread unlock what another
locked, as glibc's mutex does. Workers wait one at a time, so several may be idle beside a request:
`wsjcpp_light_web_server.cpp:239` says "here will be unlocked workers", but one is at most.
`WebNotStuck` and `WebAnswered` say that this loses no request, as the others are taken by a worker that
is busy now.

### GamesCache

`vect` is `m_vectCacheGame`, whose elements are the cached objects, and `map` the index of the one
`m_mapCacheGames` points at. `Start` is `EmployGames::init`: rows in any order, then the files that name
a game the table has not. `updateGame` is one step for each prefix of its UPDATEs that succeeds, since
no other handler runs in between and it sets each cached field right after. The columns modelled are
those the database gives back as it got them; the three dates come back in another format after a
restart, and are left out. `hidden` holds the games whose deletion was refused after the cache had
forgotten them.

`GamesDatabaseRestart` takes `next_id` back to after the largest number in the table, as in
`QuestScore`. Two auxiliary sets name what this does: `taken_back` has the numbers it freed, `left` those
of removed games whose logo stayed on disk, because `remove()` failed or the process ended before it. A
new game may then have a number of both sets and with it the removed game's logo. `NewGameHasNoLogo` says
that this is the only way: a logo that waits for a new game was left by a deletion cut off there, and its
number was freed. Its mutant is a bug of `game_delete`: the number of the logo looked up in the cache,
which the handler has already made forget the game. Likewise the vector may hold a removed game with the
number of a new one (`ListedOnce`); `findGame(int)`, which would find it, is called at start only
(`employ_leaks.cpp:82`).

### WsSessions

A socket is its address. `Connect` may get an address again after `DeleteLater`. `opened` and `conn`
tell which connection a session was made for. A chat is sent from the main thread by a direct call; its
notice goes through the pool and the event queue, and five threads may take the notices in any order.
`checkAccess` lets everyone use a command that is open to the unauthorized.

### DbFile

`pc` is the step of `open()` or of a writer, `call` the step of the `executeQuery` inside it: the
throttle, the rotation (`slot` is its loop index), the copy and the statement. `known`, `done` and
`todo` are `installedVersionsTo`, `installedNewUpdates` and the rest of one pass over the updates. A
backup is `none`, `torn` or `whole`, with the number of statements the file had. `since` and `copy` are
auxiliary. What throws in a command is caught (`websocketserver.cpp:267`); at start it ends the process.

### Classbook

A table is a set of rows and a handler one action; `done` is the number of statements carried out before
one is refused. `InfoPath` is the loop of `classbook_info`, a recursive function over its rounds. Moves
may close a cycle, whose articles nobody can delete until one is moved; `PathIsAncestors` says what
`classbook_info` then shows. `listing` is set while the
thread is in the first loop of `classbook_proposal_list`, which nothing but the end of the process
leaves. Names, `ordered` and `parentuuid` are left out. Two things met on the way that no property is
about: `classbook_add_record` reads `MAX(ordered)` without `next()` (line 143), so siblings get the same
number; and what a proposal in another language keeps as the text before is that of any article's
localization (`Before`).

### UsefulLinks

`favorites`, `tagged` and `comments` are the rows, `shown` the columns of a link that repeat them and
that the list shows. Each of the six handlers changes a row and then makes the column anew. No handler
asks whether the link it is given exists, so there may be rows before the link (`EarlyRows`): the new
link shows zero until the next recount. `off` holds the columns no recount has put right.

### Leaks

`leaks.buy` is three statements: the rating, the row of `users_leaks`, the column `sold`; it asks
neither whether the user has the leak nor whether the rating suffices. `taken` is what was paid since
`UpdateUserRating` last set the rating to the sum over solved quests: the next quest a buyer solves
gives all of it back. The cache is the only thing that keeps uuids distinct and is not told of
deletions, so a deleted leak's uuid is refused until the next start.

### QuestFiles

The main thread's `quests_files.delete` is four steps (the file, the row, a copy of the cached object
read without the mutex, the cache) between which web threads find files and count downloads, each under
the mutex. The server does not start while a row has no file (`AllRowsHaveFiles`), which is what a
deletion refused at the row leaves (`half_deleted`). `overtaken` counts the downloads that came between
the copy and the cache, which the sum keeps.

### UuidEvents

`registered` is the map and `stored` the table of `uuids.db`; both are written under one mutex, so
`generateNewUuid` is one step, and the statement that stores the event another. The backfill selects the
events without a uuid once and updates them one by one (`filling`). A uuid an INSERT refuses stays in
the map; in a task the exception ends the process. `IdOf` is the number MySQL reads off the beginning of
a uuid: `public_events.delete` deletes by `id` = uuid.

### Accounts

A password is a number, as its hash stands for it. `registration` and `user_reset_password` make one up
and mail it; `users_add` and `user_change_password` are told one. A mail's task enters the row, sends,
and marks the row. `told` and `inbox` are who knows a password; `spoiled` are the mails a fault has hit.

### Locations

A task compares, asks and writes in three steps. `overlapped` has the users whose last task was started
beside another that was not over, or failed: only they may keep an old address. `user_update` reads the
profile and writes it back in two statements, between which a task may write.

### StorageUpdates and StorageChain

`plan` is `getSortedStorageUpdates`: updates after the one they start from, of two the one with fewer
behind it first. Recorded updates are replayed in memory, the others executed statement by statement and
then recorded; the record's refusal is only logged. A schema is a function from tables to columns, of
which only those some update drops or adds are kept. `WholeSchema` reads the tables off the list of
statements, independently of the order in which they are executed.

### Employees and EmployeesGraph

`init` passes over the map in order of names until a pass loads nothing. It is called by the commands of
the command line without a tag, by `EmployWebServer::start` with `start_server`, whose result nobody
looks at, and by the constructor of `WebSocketServer`. When it fails, the commands of `database` stop and
those of `cfg` and `api`, which ignore the result, go on with what was loaded (`command_anyway`; no
property speaks of them then). `Loadable` is the reference: what the graph makes
loadable, without an order. `SendNotice` before `SetServer` uses a null pointer, and `crashed` is the
end.

### DbConnections

`pairs[t]` are the two objects of a thread, `by_name` what Qt keeps under their two names. `Swap`
exchanges names and connections and leaves `m_nOpened` with its object, as the code does. `handed` is
what callers hold and since when. Time is a counter.

### Settings

`settings_rows` are the values of the rows of each name, by id; `setting_inited` and `setting_value` are
a process's memory of them and `fill_at` where it is among the names it inserts. Two processes that
start together may both insert a name: of two rows the first counts, and an UPDATE changes both. The
server and `cfg set` turn a text into a value by rules of their own (`ServerValue`, `ToolValue`). Memory
is set before the UPDATE; both are one step, because no other thread or process sees the memory between.
A refused UPDATE is only logged (`employ_database.cpp:392`), and memory and table part: `parted` has
the settings of which a process knows another value than the table. Texts that only begin with a number
are left out: `stoi` takes their beginning and `toInt` makes 0 of them.

### Numbers of rows

`QuestScore` and `GamesCache` model the restart of the database server, after which `mysql:5.7` may give
the number of a removed row again, as there a file or a row with that number may have stayed. `Classbook`,
`UsefulLinks`, `Leaks`, `QuestFiles`, `UuidEvents`, `Accounts` and `WsSessions` suppose that a number is given once,
that is, that the database server is not restarted between the deletion of a table's last row and the
next one added; each says so at its head. In `Locations`, `Settings` and `StorageUpdates` no row is deleted.

## Runs

Runs expected to pass:

| Run | Bounds | What it shows |
|---|---|---|
| `quest_solve` | 2 players (one an administrator), 2 threads, 2 quests and one that may be added, a leak bought, 3 requests, 1 fault | right answers are credited, and (under fairness) credit shows |
| `quest_edit` | the same with deletes, moves and changes of quests, two games and a user; the threads are symmetric; the fault may be the restart of the database, after which a quest added has the number of one deleted | `rating`, `maxscore`, `count_user_solved`, answers on record and counters through every edit, purchase and fault |
| `jobs_safe` | 2 workers, 2 jobs, 2 starts, all calls | order, one place for each job, wait, drops, and that the pool implements `JobQueue` |
| `threads` | jobs pool: 1 worker, 2 jobs, 2 starts; web server: 3 workers, 4 connections | under fairness jobs are run, stopped threads end, and connections are answered; none is lost |
| `sessions` | 3 users, 2 addresses, 3 connections, 2 tokens, 1 chat, 1 fault | sessions, tokens, order and arrival of messages |
| `parts` | below | one part in each behaviour, all their safety properties |

The parts of `MCParts` share neither tables nor memory that their properties speak of. Its first state
chooses one of them and the others stay still, so the states are the sum, not the product, of the
parts', and every part is explored to the end of its own bounds:

| Part | Bounds |
|---|---|
| Classbook | 3 articles, 2 localizations, 1 proposal, 2 languages, 2 texts, 4 commands, 3 rounds up |
| GamesCache | 2 games, one in two versions of a file, 2 fields of 2 values, 2 creations (a number freed counts as one), 2 faults (restarts of the database included) |
| DbFile | 5 of the updates of `useful_links.db` (4 of the kind made once, 1 of the other), 3 backup files (0 to 2), 1 statement of a command, 2 faults |
| UsefulLinks | 2 users, 1 tag, 2 links, 2 comments, 5 commands, each cut off at any statement |
| Leaks | 2 buyers, 2 uuids, 2 leaks, scores 1 and -1, 5 commands and restarts |
| UuidEvents | 3 uuids (one begins with a row's number), the handler, a task and the backfill, 2 old events and 1 new, 1 fault |
| Accounts | 2 addresses, 3 passwords, 2 mails, 1 fault |
| Locations | 1 user, 3 addresses (one local), 2 places, 3 tasks, 1 edit, 1 fault |
| StorageUpdates | all 14 updates, 2 faults |
| Employees | all 18 employees, 3 failing or new starts |
| DbConnections | 2 threads, an hour of 1, time to 5 (two swaps) |
| QuestFiles | 2 files, 2 web threads, 3 downloads, 2 faults |
| Settings | a boolean and a number, a server and a command of the command line, 2 texts |

The two texts of articles and the two values of a game's field are symmetric: nothing tells one from the
other, and the run has no liveness property.

Runs expected to find a violation, each of what the repository says of itself:

| Run | Property | What happens |
|---|---|---|
| `quest_race` | `RatingSettles` | two rating tasks of one user overlap, the older sum is written last, and no task is left |
| `jobs_wait` | `WaitMeansDone` | the pool's test expects all jobs finished after `waitForDone`; a worker has popped the job and not yet set its flag |
| `sessions_login` | `LoginOpensSession` | login over a connection with a session issues a token for a user the connection does not act for |
| `classbook_list` | `ListingEnds` | the loop that builds the query does not move its iterator, so the command is never answered |
| `events_delete` | `DeletedEventIsGone` | the event is looked up by uuid and deleted by id = uuid: it stays, and the caller is told it is gone |
| `registration` | `RequestsTableExists` | five commands work on `user_requests`; the updates make `users_requests` |

The bounds are those at which each thing the properties speak of happens at least twice: two overlapping
tasks, two faults of different kinds, an address used by a second connection, a game made again under
its uuid, a second start while an old thread runs, a rotation that starts from the hole an earlier one
left, a cycle of three articles, a link whose rows came first, a backfill cut off and begun again, two
swaps of a pair. Larger numbers repeat these; the theorems cover them. One fault is enough for `quest_*`
because the properties are about what one lost or refused step leaves behind, and the exceptions do not
interact. For one chat there is one notice, so that tasks are a set is exact.

`CHECK_DEADLOCK FALSE` in every configuration: requests, jobs, connections and faults are bounded and a
server may idle for ever when no one asks anything. What it would find is stated instead: `WebNotStuck`,
`StopEnds`, `AddedIsRun`, `InitReachesAll`.

Fairness. `quest_solve`: a handler that has begun goes on (the event loop does not leave a slot), and
the pool gives a waiting task a thread; clients need not send anything and faults need not happen.
`threads`: each thread and a call under way are scheduled; weak fairness is enough as a thread's step
stays enabled until it is taken, and for the signal of the web server because a worker that waits is
unlocked or finds the mutex free for good. A worker serves its connection to the end: `recv` gives up
after a second in which the client sends nothing; a client that sends without end would hold its worker,
and is left out. `classbook_list`: the thread goes on with the loop it is in. `sessions`: the event loop
delivers and the pool runs each notice.

## Proofs

Every theorem is for all values of the constants that satisfy the named assumptions of the module; TLC
evaluates the assumptions in the runs. Each follows from an invariant that is inductive: the property
alone seldom is, and what is added is named here.

- `Sums`. The prover cannot use the library's induction theorems, whose parameter is an operator. What
  it can use is a set in its place: the set of counterexamples has a least element, because `<` on the
  naturals has no descending chain (`NatInduct`, and `SetInduct` by cardinality). A recursive function or
  a fold is a CHOOSE of a function that satisfies an equation; that there is one is an induction over its
  domain (`SumIterStep`), and from then on the equation can be used. `SumFunctionOnSet` is so shown to be
  zero of nothing, a natural number of natural numbers, monotone, and to change by what one summand does.
- `QuestScoreProofs`: `StructureHolds` is the typing of the tables, the handler and the pool, needed for
  every step; `PassesHaveAnswers` needs that a handler about to credit a quest has already recorded its
  right answer, which is the conjunct added to `PassHasYesAnswer`. `AnswersAreCredited`: `CreditInv` says
  for each user and quest, with no fault so far, that answers and solved quests agree but for the quest
  the handler is in the middle of passing or deleting. `CountersCoverTables`: each counter covers its
  table and what a deletion has taken out and not yet off the counter; answers tried are a sum over the
  table, which each statement changes by what it writes. `TypesHold` is then the whole of `TypeOK`, whose
  ratings are sums. `CountsAreExact` and `MaxScoresAreExact` are inductive with the typing: a step that
  changes what a column should hold starts a task or sets the exception. `RatingsAreExact` needs more, as
  a task that has read may write an old sum: `RatingInv` says that the sum held by a thread is current or
  a second task of the user waits, and that of two threads that have read one user the user is an
  exception. A purchase moves the rating and what is due alike, and a task that writes the sum ends what
  was taken off, whenever it read. `StructureHolds` has the number of the next quest above all that are
  there, also after a restart of the database.
- `ThreadProofs`, of the pool: `Inv` adds to typing where a thread can hold a job (`HandOK`), that no
  thread has been made for a start to come (`StartOK`), and what `waitForDone` has seen (`WaitOK`). From
  it `JobsAreKept`, `WaitReturnsDrained`, `DropsNeedAStop` and `PoolImplementsQueue`, the refinement of
  `JobQueue`, step by step.
- `ThreadProofs`, of the web server: `ConnectionsAreKept` (`WebKept`). `WebInv` adds that a worker holds
  a connection exactly while it serves, and `SomebodyLooks`: while there are requests the signal is free,
  or some worker does not wait for it, or the accepting thread is about to unlock it. From the same
  invariant `WebImplementsQueue`, the refinement of `JobQueue` with nothing ever lost.
- `ContentProofs`, of games: `GamesInv` adds that the numbers of rows are unique and below the next one,
  and any other number met is below it or was freed by a restart of the database (`IdsOK`), whose each
  logo is (`LogosOK`), where a deletion is (`DeleteOK`) and that a row missing in the cache is hidden or
  being deleted (`RowKept`). From it `CacheIsTrue` and `NewGamesHaveNoLogo`: a new game has the next
  number, which no row has; so a logo of that name was left, and the number, not being below the next,
  was freed.
- `WsSessionsProofs`: `Inv` adds that every chat in a task, an event or a message has a number already
  given (`Numbered`). From it `SessionsAreTheirs`, `TokensHaveUsers`, `ChatsComeFirst`,
  `DeletedOpenNothing`.
- `UpdateProofs`, of sqlite files: `BackupInv` has the rotation's free slot and the minute; `VersionInv`
  that the versions known in memory are those recorded, that the pass holds each unrecorded update once,
  and that a committed statement without its row is of an update that comes next. From them
  `StatementsAreBackedUp`, `BackupsAreKept`, `FileIsUpdated`.
- `UpdateProofs`, of MySQL's schema: `StorageTypesHold` and `SchemasAreKept`. `StorageInv` has, of the
  schema in memory, that it is the one the plan's statements so far go through (`SchemaKnown`), and of
  the database what each statement surely done or perhaps done left there (`SchemaInv(A, Sure, May)`): a
  table is made by a statement that may have been done, one surely made and never dropped is there, a
  column surely added is there, one surely dropped is not. A statement keeps this whatever was done
  before, because each is alone in what it does. Three assumptions state what is supposed of a list of
  updates, and TLC evaluates them for the fourteen of the program: the sort has each update once
  (`PlanAssumption`), the statements in that order are legal and make the whole schema
  (`LegalAssumption`), and no table is made twice, changed and dropped, and no column changed twice
  (`AloneAssumption`). An update against the last would need its record to be in one transaction with
  it.
- `ContentProofs`, of the classbook: `ClassbookInv` adds that a uuid made by the server is its article's
  (`MadeUuids`); `IsUpdate` is what every UPDATE of articles does to the table. From it
  `ClassbookTypesHold`, `ParentsExist` and `RowsAreTrue`. `PathsAreAncestors` is an induction over the rounds
  of `classbook_info`'s loop (`PathOK`): the path is a chain of parents without repetition, and a round
  that adds nothing is one after which none will.
- `ServerProofs`, one part after the other:
  - `EmployeesInOrder` (`LoadOrder`) and `InitLeavesNone`, by `PassSeen`: the employees the pass has
    gone by without loading anything were not ready. The tags given are distinct (`TagsOnce`).
    `InitLoadsAll` (`InitReachesAll`) follows with `AfterAssumption`, that no employees wait for each
    other in a circle: of those for which "loaded" and `Loadable` differ one would wait for none of
    them. TLC evaluates the assumption for the eighteen of the program.
  - `EventsAreNamed` (`EventsNamed`). `EventInv` adds that no two threads hold one uuid and none holds
    one of a row, and that the backfill still has before it every event without a uuid.
  - `LinkColumnsAreTrue`: a handler changes one link, and its column or the exception with it.
  - `PasswordsAreMailed`. `AccountInv` adds that a password nobody chose is carried by a mail to the
    address that has it, and that a mail whose task is over has arrived or was hit by a fault.
  - `LocationsFollow`. `LocationInv` adds that all pending tasks of a user who is no exception carry the
    newest address.
  - `ConnectionsWorkAnHour` (`ConnectionsKept`). `ConnectionInv` adds that the two objects of a thread
    have the two names between them, that Qt has under each name the connection of the object with that
    name, and that a handle is of the current connection, or of the older one and taken before the
    current one was opened, or more than an hour old.
  - `BooksOfLeaks`, inductive with types and the exceptions.
  - `FilesAgree` (`FilesTrue`): a row without its file is one whose deletion was cut off, and while the
    server is up the cache is the table, but for the file being deleted. `SumInv` adds that the sum of
    downloads is that over the cache and what overtook a deletion, each step changing one summand.
  - `SettingsAreKept` (`SettingsKept`). `SettingInv` adds that a name without a row was never set, that
    what a process found or has passed has a row, and that, while no two started together, a process
    that fills has not yet come to the names without one.
  - `LeaksTypesHold` to `StartTypesHold`: the whole type invariants, from these invariants and the bounds
    of each part. A column of a link is a number because what a list of rows adds up to is one, and a
    sum of downloads because no step takes more from it than was added.
- `PartsProofs`: a step of `MCParts` is one of the chosen part and leaves the variables of all others
  alone, so that the composition is a behaviour of each part's specification (`PartsBehave`). What was
  proved of a part holds therefore beside the others: their types (`PartsTypesHold`) and their
  invariants (`PartsAreTrue`).

Assumed of the constants: the sets of users, of texts of answers and of quests are finite, as tables
are; limits are natural numbers; a number is given once where a module says so; and what is named above of graphs and updates, which are data of the
program and which no step changes.

Every invariant and every safety property of the steps that a run checks is so proved. Only
model-checked: the liveness properties (`CreditShows`, `AddedIsRun`, `StopEnds`, `WebAnswered`,
`NoticeArrives`), as ENABLED is out of the prover's reach, and that the sort of updates keeps each
(`PlanAssumption`, evaluated).

## Not modelled

Known, and of no property because nothing in the repository says otherwise or no state of the models
tells it apart:

- A wrong answer given again is looked up through a misspelt placeholder and recorded again
  (`cmd_handlers_quests.cpp:446`).
- `token` reads `end_date` and does not use it (`cmd_handlers_users.cpp:468`); a deleted user's or
  token's open session goes on (`:1464`).
- `copyFile` does not look at the state of its stream, so a short copy counts as whole
  (`fhq_server_database_file.cpp:583`); a file that does not open is backed up at each failing start,
  until no older backup is left (`:391`).
- `quests_writeups_update` declares `approve` a string and reads it as an integer
  (`cmd_handlers_quests_writeups.cpp:253`, `:271`), so the string it asks for approves nothing.
- `users_add` takes the uuid it requires only where there is none (`cmd_handlers_users.cpp:754`), so the
  account gets another.
- A connection of a pool thread that has ended is not closed.
- The task that sends "Server started" begins before `setServer` (`websocketserver.cpp:119`), and the
  process ends when it is quick enough. This is a step of `Employees` (`SendNotice`), and no property
  denies it: `InitReachesAll` is about which employees are loaded and holds all the same.
- A row of `settings` that names a setting of the file makes `initFromDatabase`
  throw at start. Settings are read by the pool's threads while the main thread writes them.
- `Storage::apply2` uses a connection without asking whether there is one; the process ends.

Components left out: command registry and input checks (the handlers modelled take checked requests),
writeups, scoreboard, chat messages in the database, server commands: rows of one table
written one statement at a time, or reads. The command line, images, exports and `email_delivery.db`:
start-up, pixel arithmetic, printed client code and a table nobody writes.

Left out for good: the text of SQL statements and answers, formatting, logging, the web clients. By
lines the greater part of the sources is of this kind: vendored libraries (`json.hpp` alone has 22,100
lines, the YAML parser and `wsjcpp_core` 3,000 more), generators of client code, and in each handler the
declaration and documentation of its inputs and the building of its answer. The map names only lines
whose control a definition translates, which is why it covers about a ninth of all of them.
