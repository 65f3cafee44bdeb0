--------------------------- MODULE StorageUpdates ---------------------------
(* WsjcppStorageUpdates::apply2 at each start of the server: the updates   *)
(* recorded in the table "updates" are only replayed in memory, the others *)
(* are executed statement by statement and then recorded.                  *)
(*                                                                         *)
(* Every statement takes effect for itself.  One that is refused is thrown *)
(* out of the program; a refused record is logged and passed over.  The    *)
(* process may end between any two steps.  A schema is a function from the *)
(* tables there are to the set of their columns.                           *)
EXTENDS Naturals, Sequences, FiniteSets, SequencesExt

CONSTANTS
  Chain,            \* the updates, in the order they are registered
  AdminTable,       \* the table the first administrator is inserted in
  MaxStorageFaults  \* bound: refused statements and records, ends of the process

ASSUME StorageAssumption ==
  /\ Chain \in Seq([from : STRING, version : STRING,
       changes : Seq([op : {"create", "modify", "drop", "insert", "custom"}, table : STRING,
                      drops : Seq(STRING), adds : Seq(STRING)])])
  /\ \A i, j \in DOMAIN Chain : Chain[i].version = Chain[j].version => i = j
  /\ \A i \in DOMAIN Chain : Chain[i].from = "" \/ \E j \in 1..(i - 1) : Chain[i].from = Chain[j].version
  /\ MaxStorageFaults \in Nat

VARIABLES
  st_pc,           \* down, run, refused (ended by a refused statement), up
  installed,       \* the versions read from the table at this start
  plan,            \* vUpdates: the sorted updates, with their statements
  st_at, st_next,  \* which of them, which statement of it
  structs,         \* m_mapTables
  tables_there,    \* the tables of the database
  recorded_updates,  \* the versions in the table updates
  admins,          \* rows of the first administrator
  st_faults,
  cut,             \* auxiliary: versions a statement of which was done without a record
  repeated         \* auxiliary: the statement refused is one done before

storageVars ==
  <<st_pc, installed, plan, st_at, st_next, structs, tables_there, recorded_updates, admins, st_faults, cut, repeated>>

NoTables == [t \in {} |-> {}]
-----------------------------------------------------------------------------
(* getSortedStorageUpdates: each update before those that follow from it,  *)
(* of two that follow from the same one the one with less behind it first. *)
UpdateVersions == {Chain[i].version : i \in DOMAIN Chain}
FollowersOf(v) == {i \in DOMAIN Chain : Chain[i].from = v}

Weight[v \in UpdateVersions] ==
  1 + MapThenSumSet(LAMBDA i : Weight[Chain[i].version], FollowersOf(v))

Lighter(i, j) ==
  LET wi == Weight[Chain[i].version]
      wj == Weight[Chain[j].version]
  IN wi < wj \/ (wi = wj /\ i < j)

UpdatesFrom[v \in UpdateVersions \cup {""}] ==
  LET found == SetToSortSeq(FollowersOf(v), Lighter)
  IN FlattenSeq([k \in DOMAIN found |->
                   <<Chain[found[k]]>> \o UpdatesFrom[Chain[found[k]].version]])

getSortedStorageUpdates == UpdatesFrom[""]

(* prepareSqlQueries: a table is modified by one statement for a column,   *)
(* the dropped ones first.                                                 *)
ColumnChanges(op, change, names) ==
  [i \in DOMAIN names |-> [op |-> op, table |-> change.table, columns |-> {names[i]}]]

StatementsOfChange(change) ==
  IF change.op = "modify"
  THEN ColumnChanges("dropcolumn", change, change.drops) \o ColumnChanges("addcolumn", change, change.adds)
  ELSE <<[op |-> change.op, table |-> change.table, columns |-> ToSet(change.adds)]>>

StatementsOf(update) == FlattenSeq([i \in DOMAIN update.changes |-> StatementsOfChange(update.changes[i])])

Plan ==
  LET sorted == getSortedStorageUpdates
  IN [k \in DOMAIN sorted |-> [version |-> sorted[k].version, statements |-> StatementsOf(sorted[k])]]
-----------------------------------------------------------------------------
(* What a statement makes of a schema; CREATE TABLE IF NOT EXISTS and DROP *)
(* TABLE IF EXISTS are never refused, a column is added or dropped once.   *)
HasTable(s, tables) == s.table \in DOMAIN tables

AfterStatement(s, tables) ==
  CASE s.op = "create" /\ ~HasTable(s, tables) ->
         [t \in DOMAIN tables \cup {s.table} |-> IF t = s.table THEN s.columns ELSE tables[t]]
    [] s.op = "drop" -> [t \in DOMAIN tables \ {s.table} |-> tables[t]]
    [] s.op = "addcolumn" -> [tables EXCEPT ![s.table] = tables[s.table] \cup s.columns]
    [] s.op = "dropcolumn" -> [tables EXCEPT ![s.table] = tables[s.table] \ s.columns]
    [] OTHER -> tables

DatabaseTakes(s, tables) ==
  /\ s.op \in {"addcolumn", "dropcolumn", "insert"} => HasTable(s, tables)
  /\ s.op = "addcolumn" => s.columns \cap tables[s.table] = {}
  /\ s.op = "dropcolumn" => s.columns \subseteq tables[s.table]

(* existsTable, addStorageChanges and mergeWith throw otherwise.           *)
MemoryTakes(s, tables) ==
  /\ s.op = "create" => ~HasTable(s, tables)
  /\ s.op = "drop" => HasTable(s, tables)
  /\ DatabaseTakes(s, tables)

(* The schemas a list of statements goes through.                          *)
Schemas(tables, all) ==
  LET after[n \in 0..Len(all)] == IF n = 0 THEN tables ELSE AfterStatement(all[n], after[n - 1])
  IN after

Replayed(tables, all) == Schemas(tables, all)[Len(all)]
-----------------------------------------------------------------------------
(* What is supposed of the plan: its statements, one after the other from  *)
(* no tables, are all taken and make the tables read off the list of them. *)
(* And, for one that is executed again, that it is alone in what it does:  *)
(* no table is made twice, none that is changed or filled is dropped, and  *)
(* no column is added and dropped or either of them twice.                 *)
SchemaBefore[k \in 1..(Len(Plan) + 1)] ==
  IF k = 1 THEN NoTables ELSE Replayed(SchemaBefore[k - 1], Plan[k - 1].statements)

Positions == UNION {{k} \X DOMAIN Plan[k].statements : k \in DOMAIN Plan}
StatementOf(p) == Plan[p[1]].statements[p[2]]
Doing(ops) == {p \in Positions : StatementOf(p).op \in ops}
SameTable(p, q) == StatementOf(p).table = StatementOf(q).table
SameColumn(p, q) == SameTable(p, q) /\ StatementOf(p).columns \cap StatementOf(q).columns # {}

(* The tables a list of statements makes, read off the list.               *)
StatementsOn(all, table, ops) == {i \in DOMAIN all : all[i].table = table /\ all[i].op \in ops}
ColumnsOf(all, table, op) == UNION {all[i].columns : i \in StatementsOn(all, table, {op})}
LastOn(all, table) == Max(StatementsOn(all, table, {"create", "drop"}))
TablesMade(all) == {t \in {all[i].table : i \in DOMAIN all} : all[LastOn(all, t)].op = "create"}
WholeSchema ==
  LET all == FlattenSeq([i \in DOMAIN Chain |-> StatementsOf(Chain[i])])
  IN [t \in TablesMade(all) |->
        (ColumnsOf(all, t, "create") \cup ColumnsOf(all, t, "addcolumn")) \ ColumnsOf(all, t, "dropcolumn")]

ASSUME PlanAssumption ==
  /\ Plan \in Seq([version : UpdateVersions,
       statements : Seq([op : {"create", "drop", "addcolumn", "dropcolumn", "insert", "custom"}, table : STRING,
                         columns : SUBSET STRING])])
  /\ UpdateVersions \subseteq {Plan[k].version : k \in DOMAIN Plan}
  /\ \A k, l \in DOMAIN Plan : Plan[k].version = Plan[l].version => k = l

ASSUME LegalAssumption ==
  /\ \A p \in Positions :
       MemoryTakes(StatementOf(p), Schemas(SchemaBefore[p[1]], Plan[p[1]].statements)[p[2] - 1])
  /\ SchemaBefore[Len(Plan) + 1] = WholeSchema

ASSUME AloneAssumption ==
  /\ \A p, q \in Doing({"create"}) : SameTable(p, q) => p = q
  /\ \A p \in Doing({"drop"}) :
       /\ StatementOf(p).table \notin DOMAIN WholeSchema
       /\ \A q \in Doing({"addcolumn", "dropcolumn", "insert"}) : ~SameTable(p, q)
  /\ \A p, q \in Doing({"addcolumn", "dropcolumn"}) : SameColumn(p, q) => p = q
  /\ \E p \in Doing({"insert"}) : \A q \in Doing({"insert"}) : StatementOf(q).table = AdminTable <=> q = p
-----------------------------------------------------------------------------
AtUpdate == st_pc = "run" /\ st_at <= Len(plan)
VersionAt == plan[st_at].version
StatementsAt == plan[st_at].statements

IsInstalledLast ==
  VersionAt \in installed /\ \A k \in DOMAIN plan : plan[k].version \in installed => k <= st_at

IsInstalled == VersionAt \in installed

AllExecuted == st_next > Len(StatementsAt)

Statement == StatementsAt[st_next]
AtStatement == AtUpdate /\ ~IsInstalled /\ ~AllExecuted
StorageFault == st_faults < MaxStorageFaults /\ st_faults' = st_faults + 1
CutHere == IF AtUpdate /\ ~IsInstalled /\ st_next > 1 THEN cut \cup {VersionAt} ELSE cut

StorageInit ==
  /\ st_pc = "down" /\ installed = {} /\ plan = <<>> /\ st_at = 1 /\ st_next = 1 /\ structs = NoTables
  /\ tables_there = NoTables /\ recorded_updates = {} /\ admins = 0
  /\ st_faults = 0 /\ cut = {} /\ repeated = FALSE

(* getInstalledVersions, which makes the table when there is none.         *)
StorageStart ==
  /\ st_pc = "down" /\ st_pc' = "run"
  /\ installed' = recorded_updates /\ plan' = Plan /\ st_at' = 1 /\ st_next' = 1 /\ structs' = NoTables
  /\ UNCHANGED <<tables_there, recorded_updates, admins, st_faults, cut, repeated>>

(* applyAllStorageChanges.                                                 *)
ReplayUpdate ==
  /\ AtUpdate /\ IsInstalled
  /\ structs' = Replayed(structs, StatementsAt)
  /\ st_at' = st_at + 1
  /\ UNCHANGED <<st_pc, installed, plan, st_next, tables_there, recorded_updates, admins, st_faults, cut, repeated>>

(* executeStorageChanges; what is in memory when it throws is lost with    *)
(* the process.                                                            *)
ExecuteStatement ==
  /\ AtStatement /\ DatabaseTakes(Statement, tables_there) /\ MemoryTakes(Statement, structs)
  /\ tables_there' = AfterStatement(Statement, tables_there)
  /\ structs' = AfterStatement(Statement, structs)
  /\ admins' = admins + (IF Statement.op = "insert" /\ Statement.table = AdminTable THEN 1 ELSE 0)
  /\ st_next' = st_next + 1
  /\ UNCHANGED <<st_pc, installed, plan, st_at, recorded_updates, st_faults, cut, repeated>>

StatementRefused ==
  /\ AtStatement
  /\ \/ ~(DatabaseTakes(Statement, tables_there) /\ MemoryTakes(Statement, structs)) /\ repeated' = TRUE /\ UNCHANGED st_faults
     \/ StorageFault /\ UNCHANGED repeated
  /\ st_pc' = "refused" /\ cut' = CutHere
  /\ UNCHANGED <<installed, plan, st_at, st_next, structs, tables_there, recorded_updates, admins>>

(* insertUpdateInfo; its result is not looked at.                          *)
RecordUpdate ==
  /\ AtUpdate /\ ~IsInstalled /\ AllExecuted
  /\ \/ recorded_updates' = recorded_updates \cup {VersionAt} /\ UNCHANGED <<st_faults, cut>>
     \/ StorageFault /\ cut' = cut \cup {VersionAt} /\ UNCHANGED recorded_updates
  /\ st_at' = st_at + 1 /\ st_next' = 1
  /\ UNCHANGED <<st_pc, installed, plan, structs, tables_there, admins, repeated>>

StorageReady ==
  /\ st_pc = "run" /\ st_at > Len(plan) /\ st_pc' = "up"
  /\ UNCHANGED <<installed, plan, st_at, st_next, structs, tables_there, recorded_updates, admins, st_faults, cut, repeated>>

(* The process ends, or is started again after it threw.                   *)
StorageStop ==
  /\ \/ st_pc \in {"run", "up"} /\ StorageFault
     \/ st_pc = "refused" /\ UNCHANGED st_faults
  /\ st_pc' = "down" /\ plan' = <<>> /\ cut' = CutHere /\ repeated' = FALSE
  /\ UNCHANGED <<installed, st_at, st_next, structs, tables_there, recorded_updates, admins>>

StorageNext ==
  \/ StorageStart \/ ReplayUpdate \/ ExecuteStatement \/ StatementRefused
  \/ RecordUpdate \/ StorageReady \/ StorageStop

StorageSpec == StorageInit /\ [][StorageNext]_storageVars
-----------------------------------------------------------------------------
StorageTypeOK ==
  /\ st_pc \in {"down", "run", "refused", "up"} /\ plan \in {<<>>, Plan}
  /\ installed \subseteq UpdateVersions /\ recorded_updates \subseteq UpdateVersions /\ cut \subseteq UpdateVersions
  /\ st_at \in Nat /\ st_next \in Nat /\ admins \in Nat /\ st_faults \in 0..MaxStorageFaults
  /\ repeated \in BOOLEAN

(* A server that is up has the tables and the columns all its updates      *)
(* make, in memory and in the database, whatever earlier starts were cut   *)
(* off at which statement; a table more, or a second administrator, only   *)
(* when some update was done without a record (apply2 and what it calls).  *)
StorageComplete ==
  st_pc = "up" =>
    /\ structs = WholeSchema
    /\ \A t \in DOMAIN structs : t \in DOMAIN tables_there /\ tables_there[t] = structs[t]
    /\ admins >= 1
    /\ cut = {} => tables_there = structs /\ admins = 1 /\ recorded_updates = UpdateVersions

(* The server refuses to start for ever over its own schema only when an   *)
(* update that adds or drops a column was cut off between it and its       *)
(* record.                                                                 *)
StuckOnlyHalfDone ==
  repeated => /\ VersionAt \in cut /\ VersionAt \notin recorded_updates
              /\ Statement.op \in {"addcolumn", "dropcolumn"}

(* The schema after any starts: whole where the server is up, and where it *)
(* never will be, for the one reason given.                                *)
SchemaKept == StorageComplete /\ StuckOnlyHalfDone
=============================================================================
