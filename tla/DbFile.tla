------------------------------- MODULE DbFile -------------------------------
(* FhqServerDatabaseFile: one sqlite file (uuids.db, public_events.db,     *)
(* useful_links.db), the updates that open() installs in it, the statement *)
(* executeQuery() runs and the numbered backups it makes before.           *)
(*                                                                         *)
(* A statement commits by itself.  The updates run at start, on one        *)
(* thread, and every later writer holds the mutex of the derived class     *)
(* around executeQuery, so at most one call runs at a time; the end of the *)
(* process comes between any two of its steps.  What a statement throws    *)
(* ends the process at start; in a command it is caught, and the server    *)
(* goes on (in a task of the pool it ends the process).                    *)
EXTENDS Naturals, Sequences, FiniteSets, Functions

CONSTANTS
  Updates,     \* m_vDbUpdates: [from, to, once], once: a second try is refused
  MaxBackup,   \* nMaxBackupsFiles
  MaxWrites,   \* bound: statements of the open database
  MaxFileFaults    \* bound: refused backups and ends of the process

NoVersion == 0                \* the empty string, the version of an empty file
Version(i) == Updates[i].to
Slots == 0..MaxBackup

ASSUME DbFileAssumption ==
  /\ MaxBackup \in Nat \ {0} /\ MaxWrites \in Nat /\ MaxFileFaults \in Nat
  /\ Updates \in Seq([from : Nat, to : Nat \ {NoVersion}, once : BOOLEAN])
  /\ \A i, j \in 1..Len(Updates) : Version(i) = Version(j) => i = j

VARIABLES
  schema,     \* the updates whose statement is committed
  recorded,   \* version_to of db_version, by rowid
  writes,     \* how many statements are committed
  backups,    \* the files backups/<name>.n: what they hold and of when
  minute,     \* since m_nLastBackupTime: "running" or "over"
  pc, call,   \* the next step, and that of its executeQuery
  slot,       \* i of the loop that renames
  known, done, todo,   \* installedVersionsTo, installedNewUpdates, the pass
  made, faults,
  since,      \* auxiliary: writes when m_nLastBackupTime was set
  copy        \* auxiliary: the backup begun then is "made", or "missing"

disk == <<schema, recorded, writes>>
pass == <<known, done, todo>>
clock == <<minute, since>>
dbFileVars == <<disk, backups, clock, pc, call, slot, pass, made, faults, copy>>

Steps == {"down", "table", "pass", "apply", "record", "finish", "ready", "insert", "refused"}
Calls == {"check", "rotate", "copy", "torn", "exec"}
NoCopy == [state |-> "none", at |-> 0]

DbFileInit ==
  /\ schema = {} /\ recorded = <<>> /\ writes = 0
  /\ backups = [n \in Slots |-> NoCopy] /\ minute = "over" /\ since = 0 /\ copy = "missing"
  /\ pc = "down" /\ call = "check" /\ slot = 0
  /\ known = <<>> /\ done = <<>> /\ todo = {} /\ made = 0 /\ faults = 0
-----------------------------------------------------------------------------
(* copyDatabaseToBackup, which executeQuery calls first and open() last.   *)
InQuery == pc \in {"apply", "record", "finish", "insert"}

NotDue == call = "check" /\ minute = "running" /\ call' = "exec" /\ UNCHANGED <<slot, clock, copy>>

BeginBackup ==
  /\ call = "check" /\ minute = "over"
  /\ minute' = "running" /\ since' = writes /\ copy' = "missing"
  /\ call' = "rotate" /\ slot' = MaxBackup

Check == InQuery /\ (NotDue \/ BeginBackup) /\ UNCHANGED <<disk, backups, pc, pass, made, faults>>

(* The oldest is removed, the others are renamed to the next number, from  *)
(* the oldest to the newest.  Is there none, nothing is renamed.           *)
ShiftedUp(n) ==
  IF n = MaxBackup THEN [backups EXCEPT ![0] = NoCopy]
  ELSE [backups EXCEPT ![MaxBackup - n] = backups[MaxBackup - n - 1], ![MaxBackup - n - 1] = NoCopy]

Shifted(n) ==
  IF n = MaxBackup THEN [backups EXCEPT ![n] = NoCopy]
  ELSE IF backups[n].state = "none" THEN backups
  ELSE [backups EXCEPT ![n + 1] = backups[n], ![n] = NoCopy]

Rotate ==
  /\ InQuery /\ call = "rotate"
  /\ backups' = Shifted(slot)
  /\ IF slot = 0 THEN call' = "copy" /\ UNCHANGED slot ELSE slot' = slot - 1 /\ UNCHANGED call
  /\ UNCHANGED <<disk, clock, pc, pass, made, faults, copy>>

(* copyFile: the target is there, still incomplete, before it is whole.    *)
BeginCopy ==
  /\ InQuery /\ call = "copy" /\ backups[0].state = "none"
  /\ backups' = [backups EXCEPT ![0] = [state |-> "torn", at |-> writes]]
  /\ call' = "torn"
  /\ UNCHANGED <<disk, clock, pc, slot, pass, made, faults, copy>>

EndCopy ==
  /\ InQuery /\ call = "torn"
  /\ backups' = [backups EXCEPT ![0] = [state |-> "whole", at |-> backups[0].at]]
  /\ call' = "exec" /\ copy' = "made"
  /\ UNCHANGED <<disk, clock, pc, slot, pass, made, faults>>

(* A refused rename, or a copy that cannot begin, throws: no statement is  *)
(* run.  m_nLastBackupTime is set all the same.                            *)
BackupRefused ==
  /\ InQuery /\ faults < MaxFileFaults
  /\ call = "copy" \/ (call = "rotate" /\ slot < MaxBackup /\ backups[slot].state # "none")
  /\ faults' = faults + 1
  /\ call' = "check" /\ pc' = IF pc = "insert" THEN "ready" ELSE "refused"
  /\ UNCHANGED <<disk, backups, clock, slot, pass, made, copy>>
-----------------------------------------------------------------------------
(* open(): the file, its table db_version, which is the first thing it     *)
(* writes to a new one, and the versions that says are installed.          *)
OpenKeepingMinute ==
  /\ pc = "down"
  /\ pc' = "table"
  /\ UNCHANGED <<disk, backups, clock, call, slot, pass, made, faults, copy>>

Open ==
  /\ pc = "down"
  /\ pc' = "table" /\ minute' = "over"
  /\ UNCHANGED <<disk, backups, since, call, slot, pass, made, faults, copy>>

CreateTable ==
  /\ pc = "table"
  /\ writes' = IF writes = 0 THEN 1 ELSE writes
  /\ known' = <<NoVersion>> \o recorded /\ done' = <<>> /\ todo' = {}
  /\ pc' = "pass"
  /\ UNCHANGED <<schema, recorded, backups, clock, call, slot, made, faults, copy>>

(* One pass of installUpdates over m_vDbUpdates and, for each update, over *)
(* installedVersionsTo, which changes only after the pass.  The last pass  *)
(* finds nothing to do.                                                    *)
Hits(k) ==
  {h \in (DOMAIN Updates) \X (DOMAIN k) :
     Updates[h[1]].from = k[h[2]] /\ Version(h[1]) \notin Range(k)}

First(h) == \A g \in todo : h[1] < g[1] \/ (h[1] = g[1] /\ h[2] <= g[2])

AfterOnePass(k) == IF Hits(k) = {} \/ done # <<>> THEN "finish" ELSE "apply"

AfterPass(k) == IF Hits(k) = {} THEN "finish" ELSE "apply"

Pass ==
  /\ pc = "pass"
  /\ known' = known \o done /\ done' = <<>> /\ todo' = Hits(known')
  /\ pc' = AfterPass(known')
  /\ UNCHANGED <<disk, backups, clock, call, slot, made, faults, copy>>

(* applyUpdate: a CREATE TABLE or ADD COLUMN that is there already is      *)
(* refused, an index is created IF NOT EXISTS.                             *)
Apply(h) ==
  /\ pc = "apply" /\ call = "exec" /\ First(h)
  /\ call' = "check"
  /\ IF Version(h[1]) \in schema
     THEN /\ pc' = IF Updates[h[1]].once THEN "refused" ELSE "record"
          /\ UNCHANGED <<schema, writes>>
     ELSE /\ pc' = "record"
          /\ schema' = schema \cup {Version(h[1])} /\ writes' = writes + 1
  /\ UNCHANGED <<recorded, backups, clock, slot, pass, made, faults, copy>>

(* insertDbVersion.                                                        *)
Record(h) ==
  /\ pc = "record" /\ call = "exec" /\ First(h)
  /\ recorded' = Append(recorded, Version(h[1])) /\ writes' = writes + 1
  /\ done' = Append(done, Version(h[1])) /\ todo' = todo \ {h}
  /\ call' = "check" /\ pc' = IF todo' = {} THEN "pass" ELSE "apply"
  /\ UNCHANGED <<schema, backups, clock, slot, known, made, faults, copy>>

(* The backup at the end of open().                                        *)
Finish ==
  /\ pc = "finish" /\ call = "exec"
  /\ call' = "check" /\ pc' = "ready"
  /\ UNCHANGED <<disk, backups, clock, slot, pass, made, faults, copy>>

(* A statement of the open database: insertUuid and its like.              *)
Insert ==
  /\ pc = "ready" /\ made < MaxWrites
  /\ pc' = "insert" /\ made' = made + 1
  /\ UNCHANGED <<disk, backups, clock, call, slot, pass, faults, copy>>

Inserted ==
  /\ pc = "insert" /\ call = "exec"
  /\ call' = "check" /\ pc' = "ready" /\ writes' = writes + 1
  /\ UNCHANGED <<schema, recorded, backups, clock, slot, pass, made, faults, copy>>
-----------------------------------------------------------------------------
MinutePasses ==
  /\ minute = "running" /\ minute' = "over"
  /\ UNCHANGED <<disk, backups, since, pc, call, slot, pass, made, faults, copy>>

(* The process ends, at any step or because an update was refused.         *)
Stopped == pc' = "down" /\ call' = "check" /\ UNCHANGED <<disk, backups, clock, slot, pass, made, copy>>
Stop == pc \notin {"down", "refused"} /\ faults < MaxFileFaults /\ faults' = faults + 1 /\ Stopped
GiveUp == pc = "refused" /\ UNCHANGED faults /\ Stopped

DbFileNext ==
  \/ Open \/ CreateTable \/ Pass \/ Finish \/ Insert \/ Inserted
  \/ \E h \in todo : Apply(h) \/ Record(h)
  \/ Check \/ Rotate \/ BeginCopy \/ EndCopy \/ BackupRefused
  \/ MinutePasses \/ Stop \/ GiveUp

DbFileSpec == DbFileInit /\ [][DbFileNext]_dbFileVars
-----------------------------------------------------------------------------
DbFileTypeOK ==
  /\ schema \subseteq Nat /\ recorded \in Seq(Nat) /\ writes \in Nat
  /\ backups \in [Slots -> [state : {"none", "torn", "whole"}, at : Nat]]
  /\ minute \in {"running", "over"} /\ since \in Nat /\ copy \in {"made", "missing"}
  /\ pc \in Steps /\ call \in Calls /\ slot \in Slots
  /\ known \in Seq(Nat) /\ done \in Seq(Nat)
  /\ todo \subseteq (DOMAIN Updates) \X (DOMAIN known)
  /\ made \in Nat /\ faults \in Nat

(* db_version tells the truth about the file whatever step the process     *)
(* ended at: each update is recorded once, after the one it starts from,   *)
(* and its statement is committed (installUpdates).                        *)
RecordedInOrder ==
  \A i \in DOMAIN recorded :
    /\ recorded[i] \in schema
    /\ \A j \in DOMAIN recorded : recorded[i] = recorded[j] => i = j
    /\ \E u \in DOMAIN Updates :
         /\ Version(u) = recorded[i]
         /\ Updates[u].from = NoVersion \/ \E j \in 1..(i - 1) : recorded[j] = Updates[u].from

(* A database is only served with every update installed that can be       *)
(* reached from the empty file, however many passes that took, and none    *)
(* half installed (the loop of installUpdates).                            *)
ServedComplete ==
  pc \in {"ready", "insert"} =>
    /\ schema = Range(recorded)
    /\ \A u \in DOMAIN Updates :
         Updates[u].from \in {NoVersion} \cup Range(recorded) => Version(u) \in schema

(* The one update that can keep a file from opening is the one the process *)
(* ended in, between its statement and its row: no update with a row is    *)
(* ever tried again (installUpdates; a refused backup leaves copy missing).*)
RefusedLostItsRow ==
  pc = "refused" /\ copy = "made" => \E h \in todo : First(h) /\ Version(h[1]) \in schema \ Range(recorded)

(* The versions recorded are the updates the file has, in every state any  *)
(* end of the process can leave, but for the one it was cut off in.        *)
VersionsTrue == RecordedInOrder /\ RefusedLostItsRow

(* Every statement runs with a whole backup of the file as it was when the *)
(* last minute began; only one of a command whose minute began with a      *)
(* refused backup may not (copyDatabaseToBackup before sqlite3_exec).      *)
BackedUpFirst ==
  call = "exec" => \/ backups[0] = [state |-> "whole", at |-> since]
                  \/ (copy = "missing" /\ pc = "insert")

(* A rotation loses no backup but the oldest, wherever an earlier one was  *)
(* refused or cut off (copyDatabaseToBackup).                              *)
OnlyOldestLost ==
  [][\A n \in 0..(MaxBackup - 1) :
       backups[n].state = "whole" => \E m \in Slots : backups'[m] = backups[n]]_dbFileVars

(* What db_version lists is what the file holds, and a file that is served *)
(* holds all of it.                                                        *)
FileUpdated == VersionsTrue /\ ServedComplete
=============================================================================
