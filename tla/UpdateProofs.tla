---------------------------- MODULE UpdateProofs ----------------------------
(* What the two mechanisms that bring a database up to date keep true:     *)
(* DbFile for any list of updates with distinct versions and any numbers   *)
(* of backups, statements and faults; StorageUpdates for any chain whose   *)
(* plan is legal and each statement of it alone in what it does.           *)
EXTENDS DbFile, StorageUpdates, Sums, SequenceTheorems, TLAPS

BackedUp == backups[0] = [state |-> "whole", at |-> since]

(* Where a rotation has got to: the number it is to rename to is free, and *)
(* the clock it began is not made good before the copy is whole.          *)
RotationOK ==
  /\ call # "check" => InQuery
  /\ call = "rotate" /\ slot < MaxBackup => backups[slot + 1].state = "none"
  /\ call = "copy" => backups[0].state = "none"
  /\ call = "torn" => backups[0] = [state |-> "torn", at |-> since]
  /\ call \in {"rotate", "copy"} => writes = since
  /\ call \in {"rotate", "copy", "torn"} => copy = "missing"

MinuteOK ==
  pc \in {"table", "pass", "apply", "record", "finish", "ready", "insert"} /\ call = "check" /\ minute = "running" =>
    BackedUp \/ (copy = "missing" /\ pc \in {"ready", "insert"})

BackupInv == DbFileTypeOK /\ RotationOK /\ MinuteOK /\ BackedUpFirst

LEMMA InitBackupInv == DbFileInit => BackupInv
<1> SUFFICES ASSUME DbFileInit PROVE BackupInv
  OBVIOUS
<1>1. DbFileTypeOK
  BY DbFileAssumption DEF DbFileInit, DbFileTypeOK, Steps, Calls, NoCopy, Slots
<1>2. RotationOK /\ MinuteOK /\ BackedUpFirst
  BY DEF DbFileInit, RotationOK, MinuteOK, BackedUpFirst
<1> QED BY <1>1, <1>2 DEF BackupInv

LEMMA PassType ==
  ASSUME DbFileTypeOK, Pass
  PROVE  known' \in Seq(Nat) /\ done' \in Seq(Nat) /\ todo' \subseteq (DOMAIN Updates) \X (DOMAIN known')
<1>1. known' \in Seq(Nat) /\ done' \in Seq(Nat)
  BY DEF DbFileTypeOK, Pass
<1> QED BY <1>1 DEF Pass, Hits

LEMMA ShiftedType ==
  ASSUME DbFileTypeOK
  PROVE  Shifted(slot) \in [Slots -> [state : {"none", "torn", "whole"}, at : Nat]]
<1>1. backups[slot] \in [state : {"none", "torn", "whole"}, at : Nat] /\ NoCopy \in [state : {"none", "torn", "whole"}, at : Nat]
  BY DEF DbFileTypeOK, NoCopy
<1> QED BY <1>1 DEF DbFileTypeOK, Shifted, Slots

LEMMA HitType ==
  ASSUME DbFileTypeOK, NEW h \in todo
  PROVE  /\ h[1] \in 1..Len(Updates) /\ h[2] \in DOMAIN known
         /\ h[1] \in Nat /\ h[2] \in Nat
         /\ Updates[h[1]] \in [from : Nat, to : Nat \ {NoVersion}, once : BOOLEAN]
         /\ Version(h[1]) \in Nat \ {NoVersion}
<1>1. h \in (DOMAIN Updates) \X (DOMAIN known)
  BY DEF DbFileTypeOK
<1>2. DOMAIN Updates = 1..Len(Updates) /\ DOMAIN known = 1..Len(known)
  BY DbFileAssumption DEF DbFileTypeOK
<1>3. h[1] \in 1..Len(Updates) /\ h[2] \in 1..Len(known)
  BY <1>1, <1>2
<1>4. Updates[h[1]] \in [from : Nat, to : Nat \ {NoVersion}, once : BOOLEAN]
  <2> DEFINE Update == [from : Nat, to : Nat \ {NoVersion}, once : BOOLEAN]
  <2>1. Updates \in Seq(Update)
    BY DbFileAssumption
  <2> HIDE DEF Update
  <2>2. Updates[h[1]] \in Update
    BY <1>3, <2>1
  <2> QED BY <2>2 DEF Update
<1>5. h[1] \in Nat /\ h[2] \in Nat
  <2>1. \A n \in Nat : 1..n \subseteq Nat
    OBVIOUS
  <2>2. Len(Updates) \in Nat /\ Len(known) \in Nat
    BY DbFileAssumption DEF DbFileTypeOK
  <2> QED BY <1>3, <2>1, <2>2, Zenon
<1> QED BY <1>2, <1>3, <1>4, <1>5 DEF Version

LEMMA TypeStep ==
  ASSUME DbFileTypeOK, [DbFileNext]_dbFileVars PROVE DbFileTypeOK'
<1> USE DbFileAssumption DEF DbFileTypeOK
<1>1. CASE Open
  BY <1>1 DEF Open, Steps, disk, pass
<1>2. CASE CreateTable
  <2>1. known' \in Seq(Nat) /\ done' \in Seq(Nat)
    BY <1>2 DEF CreateTable, NoVersion
  <2>2. pc' \in Steps /\ writes' \in Nat /\ todo' = {}
    BY <1>2 DEF CreateTable, Steps
  <2> QED BY <1>2, <2>1, <2>2 DEF CreateTable, clock
<1>3. CASE Pass
  <2>1. pc' \in Steps
    BY <1>3 DEF Pass, AfterPass, Steps
  <2> QED BY <1>3, <2>1, PassType DEF Pass, disk, clock
<1>4. CASE Finish \/ Insert \/ Inserted
  <2>1. pc' \in Steps /\ call' \in Calls
    BY <1>4 DEF Finish, Insert, Inserted, Steps, Calls
  <2>2. writes' \in Nat /\ made' \in Nat
    BY <1>4 DEF Finish, Insert, Inserted, disk
  <2> QED BY <1>4, <2>1, <2>2 DEF Finish, Insert, Inserted, disk, clock, pass
<1>5. ASSUME NEW h \in todo, Apply(h) PROVE DbFileTypeOK'
  <2>1. Version(h[1]) \in Nat
    BY HitType DEF DbFileTypeOK
  <2>2. schema' \subseteq Nat /\ writes' \in Nat
    <3>1. CASE Version(h[1]) \in schema
      BY <1>5, <3>1 DEF Apply
    <3>2. CASE Version(h[1]) \notin schema
      <4>1. schema' = schema \cup {Version(h[1])} /\ writes' = writes + 1
        BY <1>5, <3>2, Zenon DEF Apply
      <4>2. schema \subseteq Nat /\ writes \in Nat
        OBVIOUS
      <4> HIDE DEF DbFileTypeOK
      <4>3. schema' \subseteq Nat
        BY <2>1, <4>1, <4>2, Zenon
      <4>4. writes' \in Nat
        BY <4>1, <4>2
      <4> QED BY <4>3, <4>4
    <3> QED BY <3>1, <3>2
  <2>3. pc' \in Steps /\ call' \in Calls
    BY <1>5 DEF Apply, Steps, Calls
  <2> QED BY <1>5, <2>2, <2>3 DEF Apply, clock, pass
<1>6. ASSUME NEW h \in todo, Record(h) PROVE DbFileTypeOK'
  <2>1. Version(h[1]) \in Nat
    BY HitType DEF DbFileTypeOK
  <2>2. recorded' \in Seq(Nat) /\ done' \in Seq(Nat)
    BY <1>6, <2>1 DEF Record
  <2>3. pc' \in Steps /\ call' \in Calls /\ writes' \in Nat /\ todo' \subseteq todo
    BY <1>6 DEF Record, Steps, Calls
  <2> QED BY <1>6, <2>2, <2>3 DEF Record, clock
<1>7. CASE Check
  <2>1. call' \in Calls /\ slot' \in Slots
    BY <1>7 DEF Check, NotDue, BeginBackup, Calls, Slots
  <2>2. minute' \in {"running", "over"} /\ since' \in Nat /\ copy' \in {"made", "missing"}
    BY <1>7 DEF Check, NotDue, BeginBackup, clock
  <2> QED BY <1>7, <2>1, <2>2 DEF Check, disk, pass
<1>8. CASE Rotate
  <2>1. backups' \in [Slots -> [state : {"none", "torn", "whole"}, at : Nat]]
    BY <1>8, ShiftedType DEF Rotate
  <2>2. slot' \in Slots /\ call' \in Calls
    BY <1>8 DEF Rotate, Slots, Calls
  <2> QED BY <1>8, <2>1, <2>2 DEF Rotate, disk, pass, clock
<1>9. CASE BeginCopy
  BY <1>9 DEF BeginCopy, Calls, Slots, disk, pass, clock
<1>10. CASE EndCopy
  <2>1. backups' \in [Slots -> [state : {"none", "torn", "whole"}, at : Nat]]
    BY <1>10 DEF EndCopy, Slots
  <2> QED BY <1>10, <2>1 DEF EndCopy, Calls, disk, pass, clock
<1>11. CASE BackupRefused
  BY <1>11 DEF BackupRefused, Calls, Steps, disk, pass, clock
<1>12. CASE MinutePasses
  BY <1>12 DEF MinutePasses, disk, pass
<1>13. CASE Stop \/ GiveUp
  <2>1. pc' \in Steps /\ call' \in Calls /\ faults' \in Nat
    BY <1>13 DEF Stop, GiveUp, Stopped, Steps, Calls
  <2> QED BY <1>13, <2>1 DEF Stop, GiveUp, Stopped, disk, pass, clock
<1>14. CASE UNCHANGED dbFileVars
  BY <1>14 DEF dbFileVars, disk, pass, clock
<1> QED BY <1>1, <1>2, <1>3, <1>4, <1>5, <1>6, <1>7, <1>8, <1>9, <1>10, <1>11, <1>12, <1>13, <1>14 DEF DbFileNext
-----------------------------------------------------------------------------
LEMMA RotateStep ==
  ASSUME BackupInv, Rotate
  PROVE  RotationOK' /\ MinuteOK' /\ BackedUpFirst'
<1> USE DbFileAssumption DEF BackupInv, Rotate
<1>1. call' \in {"rotate", "copy"} /\ InQuery' /\ copy' = "missing" /\ writes' = since'
  BY DEF RotationOK, InQuery, disk, clock
<1>2. CASE slot = MaxBackup
  BY <1>1, <1>2 DEF Shifted, DbFileTypeOK, RotationOK, MinuteOK, BackedUpFirst, Slots, NoCopy
<1>3. CASE slot # MaxBackup /\ backups[slot].state = "none"
  BY <1>1, <1>3 DEF Shifted, DbFileTypeOK, RotationOK, MinuteOK, BackedUpFirst, Slots
<1>4. CASE slot # MaxBackup /\ backups[slot].state # "none"
  <2>1. slot \in Slots /\ slot + 1 \in Slots
    BY <1>4 DEF DbFileTypeOK, Slots
  <2>2. backups'[slot].state = "none"
    BY <1>4, <2>1 DEF Shifted, DbFileTypeOK, NoCopy
  <2> QED BY <1>1, <2>1, <2>2 DEF DbFileTypeOK, RotationOK, MinuteOK, BackedUpFirst, Slots
<1> QED BY <1>2, <1>3, <1>4

LEMMA BackupStep == BackupInv /\ [DbFileNext]_dbFileVars => BackupInv'
<1> SUFFICES ASSUME BackupInv, [DbFileNext]_dbFileVars PROVE BackupInv'
  OBVIOUS
<1>0. DbFileTypeOK'
  BY TypeStep DEF BackupInv
<1> DEFINE P == RotationOK /\ MinuteOK /\ BackedUpFirst
<1> SUFFICES P'
  BY <1>0 DEF BackupInv
<1> USE DbFileAssumption DEF BackupInv, DbFileTypeOK, BackedUp
<1>1. CASE Open
  BY <1>1 DEF Open, RotationOK, MinuteOK, BackedUpFirst, InQuery, disk
<1>2. CASE CreateTable
  BY <1>2 DEF CreateTable, RotationOK, MinuteOK, BackedUpFirst, InQuery, clock
<1>3. CASE Pass
  BY <1>3 DEF Pass, AfterPass, RotationOK, MinuteOK, BackedUpFirst, InQuery, disk, clock
<1>4. CASE Finish \/ Insert \/ Inserted
  BY <1>4 DEF Finish, Insert, Inserted, RotationOK, MinuteOK, BackedUpFirst, InQuery, disk, clock
<1>5. ASSUME NEW h \in todo, Apply(h) PROVE P'
  BY <1>5 DEF Apply, RotationOK, MinuteOK, BackedUpFirst, InQuery, clock
<1>6. ASSUME NEW h \in todo, Record(h) PROVE P'
  BY <1>6 DEF Record, RotationOK, MinuteOK, BackedUpFirst, InQuery, clock
<1>7. CASE Check
  BY <1>7 DEF Check, NotDue, BeginBackup, RotationOK, MinuteOK, BackedUpFirst, InQuery, disk, clock
<1>8. CASE Rotate
  BY <1>8, RotateStep
<1>9. CASE BeginCopy
  BY <1>9 DEF BeginCopy, RotationOK, MinuteOK, BackedUpFirst, InQuery, Slots, disk, clock
<1>10. CASE EndCopy
  <2>1. backups'[0] = [state |-> "whole", at |-> since]
    BY <1>10 DEF EndCopy, RotationOK, Slots
  <2> QED BY <1>10, <2>1 DEF EndCopy, RotationOK, MinuteOK, BackedUpFirst, InQuery, disk, clock
<1>11. CASE BackupRefused
  BY <1>11 DEF BackupRefused, RotationOK, MinuteOK, BackedUpFirst, InQuery, disk, clock
<1>12. CASE MinutePasses
  BY <1>12 DEF MinutePasses, RotationOK, MinuteOK, BackedUpFirst, InQuery, disk
<1>13. CASE Stop \/ GiveUp
  BY <1>13 DEF Stop, GiveUp, Stopped, RotationOK, MinuteOK, BackedUpFirst, InQuery, disk, clock
<1>14. CASE UNCHANGED dbFileVars
  BY <1>14 DEF dbFileVars, RotationOK, MinuteOK, BackedUpFirst, InQuery, disk, clock
<1> QED BY <1>1, <1>2, <1>3, <1>4, <1>5, <1>6, <1>7, <1>8, <1>9, <1>10, <1>11, <1>12, <1>13, <1>14 DEF DbFileNext

THEOREM BackupsHold == DbFileSpec => []BackupInv
BY InitBackupInv, BackupStep, PTL DEF DbFileSpec

(* The backup comes before the statement: BackedUpFirst.                   *)
THEOREM StatementsAreBackedUp == DbFileSpec => []BackedUpFirst
<1>1. BackupInv => BackedUpFirst
  BY DEF BackupInv
<1> QED BY <1>1, BackupsHold, PTL

(* The rename of copyDatabaseToBackup never overwrites: OnlyOldestLost.    *)
THEOREM BackupsAreKept == DbFileSpec => OnlyOldestLost
<1> DEFINE A == \A n \in 0..(MaxBackup - 1) :
                  backups[n].state = "whole" => \E m \in Slots : backups'[m] = backups[n]
<1>1. BackupInv /\ [DbFileNext]_dbFileVars => [A]_dbFileVars
  <2> SUFFICES ASSUME BackupInv, DbFileNext, NEW n \in 0..(MaxBackup - 1), backups[n].state = "whole"
               PROVE  \E m \in Slots : backups'[m] = backups[n]
    OBVIOUS
  <2> USE DbFileAssumption DEF BackupInv
  <2>0. n \in Slots /\ n + 1 \in Slots /\ n # MaxBackup
    BY DEF Slots
  <2>1. CASE Rotate
    <3>1. CASE slot = n
      <4>1. backups'[n + 1] = backups[n]
        BY <2>0, <2>1, <3>1 DEF Rotate, Shifted, DbFileTypeOK
      <4> QED BY <4>1, <2>0
    <3>2. CASE slot # n
      <4>1. slot = MaxBackup \/ slot + 1 # n
        BY <2>1, <3>2 DEF Rotate, RotationOK, DbFileTypeOK, Slots
      <4>2. backups'[n] = backups[n]
        BY <2>0, <2>1, <3>2, <4>1 DEF Rotate, Shifted, DbFileTypeOK
      <4> QED BY <4>2, <2>0
    <3> QED BY <3>1, <3>2
  <2>2. CASE BeginCopy
    BY <2>0, <2>2 DEF BeginCopy, DbFileTypeOK
  <2>3. CASE EndCopy
    <3>1. n # 0
      BY <2>3 DEF EndCopy, RotationOK
    <3> QED BY <2>0, <2>3, <3>1 DEF EndCopy, DbFileTypeOK
  <2>4. CASE UNCHANGED backups
    BY <2>0, <2>4
  <2> QED
    BY <2>1, <2>2, <2>3, <2>4
    DEF DbFileNext, Open, CreateTable, Pass, Finish, Insert, Inserted, Apply, Record, Check, BackupRefused,
        MinutePasses, Stop, GiveUp, Stopped
<1> QED BY <1>1, BackupsHold, PTL DEF DbFileSpec, OnlyOldestLost
-----------------------------------------------------------------------------
(* The versions.  What open() thinks is installed is what is recorded, and *)
(* the rest of a pass are updates that are not, each once.                 *)
KnownOK == pc \notin {"down", "table", "refused"} => known \o done = <<NoVersion>> \o recorded

TodoOK ==
  /\ pc \in {"apply", "record", "refused"} => \A h \in todo :
       /\ Updates[h[1]].from \in {NoVersion} \cup Range(recorded)
       /\ Version(h[1]) \notin Range(recorded)
       /\ \A g \in todo : g[1] = h[1] => g = h
  /\ pc \in {"apply", "record"} => todo # {}
  /\ pc \in {"pass", "finish", "ready", "insert"} => todo = {}
  /\ pc \in {"finish", "ready", "insert"} => done = <<>> /\ Hits(known) = {}

(* A committed statement without its row is of an update that would be     *)
(* tried next, so a database with one is never served.                     *)
SchemaOK ==
  /\ \A v \in schema : v \in Range(recorded) \/
       \E u \in DOMAIN Updates : Version(u) = v /\ Updates[u].from \in {NoVersion} \cup Range(recorded)
  /\ pc = "record" => \A h \in todo : First(h) => Version(h[1]) \in schema

VersionInv == RecordedInOrder /\ KnownOK /\ TodoOK /\ SchemaOK /\ RefusedLostItsRow

DbFileInv == BackupInv /\ VersionInv

LEMMA RangeOfConcat ==
  ASSUME NEW s \in Seq(Nat), NEW t \in Seq(Nat)
  PROVE  Range(s \o t) = Range(s) \cup Range(t)
<1>1. DOMAIN s = 1..Len(s) /\ DOMAIN t = 1..Len(t) /\ Len(s) \in Nat /\ Len(t) \in Nat
  OBVIOUS
<1>2. DOMAIN (s \o t) = 1..(Len(s) + Len(t))
  OBVIOUS
<1>3. \A i \in 1..Len(s) : (s \o t)[i] = s[i]
  OBVIOUS
<1>4. \A i \in 1..Len(t) : (s \o t)[Len(s) + i] = t[i]
  OBVIOUS
<1>5. \A x \in Range(s \o t) : x \in Range(s) \cup Range(t)
  <2> SUFFICES ASSUME NEW i \in 1..(Len(s) + Len(t)) PROVE (s \o t)[i] \in Range(s) \cup Range(t)
    BY <1>2 DEF Range
  <2>1. CASE i <= Len(s)
    BY <1>1, <1>3, <2>1 DEF Range
  <2>2. CASE i > Len(s)
    <3>1. i - Len(s) \in 1..Len(t) /\ i = Len(s) + (i - Len(s))
      BY <1>1, <2>2
    <3>2. (s \o t)[i] = t[i - Len(s)]
      BY <1>4, <3>1
    <3> QED BY <1>1, <3>1, <3>2 DEF Range
  <2> QED BY <1>1, <2>1, <2>2
<1>6. \A x \in Range(s) : x \in Range(s \o t)
  BY <1>1, <1>2, <1>3 DEF Range
<1>7. \A x \in Range(t) : x \in Range(s \o t)
  <2> SUFFICES ASSUME NEW i \in 1..Len(t) PROVE t[i] \in Range(s \o t)
    BY <1>1 DEF Range
  <2>1. Len(s) + i \in DOMAIN (s \o t)
    BY <1>1, <1>2
  <2> QED BY <1>4, <2>1 DEF Range
<1> QED BY <1>5, <1>6, <1>7

LEMMA ConcatAppend ==
  ASSUME NEW s \in Seq(Nat), NEW t \in Seq(Nat), NEW x \in Nat
  PROVE  s \o Append(t, x) = Append(s \o t, x)
<1>1. s \o Append(t, x) \in Seq(Nat) /\ Append(s \o t, x) \in Seq(Nat)
  OBVIOUS
<1>2. Len(s \o Append(t, x)) = Len(Append(s \o t, x))
  OBVIOUS
<1>3. ASSUME NEW i \in 1..Len(s \o Append(t, x)) PROVE (s \o Append(t, x))[i] = Append(s \o t, x)[i]
  <2>1. Len(s \o Append(t, x)) = Len(s) + Len(t) + 1 /\ Len(s) \in Nat /\ Len(t) \in Nat
    OBVIOUS
  <2>2. Len(s \o t) = Len(s) + Len(t) /\ Len(Append(t, x)) = Len(t) + 1
    OBVIOUS
  <2>3. i \in Nat /\ i >= 1 /\ i <= Len(s) + Len(t) + 1
    BY <2>1
  <2>4. CASE i <= Len(s)
    <3>1. (s \o Append(t, x))[i] = s[i]
      BY <2>1, <2>2, <2>3, <2>4
    <3>2. (s \o t)[i] = s[i]
      BY <2>1, <2>2, <2>3, <2>4
    <3>3. Append(s \o t, x)[i] = (s \o t)[i]
      BY <2>1, <2>2, <2>3, <2>4
    <3> QED BY <3>1, <3>2, <3>3
  <2>5. CASE i > Len(s) /\ i <= Len(s) + Len(t)
    <3>1. i - Len(s) \in 1..Len(t)
      BY <2>1, <2>3, <2>5
    <3>2. (s \o Append(t, x))[i] = Append(t, x)[i - Len(s)]
      BY <2>1, <2>2, <2>3, <2>5
    <3>3. Append(t, x)[i - Len(s)] = t[i - Len(s)]
      BY <3>1
    <3>4. (s \o t)[i] = t[i - Len(s)]
      BY <2>1, <2>2, <2>3, <2>5
    <3>5. Append(s \o t, x)[i] = (s \o t)[i]
      BY <2>1, <2>2, <2>3, <2>5
    <3> QED BY <3>2, <3>3, <3>4, <3>5
  <2>6. CASE i = Len(s) + Len(t) + 1
    <3>1. (s \o Append(t, x))[i] = Append(t, x)[Len(t) + 1]
      BY <2>1, <2>2, <2>3, <2>6
    <3> QED BY <2>1, <2>2, <2>6, <3>1
  <2>7. i <= Len(s) \/ (i > Len(s) /\ i <= Len(s) + Len(t)) \/ i = Len(s) + Len(t) + 1
    <3>1. Len(s) \in Nat /\ Len(t) \in Nat
      OBVIOUS
    <3> QED BY <2>3, <3>1
  <2> QED BY <2>4, <2>5, <2>6, <2>7
<1> QED BY <1>1, <1>2, <1>3, SeqEqual

LEMMA RangeOfAppend ==
  ASSUME NEW s \in Seq(Nat), NEW x \in Nat
  PROVE  Range(Append(s, x)) = Range(s) \cup {x}
<1>1. DOMAIN s = 1..Len(s) /\ Len(s) \in Nat
  OBVIOUS
<1>2. DOMAIN Append(s, x) = 1..(Len(s) + 1)
  OBVIOUS
<1>3. Append(s, x)[Len(s) + 1] = x /\ \A i \in 1..Len(s) : Append(s, x)[i] = s[i]
  OBVIOUS
<1>4. \A y \in Range(Append(s, x)) : y \in Range(s) \cup {x}
  <2> SUFFICES ASSUME NEW i \in 1..(Len(s) + 1) PROVE Append(s, x)[i] \in Range(s) \cup {x}
    BY <1>2 DEF Range
  <2>1. CASE i = Len(s) + 1
    BY <1>3, <2>1
  <2>2. CASE i # Len(s) + 1
    BY <1>1, <1>3, <2>2 DEF Range
  <2> QED BY <2>1, <2>2
<1>5. \A y \in Range(s) \cup {x} : y \in Range(Append(s, x))
  BY <1>1, <1>2, <1>3 DEF Range
<1> QED BY <1>4, <1>5

LEMMA KnownIsRecorded ==
  ASSUME DbFileTypeOK, known \o done = <<NoVersion>> \o recorded
  PROVE  Range(known) \cup Range(done) = {NoVersion} \cup Range(recorded)
<1>1. <<NoVersion>> \in Seq(Nat) /\ Range(<<NoVersion>>) = {NoVersion}
  BY DEF NoVersion, Range
<1>0. known \in Seq(Nat) /\ done \in Seq(Nat) /\ recorded \in Seq(Nat)
  BY DEF DbFileTypeOK
<1>2. Range(known \o done) = Range(known) \cup Range(done)
  BY <1>0, RangeOfConcat
<1>3. Range(<<NoVersion>> \o recorded) = Range(<<NoVersion>>) \cup Range(recorded)
  BY <1>0, <1>1, RangeOfConcat
<1> QED BY <1>1, <1>2, <1>3

(* known is a beginning of NoVersion and the recorded versions, which are  *)
(* all different: no update is met twice in a pass.                        *)
LEMMA RecordedIsNotEmpty ==
  ASSUME RecordedInOrder PROVE \A k \in DOMAIN recorded : recorded[k] # NoVersion
<1> SUFFICES ASSUME NEW k \in DOMAIN recorded PROVE recorded[k] # NoVersion
  OBVIOUS
<1>1. PICK u \in DOMAIN Updates : Version(u) = recorded[k]
  BY DEF RecordedInOrder
<1> DEFINE Update == [from : Nat, to : Nat \ {NoVersion}, once : BOOLEAN]
<1>2. Updates \in Seq(Update)
  BY DbFileAssumption
<1> HIDE DEF Update
<1>3. Updates[u] \in Update
  BY <1>1, <1>2
<1> QED BY <1>1, <1>3 DEF Version, Update

LEMMA StartedOnce ==
  ASSUME NEW r \in Seq(Nat), \A i, j \in DOMAIN r : r[i] = r[j] => i = j,
         \A i \in DOMAIN r : r[i] # NoVersion
  PROVE  LET s == <<NoVersion>> \o r IN \A i, j \in DOMAIN s : s[i] = s[j] => i = j
<1> DEFINE s == <<NoVersion>> \o r
<1>1. DOMAIN r = 1..Len(r) /\ Len(r) \in Nat
  OBVIOUS
<1>2. DOMAIN s = 1..(Len(r) + 1) /\ s[1] = NoVersion /\ \A i \in 1..Len(r) : s[i + 1] = r[i]
  BY DEF NoVersion
<1> HIDE DEF s
<1>3. ASSUME NEW i \in 1..(Len(r) + 1), i # 1 PROVE i - 1 \in DOMAIN r /\ s[i] = r[i - 1]
  <2>1. i - 1 \in 1..Len(r) /\ i = (i - 1) + 1
    BY <1>1, <1>3
  <2> QED BY <1>1, <1>2, <2>1
<1> SUFFICES ASSUME NEW i \in 1..(Len(r) + 1), NEW j \in 1..(Len(r) + 1), s[i] = s[j] PROVE i = j
  BY <1>2 DEF s
<1>4. CASE i = 1 \/ j = 1
  BY <1>2, <1>3, <1>4
<1>5. CASE i # 1 /\ j # 1
  <2>1. i - 1 = j - 1
    BY <1>3, <1>5
  <2> QED BY <2>1
<1> QED BY <1>4, <1>5

LEMMA FirstIsOne ==
  ASSUME DbFileTypeOK, NEW h \in todo, NEW g \in todo, First(h), First(g)
  PROVE  h = g
<1>1. h[1] \in Nat /\ h[2] \in Nat /\ g[1] \in Nat /\ g[2] \in Nat
  BY HitType
<1>2. h[1] = g[1] /\ h[2] = g[2]
  BY <1>1 DEF First
<1>3. h \in (DOMAIN Updates) \X (DOMAIN known) /\ g \in (DOMAIN Updates) \X (DOMAIN known)
  BY DEF DbFileTypeOK
<1>4. h = <<h[1], h[2]>> /\ g = <<g[1], g[2]>>
  BY <1>3
<1> QED BY <1>2, <1>4

LEMMA InitVersionInv == DbFileInit => VersionInv
BY DEF DbFileInit, VersionInv, RecordedInOrder, KnownOK, TodoOK, SchemaOK, RefusedLostItsRow

(* Nothing but the steps of open() changes the versions.                   *)
LEMMA UpdatePassStep ==
  ASSUME DbFileInv, Pass
  PROVE  VersionInv'
<1> USE DEF DbFileInv, BackupInv, VersionInv
<1>0. /\ schema' = schema /\ recorded' = recorded /\ known' = known \o done /\ done' = <<>>
      /\ todo' = Hits(known') /\ pc = "pass" /\ pc' = AfterPass(known')
  BY DEF Pass, disk
<1>1. DbFileTypeOK'
  BY TypeStep DEF DbFileNext
<1>2. known' = <<NoVersion>> \o recorded'
  BY <1>0 DEF KnownOK
<1>3. known' \o done' = known'
  BY <1>0, <1>1 DEF DbFileTypeOK
<1>4. KnownOK'
  BY <1>2, <1>3 DEF KnownOK
<1>5. Range(known') = {NoVersion} \cup Range(recorded')
  <2>1. Range(<<NoVersion>>) = {NoVersion} /\ <<NoVersion>> \in Seq(Nat)
    BY DEF Range, NoVersion
  <2>2. recorded' \in Seq(Nat)
    BY <1>1 DEF DbFileTypeOK
  <2> QED BY <1>2, <2>1, <2>2, RangeOfConcat
<1>6. RecordedInOrder'
  BY <1>0 DEF RecordedInOrder
<1>7. \A i, j \in DOMAIN known' : known'[i] = known'[j] => i = j
  <2>1. recorded \in Seq(Nat) /\ (\A i, j \in DOMAIN recorded : recorded[i] = recorded[j] => i = j)
    BY DEF DbFileTypeOK, RecordedInOrder
  <2> QED BY <1>0, <1>2, <2>1, RecordedIsNotEmpty, StartedOnce
<1>8. \A h \in todo' : /\ Updates[h[1]].from \in Range(known') /\ Version(h[1]) \notin Range(known')
                       /\ \A g \in todo' : g[1] = h[1] => g = h
  <2> SUFFICES ASSUME NEW h \in todo' PROVE /\ Updates[h[1]].from \in Range(known') /\ Version(h[1]) \notin Range(known')
                       /\ \A g \in todo' : g[1] = h[1] => g = h
    OBVIOUS
  <2>1. h \in (DOMAIN Updates) \X (DOMAIN known') /\ Updates[h[1]].from = known'[h[2]] /\ Version(h[1]) \notin Range(known')
    BY <1>0 DEF Hits
  <2>2. \A g \in todo' : g \in (DOMAIN Updates) \X (DOMAIN known') /\ Updates[g[1]].from = known'[g[2]]
    BY <1>0 DEF Hits
  <2>3. \A g \in todo' : g[1] = h[1] => g = h
    BY <1>7, <2>1, <2>2
  <2> QED BY <2>1, <2>3 DEF Range
<1>9. TodoOK'
  BY <1>0, <1>5, <1>8 DEF TodoOK, AfterPass
<1>10. SchemaOK' /\ RefusedLostItsRow'
  BY <1>0 DEF SchemaOK, RefusedLostItsRow, AfterPass
<1> QED BY <1>4, <1>6, <1>9, <1>10

LEMMA ApplyStep ==
  ASSUME DbFileInv, NEW h \in todo, Apply(h)
  PROVE  VersionInv'
<1> USE DEF DbFileInv, BackupInv, VersionInv
<1>0. /\ recorded' = recorded /\ known' = known /\ done' = done /\ todo' = todo
      /\ pc = "apply" /\ pc' \in {"record", "refused"} /\ First(h)
  BY DEF Apply, pass
<1>1. Version(h[1]) \notin Range(recorded) /\ Updates[h[1]].from \in {NoVersion} \cup Range(recorded)
  BY <1>0 DEF TodoOK
<1>2. schema' = schema \cup {Version(h[1])} \/ (schema' = schema /\ Version(h[1]) \in schema)
  BY Zenon DEF Apply
<1>3. Version(h[1]) \in schema' /\ schema \subseteq schema' /\ \A v \in schema' : v \in schema \/ v = Version(h[1])
  BY <1>2
<1>4. RecordedInOrder'
  BY <1>0, <1>3 DEF RecordedInOrder
<1>5. KnownOK' /\ TodoOK'
  BY <1>0 DEF KnownOK, TodoOK
<1>6. SchemaOK'
  <2>1. h[1] \in DOMAIN Updates
    BY HitType, DbFileAssumption
  <2>2. \A g \in todo' : First(g)' => Version(g[1]) \in schema'
    BY <1>0, <1>3, FirstIsOne DEF First
  <2>3. \A v \in schema' : v \in Range(recorded) \/
          \E u \in DOMAIN Updates : Version(u) = v /\ Updates[u].from \in {NoVersion} \cup Range(recorded)
    BY <1>1, <1>3, <2>1 DEF SchemaOK
  <2> QED BY <1>0, <2>2, <2>3 DEF SchemaOK
<1>7. RefusedLostItsRow'
  BY <1>0, <1>1, <1>3 DEF RefusedLostItsRow, First
<1> QED BY <1>4, <1>5, <1>6, <1>7

LEMMA RecordStep ==
  ASSUME DbFileInv, NEW h \in todo, Record(h)
  PROVE  VersionInv'
<1> USE DEF DbFileInv, BackupInv, VersionInv
<1> DEFINE v == Version(h[1])
<1>0. /\ recorded' = Append(recorded, v) /\ schema' = schema /\ known' = known /\ done' = Append(done, v)
      /\ todo' = todo \ {h} /\ pc = "record" /\ First(h)
      /\ pc' = IF todo' = {} THEN "pass" ELSE "apply"
  BY DEF Record
<1>1. v \in Nat /\ v \in schema /\ h[1] \in DOMAIN Updates
  BY <1>0, HitType, DbFileAssumption DEF SchemaOK
<1>2. v \notin Range(recorded) /\ Updates[h[1]].from \in {NoVersion} \cup Range(recorded)
  BY <1>0 DEF TodoOK
<1>3. Range(recorded') = Range(recorded) \cup {v}
  <2>1. recorded \in Seq(Nat)
    BY DEF DbFileTypeOK
  <2> QED BY <1>0, <1>1, <2>1, RangeOfAppend
<1>4. /\ DOMAIN recorded = 1..Len(recorded) /\ Len(recorded) \in Nat /\ DOMAIN recorded' = 1..(Len(recorded) + 1)
      /\ recorded'[Len(recorded) + 1] = v /\ \A i \in 1..Len(recorded) : recorded'[i] = recorded[i]
  BY <1>0, <1>1 DEF DbFileTypeOK
<1>5. RecordedInOrder'
  <2> SUFFICES ASSUME NEW i \in 1..(Len(recorded) + 1)
               PROVE  /\ recorded'[i] \in schema
                      /\ \A j \in 1..(Len(recorded) + 1) : recorded'[i] = recorded'[j] => i = j
                      /\ \E u \in DOMAIN Updates :
                           /\ Version(u) = recorded'[i]
                           /\ Updates[u].from = NoVersion \/ \E j \in 1..(i - 1) : recorded'[j] = Updates[u].from
    BY <1>0, <1>4 DEF RecordedInOrder
  <2>1. \A j \in 1..Len(recorded) : recorded[j] # v
    BY <1>2, <1>4 DEF Range
  <2>2. CASE i = Len(recorded) + 1
    <3>1. Updates[h[1]].from = NoVersion \/ \E j \in 1..(i - 1) : recorded'[j] = Updates[h[1]].from
      BY <1>2, <1>4, <2>2 DEF Range
    <3>2. \A j \in 1..(Len(recorded) + 1) : recorded'[i] = recorded'[j] => i = j
      BY <1>4, <2>1, <2>2
    <3> QED BY <1>1, <1>4, <2>2, <3>1, <3>2
  <2>3. CASE i # Len(recorded) + 1
    <3>1. i \in 1..Len(recorded) /\ recorded'[i] = recorded[i]
      BY <1>4, <2>3
    <3>2. \A j \in 1..(Len(recorded) + 1) : recorded'[i] = recorded'[j] => i = j
      <4> SUFFICES ASSUME NEW j \in 1..(Len(recorded) + 1), recorded'[i] = recorded'[j] PROVE i = j
        OBVIOUS
      <4>1. j # Len(recorded) + 1
        BY <1>4, <2>1, <3>1
      <4>2. j \in DOMAIN recorded /\ i \in DOMAIN recorded /\ recorded[i] = recorded[j]
        <5>1. j \in 1..Len(recorded)
          BY <1>4, <4>1
        <5> QED BY <1>4, <3>1, <5>1
      <4> QED BY <4>2 DEF RecordedInOrder
    <3>3. PICK u \in DOMAIN Updates :
            /\ Version(u) = recorded[i]
            /\ Updates[u].from = NoVersion \/ \E j \in 1..(i - 1) : recorded[j] = Updates[u].from
      BY <1>4, <3>1 DEF RecordedInOrder
    <3>4. Updates[u].from = NoVersion \/ \E j \in 1..(i - 1) : recorded'[j] = Updates[u].from
      BY <1>4, <3>1, <3>3
    <3>5. recorded[i] \in schema
      BY <1>4, <3>1 DEF RecordedInOrder
    <3> QED BY <3>1, <3>2, <3>3, <3>4, <3>5
  <2> QED BY <2>2, <2>3
<1>6. KnownOK'
  <2>1. known \o done = <<NoVersion>> \o recorded
    BY <1>0 DEF KnownOK
  <2>2. known \o Append(done, v) = Append(known \o done, v)
    BY <1>1, ConcatAppend DEF DbFileTypeOK
  <2>3. <<NoVersion>> \o Append(recorded, v) = Append(<<NoVersion>> \o recorded, v)
    <3>1. <<NoVersion>> \in Seq(Nat) /\ recorded \in Seq(Nat)
      BY DEF DbFileTypeOK, NoVersion
    <3> QED BY <1>1, <3>1, ConcatAppend
  <2> QED BY <1>0, <2>1, <2>2, <2>3 DEF KnownOK
<1>7. \A g \in todo' : Version(g[1]) # v
  <2> SUFFICES ASSUME NEW g \in todo, g # h, Version(g[1]) = v PROVE FALSE
    BY <1>0
  <2>1. g[1] = h[1]
    BY HitType, DbFileAssumption
  <2> QED BY <1>0, <2>1 DEF TodoOK
<1>8. TodoOK'
  BY <1>0, <1>3, <1>7 DEF TodoOK
<1>9. SchemaOK' /\ RefusedLostItsRow'
  BY <1>0, <1>3 DEF SchemaOK, RefusedLostItsRow
<1> QED BY <1>5, <1>6, <1>8, <1>9

(* A refused backup leaves copy missing, whatever update was next.         *)
LEMMA OtherSteps ==
  ASSUME DbFileInv, UNCHANGED <<schema, recorded>>,
         Open \/ CreateTable \/ Finish \/ Insert \/ Inserted \/ Check \/ Rotate \/ BeginCopy \/ EndCopy
           \/ BackupRefused \/ MinutePasses \/ Stop \/ GiveUp \/ UNCHANGED dbFileVars
  PROVE  VersionInv'
<1> USE DEF DbFileInv, BackupInv, VersionInv
<1>1. RecordedInOrder'
  BY DEF RecordedInOrder
<1>2. CASE CreateTable
  <2>1. known' = <<NoVersion>> \o recorded /\ done' = <<>> /\ todo' = {} /\ pc' = "pass"
    BY <1>2 DEF CreateTable
  <2>2. <<NoVersion>> \o recorded \in Seq(Nat)
    BY DEF DbFileTypeOK, NoVersion
  <2>3. known' \o done' = known'
    BY <2>1, <2>2
  <2> QED BY <1>1, <2>1, <2>3 DEF KnownOK, TodoOK, SchemaOK, RefusedLostItsRow
<1>3. CASE Open
  BY <1>1, <1>3 DEF Open, pass, KnownOK, TodoOK, SchemaOK, RefusedLostItsRow
<1>4. CASE Finish \/ Insert \/ Inserted
  BY <1>1, <1>4 DEF Finish, Insert, Inserted, pass, KnownOK, TodoOK, SchemaOK, RefusedLostItsRow, Hits
<1>5. CASE Check \/ Rotate \/ BeginCopy \/ EndCopy
  BY <1>1, <1>5
  DEF Check, Rotate, BeginCopy, EndCopy, InQuery, pass, KnownOK, TodoOK, SchemaOK, RefusedLostItsRow, First, Hits
<1>6. CASE BackupRefused
  <2>1. copy' = "missing"
    BY <1>6 DEF BackupRefused, RotationOK
  <2> QED BY <1>1, <1>6, <2>1
      DEF BackupRefused, InQuery, pass, KnownOK, TodoOK, SchemaOK, RefusedLostItsRow, First, Hits
<1>7. CASE MinutePasses
  BY <1>1, <1>7 DEF MinutePasses, pass, KnownOK, TodoOK, SchemaOK, RefusedLostItsRow, First, Hits
<1>8. CASE Stop \/ GiveUp
  BY <1>1, <1>8 DEF Stop, GiveUp, Stopped, pass, KnownOK, TodoOK, SchemaOK, RefusedLostItsRow
<1>9. CASE UNCHANGED dbFileVars
  BY <1>1, <1>9 DEF dbFileVars, pass, KnownOK, TodoOK, SchemaOK, RefusedLostItsRow, First, Hits
<1> QED BY <1>2, <1>3, <1>4, <1>5, <1>6, <1>7, <1>8, <1>9

THEOREM Invariance == DbFileSpec => []DbFileInv
<1>1. DbFileInit => DbFileInv
  BY InitBackupInv, InitVersionInv DEF DbFileInv
<1>2. DbFileInv /\ [DbFileNext]_dbFileVars => DbFileInv'
  <2> SUFFICES ASSUME DbFileInv, [DbFileNext]_dbFileVars PROVE VersionInv'
    BY BackupStep DEF DbFileInv
  <2>1. CASE Pass
    BY <2>1, UpdatePassStep
  <2>2. ASSUME NEW h \in todo, Apply(h) \/ Record(h) PROVE VersionInv'
    BY <2>2, ApplyStep, RecordStep
  <2>3. ASSUME Open \/ CreateTable \/ Finish \/ Insert \/ Inserted \/ Check \/ Rotate \/ BeginCopy \/ EndCopy
                 \/ BackupRefused \/ MinutePasses \/ Stop \/ GiveUp \/ UNCHANGED dbFileVars
        PROVE  VersionInv'
    <3>1. UNCHANGED <<schema, recorded>>
      BY <2>3 DEF Open, CreateTable, Finish, Insert, Inserted, Check, Rotate, BeginCopy, EndCopy, BackupRefused,
                  MinutePasses, Stop, GiveUp, Stopped, dbFileVars, disk
    <3> QED BY <2>3, <3>1, OtherSteps
  <2> QED BY <2>1, <2>2, <2>3 DEF DbFileNext
<1> QED BY <1>1, <1>2, PTL DEF DbFileSpec

(* What db_version says is in the file, in order and once, though the      *)
(* statement of an update and its row are two transactions.                *)
THEOREM VersionsTellTheTruth == DbFileSpec => []RecordedInOrder
<1>1. DbFileInv => RecordedInOrder
  BY DEF DbFileInv, VersionInv
<1> QED BY <1>1, Invariance, PTL

(* Only an update whose row the end of the process took can be refused.    *)
THEOREM NoRecordedUpdateIsRefused == DbFileSpec => []RefusedLostItsRow
<1>1. DbFileInv => RefusedLostItsRow
  BY DEF DbFileInv, VersionInv
<1> QED BY <1>1, Invariance, PTL

(* The two together.                                                       *)
THEOREM VersionsAreTrue == DbFileSpec => []VersionsTrue
BY VersionsTellTheTruth, NoRecordedUpdateIsRefused, PTL DEF VersionsTrue

(* The passes of installUpdates stop when nothing is left to install, so   *)
(* what is served is complete: ServedComplete.                             *)
THEOREM ServedIsComplete == DbFileSpec => []ServedComplete
<1>1. DbFileInv => ServedComplete
  <2> SUFFICES ASSUME DbFileInv, pc \in {"ready", "insert"}
               PROVE  /\ schema = Range(recorded)
                      /\ \A u \in DOMAIN Updates :
                           Updates[u].from \in {NoVersion} \cup Range(recorded) => Version(u) \in schema
    BY DEF ServedComplete
  <2> USE DEF DbFileInv, BackupInv, VersionInv
  <2>1. Hits(known) = {} /\ done = <<>> /\ known \o done = <<NoVersion>> \o recorded
    BY DEF TodoOK, KnownOK
  <2>2. Range(known) = {NoVersion} \cup Range(recorded)
    <3>1. Range(done) = {}
      BY <2>1 DEF Range
    <3> QED BY <2>1, <3>1, KnownIsRecorded
  <2>3. ASSUME NEW u \in DOMAIN Updates, Updates[u].from \in {NoVersion} \cup Range(recorded)
        PROVE  Version(u) \in Range(recorded)
    <3>1. PICK k \in DOMAIN known : known[k] = Updates[u].from
      BY <2>2, <2>3 DEF Range
    <3>2. <<u, k>> \in (DOMAIN Updates) \X (DOMAIN known) /\ <<u, k>>[1] = u /\ <<u, k>>[2] = k
      BY <3>1
    <3>3. Version(u) \in Range(known)
      BY <2>1, <3>1, <3>2 DEF Hits
    <3>4. Version(u) # NoVersion
      <4> DEFINE Update == [from : Nat, to : Nat \ {NoVersion}, once : BOOLEAN]
      <4>1. Updates \in Seq(Update)
        BY DbFileAssumption
      <4> HIDE DEF Update
      <4>2. Updates[u] \in Update
        BY <2>3, <4>1
      <4> QED BY <4>2 DEF Version, Update
    <3> QED BY <2>2, <3>3, <3>4
  <2>4. \A v \in Range(recorded) : v \in schema
    BY DEF RecordedInOrder, Range
  <2>5. \A v \in schema : v \in Range(recorded)
    BY <2>3 DEF SchemaOK
  <2> QED BY <2>3, <2>4, <2>5
<1> QED BY <1>1, Invariance, PTL

(* Both, which is what a run checks.                                       *)
THEOREM FileIsUpdated == DbFileSpec => []FileUpdated
BY VersionsAreTrue, ServedIsComplete, PTL DEF FileUpdated
-----------------------------------------------------------------------------
(* The schemas of StorageUpdates.  U are positions of statements that are  *)
(* known to have been executed, M of ones that may have been.              *)
IsSchema(A) == A = [t \in DOMAIN A |-> A[t]]
TableOf(p) == StatementOf(p).table
StatementColumns(p) == StatementOf(p).columns
Lasting(t) == \A q \in Doing({"drop"}) : TableOf(q) # t

TablesAreMade(A, M) == \A t \in DOMAIN A : \E p \in M : p \in Doing({"create"}) /\ TableOf(p) = t
Brought(A, M) ==
  \A t \in DOMAIN A : \A c \in A[t] :
    \E p \in M : p \in Doing({"create", "addcolumn"}) /\ TableOf(p) = t /\ c \in StatementColumns(p)
Kept(A, M) ==
  \A p \in Doing({"create"}) : TableOf(p) \in DOMAIN A =>
    \A c \in StatementColumns(p) :
      c \in A[TableOf(p)] \/ \E q \in M : q \in Doing({"dropcolumn"}) /\ SameTable(p, q) /\ c \in StatementColumns(q)
There(A, U) == \A p \in U : p \in Doing({"create"}) /\ Lasting(TableOf(p)) => TableOf(p) \in DOMAIN A
Added(A, U) ==
  \A p \in U : p \in Doing({"addcolumn"}) => TableOf(p) \in DOMAIN A /\ StatementColumns(p) \subseteq A[TableOf(p)]
Dropped(A, U) ==
  \A p \in U : p \in Doing({"dropcolumn"}) => TableOf(p) \in DOMAIN A /\ StatementColumns(p) \cap A[TableOf(p)] = {}

SchemaInv(A, U, M) ==
  /\ IsSchema(A) /\ TablesAreMade(A, M) /\ Brought(A, M) /\ Kept(A, M)
  /\ There(A, U) /\ Added(A, U) /\ Dropped(A, U)

Ops == {"create", "drop", "addcolumn", "dropcolumn", "insert", "custom"}

LEMMA EntryOfSeq ==
  ASSUME NEW X, NEW all \in Seq(X), NEW k \in DOMAIN all
  PROVE  all[k] \in X
OBVIOUS

LEMMA StatementIs ==
  ASSUME NEW p \in Positions
  PROVE  /\ StatementOf(p) \in [op : Ops, table : STRING, columns : SUBSET STRING]
         /\ TableOf(p) \in STRING /\ StatementColumns(p) \in SUBSET STRING /\ StatementOf(p).op \in Ops
         /\ \A ops : p \in Doing(ops) <=> StatementOf(p).op \in ops
<1>. DEFINE S == [op : Ops, table : STRING, columns : SUBSET STRING]
<1>1. PICK k \in DOMAIN Plan : p \in {k} \X DOMAIN Plan[k].statements
  BY DEF Positions
<1>. DEFINE T == [version : UpdateVersions, statements : Seq(S)]
<1>2. Plan \in Seq(T)
  BY PlanAssumption DEF Ops
<1>. HIDE DEF S, T
<1>3. p[1] = k /\ p[2] \in DOMAIN Plan[k].statements
  BY <1>1
<1>4. Plan[k] \in T
  BY <1>2, EntryOfSeq
<1>5. Plan[k].statements \in Seq(S)
  BY <1>4 DEF T
<1>6. Plan[k].statements[p[2]] \in S
  BY <1>3, <1>5, EntryOfSeq
<1>7. StatementOf(p) \in [op : Ops, table : STRING, columns : SUBSET STRING]
  BY <1>3, <1>6 DEF StatementOf, S
<1>. QED BY <1>7 DEF TableOf, StatementColumns, Doing

LEMMA DoingIs ==
  ASSUME NEW ops, NEW p \in Doing(ops)
  PROVE  p \in Positions /\ StatementOf(p).op \in ops
BY DEF Doing

(* What statement p makes of a schema A: the schema B.                     *)
Effect(p, A, B) ==
  LET op == StatementOf(p).op
      t == TableOf(p)
  IN  /\ op = "create" /\ t \notin DOMAIN A =>
           DOMAIN B = DOMAIN A \cup {t} /\ B[t] = StatementColumns(p) /\ \A x \in DOMAIN A : B[x] = A[x]
      /\ op = "drop" => DOMAIN B = DOMAIN A \ {t} /\ \A x \in DOMAIN B : B[x] = A[x]
      /\ op = "addcolumn" =>
           /\ t \in DOMAIN A /\ DOMAIN B = DOMAIN A /\ B[t] = A[t] \cup StatementColumns(p)
           /\ StatementColumns(p) \cap A[t] = {} /\ \A x \in DOMAIN A \ {t} : B[x] = A[x]
      /\ op = "dropcolumn" =>
           /\ t \in DOMAIN A /\ DOMAIN B = DOMAIN A /\ B[t] = A[t] \ StatementColumns(p)
           /\ \A x \in DOMAIN A \ {t} : B[x] = A[x]
      /\ op \in {"insert", "custom"} \/ (op = "create" /\ t \in DOMAIN A) => B = A

(* What a statement makes of a schema that takes it.                       *)
LEMMA StatementEffect ==
  ASSUME NEW A, IsSchema(A), NEW p \in Positions, DatabaseTakes(StatementOf(p), A)
  PROVE  /\ IsSchema(AfterStatement(StatementOf(p), A))
         /\ Effect(p, A, AfterStatement(StatementOf(p), A))
<1>. DEFINE B == AfterStatement(StatementOf(p), A)
            t == TableOf(p)
            op == StatementOf(p).op
<1>. DEFINE s == StatementOf(p)
<1>0. s.op = op /\ s.table = t /\ s.columns = StatementColumns(p) /\ op \in Ops
  BY StatementIs DEF TableOf, StatementColumns
<1>. HIDE DEF s
<1>. SUFFICES
       /\ IsSchema(B)
       /\ op = "create" /\ t \notin DOMAIN A =>
            DOMAIN B = DOMAIN A \cup {t} /\ B[t] = StatementColumns(p) /\ \A x \in DOMAIN A : B[x] = A[x]
       /\ op = "drop" => DOMAIN B = DOMAIN A \ {t} /\ \A x \in DOMAIN B : B[x] = A[x]
       /\ op = "addcolumn" =>
            /\ t \in DOMAIN A /\ DOMAIN B = DOMAIN A /\ B[t] = A[t] \cup StatementColumns(p)
            /\ StatementColumns(p) \cap A[t] = {} /\ \A x \in DOMAIN A \ {t} : B[x] = A[x]
       /\ op = "dropcolumn" =>
            /\ t \in DOMAIN A /\ DOMAIN B = DOMAIN A /\ B[t] = A[t] \ StatementColumns(p)
            /\ \A x \in DOMAIN A \ {t} : B[x] = A[x]
       /\ op \in {"insert", "custom"} \/ (op = "create" /\ t \in DOMAIN A) => B = A
  BY DEF Effect
<1>1. CASE op = "create" /\ t \notin DOMAIN A
  <2>1. B = [x \in DOMAIN A \cup {t} |-> IF x = t THEN StatementColumns(p) ELSE A[x]]
    BY <1>0, <1>1 DEF AfterStatement, HasTable, s
  <2>. QED BY <1>1, <2>1 DEF IsSchema
<1>2. CASE op = "drop"
  <2>1. B = [x \in DOMAIN A \ {t} |-> A[x]]
    BY <1>0, <1>2 DEF AfterStatement, HasTable, s
  <2>. QED BY <1>2, <2>1 DEF IsSchema
<1>3. CASE op = "addcolumn"
  <2>1. B = [A EXCEPT ![t] = A[t] \cup StatementColumns(p)]
    BY <1>0, <1>3 DEF AfterStatement, HasTable, s
  <2>2. t \in DOMAIN A /\ StatementColumns(p) \cap A[t] = {}
    BY <1>0, <1>3 DEF DatabaseTakes, HasTable, s
  <2>. QED BY <1>3, <2>1, <2>2 DEF IsSchema
<1>4. CASE op = "dropcolumn"
  <2>1. B = [A EXCEPT ![t] = A[t] \ StatementColumns(p)]
    BY <1>0, <1>4 DEF AfterStatement, HasTable, s
  <2>2. t \in DOMAIN A
    BY <1>0, <1>4 DEF DatabaseTakes, HasTable, s
  <2>. QED BY <1>4, <2>1, <2>2 DEF IsSchema
<1>5. CASE op \in {"insert", "custom"} \/ (op = "create" /\ t \in DOMAIN A)
  <2>1. B = A
    BY <1>0, <1>5 DEF AfterStatement, HasTable, s
  <2>. QED BY <1>5, <2>1
<1>. QED BY <1>0, <1>1, <1>2, <1>3, <1>4, <1>5 DEF Ops

(* Executing a statement where it is taken keeps what is known.            *)
LEMMA ExecKeeps ==
  ASSUME NEW A, NEW U, NEW M, SchemaInv(A, U, M), NEW p \in Positions, DatabaseTakes(StatementOf(p), A)
  PROVE  SchemaInv(AfterStatement(StatementOf(p), A), U \cup {p}, M \cup {p})
<1>. DEFINE B == AfterStatement(StatementOf(p), A)
            t == TableOf(p)
            op == StatementOf(p).op
<1>0. IsSchema(A)
  BY DEF SchemaInv
<1>1. /\ IsSchema(B)
      /\ op = "create" /\ t \notin DOMAIN A =>
           DOMAIN B = DOMAIN A \cup {t} /\ B[t] = StatementColumns(p) /\ \A x \in DOMAIN A : B[x] = A[x]
      /\ op = "drop" => DOMAIN B = DOMAIN A \ {t} /\ \A x \in DOMAIN B : B[x] = A[x]
      /\ op = "addcolumn" =>
           /\ t \in DOMAIN A /\ DOMAIN B = DOMAIN A /\ B[t] = A[t] \cup StatementColumns(p)
           /\ StatementColumns(p) \cap A[t] = {} /\ \A x \in DOMAIN A \ {t} : B[x] = A[x]
      /\ op = "dropcolumn" =>
           /\ t \in DOMAIN A /\ DOMAIN B = DOMAIN A /\ B[t] = A[t] \ StatementColumns(p)
           /\ \A x \in DOMAIN A \ {t} : B[x] = A[x]
      /\ op \in {"insert", "custom"} \/ (op = "create" /\ t \in DOMAIN A) => B = A
  <2>1. IsSchema(B) /\ Effect(p, A, B)
    BY <1>0, StatementEffect
  <2>. QED BY <2>1 DEF Effect
<1>2. op \in Ops /\ \A ops : p \in Doing(ops) <=> op \in ops
  BY StatementIs
<1>3. /\ TablesAreMade(A, M) /\ Brought(A, M) /\ Kept(A, M) /\ There(A, U) /\ Added(A, U) /\ Dropped(A, U)
  BY DEF SchemaInv
<1>. HIDE DEF B, t, op
<1>4. TablesAreMade(B, M \cup {p})
  <2>. SUFFICES ASSUME NEW x \in DOMAIN B
                PROVE  \E q \in M \cup {p} : q \in Doing({"create"}) /\ TableOf(q) = x
    BY DEF TablesAreMade
  <2>1. CASE x \in DOMAIN A
    BY <1>3, <2>1 DEF TablesAreMade
  <2>2. CASE x \notin DOMAIN A
    <3>1. op = "create" /\ x = t
      BY <1>1, <1>2, <2>2 DEF Ops
    <3>. QED BY <1>2, <3>1 DEF t
  <2>. QED BY <2>1, <2>2
<1>5. Brought(B, M \cup {p})
  <2>. SUFFICES ASSUME NEW x \in DOMAIN B, NEW c \in B[x]
                PROVE  \E q \in M \cup {p} : /\ q \in Doing({"create", "addcolumn"})
                                             /\ TableOf(q) = x /\ c \in StatementColumns(q)
    BY DEF Brought
  <2>1. CASE x \in DOMAIN A /\ c \in A[x]
    BY <1>3, <2>1 DEF Brought
  <2>2. CASE ~ (x \in DOMAIN A /\ c \in A[x])
    <3>1. op \in {"create", "addcolumn"} /\ x = t /\ c \in StatementColumns(p)
      BY <1>1, <1>2, <2>2 DEF Ops
    <3>. QED BY <1>2, <3>1 DEF t
  <2>. QED BY <2>1, <2>2
<1>6. Kept(B, M \cup {p})
  <2>. SUFFICES ASSUME NEW q \in Doing({"create"}), TableOf(q) \in DOMAIN B, NEW c \in StatementColumns(q),
                       c \notin B[TableOf(q)]
                PROVE  \E r \in M \cup {p} : r \in Doing({"dropcolumn"}) /\ SameTable(q, r) /\ c \in StatementColumns(r)
    BY DEF Kept
  <2>1. CASE TableOf(q) \in DOMAIN A /\ c \notin A[TableOf(q)]
    BY <1>3, <2>1 DEF Kept
  <2>2. CASE TableOf(q) \in DOMAIN A /\ c \in A[TableOf(q)]
    <3>1. op = "dropcolumn" /\ TableOf(q) = t /\ c \in StatementColumns(p)
      BY <1>1, <1>2, <2>2 DEF Ops
    <3>. QED BY <1>2, <3>1 DEF t, SameTable, TableOf
  <2>3. CASE TableOf(q) \notin DOMAIN A
    <3>1. op = "create" /\ TableOf(q) = t /\ B[t] = StatementColumns(p)
      BY <1>1, <1>2, <2>3 DEF Ops
    <3>2. q = p
      BY <1>2, <3>1, AloneAssumption DEF SameTable, TableOf, t
    <3>. QED BY <3>1, <3>2
  <2>. QED BY <2>1, <2>2, <2>3
<1>7. There(B, U \cup {p})
  <2>. SUFFICES ASSUME NEW q \in U \cup {p}, q \in Doing({"create"}), Lasting(TableOf(q))
                PROVE  TableOf(q) \in DOMAIN B
    BY DEF There
  <2>1. CASE q = p
    <3>1. op = "create" /\ TableOf(q) = t
      BY <1>2, <2>1 DEF t
    <3>. QED BY <1>1, <3>1
  <2>2. CASE q \in U
    <3>1. TableOf(q) \in DOMAIN A
      BY <1>3, <2>2 DEF There
    <3>2. op = "drop" => TableOf(q) # t
      BY <1>2 DEF Lasting, t
    <3>. QED BY <1>1, <1>2, <3>1, <3>2 DEF Ops
  <2>. QED BY <2>1, <2>2
<1>8. Added(B, U \cup {p})
  <2>. SUFFICES ASSUME NEW q \in U \cup {p}, q \in Doing({"addcolumn"})
                PROVE  TableOf(q) \in DOMAIN B /\ StatementColumns(q) \subseteq B[TableOf(q)]
    BY DEF Added
  <2>1. CASE q = p
    <3>1. op = "addcolumn" /\ TableOf(q) = t
      BY <1>2, <2>1 DEF t
    <3>. QED BY <1>1, <2>1, <3>1
  <2>2. CASE q \in U
    <3>1. TableOf(q) \in DOMAIN A /\ StatementColumns(q) \subseteq A[TableOf(q)]
      BY <1>3, <2>2 DEF Added
    <3>2. op = "drop" => TableOf(q) # t
      BY <1>2, AloneAssumption, DoingIs DEF SameTable, TableOf, t, Doing
    <3>3. op = "dropcolumn" /\ TableOf(q) = t => StatementColumns(p) \cap StatementColumns(q) = {}
      <4>. SUFFICES ASSUME op = "dropcolumn", TableOf(q) = t, StatementColumns(p) \cap StatementColumns(q) # {}
                    PROVE  FALSE
        OBVIOUS
      <4>1. p \in Doing({"addcolumn", "dropcolumn"}) /\ q \in Doing({"addcolumn", "dropcolumn"})
        BY <1>2 DEF Doing
      <4>2. SameColumn(p, q)
        BY DEF SameColumn, SameTable, TableOf, StatementColumns, t
      <4>3. p = q
        BY <4>1, <4>2, AloneAssumption
      <4>. QED BY <1>2, <4>3
    <3>. QED BY <1>1, <1>2, <3>1, <3>2, <3>3 DEF Ops
  <2>. QED BY <2>1, <2>2
<1>9. Dropped(B, U \cup {p})
  <2>. SUFFICES ASSUME NEW q \in U \cup {p}, q \in Doing({"dropcolumn"})
                PROVE  TableOf(q) \in DOMAIN B /\ StatementColumns(q) \cap B[TableOf(q)] = {}
    BY DEF Dropped
  <2>1. CASE q = p
    <3>1. op = "dropcolumn" /\ TableOf(q) = t
      BY <1>2, <2>1 DEF t
    <3>. QED BY <1>1, <2>1, <3>1
  <2>2. CASE q \in U
    <3>1. TableOf(q) \in DOMAIN A /\ StatementColumns(q) \cap A[TableOf(q)] = {}
      BY <1>3, <2>2 DEF Dropped
    <3>2. op = "drop" => TableOf(q) # t
      BY <1>2, AloneAssumption, DoingIs DEF SameTable, TableOf, t, Doing
    <3>3. op = "addcolumn" /\ TableOf(q) = t => StatementColumns(p) \cap StatementColumns(q) = {}
      <4>. SUFFICES ASSUME op = "addcolumn", TableOf(q) = t, StatementColumns(p) \cap StatementColumns(q) # {}
                    PROVE  FALSE
        OBVIOUS
      <4>1. p \in Doing({"addcolumn", "dropcolumn"}) /\ q \in Doing({"addcolumn", "dropcolumn"})
        BY <1>2 DEF Doing
      <4>2. SameColumn(p, q)
        BY DEF SameColumn, SameTable, TableOf, StatementColumns, t
      <4>3. p = q
        BY <4>1, <4>2, AloneAssumption
      <4>. QED BY <1>2, <4>3
    <3>. QED BY <1>1, <1>2, <3>1, <3>2, <3>3 DEF Ops
  <2>. QED BY <2>1, <2>2
<1>. QED BY <1>1, <1>4, <1>5, <1>6, <1>7, <1>8, <1>9 DEF SchemaInv, B

(* Less may be known, and more may have been done.                         *)
LEMMA LessIsKnown ==
  ASSUME NEW A, NEW U, NEW M, SchemaInv(A, U, M), NEW V \in SUBSET U, NEW N, M \subseteq N
  PROVE  SchemaInv(A, V, N)
BY DEF SchemaInv, TablesAreMade, Brought, Kept, There, Added, Dropped

LEMMA NothingKnown == SchemaInv(NoTables, {}, {})
BY DEF SchemaInv, IsSchema, NoTables, TablesAreMade, Brought, Kept, There, Added, Dropped
-----------------------------------------------------------------------------
(* The recursive functions: they exist, and their values are what their    *)
(* definitions say.                                                        *)
SchemaStep(tables, all, g, n) == IF n = 0 THEN tables ELSE AfterStatement(all[n], g[n - 1])

LEMMA SchemasAre ==
  ASSUME NEW tables, NEW all, Len(all) \in Nat, NEW n \in 0..Len(all)
  PROVE  Schemas(tables, all)[n] = SchemaStep(tables, all, Schemas(tables, all), n)
<1>. DEFINE L == Len(all)
            Upto(k, g) == [i \in 0..L |-> IF i <= k THEN SchemaStep(tables, all, g, i) ELSE tables]
            Ks == {k \in Nat : \E g : g = Upto(k, g)}
<1>. HIDE DEF L
<1>0. L \in Nat
  BY DEF L
<1>1. 0 \in Ks
  <2>. DEFINE g == [i \in 0..L |-> tables]
  <2>1. g = Upto(0, g)
    BY <1>0 DEF SchemaStep
  <2>. QED BY <2>1
<1>2. ASSUME NEW k \in Nat, k \in Ks PROVE k + 1 \in Ks
  <2>1. PICK g : g = Upto(k, g)
    BY <1>2
  <2>. DEFINE h == Upto(k + 1, g)
  <2>2. \A i \in 0..L : i <= k => g[i] = h[i]
    <3>. TAKE i \in 0..L
    <3>. HAVE i <= k
    <3>1. i <= k + 1
      BY <1>0
    <3>2. g[i] = Upto(k, g)[i]
      BY <2>1
    <3>. QED BY <3>1, <3>2
  <2>3. \A i \in 0..L : i <= k + 1 => SchemaStep(tables, all, g, i) = SchemaStep(tables, all, h, i)
    <3>. TAKE i \in 0..L
    <3>. HAVE i <= k + 1
    <3>. HIDE DEF h
    <3>1. CASE i = 0
      BY <3>1 DEF SchemaStep
    <3>2. CASE i # 0
      <4>1. i - 1 \in 0..L /\ i - 1 <= k
        BY <1>0, <3>2
      <4>. QED BY <2>2, <3>2, <4>1 DEF SchemaStep
    <3>. QED BY <3>1, <3>2
  <2>4. h = Upto(k + 1, h)
    BY <2>3
  <2>5. \E f : f = Upto(k + 1, f)
    BY <2>4
  <2>. QED BY <2>5
<1>3. L \in Ks
  BY <1>0, <1>1, <1>2, NatInduct
<1>4. PICK g : g = Upto(L, g)
  BY <1>3
<1>5. \A i \in 0..L : i <= L
  BY <1>0
<1>6. g = [i \in 0..L |-> SchemaStep(tables, all, g, i)]
  BY <1>4, <1>5
<1>. DEFINE P == Schemas(tables, all)
<1>7. P = CHOOSE f : f = [i \in 0..L |-> SchemaStep(tables, all, f, i)]
  BY DEF Schemas, SchemaStep, L
<1>. HIDE DEF P
<1>8. P = [i \in 0..L |-> SchemaStep(tables, all, P, i)]
  BY <1>6, <1>7
<1>9. n \in 0..L
  BY DEF L
<1>10. P[n] = SchemaStep(tables, all, P, n)
  BY <1>8, <1>9
<1>. QED BY <1>10 DEF P

BeforeStep(g, k) == IF k = 1 THEN NoTables ELSE Replayed(g[k - 1], Plan[k - 1].statements)

LEMMA PlanLength == Len(Plan) \in Nat /\ DOMAIN Plan = 1..Len(Plan)
BY PlanAssumption

LEMMA SchemaBeforeIs ==
  ASSUME NEW k \in 1..(Len(Plan) + 1)
  PROVE  SchemaBefore[k] = BeforeStep(SchemaBefore, k)
<1>. DEFINE L == Len(Plan) + 1
            Upto(n, g) == [i \in 1..L |-> IF i <= n THEN BeforeStep(g, i) ELSE NoTables]
            Ns == {n \in Nat : \E g : g = Upto(n, g)}
<1>. HIDE DEF L
<1>0. L \in Nat
  BY PlanLength DEF L
<1>1. 0 \in Ns
  <2>. DEFINE g == [i \in 1..L |-> NoTables]
  <2>1. g = Upto(0, g)
    BY <1>0
  <2>. QED BY <2>1
<1>2. ASSUME NEW n \in Nat, n \in Ns PROVE n + 1 \in Ns
  <2>1. PICK g : g = Upto(n, g)
    BY <1>2
  <2>. DEFINE h == Upto(n + 1, g)
  <2>2. \A i \in 1..L : i <= n => g[i] = h[i]
    <3>. TAKE i \in 1..L
    <3>. HAVE i <= n
    <3>1. i <= n + 1
      BY <1>0
    <3>2. g[i] = Upto(n, g)[i]
      BY <2>1
    <3>. QED BY <3>1, <3>2
  <2>3. \A i \in 1..L : i <= n + 1 => BeforeStep(g, i) = BeforeStep(h, i)
    <3>. TAKE i \in 1..L
    <3>. HAVE i <= n + 1
    <3>. HIDE DEF h
    <3>1. CASE i = 1
      BY <3>1 DEF BeforeStep
    <3>2. CASE i # 1
      <4>1. i - 1 \in 1..L /\ i - 1 <= n
        BY <1>0, <3>2
      <4>. QED BY <2>2, <3>2, <4>1 DEF BeforeStep
    <3>. QED BY <3>1, <3>2
  <2>4. h = Upto(n + 1, h)
    BY <2>3
  <2>5. \E f : f = Upto(n + 1, f)
    BY <2>4
  <2>. QED BY <2>5
<1>3. L \in Ns
  BY <1>0, <1>1, <1>2, NatInduct
<1>4. PICK g : g = Upto(L, g)
  BY <1>3
<1>5. \A i \in 1..L : i <= L
  BY <1>0
<1>6. g = [i \in 1..L |-> BeforeStep(g, i)]
  BY <1>4, <1>5
<1>. DEFINE P == SchemaBefore
<1>7. P = CHOOSE f : f = [i \in 1..L |-> BeforeStep(f, i)]
  BY DEF SchemaBefore, BeforeStep, L
<1>. HIDE DEF P
<1>8. P = [i \in 1..L |-> BeforeStep(P, i)]
  BY <1>6, <1>7
<1>9. k \in 1..L
  BY DEF L
<1>10. P[k] = BeforeStep(P, k)
  BY <1>8, <1>9
<1>. QED BY <1>10 DEF P
-----------------------------------------------------------------------------
(* The schema after j statements of update k, from nothing and in order,   *)
(* and the positions of the statements before the j-th of update k.        *)
StatementsIn(k) == Plan[k].statements
SchemaAt(k, j) == Schemas(SchemaBefore[k], StatementsIn(k))[j]
PlanBefore(k, j) == {p \in Positions : p[1] < k \/ (p[1] = k /\ p[2] < j)}

LEMMA StatementsAre ==
  ASSUME NEW k \in DOMAIN Plan
  PROVE  /\ Len(StatementsIn(k)) \in Nat /\ DOMAIN StatementsIn(k) = 1..Len(StatementsIn(k))
         /\ \A j \in 1..Len(StatementsIn(k)) : <<k, j>> \in Positions /\ StatementOf(<<k, j>>) = StatementsIn(k)[j]
<1>. DEFINE S == [op : Ops, table : STRING, columns : SUBSET STRING]
            T == [version : UpdateVersions, statements : Seq(S)]
<1>1. Plan \in Seq(T)
  BY PlanAssumption DEF Ops
<1>. HIDE DEF S, T
<1>2. Plan[k] \in T
  BY <1>1, EntryOfSeq
<1>3. StatementsIn(k) \in Seq(S)
  BY <1>2 DEF T, StatementsIn
<1>4. Len(StatementsIn(k)) \in Nat /\ DOMAIN StatementsIn(k) = 1..Len(StatementsIn(k))
  BY <1>3
<1>. QED BY <1>4 DEF Positions, StatementOf, StatementsIn

LEMMA PositionsAre ==
  ASSUME NEW p \in Positions
  PROVE  /\ p[1] \in DOMAIN Plan /\ p[2] \in 1..Len(StatementsIn(p[1])) /\ p = <<p[1], p[2]>>
         /\ p[1] \in Nat /\ p[2] \in Nat
<1>1. PICK k \in DOMAIN Plan : p \in {k} \X DOMAIN Plan[k].statements
  BY DEF Positions
<1>2. p[1] = k /\ p[2] \in DOMAIN StatementsIn(k) /\ p = <<p[1], p[2]>>
  BY <1>1 DEF StatementsIn
<1>3. p[2] \in 1..Len(StatementsIn(k)) /\ k \in Nat /\ Len(StatementsIn(k)) \in Nat
  BY <1>2, StatementsAre, PlanLength
<1>. QED BY <1>2, <1>3

LEMMA BeforeIs ==
  /\ PlanBefore(1, 1) = {} /\ PlanBefore(Len(Plan) + 1, 1) = Positions
  /\ \A k \in DOMAIN Plan : /\ PlanBefore(k, Len(StatementsIn(k)) + 1) = PlanBefore(k + 1, 1)
                            /\ \A j \in 1..Len(StatementsIn(k)) :
                                 /\ PlanBefore(k, j + 1) = PlanBefore(k, j) \cup {<<k, j>>}
                                 /\ <<k, j>> \notin PlanBefore(k, j)
<1>0. \A p \in Positions : /\ p[1] \in 1..Len(Plan) /\ p[2] \in 1..Len(StatementsIn(p[1]))
                           /\ p = <<p[1], p[2]>> /\ p[1] \in Nat /\ p[2] \in Nat
  BY PositionsAre, PlanLength
<1>1. PlanBefore(1, 1) = {} /\ PlanBefore(Len(Plan) + 1, 1) = Positions
  BY <1>0, PlanLength DEF PlanBefore
<1>2. ASSUME NEW k \in DOMAIN Plan PROVE PlanBefore(k, Len(StatementsIn(k)) + 1) = PlanBefore(k + 1, 1)
  <2>1. k \in Nat /\ Len(StatementsIn(k)) \in Nat
    BY PlanLength, StatementsAre
  <2>. DEFINE L == Len(StatementsIn(k))
  <2>2. \A p \in Positions : (p[1] < k \/ (p[1] = k /\ p[2] < L + 1)) <=> (p[1] < k + 1 \/ (p[1] = k + 1 /\ p[2] < 1))
    <3>. TAKE p \in Positions
    <3>1. p[1] = k => p[2] <= L
      BY <1>0, <2>1
    <3>. HIDE DEF L
    <3>2. p[1] \in Nat /\ p[2] \in Nat /\ p[2] >= 1 /\ L \in Nat
      BY <1>0, <2>1, StatementsAre DEF L
    <3>. QED BY <2>1, <3>1, <3>2
  <2>. QED BY <2>2 DEF PlanBefore
<1>3. ASSUME NEW k \in DOMAIN Plan, NEW j \in 1..Len(StatementsIn(k))
      PROVE  PlanBefore(k, j + 1) = PlanBefore(k, j) \cup {<<k, j>>} /\ <<k, j>> \notin PlanBefore(k, j)
  <2>1. k \in Nat /\ j \in Nat /\ <<k, j>> \in Positions
    BY PlanLength, StatementsAre
  <2>2. \A p \in Positions : p = <<k, j>> <=> (p[1] = k /\ p[2] = j)
    BY <1>0
  <2>3. \A p \in Positions : (p[1] < k \/ (p[1] = k /\ p[2] < j + 1)) <=> (p[1] < k \/ (p[1] = k /\ p[2] < j)) \/ p = <<k, j>>
    BY <1>0, <2>1, <2>2
  <2>. QED BY <2>1, <2>2, <2>3 DEF PlanBefore
<1>. QED BY <1>1, <1>2, <1>3

LEMMA SchemaAtIs ==
  /\ SchemaBefore[1] = NoTables
  /\ \A k \in DOMAIN Plan :
       /\ SchemaAt(k, 0) = SchemaBefore[k]
       /\ SchemaAt(k, Len(StatementsIn(k))) = SchemaBefore[k + 1]
       /\ Replayed(SchemaBefore[k], StatementsIn(k)) = SchemaBefore[k + 1]
       /\ \A j \in 1..Len(StatementsIn(k)) :
            /\ SchemaAt(k, j) = AfterStatement(StatementOf(<<k, j>>), SchemaAt(k, j - 1))
            /\ MemoryTakes(StatementOf(<<k, j>>), SchemaAt(k, j - 1))
<1>1. SchemaBefore[1] = NoTables
  BY PlanLength, SchemaBeforeIs DEF BeforeStep
<1>2. ASSUME NEW k \in DOMAIN Plan
      PROVE  /\ SchemaAt(k, 0) = SchemaBefore[k]
             /\ Replayed(SchemaBefore[k], StatementsIn(k)) = SchemaBefore[k + 1]
             /\ SchemaAt(k, Len(StatementsIn(k))) = SchemaBefore[k + 1]
  <2>1. Len(StatementsIn(k)) \in Nat
    BY StatementsAre
  <2>2. SchemaAt(k, 0) = SchemaStep(SchemaBefore[k], StatementsIn(k), Schemas(SchemaBefore[k], StatementsIn(k)), 0)
    BY <2>1, SchemasAre DEF SchemaAt
  <2>3. k + 1 \in 1..(Len(Plan) + 1) /\ k + 1 # 1 /\ (k + 1) - 1 = k
    BY PlanLength
  <2>4. SchemaBefore[k + 1] = Replayed(SchemaBefore[k], StatementsIn(k))
    BY <2>3, SchemaBeforeIs DEF BeforeStep, StatementsIn
  <2>. QED BY <2>2, <2>4 DEF SchemaStep, SchemaAt, Replayed
<1>3. ASSUME NEW k \in DOMAIN Plan, NEW j \in 1..Len(StatementsIn(k))
      PROVE  /\ SchemaAt(k, j) = AfterStatement(StatementOf(<<k, j>>), SchemaAt(k, j - 1))
             /\ MemoryTakes(StatementOf(<<k, j>>), SchemaAt(k, j - 1))
  <2>1. Len(StatementsIn(k)) \in Nat /\ <<k, j>> \in Positions /\ StatementOf(<<k, j>>) = StatementsIn(k)[j]
    BY StatementsAre
  <2>2. j \in 0..Len(StatementsIn(k)) /\ j # 0
    BY <2>1
  <2>3. SchemaAt(k, j) = SchemaStep(SchemaBefore[k], StatementsIn(k), Schemas(SchemaBefore[k], StatementsIn(k)), j)
    BY <2>1, <2>2, SchemasAre DEF SchemaAt
  <2>4. SchemaAt(k, j) = AfterStatement(StatementOf(<<k, j>>), SchemaAt(k, j - 1))
    BY <2>1, <2>2, <2>3 DEF SchemaStep, SchemaAt
  <2>. DEFINE q == <<k, j>>
  <2>5. q \in Positions /\ q[1] = k /\ q[2] = j
    BY <2>1
  <2>. HIDE DEF q
  <2>6. MemoryTakes(StatementOf(q), Schemas(SchemaBefore[q[1]], Plan[q[1]].statements)[q[2] - 1])
    BY <2>5, LegalAssumption
  <2>7. MemoryTakes(StatementOf(q), Schemas(SchemaBefore[k], Plan[k].statements)[j - 1])
    BY <2>5, <2>6
  <2>. QED BY <2>4, <2>7 DEF SchemaAt, StatementsIn, q
<1>. QED BY <1>1, <1>2, <1>3

LEMMA SchemasAreKnown ==
  /\ \A k \in 1..(Len(Plan) + 1) : SchemaInv(SchemaBefore[k], PlanBefore(k, 1), PlanBefore(k, 1))
  /\ \A k \in DOMAIN Plan : \A j \in 0..Len(StatementsIn(k)) :
       SchemaInv(SchemaAt(k, j), PlanBefore(k, j + 1), PlanBefore(k, j + 1))
<1>1. ASSUME NEW k \in DOMAIN Plan, SchemaInv(SchemaBefore[k], PlanBefore(k, 1), PlanBefore(k, 1))
      PROVE  \A j \in 0..Len(StatementsIn(k)) : SchemaInv(SchemaAt(k, j), PlanBefore(k, j + 1), PlanBefore(k, j + 1))
  <2>. DEFINE L == Len(StatementsIn(k))
              Js == {j \in Nat : j <= L => SchemaInv(SchemaAt(k, j), PlanBefore(k, j + 1), PlanBefore(k, j + 1))}
  <2>0. L \in Nat
    BY StatementsAre
  <2>1. 0 \in Js
    BY <1>1, SchemaAtIs
  <2>2. ASSUME NEW j \in Nat, j \in Js PROVE j + 1 \in Js
    <3>. SUFFICES ASSUME j + 1 <= L
                  PROVE  SchemaInv(SchemaAt(k, j + 1), PlanBefore(k, (j + 1) + 1), PlanBefore(k, (j + 1) + 1))
      OBVIOUS
    <3>1. SchemaInv(SchemaAt(k, j), PlanBefore(k, j + 1), PlanBefore(k, j + 1)) /\ j + 1 \in 1..L /\ (j + 1) - 1 = j
      BY <2>0, <2>2
    <3>2. <<k, j + 1>> \in Positions /\ PlanBefore(k, (j + 1) + 1) = PlanBefore(k, j + 1) \cup {<<k, j + 1>>}
      BY <3>1, StatementsAre, BeforeIs
    <3>3. /\ SchemaAt(k, j + 1) = AfterStatement(StatementOf(<<k, j + 1>>), SchemaAt(k, j))
          /\ DatabaseTakes(StatementOf(<<k, j + 1>>), SchemaAt(k, j))
      BY <3>1, SchemaAtIs DEF MemoryTakes
    <3>. HIDE DEF L
    <3>. QED BY <3>1, <3>2, <3>3, ExecKeeps
  <2>3. \A j \in Nat : j \in Js
    BY <2>1, <2>2, NatInduct
  <2>. QED BY <2>0, <2>3
<1>. DEFINE N == Len(Plan)
            Ks == {k \in Nat : k <= N => SchemaInv(SchemaBefore[k + 1], PlanBefore(k + 1, 1), PlanBefore(k + 1, 1))}
<1>0. N \in Nat
  BY PlanLength
<1>2. 0 \in Ks
  <2>1. SchemaBefore[1] = NoTables /\ PlanBefore(1, 1) = {}
    BY SchemaAtIs, BeforeIs
  <2>2. SchemaInv(SchemaBefore[1], PlanBefore(1, 1), PlanBefore(1, 1))
    BY <2>1, NothingKnown
  <2>. QED BY <2>2
<1>3. ASSUME NEW k \in Nat, k \in Ks PROVE k + 1 \in Ks
  <2>. SUFFICES ASSUME k + 1 <= N
                PROVE  SchemaInv(SchemaBefore[(k + 1) + 1], PlanBefore((k + 1) + 1, 1), PlanBefore((k + 1) + 1, 1))
    OBVIOUS
  <2>. DEFINE l == k + 1
              L == Len(StatementsIn(l))
  <2>1. l \in DOMAIN Plan
    BY <1>0, PlanLength
  <2>2. SchemaInv(SchemaBefore[l], PlanBefore(l, 1), PlanBefore(l, 1))
    BY <1>0, <1>3
  <2>. HIDE DEF l
  <2>3. L \in 0..L
    BY <2>1, StatementsAre
  <2>4. SchemaInv(SchemaAt(l, L), PlanBefore(l, L + 1), PlanBefore(l, L + 1))
    BY <1>1, <2>1, <2>2, <2>3
  <2>5. SchemaAt(l, L) = SchemaBefore[l + 1] /\ PlanBefore(l, L + 1) = PlanBefore(l + 1, 1)
    BY <2>1, SchemaAtIs, BeforeIs
  <2>6. SchemaInv(SchemaBefore[l + 1], PlanBefore(l + 1, 1), PlanBefore(l + 1, 1))
    BY <2>4, <2>5
  <2>. QED BY <2>6 DEF l
<1>4. \A k \in Nat : k \in Ks
  BY <1>2, <1>3, NatInduct
<1>5. \A k \in 1..(N + 1) : SchemaInv(SchemaBefore[k], PlanBefore(k, 1), PlanBefore(k, 1))
  <2>. TAKE k \in 1..(N + 1)
  <2>1. k - 1 \in Nat /\ k - 1 <= N /\ (k - 1) + 1 = k
    BY <1>0
  <2>. QED BY <1>4, <2>1
<1>6. \A k \in DOMAIN Plan : k \in 1..(N + 1)
  BY PlanLength
<1>. QED BY <1>1, <1>5, <1>6

(* Of two schemas known to have had all of the same statements, what one   *)
(* takes for the first time the other takes.                               *)
LEMMA TakenAlike ==
  ASSUME NEW A, NEW D, NEW V, V \subseteq Positions, SchemaInv(A, V, V), SchemaInv(D, V, V),
         NEW p \in Positions, p \notin V, DatabaseTakes(StatementOf(p), A)
  PROVE  DatabaseTakes(StatementOf(p), D)
<1>. DEFINE s == StatementOf(p)
            t == TableOf(p)
<1>0. s.op \in Ops /\ s.table = t /\ s.columns = StatementColumns(p) /\ \A ops : p \in Doing(ops) <=> s.op \in ops
  BY StatementIs DEF TableOf, StatementColumns
<1>. HIDE DEF s, t
<1>1. ASSUME s.op \in {"addcolumn", "dropcolumn", "insert"}
      PROVE  t \in DOMAIN D /\ t \in DOMAIN A /\ Lasting(t)
  <2>1. t \in DOMAIN A
    BY <1>0, <1>1 DEF DatabaseTakes, HasTable, s
  <2>2. Lasting(t)
    BY <1>0, <1>1, AloneAssumption DEF Lasting, SameTable, TableOf, t
  <2>3. PICK q \in V : q \in Doing({"create"}) /\ TableOf(q) = t
    BY <2>1 DEF SchemaInv, TablesAreMade
  <2>. QED BY <2>1, <2>2, <2>3 DEF SchemaInv, There
<1>2. ASSUME s.op = "addcolumn" PROVE StatementColumns(p) \cap D[t] = {}
  <2>. SUFFICES ASSUME NEW c \in StatementColumns(p), c \in D[t] PROVE FALSE
    OBVIOUS
  <2>1. t \in DOMAIN D /\ t \in DOMAIN A /\ p \in Doing({"addcolumn", "dropcolumn"})
    BY <1>0, <1>1, <1>2
  <2>2. PICK q \in V : q \in Doing({"create", "addcolumn"}) /\ TableOf(q) = t /\ c \in StatementColumns(q)
    BY <2>1 DEF SchemaInv, Brought
  <2>3. \A r \in Doing({"addcolumn", "dropcolumn"}) : TableOf(r) = t /\ c \in StatementColumns(r) => r = p
    <3>. TAKE r \in Doing({"addcolumn", "dropcolumn"})
    <3>. HAVE TableOf(r) = t /\ c \in StatementColumns(r)
    <3>1. SameColumn(r, p)
      BY DEF SameColumn, SameTable, TableOf, StatementColumns, t
    <3>. QED BY <2>1, <3>1, AloneAssumption
  <2>4. q \in Doing({"create"})
    BY <2>2, <2>3 DEF Doing
  <2>5. c \in A[t] \/ \E r \in V : r \in Doing({"dropcolumn"}) /\ SameTable(q, r) /\ c \in StatementColumns(r)
    BY <2>1, <2>2, <2>4 DEF SchemaInv, Kept
  <2>6. c \in A[t]
    <3>. SUFFICES ASSUME NEW r \in V, r \in Doing({"dropcolumn"}), SameTable(q, r), c \in StatementColumns(r) PROVE FALSE
      BY <2>5
    <3>1. TableOf(r) = t /\ r \in Doing({"addcolumn", "dropcolumn"})
      BY <2>2 DEF SameTable, TableOf, Doing
    <3>. QED BY <2>3, <3>1
  <2>7. StatementColumns(p) \cap A[t] = {}
    BY <1>0, <1>2 DEF DatabaseTakes, s
  <2>. QED BY <2>6, <2>7
<1>3. ASSUME s.op = "dropcolumn" PROVE StatementColumns(p) \subseteq D[t]
  <2>. SUFFICES ASSUME NEW c \in StatementColumns(p) PROVE c \in D[t]
    OBVIOUS
  <2>1. t \in DOMAIN D /\ t \in DOMAIN A /\ p \in Doing({"addcolumn", "dropcolumn"})
    BY <1>0, <1>1, <1>3
  <2>2. c \in A[t]
    BY <1>0, <1>3 DEF DatabaseTakes, s
  <2>3. PICK q \in V : q \in Doing({"create", "addcolumn"}) /\ TableOf(q) = t /\ c \in StatementColumns(q)
    BY <2>1, <2>2 DEF SchemaInv, Brought
  <2>4. \A r \in Doing({"addcolumn", "dropcolumn"}) : TableOf(r) = t /\ c \in StatementColumns(r) => r = p
    <3>. TAKE r \in Doing({"addcolumn", "dropcolumn"})
    <3>. HAVE TableOf(r) = t /\ c \in StatementColumns(r)
    <3>1. SameColumn(r, p)
      BY DEF SameColumn, SameTable, TableOf, StatementColumns, t
    <3>. QED BY <2>1, <3>1, AloneAssumption
  <2>5. q \in Doing({"create"})
    BY <2>3, <2>4 DEF Doing
  <2>6. c \in D[t] \/ \E r \in V : r \in Doing({"dropcolumn"}) /\ SameTable(q, r) /\ c \in StatementColumns(r)
    BY <2>1, <2>3, <2>5 DEF SchemaInv, Kept
  <2>. SUFFICES ASSUME NEW r \in V, r \in Doing({"dropcolumn"}), SameTable(q, r), c \in StatementColumns(r) PROVE FALSE
    BY <2>6
  <2>7. TableOf(r) = t /\ r \in Doing({"addcolumn", "dropcolumn"})
    BY <2>3 DEF SameTable, TableOf, Doing
  <2>. QED BY <2>4, <2>7
<1>. QED BY <1>0, <1>1, <1>2, <1>3 DEF DatabaseTakes, HasTable, s

(* One that fills a table is taken wherever those before it have been.     *)
LEMMA InsertTaken ==
  ASSUME NEW A, NEW D, NEW V, NEW U, NEW M, V \subseteq U, SchemaInv(A, V, V), SchemaInv(D, U, M),
         NEW p \in Positions, DatabaseTakes(StatementOf(p), A), StatementOf(p).op \notin {"addcolumn", "dropcolumn"}
  PROVE  DatabaseTakes(StatementOf(p), D)
<1>. SUFFICES ASSUME StatementOf(p).op = "insert" PROVE TableOf(p) \in DOMAIN D
  BY DEF DatabaseTakes, HasTable, TableOf
<1>1. TableOf(p) \in DOMAIN A /\ p \in Doing({"addcolumn", "dropcolumn", "insert"})
  BY DEF DatabaseTakes, HasTable, TableOf, Doing
<1>2. Lasting(TableOf(p))
  BY <1>1, AloneAssumption DEF Lasting, SameTable, TableOf
<1>3. PICK q \in V : q \in Doing({"create"}) /\ TableOf(q) = TableOf(p)
  BY <1>1 DEF SchemaInv, TablesAreMade
<1>. QED BY <1>2, <1>3 DEF SchemaInv, There

(* Two schemas that had everything have the same columns in every table    *)
(* that is not dropped.                                                    *)
LEMMA CompleteAlike ==
  ASSUME NEW A, NEW D, NEW M, SchemaInv(A, Positions, Positions), SchemaInv(D, Positions, M), M \subseteq Positions,
         NEW t \in DOMAIN A, Lasting(t)
  PROVE  t \in DOMAIN D /\ D[t] = A[t]
<1>0. SchemaInv(D, Positions, Positions)
  BY LessIsKnown
<1>1. t \in DOMAIN D
  <2>1. PICK q \in Positions : q \in Doing({"create"}) /\ TableOf(q) = t
    BY DEF SchemaInv, TablesAreMade
  <2>. QED BY <2>1 DEF SchemaInv, There
<1>2. ASSUME NEW E, NEW F, SchemaInv(E, Positions, Positions), SchemaInv(F, Positions, Positions),
             t \in DOMAIN E, t \in DOMAIN F, NEW c \in E[t]
      PROVE  c \in F[t]
  <2>1. PICK q \in Positions : q \in Doing({"create", "addcolumn"}) /\ TableOf(q) = t /\ c \in StatementColumns(q)
    BY <1>2 DEF SchemaInv, Brought
  <2>2. CASE q \in Doing({"addcolumn"})
    BY <1>2, <2>1, <2>2 DEF SchemaInv, Added
  <2>3. CASE q \in Doing({"create"})
    <3>1. c \in F[t] \/ \E r \in Positions : r \in Doing({"dropcolumn"}) /\ SameTable(q, r) /\ c \in StatementColumns(r)
      BY <1>2, <2>1, <2>3 DEF SchemaInv, Kept
    <3>. SUFFICES ASSUME NEW r \in Positions, r \in Doing({"dropcolumn"}), SameTable(q, r), c \in StatementColumns(r)
                  PROVE  FALSE
      BY <3>1
    <3>2. TableOf(r) = t
      BY <2>1 DEF SameTable, TableOf
    <3>. QED BY <1>2, <3>2 DEF SchemaInv, Dropped
  <2>. QED BY <2>1, <2>2, <2>3 DEF Doing
<1>3. \A c : c \in D[t] <=> c \in A[t]
  BY <1>0, <1>1, <1>2
<1>4. D[t] = A[t]
  BY <1>3
<1>. QED BY <1>1, <1>4
-----------------------------------------------------------------------------
(* The state.  Sure are the positions whose statements have been executed, *)
(* May those whose may have been: not the ones of an update that was       *)
(* neither recorded nor cut off and is not reached at this start.          *)
Ver(k) == Plan[k].version
Of(V) == {p \in Positions : Ver(p[1]) \in V}
Here == IF st_pc \in {"run", "up"} THEN PlanBefore(st_at, st_next) ELSE {}
Sure == Of(recorded_updates) \cup Here
May == Of(recorded_updates \cup cut) \cup Here
Reached(k) == Ver(k) \in recorded_updates \cup cut

PlaceOK ==
  st_pc # "down" =>
    /\ plan = Plan /\ st_at \in 1..(Len(Plan) + 1) /\ installed \subseteq recorded_updates
    /\ \A k \in DOMAIN Plan : k >= st_at /\ Ver(k) \in recorded_updates => Ver(k) \in installed
    /\ \A k \in DOMAIN Plan : k < st_at => Reached(k)
    /\ st_at \in DOMAIN Plan =>
         /\ st_next \in 1..(Len(StatementsIn(st_at)) + 1) /\ structs = SchemaAt(st_at, st_next - 1)
         /\ Ver(st_at) \in installed => st_next = 1
    /\ st_at = Len(Plan) + 1 => st_next = 1 /\ structs = SchemaBefore[Len(Plan) + 1]
    /\ st_pc = "up" => st_at = Len(Plan) + 1
    /\ st_pc = "refused" =>
         /\ st_at \in DOMAIN Plan /\ Ver(st_at) \notin installed /\ st_next <= Len(StatementsIn(st_at))
         /\ st_next > 1 => Ver(st_at) \in cut

ReachedInOrder == \A k, l \in DOMAIN Plan : k < l /\ Reached(l) => Reached(k)
SchemaKnown == SchemaInv(tables_there, Sure, May)

(* The statement that inserts the administrator.                           *)
AdminAt(p) == p \in Doing({"insert"}) /\ TableOf(p) = AdminTable
AdminsOK ==
  \A p : AdminAt(p) =>
    /\ p \in Sure => admins >= 1
    /\ cut = {} => admins = (IF p \in May THEN 1 ELSE 0)

(* With no update cut off those recorded are the first ones, and the       *)
(* database is where the server is, or where it will come to.              *)
FirstOnes(f) == \A k \in DOMAIN Plan : Ver(k) \in recorded_updates <=> k < f
UncutOK ==
  cut = {} => \E f \in 1..(Len(Plan) + 1) :
    /\ FirstOnes(f)
    /\ tables_there = IF st_pc = "run" /\ st_at = f THEN structs ELSE SchemaBefore[f]

StuckOK ==
  repeated => /\ st_pc = "refused" /\ Ver(st_at) \in cut /\ Ver(st_at) \notin recorded_updates
              /\ StatementOf(<<st_at, st_next>>).op \in {"addcolumn", "dropcolumn"}

StorageInv ==
  StorageTypeOK /\ PlaceOK /\ ReachedInOrder /\ SchemaKnown /\ AdminsOK /\ UncutOK /\ StuckOK

LEMMA VersionsAre ==
  ASSUME NEW k \in DOMAIN Plan
  PROVE  /\ Ver(k) \in UpdateVersions /\ k \in Nat /\ k \in 1..Len(Plan)
         /\ \A l \in DOMAIN Plan : Ver(l) = Ver(k) => l = k
<1>. DEFINE T == [version : UpdateVersions, statements : Seq([op : Ops, table : STRING, columns : SUBSET STRING])]
<1>1. Plan \in Seq(T)
  BY PlanAssumption DEF Ops
<1>. HIDE DEF T
<1>2. Plan[k] \in T
  BY <1>1, EntryOfSeq
<1>3. Ver(k) \in UpdateVersions
  BY <1>2 DEF T, Ver
<1>. QED BY <1>3, PlanAssumption, PlanLength DEF Ver

(* Where an update is being executed.                                      *)
LEMMA AtUpdateIs ==
  ASSUME StorageInv, AtUpdate
  PROVE  /\ st_at \in DOMAIN Plan /\ plan = Plan /\ VersionAt = Ver(st_at) /\ StatementsAt = StatementsIn(st_at)
         /\ st_pc = "run" /\ st_next \in Nat /\ st_next >= 1 /\ Len(StatementsIn(st_at)) \in Nat
         /\ st_next <= Len(StatementsIn(st_at)) + 1 /\ structs = SchemaAt(st_at, st_next - 1)
         /\ Here = PlanBefore(st_at, st_next) /\ st_at \in Nat /\ st_at >= 1 /\ st_at <= Len(Plan) /\ Len(Plan) \in Nat
         /\ IsInstalled => st_next = 1 /\ Ver(st_at) \in recorded_updates
         /\ ~IsInstalled => Ver(st_at) \notin recorded_updates
<1>1. st_pc = "run" /\ plan = Plan /\ st_at \in 1..(Len(Plan) + 1) /\ st_at <= Len(Plan)
  BY DEF AtUpdate, StorageInv, PlaceOK
<1>2. st_at \in DOMAIN Plan /\ Len(Plan) \in Nat
  BY <1>1, PlanLength
<1>3. VersionAt = Ver(st_at) /\ StatementsAt = StatementsIn(st_at)
  BY <1>1 DEF VersionAt, Ver, StatementsAt, StatementsIn
<1>4. Len(StatementsIn(st_at)) \in Nat
  BY <1>2, StatementsAre
<1>5. /\ st_next \in 1..(Len(StatementsIn(st_at)) + 1) /\ structs = SchemaAt(st_at, st_next - 1)
      /\ Ver(st_at) \in installed => st_next = 1
      /\ installed \subseteq recorded_updates
      /\ Ver(st_at) \in recorded_updates => Ver(st_at) \in installed
  BY <1>1, <1>2, VersionsAre DEF StorageInv, PlaceOK
<1>. QED BY <1>1, <1>2, <1>3, <1>4, <1>5, VersionsAre DEF Here, IsInstalled

LEMMA AtStatementIs ==
  ASSUME StorageInv, AtStatement
  PROVE  /\ AtUpdate /\ ~IsInstalled /\ st_next \in 1..Len(StatementsIn(st_at))
         /\ <<st_at, st_next>> \in Positions /\ Statement = StatementOf(<<st_at, st_next>>)
         /\ MemoryTakes(Statement, structs) /\ AfterStatement(Statement, structs) = SchemaAt(st_at, st_next)
         /\ Here \cup {<<st_at, st_next>>} = PlanBefore(st_at, st_next + 1) /\ <<st_at, st_next>> \notin Here
<1>1. AtUpdate /\ ~IsInstalled /\ ~AllExecuted
  BY DEF AtStatement
<1>2. st_next \in 1..Len(StatementsIn(st_at)) /\ StatementsAt = StatementsIn(st_at)
  BY <1>1, AtUpdateIs DEF AllExecuted
<1>3. st_at \in DOMAIN Plan /\ structs = SchemaAt(st_at, st_next - 1) /\ Here = PlanBefore(st_at, st_next)
  BY <1>1, AtUpdateIs
<1>4. <<st_at, st_next>> \in Positions /\ Statement = StatementOf(<<st_at, st_next>>)
  BY <1>2, <1>3, StatementsAre DEF Statement
<1>5. MemoryTakes(Statement, structs) /\ AfterStatement(Statement, structs) = SchemaAt(st_at, st_next)
  BY <1>2, <1>3, <1>4, SchemaAtIs
<1>6. Here \cup {<<st_at, st_next>>} = PlanBefore(st_at, st_next + 1) /\ <<st_at, st_next>> \notin Here
  BY <1>2, <1>3, BeforeIs
<1>. QED BY <1>1, <1>2, <1>4, <1>5, <1>6

(* What has been executed at this start is of updates reached, or of the   *)
(* one being executed.                                                     *)
LEMMA HereReached ==
  ASSUME StorageInv, NEW p \in Here
  PROVE  /\ p \in Positions
         /\ Reached(p[1]) \/ (AtUpdate /\ ~IsInstalled /\ st_next > 1 /\ p[1] = st_at)
<1>1. st_pc \in {"run", "up"} /\ p \in PlanBefore(st_at, st_next)
  BY DEF Here
<1>2. p \in Positions /\ (p[1] < st_at \/ (p[1] = st_at /\ p[2] < st_next))
  BY <1>1 DEF PlanBefore
<1>3. p[1] \in DOMAIN Plan /\ p[1] \in Nat /\ p[2] \in Nat /\ p[2] >= 1
  BY <1>2, PositionsAre
<1>4. CASE p[1] < st_at
  BY <1>1, <1>2, <1>3, <1>4 DEF StorageInv, PlaceOK
<1>5. CASE p[1] = st_at /\ p[2] < st_next
  <2>1. st_at \in DOMAIN Plan /\ st_at <= Len(Plan) /\ Len(Plan) \in Nat
    BY <1>3, <1>5, PlanLength
  <2>2. st_pc = "run" /\ plan = Plan
    BY <1>1, <2>1 DEF StorageInv, PlaceOK
  <2>3. AtUpdate
    BY <2>1, <2>2 DEF AtUpdate
  <2>4. st_next > 1 /\ ~IsInstalled
    BY <1>3, <1>5, <2>3, AtUpdateIs
  <2>. QED BY <1>2, <1>5, <2>3, <2>4
<1>. QED BY <1>2, <1>4, <1>5

(* With no update cut off, the one being executed is the first that is not *)
(* recorded.                                                               *)
LEMMA UncutAt ==
  ASSUME StorageInv, cut = {}, AtUpdate, ~IsInstalled
  PROVE  FirstOnes(st_at) /\ tables_there = structs
<1>1. PICK f \in 1..(Len(Plan) + 1) :
        FirstOnes(f) /\ tables_there = IF st_pc = "run" /\ st_at = f THEN structs ELSE SchemaBefore[f]
  BY DEF StorageInv, UncutOK
<1>2. st_at \in DOMAIN Plan /\ Ver(st_at) \notin recorded_updates /\ st_pc = "run" /\ Len(Plan) \in Nat
  BY AtUpdateIs
<1>3. \A k \in DOMAIN Plan : k < st_at => Ver(k) \in recorded_updates
  BY <1>2 DEF StorageInv, PlaceOK, Reached
<1>4. ~ (st_at < f) /\ ~ (f < st_at)
  <2>1. ~ (st_at < f)
    BY <1>1, <1>2 DEF FirstOnes
  <2>2. ASSUME f < st_at PROVE FALSE
    <3>1. f \in DOMAIN Plan
      BY <1>2, <2>2, PlanLength
    <3>. QED BY <1>1, <1>3, <2>2, <3>1 DEF FirstOnes
  <2>. QED BY <2>1, <2>2
<1>5. st_at = f
  BY <1>2, <1>4, PlanLength
<1>. QED BY <1>1, <1>2, <1>5
-----------------------------------------------------------------------------
(* An action after which the same is known of the same database.           *)
LEMMA KnownStays ==
  ASSUME SchemaKnown, tables_there' = tables_there, Sure' \subseteq Sure, May \subseteq May'
  PROVE  SchemaKnown'
<1>. DEFINE U == Sure'
            M == May'
            A == tables_there'
<1>1. U \in SUBSET Sure /\ May \subseteq M /\ A = tables_there
  OBVIOUS
<1>. HIDE DEF U, M, A
<1>2. SchemaInv(A, U, M)
  BY <1>1, LessIsKnown DEF SchemaKnown
<1>3. SchemaInv(tables_there', Sure', May')
  BY <1>2 DEF A, U, M
<1>. QED BY <1>3 DEF SchemaKnown

LEMMA AdminsStay ==
  ASSUME AdminsOK, admins' = admins, Sure' \subseteq Sure, cut' = {} => cut = {} /\ May' = May
  PROVE  AdminsOK'
<1>. DEFINE U == Sure'
            M == May'
<1>1. U \subseteq Sure /\ (cut' = {} => cut = {} /\ M = May)
  OBVIOUS
<1>. HIDE DEF U, M
<1>2. \A p : AdminAt(p) => (p \in U => admins' >= 1) /\ (cut' = {} => admins' = (IF p \in M THEN 1 ELSE 0))
  BY <1>1 DEF AdminsOK
<1>. QED BY <1>2 DEF AdminsOK, U, M

LEMMA FaultsCount ==
  ASSUME st_faults \in 0..MaxStorageFaults, StorageFault \/ st_faults' = st_faults
  PROVE  st_faults' \in 0..MaxStorageFaults
<1>1. MaxStorageFaults \in Nat
  BY StorageAssumption
<1>. QED BY <1>1 DEF StorageFault

LEMMA ReachedStays ==
  ASSUME ReachedInOrder, recorded_updates' = recorded_updates, cut' = cut
  PROVE  ReachedInOrder'
BY DEF ReachedInOrder, Reached

LEMMA InitStorageInv == StorageInit => StorageInv
<1>. SUFFICES ASSUME StorageInit PROVE StorageInv
  OBVIOUS
<1>. USE DEF StorageInit
<1>1. StorageTypeOK
  <2>1. MaxStorageFaults \in Nat
    BY StorageAssumption
  <2>2. st_faults \in 0..MaxStorageFaults
    BY <2>1
  <2>3. st_pc \in {"down", "run", "refused", "up"} /\ plan \in {<<>>, Plan} /\ repeated \in BOOLEAN
    OBVIOUS
  <2>4. installed \subseteq UpdateVersions /\ recorded_updates \subseteq UpdateVersions /\ cut \subseteq UpdateVersions
    OBVIOUS
  <2>5. st_at \in Nat /\ st_next \in Nat /\ admins \in Nat
    OBVIOUS
  <2>. QED BY <2>2, <2>3, <2>4, <2>5 DEF StorageTypeOK
<1>2. PlaceOK /\ ReachedInOrder /\ StuckOK
  BY DEF PlaceOK, ReachedInOrder, Reached, StuckOK
<1>3. Sure = {} /\ May = {}
  BY DEF Sure, May, Of, Here
<1>4. SchemaKnown /\ AdminsOK
  BY <1>3, NothingKnown DEF SchemaKnown, AdminsOK
<1>5. UncutOK
  <2>1. 1 \in 1..(Len(Plan) + 1)
    BY PlanLength
  <2>2. FirstOnes(1)
    BY VersionsAre DEF FirstOnes
  <2>3. tables_there = IF st_pc = "run" /\ st_at = 1 THEN structs ELSE SchemaBefore[1]
    BY SchemaAtIs
  <2>. QED BY <2>1, <2>2, <2>3 DEF UncutOK
<1>. QED BY <1>1, <1>2, <1>4, <1>5 DEF StorageInv

LEMMA StartKeeps ==
  ASSUME StorageInv, StorageStart
  PROVE  StorageInv'
<1>. USE DEF StorageStart
<1>1. StorageTypeOK'
  BY DEF StorageInv, StorageTypeOK
<1>2. PlaceOK'
  <2>1. 1 \in 1..(Len(Plan) + 1) /\ Len(Plan) \in Nat
    BY PlanLength
  <2>2. \A k \in DOMAIN Plan : ~ (k < 1)
    BY PlanLength
  <2>3. 1 \in DOMAIN Plan => 1 \in 1..(Len(StatementsIn(1)) + 1) /\ NoTables = SchemaAt(1, 1 - 1)
    BY StatementsAre, SchemaAtIs
  <2>4. 1 = Len(Plan) + 1 => NoTables = SchemaBefore[Len(Plan) + 1]
    BY SchemaAtIs
  <2>. QED BY <2>1, <2>2, <2>3, <2>4 DEF PlaceOK, Reached
<1>3. Here = {} /\ Here' = {}
  <2>1. Here' = PlanBefore(1, 1)
    BY DEF Here
  <2>. QED BY <2>1, BeforeIs DEF Here
<1>4. Sure' = Sure /\ May' = May
  BY <1>3 DEF Sure, May, Of
<1>5. SchemaKnown' /\ AdminsOK' /\ ReachedInOrder'
  BY <1>4, KnownStays, AdminsStay, ReachedStays DEF StorageInv
<1>6. UncutOK'
  <2>. SUFFICES ASSUME cut = {}
                PROVE  \E f \in 1..(Len(Plan) + 1) :
                         FirstOnes(f) /\ tables_there = IF 1 = f THEN NoTables ELSE SchemaBefore[f]
    BY DEF UncutOK, FirstOnes
  <2>1. PICK f \in 1..(Len(Plan) + 1) : FirstOnes(f) /\ tables_there = SchemaBefore[f]
    BY DEF StorageInv, UncutOK
  <2>. QED BY <2>1, SchemaAtIs
<1>7. StuckOK'
  BY DEF StorageInv, StuckOK
<1>. QED BY <1>1, <1>2, <1>5, <1>6, <1>7 DEF StorageInv

LEMMA ReplayKeeps ==
  ASSUME StorageInv, ReplayUpdate
  PROVE  StorageInv'
<1>. DEFINE k == st_at
<1>0. /\ AtUpdate /\ IsInstalled /\ structs' = Replayed(structs, StatementsAt) /\ st_at' = k + 1 /\ st_pc' = st_pc
      /\ plan' = plan /\ installed' = installed /\ st_next' = st_next /\ recorded_updates' = recorded_updates
      /\ tables_there' = tables_there /\ cut' = cut /\ admins' = admins /\ repeated' = repeated /\ st_faults' = st_faults
  BY DEF ReplayUpdate
<1>1. /\ k \in DOMAIN Plan /\ plan = Plan /\ StatementsAt = StatementsIn(k) /\ st_pc = "run" /\ st_next = 1
      /\ structs = SchemaAt(k, 0) /\ Here = PlanBefore(k, 1) /\ Ver(k) \in recorded_updates
      /\ k \in Nat /\ k >= 1 /\ k <= Len(Plan) /\ Len(Plan) \in Nat
  BY <1>0, AtUpdateIs
<1>2. structs' = SchemaBefore[k + 1]
  BY <1>0, <1>1, SchemaAtIs
<1>3. StorageTypeOK'
  BY <1>0, <1>1 DEF StorageInv, StorageTypeOK
<1>4. PlaceOK'
  <2>1. k + 1 \in 1..(Len(Plan) + 1)
    BY <1>1
  <2>2. k + 1 \in DOMAIN Plan =>
          1 \in 1..(Len(StatementsIn(k + 1)) + 1) /\ SchemaBefore[k + 1] = SchemaAt(k + 1, 1 - 1)
    BY StatementsAre, SchemaAtIs
  <2>3. \A l \in DOMAIN Plan : (l >= k + 1 => l >= k) /\ (l < k + 1 => l < k \/ l = k)
    BY <1>1, VersionsAre
  <2>4. /\ installed \subseteq recorded_updates
        /\ \A l \in DOMAIN Plan : l >= k + 1 /\ Ver(l) \in recorded_updates => Ver(l) \in installed
        /\ \A l \in DOMAIN Plan : l < k + 1 => Reached(l)
    BY <1>1, <2>3 DEF StorageInv, PlaceOK, Reached
  <2>. QED BY <1>0, <1>1, <1>2, <2>1, <2>2, <2>4 DEF PlaceOK, Reached
<1>5. Sure' = Sure /\ May' = May
  <2>1. Here' = PlanBefore(k + 1, 1)
    BY <1>0, <1>1 DEF Here
  <2>2. PlanBefore(k, 1) \subseteq PlanBefore(k + 1, 1) /\ PlanBefore(k + 1, 1) \subseteq PlanBefore(k, 1) \cup Of(recorded_updates)
    <3>1. \A p \in Positions : p[1] \in Nat /\ p[2] \in Nat /\ p[2] >= 1
      BY PositionsAre
    <3>. QED BY <1>1, <3>1 DEF PlanBefore, Of
  <2>. QED BY <1>0, <1>1, <2>1, <2>2 DEF Sure, May, Of
<1>6. SchemaKnown' /\ AdminsOK' /\ ReachedInOrder'
  BY <1>0, <1>5, KnownStays, AdminsStay, ReachedStays DEF StorageInv
<1>7. UncutOK'
  <2>. SUFFICES ASSUME cut = {}
                PROVE  \E f \in 1..(Len(Plan) + 1) :
                         FirstOnes(f) /\ tables_there = IF k + 1 = f THEN SchemaBefore[k + 1] ELSE SchemaBefore[f]
    BY <1>0, <1>1, <1>2 DEF UncutOK, FirstOnes
  <2>1. PICK f \in 1..(Len(Plan) + 1) :
          FirstOnes(f) /\ tables_there = IF st_pc = "run" /\ k = f THEN structs ELSE SchemaBefore[f]
    BY DEF StorageInv, UncutOK
  <2>2. k # f
    BY <1>1, <2>1 DEF FirstOnes
  <2>. QED BY <2>1, <2>2
<1>8. StuckOK'
  BY <1>0, <1>1 DEF StorageInv, StuckOK
<1>. QED BY <1>3, <1>4, <1>6, <1>7, <1>8 DEF StorageInv

LEMMA ExecuteKeeps ==
  ASSUME StorageInv, ExecuteStatement
  PROVE  StorageInv'
<1>. DEFINE k == st_at
            j == st_next
            p == <<k, j>>
<1>0. /\ AtStatement /\ DatabaseTakes(Statement, tables_there)
      /\ tables_there' = AfterStatement(Statement, tables_there) /\ structs' = AfterStatement(Statement, structs)
      /\ admins' = admins + (IF Statement.op = "insert" /\ Statement.table = AdminTable THEN 1 ELSE 0)
      /\ st_at' = k /\ st_pc' = st_pc /\ st_next' = j + 1
      /\ plan' = plan /\ installed' = installed /\ recorded_updates' = recorded_updates
      /\ cut' = cut /\ repeated' = repeated /\ st_faults' = st_faults
  BY DEF ExecuteStatement
<1>1. /\ AtUpdate /\ ~IsInstalled /\ j \in 1..Len(StatementsIn(k)) /\ p \in Positions /\ Statement = StatementOf(p)
      /\ AfterStatement(Statement, structs) = SchemaAt(k, j) /\ Here \cup {p} = PlanBefore(k, j + 1) /\ p \notin Here
  BY <1>0, AtStatementIs
<1>2. /\ k \in DOMAIN Plan /\ plan = Plan /\ st_pc = "run" /\ Ver(k) \notin recorded_updates
      /\ k \in Nat /\ k >= 1 /\ k <= Len(Plan) /\ Len(Plan) \in Nat /\ Len(StatementsIn(k)) \in Nat /\ j \in Nat
      /\ Ver(k) \notin installed
  BY <1>1, AtUpdateIs DEF IsInstalled
<1>3. StorageTypeOK'
  <2>1. admins' \in Nat
    BY <1>0 DEF StorageInv, StorageTypeOK
  <2>. QED BY <1>0, <1>2, <2>1 DEF StorageInv, StorageTypeOK
<1>4. PlaceOK'
  <2>1. j + 1 \in 1..(Len(StatementsIn(k)) + 1) /\ structs' = SchemaAt(k, (j + 1) - 1)
    BY <1>0, <1>1, <1>2
  <2>2. k \in 1..(Len(Plan) + 1) /\ k # Len(Plan) + 1
    BY <1>2
  <2>3. /\ installed \subseteq recorded_updates
        /\ \A l \in DOMAIN Plan : l >= k /\ Ver(l) \in recorded_updates => Ver(l) \in installed
        /\ \A l \in DOMAIN Plan : l < k => Reached(l)
    BY <1>2 DEF StorageInv, PlaceOK
  <2>. QED BY <1>0, <1>2, <2>1, <2>2, <2>3 DEF PlaceOK, Reached
<1>5. Sure' = Sure \cup {p} /\ May' = May \cup {p}
  <2>1. Here' = Here \cup {p}
    BY <1>0, <1>1, <1>2 DEF Here
  <2>. QED BY <1>0, <2>1 DEF Sure, May, Of
<1>6. SchemaKnown'
  <2>1. SchemaInv(AfterStatement(StatementOf(p), tables_there), Sure \cup {p}, May \cup {p})
    BY <1>0, <1>1, ExecKeeps DEF StorageInv, SchemaKnown
  <2>2. tables_there' = AfterStatement(StatementOf(p), tables_there)
    BY <1>0, <1>1
  <2>. HIDE DEF p
  <2>3. SchemaInv(tables_there', Sure', May')
    BY <1>5, <2>1, <2>2
  <2>. QED BY <2>3 DEF SchemaKnown
<1>7. AdminsOK'
  <2>1. \A q : AdminAt(q) => (q = p <=> Statement.op = "insert" /\ Statement.table = AdminTable)
    <3>1. PICK r \in Doing({"insert"}) : \A q \in Doing({"insert"}) : TableOf(q) = AdminTable <=> q = r
      BY AloneAssumption DEF TableOf
    <3>2. AdminAt(p) <=> Statement.op = "insert" /\ Statement.table = AdminTable
      BY <1>1, StatementIs DEF AdminAt, TableOf
    <3>. HIDE DEF p
    <3>. QED BY <3>1, <3>2 DEF AdminAt
  <2>2. cut = {} => p \notin May
    <3>1. p[1] = k
      OBVIOUS
    <3>. HIDE DEF p
    <3>. QED BY <1>1, <1>2, <3>1 DEF May, Of
  <2>3. admins \in Nat
    BY DEF StorageInv, StorageTypeOK
  <2>. DEFINE U == Sure'
              M == May'
              n == admins'
  <2>4. U = Sure \cup {p} /\ M = May \cup {p} /\ n = admins + (IF Statement.op = "insert" /\ Statement.table = AdminTable THEN 1 ELSE 0)
    BY <1>0, <1>5
  <2>. HIDE DEF U, M, n, p
  <2>5. ASSUME NEW q, AdminAt(q)
        PROVE  (q \in U => n >= 1) /\ (cut = {} => n = (IF q \in M THEN 1 ELSE 0))
    <3>1. (q \in Sure => admins >= 1) /\ (cut = {} => admins = (IF q \in May THEN 1 ELSE 0))
      BY <2>5 DEF StorageInv, AdminsOK
    <3>2. CASE q = p
      <4>1. n = admins + 1
        BY <2>1, <2>4, <2>5, <3>2
      <4>. QED BY <2>2, <2>3, <2>4, <3>1, <3>2, <4>1
    <3>3. CASE q # p
      <4>1. n = admins
        BY <2>1, <2>3, <2>4, <2>5, <3>3
      <4>2. (q \in U <=> q \in Sure) /\ (q \in M <=> q \in May)
        BY <2>4, <3>3
      <4>. QED BY <3>1, <4>1, <4>2
    <3>. QED BY <3>2, <3>3
  <2>6. \A q : AdminAt(q) => (q \in U => n >= 1) /\ (cut = {} => n = (IF q \in M THEN 1 ELSE 0))
    BY <2>5
  <2>. QED BY <1>0, <2>6 DEF AdminsOK, U, M, n
<1>8. UncutOK'
  <2>. SUFFICES ASSUME cut = {}
                PROVE  \E f \in 1..(Len(Plan) + 1) :
                         FirstOnes(f) /\ tables_there' = IF k = f THEN structs' ELSE SchemaBefore[f]
    BY <1>0, <1>2 DEF UncutOK, FirstOnes
  <2>1. FirstOnes(k) /\ tables_there = structs
    BY <1>1, UncutAt
  <2>2. tables_there' = structs'
    BY <1>0, <2>1
  <2>3. k \in 1..(Len(Plan) + 1)
    BY <1>2
  <2>. QED BY <2>1, <2>2, <2>3
<1>9. StuckOK' /\ ReachedInOrder'
  BY <1>0, <1>2, ReachedStays DEF StorageInv, StuckOK
<1>. QED BY <1>3, <1>4, <1>6, <1>7, <1>8, <1>9 DEF StorageInv

(* Ending: nothing executed is forgotten.                                  *)
LEMMA EndKeeps ==
  ASSUME StorageInv, st_pc' \notin {"run", "up"}, cut' = CutHere,
         tables_there' = tables_there, recorded_updates' = recorded_updates, admins' = admins
  PROVE  SchemaKnown' /\ AdminsOK' /\ ReachedInOrder' /\ UncutOK'
<1>1. Here' = {}
  BY DEF Here
<1>2. cut \subseteq cut' /\ (AtUpdate /\ ~IsInstalled /\ st_next > 1 => cut' = cut \cup {Ver(st_at)})
  BY AtUpdateIs DEF CutHere
<1>2a. ~ (AtUpdate /\ ~IsInstalled /\ st_next > 1) => cut' = cut
  BY DEF CutHere
<1>3. Sure' \subseteq Sure
  BY <1>1 DEF Sure, Of
<1>4. May \subseteq May'
  <2>. SUFFICES ASSUME NEW p \in May PROVE p \in Of(recorded_updates \cup cut')
    BY DEF May, Of
  <2>1. CASE p \in Of(recorded_updates \cup cut)
    BY <1>2, <2>1 DEF Of
  <2>2. CASE p \in Here
    BY <1>2, <2>2, HereReached DEF Of, Reached
  <2>. QED BY <2>1, <2>2 DEF May
<1>5. cut' = {} => cut = {} /\ ~ (AtUpdate /\ ~IsInstalled /\ st_next > 1) /\ May' = May
  <2>. SUFFICES ASSUME cut' = {} PROVE cut = {} /\ ~ (AtUpdate /\ ~IsInstalled /\ st_next > 1) /\ May' = May
    OBVIOUS
  <2>1. cut = {} /\ ~ (AtUpdate /\ ~IsInstalled /\ st_next > 1)
    BY <1>2
  <2>2. May' \subseteq May
    BY <1>1, <2>1 DEF May, Of
  <2>. QED BY <1>4, <2>1, <2>2
<1>6. SchemaKnown' /\ AdminsOK'
  BY <1>3, <1>4, <1>5, KnownStays, AdminsStay DEF StorageInv
<1>7. ReachedInOrder'
  <2>1. CASE cut' = cut
    BY <2>1, ReachedStays DEF StorageInv
  <2>2. CASE AtUpdate /\ ~IsInstalled /\ st_next > 1
    <3>1. \A k \in DOMAIN Plan : k < st_at => Reached(k)
      BY <2>2, AtUpdateIs DEF StorageInv, PlaceOK
    <3>2. \A k \in DOMAIN Plan : Ver(k) \in recorded_updates \cup cut' <=> Reached(k) \/ k = st_at
      BY <1>2, <2>2, AtUpdateIs, VersionsAre DEF Reached
    <3>3. \A k, l \in DOMAIN Plan : k < l /\ Reached(l) => Reached(k)
      BY DEF StorageInv, ReachedInOrder
    <3>4. \A k, l \in DOMAIN Plan : k < l /\ Ver(l) \in recorded_updates \cup cut' => Ver(k) \in recorded_updates \cup cut'
      <4>. HIDE DEF Reached
      <4>. QED BY <3>1, <3>2, <3>3
    <3>. QED BY <3>4 DEF ReachedInOrder, Reached
  <2>. QED BY <1>2a, <2>1, <2>2
<1>8. UncutOK'
  <2>. SUFFICES ASSUME cut' = {}
                PROVE  \E f \in 1..(Len(Plan) + 1) : FirstOnes(f) /\ tables_there = SchemaBefore[f]
    BY DEF UncutOK, FirstOnes
  <2>1. cut = {} /\ ~ (AtUpdate /\ ~IsInstalled /\ st_next > 1)
    BY <1>5
  <2>2. PICK f \in 1..(Len(Plan) + 1) :
          FirstOnes(f) /\ tables_there = IF st_pc = "run" /\ st_at = f THEN structs ELSE SchemaBefore[f]
    BY <2>1 DEF StorageInv, UncutOK
  <2>3. st_pc = "run" /\ st_at = f => structs = SchemaBefore[f]
    <3>. SUFFICES ASSUME st_pc = "run", st_at = f PROVE structs = SchemaBefore[f]
      OBVIOUS
    <3>1. CASE f = Len(Plan) + 1
      BY <3>1 DEF StorageInv, PlaceOK
    <3>2. CASE f # Len(Plan) + 1
      <4>1. f \in DOMAIN Plan /\ f <= Len(Plan) /\ f \in Nat
        BY <3>2, PlanLength
      <4>2. plan = Plan
        BY DEF StorageInv, PlaceOK
      <4>3. AtUpdate
        BY <4>1, <4>2 DEF AtUpdate
      <4>4. Ver(f) \notin recorded_updates
        BY <2>2, <4>1 DEF FirstOnes
      <4>5. ~IsInstalled
        BY <4>3, <4>4, AtUpdateIs
      <4>6. st_next = 1
        BY <2>1, <4>3, <4>5, AtUpdateIs
      <4>7. structs = SchemaAt(f, 1 - 1)
        BY <4>3, <4>6, AtUpdateIs
      <4>. QED BY <4>1, <4>7, SchemaAtIs
    <3>. QED BY <3>1, <3>2
  <2>. QED BY <2>2, <2>3
<1>. QED BY <1>6, <1>7, <1>8

LEMMA RefusedKeeps ==
  ASSUME StorageInv, StatementRefused
  PROVE  StorageInv'
<1>. DEFINE k == st_at
            p == <<k, st_next>>
<1>0. /\ AtStatement /\ st_pc' = "refused" /\ cut' = CutHere /\ installed' = installed /\ plan' = plan /\ st_at' = k
      /\ st_next' = st_next /\ structs' = structs /\ tables_there' = tables_there
      /\ recorded_updates' = recorded_updates /\ admins' = admins
      /\ \/ /\ ~ (DatabaseTakes(Statement, tables_there) /\ MemoryTakes(Statement, structs))
            /\ repeated' = TRUE /\ st_faults' = st_faults
         \/ StorageFault /\ repeated' = repeated
  BY DEF StatementRefused
<1>1. /\ AtUpdate /\ ~IsInstalled /\ st_next \in 1..Len(StatementsIn(k)) /\ p \in Positions
      /\ Statement = StatementOf(p) /\ MemoryTakes(Statement, structs) /\ p \notin Here
  BY <1>0, AtStatementIs
<1>2. /\ k \in DOMAIN Plan /\ plan = Plan /\ st_pc = "run" /\ Ver(k) \notin recorded_updates /\ VersionAt = Ver(k)
      /\ k \in Nat /\ k >= 1 /\ k <= Len(Plan) /\ Len(Plan) \in Nat /\ Len(StatementsIn(k)) \in Nat
      /\ Ver(k) \notin installed /\ st_next \in Nat /\ Here = PlanBefore(k, st_next) /\ structs = SchemaAt(k, st_next - 1)
  BY <1>1, AtUpdateIs DEF IsInstalled
<1>3. cut' = IF st_next > 1 THEN cut \cup {Ver(k)} ELSE cut
  BY <1>0, <1>1, <1>2 DEF CutHere
<1>4. StorageTypeOK'
  <2>1. cut' \subseteq UpdateVersions
    BY <1>2, <1>3, VersionsAre DEF StorageInv, StorageTypeOK
  <2>2. st_faults' \in 0..MaxStorageFaults
    BY <1>0, FaultsCount DEF StorageInv, StorageTypeOK
  <2>3. repeated' \in BOOLEAN
    BY <1>0 DEF StorageInv, StorageTypeOK
  <2>. QED BY <1>0, <1>2, <2>1, <2>2, <2>3 DEF StorageInv, StorageTypeOK
<1>5. PlaceOK'
  <2>1. /\ installed \subseteq recorded_updates
        /\ \A l \in DOMAIN Plan : l >= k /\ Ver(l) \in recorded_updates => Ver(l) \in installed
        /\ \A l \in DOMAIN Plan : l < k => Ver(l) \in recorded_updates \cup cut'
    BY <1>2, <1>3 DEF StorageInv, PlaceOK, Reached
  <2>2. k \in 1..(Len(Plan) + 1) /\ k # Len(Plan) + 1 /\ st_next \in 1..(Len(StatementsIn(k)) + 1)
    BY <1>1, <1>2
  <2>3. st_next > 1 => Ver(k) \in cut'
    BY <1>3
  <2>4. st_next <= Len(StatementsIn(k))
    BY <1>1, <1>2
  <2>. QED BY <1>0, <1>2, <2>1, <2>2, <2>3, <2>4 DEF PlaceOK, Reached
<1>6. SchemaKnown' /\ AdminsOK' /\ ReachedInOrder' /\ UncutOK'
  BY <1>0, EndKeeps
<1>7. StuckOK'
  <2>. SUFFICES ASSUME repeated' = TRUE
                PROVE  /\ Ver(k) \in cut' /\ Ver(k) \notin recorded_updates
                       /\ StatementOf(p).op \in {"addcolumn", "dropcolumn"}
    BY <1>0 DEF StuckOK
  <2>1. repeated = FALSE
    BY <1>2 DEF StorageInv, StuckOK, StorageTypeOK
  <2>2. ~DatabaseTakes(StatementOf(p), tables_there)
    BY <1>0, <1>1, <2>1
  <2>. DEFINE V == PlanBefore(k, st_next)
  <2>3. SchemaInv(structs, V, V)
    <3>1. st_next - 1 \in 0..Len(StatementsIn(k)) /\ (st_next - 1) + 1 = st_next
      BY <1>1, <1>2
    <3>. QED BY <1>2, <3>1, SchemasAreKnown
  <2>4. DatabaseTakes(StatementOf(p), structs)
    BY <1>1 DEF MemoryTakes
  <2>5. V \subseteq Sure /\ V \subseteq Positions /\ p \notin V
    BY <1>1, <1>2 DEF Sure, PlanBefore
  <2>6. SchemaInv(tables_there, Sure, May)
    BY DEF StorageInv, SchemaKnown
  <2>7. StatementOf(p).op \in {"addcolumn", "dropcolumn"}
    <3>. HIDE DEF V, p
    <3>. QED BY <1>1, <2>2, <2>3, <2>4, <2>5, <2>6, InsertTaken
  <2>8. Ver(k) \in cut'
    <3>. SUFFICES ASSUME Ver(k) \notin cut, st_next = 1 PROVE FALSE
      BY <1>1, <1>2, <1>3
    <3>1. ~Reached(k)
      BY <1>2 DEF Reached
    <3>2. May \subseteq V
      <4>. SUFFICES ASSUME NEW q \in Of(recorded_updates \cup cut) PROVE q \in V
        BY <1>2 DEF May
      <4>1. q \in Positions /\ Reached(q[1]) /\ q[1] \in DOMAIN Plan /\ q[1] \in Nat
        BY PositionsAre DEF Of, Reached
      <4>2. ~ (k < q[1]) /\ k # q[1]
        BY <1>2, <3>1, <4>1 DEF StorageInv, ReachedInOrder
      <4>3. q[1] < k
        BY <1>2, <4>1, <4>2
      <4>. QED BY <4>1, <4>3 DEF PlanBefore
    <3>3. SchemaInv(tables_there, V, V)
      <4>. HIDE DEF V
      <4>. QED BY <2>5, <2>6, <3>2, LessIsKnown
    <3>. HIDE DEF V, p
    <3>. QED BY <1>1, <2>2, <2>3, <2>4, <2>5, <3>3, TakenAlike
  <2>. QED BY <1>2, <2>7, <2>8
<1>. QED BY <1>4, <1>5, <1>6, <1>7 DEF StorageInv

LEMMA RecordKeeps ==
  ASSUME StorageInv, RecordUpdate
  PROVE  StorageInv'
<1>. DEFINE k == st_at
            L == Len(StatementsIn(k))
<1>0. /\ AtUpdate /\ ~IsInstalled /\ AllExecuted /\ st_at' = k + 1 /\ st_next' = 1 /\ st_pc' = st_pc
      /\ installed' = installed /\ plan' = plan /\ structs' = structs /\ tables_there' = tables_there
      /\ admins' = admins /\ repeated' = repeated
      /\ \/ recorded_updates' = recorded_updates \cup {VersionAt} /\ st_faults' = st_faults /\ cut' = cut
         \/ StorageFault /\ cut' = cut \cup {VersionAt} /\ recorded_updates' = recorded_updates
  BY DEF RecordUpdate
<1>1. /\ k \in DOMAIN Plan /\ plan = Plan /\ VersionAt = Ver(k) /\ StatementsAt = StatementsIn(k) /\ st_pc = "run"
      /\ Ver(k) \notin recorded_updates /\ Ver(k) \notin installed
      /\ st_next = L + 1 /\ L \in Nat /\ structs = SchemaAt(k, st_next - 1) /\ Here = PlanBefore(k, st_next)
      /\ k \in Nat /\ k >= 1 /\ k <= Len(Plan) /\ Len(Plan) \in Nat
  BY <1>0, AtUpdateIs DEF IsInstalled, AllExecuted
<1>2. structs = SchemaBefore[k + 1] /\ Here = PlanBefore(k + 1, 1)
  <2>1. st_next - 1 = L
    BY <1>1
  <2>. QED BY <1>1, <2>1, SchemaAtIs, BeforeIs
<1>3. StorageTypeOK'
  <2>1. Ver(k) \in UpdateVersions
    BY <1>1, VersionsAre
  <2>2. st_faults' \in 0..MaxStorageFaults
    BY <1>0, FaultsCount DEF StorageInv, StorageTypeOK
  <2>. QED BY <1>0, <1>1, <2>1, <2>2 DEF StorageInv, StorageTypeOK
<1>4. recorded_updates' \cup cut' = recorded_updates \cup cut \cup {Ver(k)}
  BY <1>0, <1>1
<1>5. \A l \in DOMAIN Plan : Ver(l) \in recorded_updates' \cup cut' <=> Reached(l) \/ l = k
  BY <1>1, <1>4, VersionsAre DEF Reached
<1>6. PlaceOK'
  <2>1. k + 1 \in 1..(Len(Plan) + 1)
    BY <1>1
  <2>2. k + 1 \in DOMAIN Plan =>
          1 \in 1..(Len(StatementsIn(k + 1)) + 1) /\ SchemaBefore[k + 1] = SchemaAt(k + 1, 1 - 1)
    BY StatementsAre, SchemaAtIs
  <2>3. \A l \in DOMAIN Plan : (l >= k + 1 => l >= k /\ l # k) /\ (l < k + 1 => l < k \/ l = k)
    BY <1>1, VersionsAre
  <2>4. \A l \in DOMAIN Plan : l < k + 1 => Ver(l) \in recorded_updates' \cup cut'
    BY <1>1, <1>5, <2>3 DEF StorageInv, PlaceOK
  <2>5. \A l \in DOMAIN Plan : l >= k + 1 /\ Ver(l) \in recorded_updates' => Ver(l) \in installed
    <3>1. \A l \in DOMAIN Plan : l >= k /\ Ver(l) \in recorded_updates => Ver(l) \in installed
      BY <1>1 DEF StorageInv, PlaceOK
    <3>2. \A l \in DOMAIN Plan : l # k /\ Ver(l) \in recorded_updates' => Ver(l) \in recorded_updates
      BY <1>0, <1>1, VersionsAre
    <3>. QED BY <2>3, <3>1, <3>2
  <2>6. installed \subseteq recorded_updates'
    BY <1>0, <1>1 DEF StorageInv, PlaceOK
  <2>7. k + 1 \in DOMAIN Plan => k + 1 \in 1..Len(Plan)
    BY PlanLength
  <2>. QED BY <1>0, <1>1, <1>2, <2>1, <2>2, <2>4, <2>5, <2>6 DEF PlaceOK, Reached
<1>7. Here' = Here
  BY <1>0, <1>1, <1>2 DEF Here
<1>8. Of({Ver(k)}) \subseteq Here
  <2>1. \A p \in Positions : p[1] \in DOMAIN Plan /\ p[1] \in Nat
    BY PositionsAre
  <2>2. \A p \in Positions : Ver(p[1]) = Ver(k) => p[1] < k + 1
    BY <1>1, <2>1, VersionsAre
  <2>. QED BY <1>2, <2>2 DEF Of, PlanBefore
<1>9. Sure' = Sure /\ May' = May
  <2>1. Of(recorded_updates') \subseteq Of(recorded_updates) \cup Of({Ver(k)})
    BY <1>0, <1>1 DEF Of
  <2>2. Of(recorded_updates) \subseteq Of(recorded_updates')
    BY <1>0, <1>1 DEF Of
  <2>3. Of(recorded_updates' \cup cut') = Of(recorded_updates \cup cut) \cup Of({Ver(k)})
    BY <1>4 DEF Of
  <2>. QED BY <1>7, <1>8, <2>1, <2>2, <2>3 DEF Sure, May, Of
<1>10. SchemaKnown'
  BY <1>0, <1>9, KnownStays DEF StorageInv
<1>11. AdminsOK'
  <2>1. cut' = {} => cut = {} /\ May' = May
    BY <1>0, <1>9
  <2>. QED BY <1>0, <1>9, <2>1, AdminsStay DEF StorageInv
<1>12. ReachedInOrder'
  <2>1. \A l \in DOMAIN Plan : l < k => Reached(l)
    BY <1>1 DEF StorageInv, PlaceOK
  <2>2. \A l, m \in DOMAIN Plan : l < m /\ Reached(m) => Reached(l)
    BY DEF StorageInv, ReachedInOrder
  <2>. HIDE DEF Reached
  <2>3. \A l, m \in DOMAIN Plan :
          l < m /\ Ver(m) \in recorded_updates' \cup cut' => Ver(l) \in recorded_updates' \cup cut'
    BY <1>5, <2>1, <2>2
  <2>. QED BY <2>3 DEF ReachedInOrder, Reached
<1>13. UncutOK'
  <2>. SUFFICES ASSUME cut' = {}
                PROVE  /\ k + 1 \in 1..(Len(Plan) + 1)
                       /\ \A l \in DOMAIN Plan : Ver(l) \in recorded_updates' <=> l < k + 1
                       /\ tables_there = structs
    BY <1>0, <1>1 DEF UncutOK, FirstOnes
  <2>1. cut = {} /\ recorded_updates' = recorded_updates \cup {Ver(k)}
    BY <1>0, <1>1
  <2>2. FirstOnes(k) /\ tables_there = structs
    BY <1>0, <2>1, UncutAt
  <2>3. \A l \in DOMAIN Plan : l < k + 1 <=> l < k \/ l = k
    BY <1>1, VersionsAre
  <2>4. \A l \in DOMAIN Plan : Ver(l) \in recorded_updates' <=> l < k + 1
    BY <1>1, <2>1, <2>2, <2>3, VersionsAre DEF FirstOnes
  <2>. QED BY <1>1, <2>2, <2>4
<1>14. StuckOK'
  BY <1>0, <1>1 DEF StorageInv, StuckOK
<1>. QED BY <1>3, <1>6, <1>10, <1>11, <1>12, <1>13, <1>14 DEF StorageInv

LEMMA ReadyKeeps ==
  ASSUME StorageInv, StorageReady
  PROVE  StorageInv'
<1>0. /\ st_pc = "run" /\ st_at > Len(plan) /\ st_pc' = "up"
      /\ installed' = installed /\ plan' = plan /\ st_at' = st_at /\ st_next' = st_next /\ structs' = structs
      /\ tables_there' = tables_there /\ recorded_updates' = recorded_updates /\ admins' = admins
      /\ st_faults' = st_faults /\ cut' = cut /\ repeated' = repeated
  BY DEF StorageReady
<1>1. plan = Plan /\ st_at = Len(Plan) + 1 /\ st_at \notin DOMAIN Plan /\ structs = SchemaBefore[Len(Plan) + 1]
  BY <1>0, PlanLength DEF StorageInv, PlaceOK
<1>2. StorageTypeOK'
  BY <1>0 DEF StorageInv, StorageTypeOK
<1>3. PlaceOK'
  BY <1>0, <1>1 DEF StorageInv, PlaceOK, Reached
<1>4. Here' = Here
  BY <1>0 DEF Here, PlanBefore
<1>5. Sure' = Sure /\ May' = May
  BY <1>0, <1>4 DEF Sure, May, Of
<1>6. SchemaKnown' /\ AdminsOK' /\ ReachedInOrder'
  BY <1>0, <1>5, KnownStays, AdminsStay, ReachedStays DEF StorageInv
<1>7. UncutOK'
  <2>. SUFFICES ASSUME cut = {}
                PROVE  \E f \in 1..(Len(Plan) + 1) : FirstOnes(f) /\ tables_there = SchemaBefore[f]
    BY <1>0 DEF UncutOK, FirstOnes
  <2>1. PICK f \in 1..(Len(Plan) + 1) :
          FirstOnes(f) /\ tables_there = IF st_pc = "run" /\ st_at = f THEN structs ELSE SchemaBefore[f]
    BY DEF StorageInv, UncutOK
  <2>. QED BY <1>1, <2>1
<1>8. StuckOK'
  BY <1>0 DEF StorageInv, StuckOK
<1>. QED BY <1>2, <1>3, <1>6, <1>7, <1>8 DEF StorageInv

LEMMA StopKeeps ==
  ASSUME StorageInv, StorageStop
  PROVE  StorageInv'
<1>0. /\ st_pc' = "down" /\ plan' = <<>> /\ cut' = CutHere /\ repeated' = FALSE
      /\ installed' = installed /\ st_at' = st_at /\ st_next' = st_next /\ structs' = structs
      /\ tables_there' = tables_there /\ recorded_updates' = recorded_updates /\ admins' = admins
      /\ (StorageFault \/ st_faults' = st_faults)
  BY DEF StorageStop
<1>1. StorageTypeOK'
  <2>1. cut' \subseteq UpdateVersions
    <3>1. AtUpdate => VersionAt \in UpdateVersions
      BY AtUpdateIs, VersionsAre
    <3>. QED BY <1>0, <3>1 DEF CutHere, StorageInv, StorageTypeOK
  <2>2. st_faults' \in 0..MaxStorageFaults
    BY <1>0, FaultsCount DEF StorageInv, StorageTypeOK
  <2>. QED BY <1>0, <2>1, <2>2 DEF StorageInv, StorageTypeOK
<1>2. PlaceOK' /\ StuckOK'
  BY <1>0 DEF PlaceOK, StuckOK
<1>3. SchemaKnown' /\ AdminsOK' /\ ReachedInOrder' /\ UncutOK'
  BY <1>0, EndKeeps
<1>. QED BY <1>1, <1>2, <1>3 DEF StorageInv

LEMMA StorageNextKeeps == StorageInv /\ [StorageNext]_storageVars => StorageInv'
<1>. SUFFICES ASSUME StorageInv, [StorageNext]_storageVars PROVE StorageInv'
  OBVIOUS
<1>1. CASE UNCHANGED storageVars
  <2>. USE <1>1 DEF storageVars
  <2>1. StorageTypeOK' /\ PlaceOK' /\ ReachedInOrder' /\ StuckOK'
    BY DEF StorageInv, StorageTypeOK, PlaceOK, ReachedInOrder, Reached, StuckOK
  <2>2. Sure' = Sure /\ May' = May
    BY DEF Sure, May, Of, Here, PlanBefore
  <2>3. SchemaKnown' /\ AdminsOK'
    BY <2>2, KnownStays, AdminsStay DEF StorageInv
  <2>4. UncutOK'
    BY DEF StorageInv, UncutOK, FirstOnes
  <2>. QED BY <2>1, <2>3, <2>4 DEF StorageInv
<1>. QED BY <1>1, StartKeeps, ReplayKeeps, ExecuteKeeps, RefusedKeeps, RecordKeeps, ReadyKeeps, StopKeeps DEF StorageNext

LEMMA StorageInvHolds == StorageSpec => []StorageInv
<1>. QED BY InitStorageInv, StorageNextKeeps, PTL DEF StorageSpec

THEOREM StorageTypesHold == StorageSpec => []StorageTypeOK
<1>1. StorageInv => StorageTypeOK
  BY DEF StorageInv
<1>. QED BY <1>1, StorageInvHolds, PTL

LEMMA UpIsComplete == StorageInv => StorageComplete
<1>. SUFFICES ASSUME StorageInv, st_pc = "up"
              PROVE  /\ structs = WholeSchema
                     /\ \A t \in DOMAIN structs : t \in DOMAIN tables_there /\ tables_there[t] = structs[t]
                     /\ admins >= 1
                     /\ cut = {} => tables_there = structs /\ admins = 1 /\ recorded_updates = UpdateVersions
  BY DEF StorageComplete
<1>. DEFINE N == Len(Plan)
<1>1. st_at = N + 1 /\ st_next = 1 /\ structs = SchemaBefore[N + 1] /\ N \in Nat
  BY PlanLength DEF StorageInv, PlaceOK
<1>2. structs = WholeSchema
  BY <1>1, LegalAssumption
<1>3. Here = Positions /\ May \subseteq Positions /\ Sure = Positions
  <2>1. Here = Positions
    BY <1>1, BeforeIs DEF Here
  <2>. QED BY <2>1 DEF Sure, May, Of
<1>4. SchemaInv(structs, Positions, Positions)
  <2>1. N + 1 \in 1..(N + 1)
    BY <1>1
  <2>. QED BY <1>1, <2>1, SchemasAreKnown, BeforeIs
<1>5. \A t \in DOMAIN structs : t \in DOMAIN tables_there /\ tables_there[t] = structs[t]
  <2>. TAKE t \in DOMAIN structs
  <2>1. Lasting(t)
    BY <1>2, AloneAssumption DEF Lasting, TableOf
  <2>2. SchemaInv(tables_there, Positions, May)
    BY <1>3 DEF StorageInv, SchemaKnown
  <2>. QED BY <1>3, <1>4, <2>1, <2>2, CompleteAlike
<1>6. admins >= 1 /\ (cut = {} => admins = 1)
  <2>1. PICK p \in Doing({"insert"}) : AdminAt(p)
    BY AloneAssumption DEF AdminAt, TableOf
  <2>2. p \in Sure /\ p \in May
    BY <1>3, DoingIs DEF May
  <2>. QED BY <2>1, <2>2 DEF StorageInv, AdminsOK
<1>7. ASSUME cut = {} PROVE tables_there = structs /\ recorded_updates = UpdateVersions
  <2>1. PICK f \in 1..(N + 1) : FirstOnes(f) /\ tables_there = SchemaBefore[f]
    BY <1>7 DEF StorageInv, UncutOK
  <2>2. \A k \in DOMAIN Plan : Ver(k) \in recorded_updates
    <3>1. \A k \in DOMAIN Plan : k < st_at
      BY <1>1, PlanLength
    <3>. QED BY <1>7, <3>1 DEF StorageInv, PlaceOK, Reached
  <2>3. f = N + 1
    <3>1. f \notin DOMAIN Plan
      BY <2>1, <2>2 DEF FirstOnes
    <3>. QED BY <1>1, <3>1, PlanLength
  <2>4. UpdateVersions \subseteq recorded_updates
    BY <2>2, PlanAssumption DEF Ver
  <2>. QED BY <1>1, <2>1, <2>3, <2>4 DEF StorageInv, StorageTypeOK
<1>. QED BY <1>2, <1>5, <1>6, <1>7

LEMMA StuckIsHalfDone == StorageInv => StuckOnlyHalfDone
<1>. SUFFICES ASSUME StorageInv, repeated
              PROVE  /\ VersionAt \in cut /\ VersionAt \notin recorded_updates
                     /\ Statement.op \in {"addcolumn", "dropcolumn"}
  BY DEF StuckOnlyHalfDone
<1>1. /\ st_pc = "refused" /\ Ver(st_at) \in cut /\ Ver(st_at) \notin recorded_updates
      /\ StatementOf(<<st_at, st_next>>).op \in {"addcolumn", "dropcolumn"}
  BY DEF StorageInv, StuckOK
<1>2. plan = Plan
  BY <1>1 DEF StorageInv, PlaceOK
<1>. QED BY <1>1, <1>2 DEF VersionAt, Ver, Statement, StatementsAt, StatementOf

THEOREM SchemasAreKept == StorageSpec => []SchemaKept
<1>1. StorageInv => SchemaKept
  BY UpIsComplete, StuckIsHalfDone DEF SchemaKept
<1>. QED BY <1>1, StorageInvHolds, PTL
=============================================================================
