----------------------------- MODULE QuestFiles -----------------------------
(* The files of quests: on disk, in quests_files, and in the cache of      *)
(* EmployFiles, which counts downloads and their sum for server_info.      *)
(*                                                                         *)
(* The commands run on the main thread, quests_files.delete in steps: the  *)
(* file, the row, a look at the cache without its mutex, the cache.  The   *)
(* threads of the web servers look a file up and count the download, each  *)
(* under the mutex.  A file's name on disk is a new uuid, so a file stands *)
(* for its uuid, path and id, which is given once (the database server is  *)
(* not restarted); its quest, size, name and md5 are left out.             *)
EXTENDS Naturals, FiniteSets, FiniteSetsExt

CONSTANTS
  WebThreads,
  MaxFiles, MaxDownloads, MaxQuestFileFaults   \* bounds

ASSUME QuestFilesAssumption == MaxFiles \in Nat /\ MaxDownloads \in Nat /\ MaxQuestFileFaults \in Nat

VARIABLES
  on_disk,             \* the files in web_public_folder/quests
  quests_files, downloads_counter,   \* the rows, and a column of theirs
  next_file,
  cached_files, cached_downloads,    \* m_vCacheQuestFiles and both maps
  all_downloads,       \* m_nAllDownloadsCounter
  deleting,            \* quests_files.delete: its step, file and copied counter
  downloading,         \* the file each web thread has found, 0: none
  files_up, downloads, quest_file_faults,
  half_deleted,        \* auxiliary: files removed from the disk, not from the table
  behind,              \* auxiliary: files whose column was not updated
  overtaken            \* auxiliary: downloads counted after the counter was copied

fileRows == <<quests_files, downloads_counter, next_file>>
fileCache == <<cached_files, cached_downloads, all_downloads>>
fileMarks == <<half_deleted, behind, overtaken>>
filesVars == <<on_disk, fileRows, fileCache, deleting, downloading, files_up, downloads, quest_file_faults, fileMarks>>

QuestFileIds == 1..MaxFiles
NoCounters == [f \in QuestFileIds |-> 0]
NotDeleting == [step |-> "none", file |-> 0, seen |-> 0]
FilesServing == files_up /\ deleting = NotDeleting
QuestFileFault == quest_file_faults < MaxQuestFileFaults /\ quest_file_faults' = quest_file_faults + 1

Total(counters, files) == MapThenSumSet(LAMBDA f : counters[f], files)

FilesInit ==
  /\ on_disk = {} /\ quests_files = {} /\ downloads_counter = NoCounters /\ next_file = 1
  /\ cached_files = {} /\ cached_downloads = NoCounters /\ all_downloads = 0
  /\ deleting = NotDeleting /\ downloading = [w \in WebThreads |-> 0]
  /\ files_up = FALSE /\ downloads = 0 /\ quest_file_faults = 0
  /\ half_deleted = {} /\ behind = {} /\ overtaken = 0
-----------------------------------------------------------------------------
(* EmployFiles::init: the server does not start while a row has no file.   *)
AllRowsHaveFiles == quests_files \subseteq on_disk

FilesStart ==
  /\ ~files_up /\ AllRowsHaveFiles /\ files_up' = TRUE
  /\ cached_files' = quests_files /\ cached_downloads' = downloads_counter
  /\ all_downloads' = Total(downloads_counter, quests_files)
  /\ behind' = {} /\ overtaken' = 0
  /\ UNCHANGED <<on_disk, fileRows, deleting, downloading, downloads, quest_file_faults, half_deleted>>

FilesStop ==
  /\ files_up /\ QuestFileFault /\ files_up' = FALSE
  /\ cached_files' = {} /\ cached_downloads' = NoCounters /\ all_downloads' = 0
  /\ deleting' = NotDeleting /\ downloading' = [w \in WebThreads |-> 0]
  /\ UNCHANGED <<on_disk, fileRows, downloads, fileMarks>>
-----------------------------------------------------------------------------
(* quests_files.upload, addFile and registerFile.                          *)
Upload ==
  /\ FilesServing /\ next_file <= MaxFiles /\ next_file' = next_file + 1
  /\ on_disk' = on_disk \cup {next_file}
  /\ quests_files' = quests_files \cup {next_file} /\ cached_files' = cached_files \cup {next_file}
  /\ UNCHANGED <<downloads_counter, cached_downloads, all_downloads, deleting, downloading, files_up,
                 downloads, quest_file_faults, fileMarks>>

(* The INSERT is refused, or the process ends before it.                   *)
UploadRefused ==
  /\ FilesServing /\ QuestFileFault /\ next_file <= MaxFiles /\ next_file' = next_file + 1
  /\ on_disk' = on_disk \cup {next_file}
  /\ UNCHANGED <<quests_files, downloads_counter, fileCache, deleting, downloading, files_up, downloads, fileMarks>>
-----------------------------------------------------------------------------
(* quests_files.delete, removeFileById and unregisterFile.                 *)
DeleteFile(f) ==
  /\ FilesServing /\ f \in quests_files /\ f \in on_disk
  /\ on_disk' = on_disk \ {f} /\ half_deleted' = half_deleted \cup {f}
  /\ deleting' = [step |-> "row", file |-> f, seen |-> 0]
  /\ UNCHANGED <<fileRows, fileCache, downloading, files_up, downloads, quest_file_faults, behind, overtaken>>

DeleteFileRow ==
  /\ deleting.step = "row"
  /\ quests_files' = quests_files \ {deleting.file} /\ half_deleted' = half_deleted \ {deleting.file}
  /\ deleting' = [deleting EXCEPT !.step = "copy"]
  /\ UNCHANGED <<on_disk, downloads_counter, next_file, fileCache, downloading, files_up, downloads,
                 quest_file_faults, behind, overtaken>>

DeleteFileRowRefused ==
  /\ deleting.step = "row" /\ QuestFileFault /\ deleting' = NotDeleting
  /\ UNCHANGED <<on_disk, fileRows, fileCache, downloading, files_up, downloads, fileMarks>>

CopyCached ==
  /\ deleting.step = "copy"
  /\ deleting' = [deleting EXCEPT !.step = "unregister", !.seen = cached_downloads[deleting.file]]
  /\ UNCHANGED <<on_disk, fileRows, fileCache, downloading, files_up, downloads, quest_file_faults, fileMarks>>

DownloadsKept == 0

DownloadsGone == deleting.seen

UnregisterFile ==
  /\ deleting.step = "unregister" /\ deleting' = NotDeleting
  /\ all_downloads' = all_downloads - DownloadsGone
  /\ cached_files' = cached_files \ {deleting.file}
  /\ UNCHANGED <<on_disk, fileRows, cached_downloads, downloading, files_up, downloads, quest_file_faults, fileMarks>>
-----------------------------------------------------------------------------
(* findQuestFileByFilePath on a web thread, and updateDownloadsCounter,    *)
(* which writes the new counter to the row while it holds the mutex.       *)
FindFile(w, f) ==
  /\ files_up /\ downloading[w] = 0 /\ f \in cached_files /\ downloads < MaxDownloads
  /\ downloading' = [downloading EXCEPT ![w] = f] /\ downloads' = downloads + 1
  /\ UNCHANGED <<on_disk, fileRows, fileCache, deleting, files_up, quest_file_faults, fileMarks>>

CountInCache(w) ==
  LET f == downloading[w]
  IN /\ f \in cached_files /\ downloading' = [downloading EXCEPT ![w] = 0]
     /\ cached_downloads' = [cached_downloads EXCEPT ![f] = cached_downloads[f] + 1]
     /\ all_downloads' = all_downloads + 1
     /\ overtaken' = IF deleting.step = "unregister" /\ deleting.file = f THEN overtaken + 1 ELSE overtaken
     /\ UNCHANGED <<on_disk, quests_files, next_file, cached_files, deleting, files_up, downloads, half_deleted>>

CountDownload(w) ==
  LET f == downloading[w]
  IN /\ CountInCache(w)
     /\ downloads_counter' = IF f \in quests_files THEN [downloads_counter EXCEPT ![f] = cached_downloads'[f]]
                             ELSE downloads_counter
     /\ behind' = behind \ {f}
     /\ UNCHANGED quest_file_faults

CountRefused(w) ==
  /\ CountInCache(w) /\ QuestFileFault /\ behind' = behind \cup {downloading[w]}
  /\ UNCHANGED downloads_counter

(* The file was deleted since it was found.                                *)
CountNothing(w) ==
  /\ downloading[w] # 0 /\ downloading[w] \notin cached_files
  /\ downloading' = [downloading EXCEPT ![w] = 0]
  /\ UNCHANGED <<on_disk, fileRows, fileCache, deleting, files_up, downloads, quest_file_faults, fileMarks>>
-----------------------------------------------------------------------------
FilesNext ==
  \/ FilesStart \/ FilesStop \/ Upload \/ UploadRefused
  \/ DeleteFileRow \/ DeleteFileRowRefused \/ CopyCached \/ UnregisterFile
  \/ \E f \in QuestFileIds : DeleteFile(f) \/ \E w \in WebThreads : FindFile(w, f)
  \/ \E w \in WebThreads : CountDownload(w) \/ CountRefused(w) \/ CountNothing(w)

FilesSpec == FilesInit /\ [][FilesNext]_filesVars
-----------------------------------------------------------------------------
FilesTypeOK ==
  /\ on_disk \subseteq QuestFileIds /\ quests_files \subseteq QuestFileIds /\ cached_files \subseteq QuestFileIds
  /\ downloads_counter \in [QuestFileIds -> Nat] /\ cached_downloads \in [QuestFileIds -> Nat]
  /\ next_file \in 1..(MaxFiles + 1) /\ all_downloads \in Nat
  /\ deleting \in [step : {"none", "row", "copy", "unregister"}, file : 0..MaxFiles, seen : Nat]
  /\ downloading \in [WebThreads -> 0..MaxFiles]
  /\ files_up \in BOOLEAN /\ downloads \in 0..MaxDownloads /\ quest_file_faults \in 0..MaxQuestFileFaults
  /\ half_deleted \subseteq QuestFileIds /\ behind \subseteq QuestFileIds /\ overtaken \in Nat

(* The server starts again with every file it has a row of, unless a       *)
(* quests_files.delete removed the file and did not get to the row.        *)
RowsHaveFiles == quests_files \subseteq on_disk \cup half_deleted

Leaving == IF deleting.step \in {"copy", "unregister"} THEN {deleting.file} ELSE {}
CacheIsTable ==
  /\ cached_files = quests_files \cup Leaving
  /\ \A f \in quests_files \ behind : cached_downloads[f] = downloads_counter[f]

(* The sum in server_info is that of the files, but for downloads of a     *)
(* file counted while it was being taken out of the cache.                 *)
SumIsExact ==
  deleting.step # "unregister" => all_downloads = Total(cached_downloads, cached_files) + overtaken

(* Disk, table, cache and sum agree after any uploads, deletions and       *)
(* downloads, at any moment of each, and across restarts.                  *)
FilesTrue == RowsHaveFiles /\ (files_up => CacheIsTable /\ SumIsExact)
=============================================================================
