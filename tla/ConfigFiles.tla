---------------------------- MODULE ConfigFiles ----------------------------
(***************************************************************************)
(* The dashboard's JSON files under config/: the stores that hold them in  *)
(* memory and write them back, import (server/src/hardening/backup.ts),    *)
(* backups, and what a restart finds.                                      *)
(*                                                                         *)
(* Two ways of writing.  nodes.json and desired-state.json go through      *)
(* atomicWriteJson, which makes the text at once and then awaits writing   *)
(* it and renaming it.  The other stores write and rename in one step and  *)
(* only log an error.  A file's content is the set of edits it reflects:   *)
(* every store keeps its records in one value and writes all of it.        *)
(***************************************************************************)
EXTENDS Naturals, FiniteSets, Sequences

CONSTANTS
  AsyncFile, SyncFile,
  Edit,          \* edits of the operator and of the program, each made at most once
  BackupsKeep    \* settings.retention.backupsKeep

File == AsyncFile \cup SyncFile

ASSUME ConfigConstants == AsyncFile \cap SyncFile = {} /\ IsFiniteSet(Edit) /\ BackupsKeep \in Nat \ {0}

VARIABLES
  mem,           \* per file: the store's content
  disk,          \* per file: content, and whether the text is whole JSON
  writes,        \* atomicWriteJson calls under way
  used,          \* edits made so far
  answered,      \* per file: edits whose caller was told they are done
  doubt,         \* history: files whose last write may not have been the newest content
  export,        \* what GET /api/system/export collected last
  backups,       \* numbers of the directories under config/backups
  attempts       \* history: per attempt to make a backup, whether it was completed

fileVars == <<mem, disk, writes, used, answered, doubt>>
backupVars == <<backups, attempts>>
configVars == <<fileVars, export, backupVars>>

Whole(content) == [whole |-> TRUE, has |-> content]
Torn == [whole |-> FALSE, has |-> {}]
InFlight(f) == {w \in writes : w.file = f}

----------------------------------------------------------------------------
(* Stores.                                                                 *)

\* A store that writes in one step: settings, clients, served models, recipes,
\* deployments, clocks, schedules, rules, webhooks.  If the write fails the caller
\* is answered all the same.
Persist(f, content) ==
  \/ disk' = [disk EXCEPT ![f] = Whole(content)] /\ doubt' = doubt \ {f}
  \/ disk' = disk /\ doubt' = doubt \cup {f}

SyncEdit(f, e) ==
  /\ f \in SyncFile /\ e \in Edit \ used
  /\ mem' = [mem EXCEPT ![f] = @ \cup {e}]
  /\ Persist(f, mem'[f])
  /\ used' = used \cup {e} /\ answered' = [answered EXCEPT ![f] = @ \cup {e}]
  /\ UNCHANGED <<writes, export, backupVars>>

\* A write that changes nothing an operator asked for, as ClientsStore.verify does on
\* every request with a key (lastSeenAt).
Refresh(f) ==
  /\ f \in SyncFile /\ Persist(f, mem[f])
  /\ UNCHANGED <<mem, writes, used, answered, export, backupVars>>

\* DesiredStateStore.patch, NodeDirectory.upsert, remove: memory, then atomicWriteJson.
AsyncEdit(f, e) ==
  /\ f \in AsyncFile /\ e \in Edit \ used
  /\ mem' = [mem EXCEPT ![f] = @ \cup {e}]
  /\ writes' = writes \cup {[file |-> f, edit |-> e, has |-> mem'[f]]}
  /\ doubt' = IF InFlight(f) = {} THEN doubt ELSE doubt \cup {f}
  /\ used' = used \cup {e}
  /\ UNCHANGED <<disk, answered, export, backupVars>>

\* Fault: the caller is told when the text has been written, before it is renamed.
LandedEarly(w) ==
  /\ answered' = [answered EXCEPT ![w.file] = @ \cup {w.edit}]
  /\ disk' = disk /\ writes' = writes \ {w}

\* Each call has a temporary file of its own, and the renames land in any order.
Landed(w) ==
  /\ disk' = [disk EXCEPT ![w.file] = Whole(w.has)]
  /\ answered' = [answered EXCEPT ![w.file] = @ \cup {w.edit}]
  /\ writes' = writes \ {w}

\* A write that is not overlapped by another one settles what its file holds.
Rename(w) ==
  /\ w \in writes /\ Landed(w)
  /\ doubt' = IF w.has = mem[w.file] /\ InFlight(w.file) = {w} THEN doubt \ {w.file} ELSE doubt
  /\ UNCHANGED <<mem, used, export, backupVars>>

\* The caller gets the error; the edit stays in memory.
WriteFails(w) ==
  /\ w \in writes /\ writes' = writes \ {w}
  /\ UNCHANGED <<mem, disk, used, answered, doubt, export, backupVars>>

----------------------------------------------------------------------------
(* Export, import, backup.                                                 *)

Exported == {f \in File : f \in DOMAIN export}

\* Every file that parses.
Collected == [f \in {g \in File : disk[g].whole} |-> disk[f].has]

Export == export' = Collected /\ UNCHANGED <<fileVars, backupVars>>

\* The files after an import that wrote those in done and was cut off in half.
Imported(done, half) ==
  [f \in File |-> IF f \in done THEN Whole(export[f]) ELSE IF f \in half THEN Torn ELSE disk[f]]

\* importConfig writes each of the manifest's files in place; memory keeps what it
\* has until a restart.
Import(files) ==
  /\ files # {} /\ files \subseteq Exported
  /\ disk' = Imported(files, {})
  /\ doubt' = doubt \cup files
  /\ UNCHANGED <<mem, writes, used, answered, export, backupVars>>

\* createBackup, in one step: the checkpointed database, a copy of each file and, last,
\* the manifest that lists the backup.  If a copy fails the directory stays behind.
Backup(limit) ==
  /\ Len(attempts) < limit
  /\ \E complete \in BOOLEAN : attempts' = Append(attempts, complete)
  /\ backups' = backups \cup {Len(attempts) + 1}
  /\ UNCHANGED <<fileVars, export>>

\* Fault: the names are not reversed before the slice.
KeptOldest(dirs) == {n \in dirs : Cardinality({m \in dirs : m < n}) < BackupsKeep}

\* A directory's name is the time it was made: the newest are kept, listed or not.
KeptBackups(dirs) == {n \in dirs : Cardinality({m \in dirs : m > n}) < BackupsKeep}

PruneBackups == backups' = KeptBackups(backups) /\ UNCHANGED attempts

----------------------------------------------------------------------------
(* Restart.                                                                *)

\* Each store loads its file; text that does not parse leaves it empty.
Load(file) == IF file.whole THEN file.has ELSE {}

\* On a disk as the process left it.  Calls under way are gone, and an edit that no
\* file holds is gone for good.
LoadAll(files) ==
  /\ disk' = files /\ mem' = [f \in File |-> Load(files[f])]
  /\ writes' = {}
  /\ answered' = [f \in File |-> answered[f] \cap mem'[f]]
  /\ doubt' = {f \in File : ~files[f].whole}
  /\ UNCHANGED <<used, export, backupVars>>

ConfigInit ==
  /\ mem = [f \in File |-> {}] /\ disk = [f \in File |-> Whole({})]
  /\ writes = {} /\ used = {} /\ answered = [f \in File |-> {}] /\ doubt = {}
  /\ export = [f \in {} |-> {}]
  /\ backups = {} /\ attempts = <<>>

----------------------------------------------------------------------------
\* What the operator was told is done is in the file, and so survives a restart, in
\* whatever order requests, writes, renames, imports and crashes come; and the file is
\* whole.  The exceptions are those of the code: writes of the same file that
\* overlap (atomicWrite.ts:8), a write that failed and was only logged, and an
\* import, each until the next write that is alone.
AnsweredIsStored ==
  \A f \in File \ doubt : disk[f].whole /\ answered[f] \subseteq disk[f].has

\* A backup is only ever deleted to make room for BackupsKeep newer ones (settings.ts:16),
\* some of which may be attempts that failed.
GoodBackupsKept ==
  \A n \in 1..Len(attempts) : n \notin backups => Len(attempts) - n >= BackupsKeep
=============================================================================
