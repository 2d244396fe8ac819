------------------------------- MODULE Backup -------------------------------
(* Taking a backup of a running system, and restoring it.                    *)
(*                                                                           *)
(* packages/backup/src/cli.ts and services/backup-export.ts copy the files   *)
(* first, one after the other, then dump the database in one snapshot, then  *)
(* ask it for its storage keys and its row counts in two more, while the     *)
(* server of module Attachments goes on.  The restore runs beside the server *)
(* too, as docs/deployment/docker.md gives it.  Row counts of the two tables *)
(* modelled stand for those of every table; compression, encryption and the  *)
(* layout of the archive are abstracted to its contents and whether it is    *)
(* intact.                                                                   *)
EXTENDS Attachments, Secrets

VARIABLES
  schema,      \* the tables exist
  backup,      \* local state of the backup under way
  archive,     \* the archive on disk, and whether it is undamaged
  restore,     \* local state of the restore, or how the last one ended
  fresh,       \* history: rows committed since the backup began
  torn,        \* history: files copied while they were being written
  disturbed    \* history: counts changed between a dump and the counting

backupVars == <<schema, backup, archive, restore, fresh, torn, disturbed>>
vars == <<attachmentVars, secretVars, backupVars>>

Ways == {"cli", "allow missing", "http"}
NoRows  == [k \in Keys |-> "none"]
NoPosts == [m \in Messages |-> {}]
Counts  == (0..Cardinality(Keys)) \X (0..Cardinality(Messages))

CountsOf(r, s) ==
  <<Cardinality({k \in Keys : r[k] # "none"}),
    Cardinality({m \in Messages : s[m] # {}})>>

RowKeys(r)  == {k \in Keys : r[k] # "none"}
FileKeys(f) == {k \in Keys : f[k] # "none"}

\* reconcile(): rows whose file is absent.
Missing(keys, f) == keys \ FileKeys(f)

NoBackup == [step |-> "idle", way |-> "cli", left |-> {}, files |-> NoRows,
             row |-> NoRows, sent |-> NoPosts, smtp |-> NoSetting, keys |-> {}]
NoArchive == [there |-> FALSE, intact |-> FALSE, way |-> "cli", files |-> NoRows,
              row |-> NoRows, sent |-> NoPosts, smtp |-> NoSetting, keyId |-> 1,
              counts |-> <<0, 0>>]
NoRestore == [step |-> "never", warned |-> FALSE, left |-> {}, keys |-> {}, counts |-> <<0, 0>>]

TypeOK ==
  /\ AttachmentsTypeOK /\ SecretsTypeOK
  /\ schema \in BOOLEAN
  /\ backup \in [step: {"idle", "files", "dumped", "keys", "refused"}, way: Ways,
                 left: SUBSET Keys, files: Files, row: Rows, sent: Posts,
                 smtp: Setting, keys: SUBSET Keys]
  /\ archive \in [there: BOOLEAN, intact: BOOLEAN, way: Ways, files: Files,
                  row: Rows, sent: Posts, smtp: Setting, keyId: KeyIds,
                  counts: Counts]
  /\ restore \in [step: {"never", "opened", "dropped", "writing", "checking",
                         "died", "inconsistent", "mismatch", "complete"},
                  warned: BOOLEAN, left: SUBSET Keys, keys: SUBSET Keys,
                  counts: Counts]
  /\ schema = FALSE => row = NoRows /\ sent = NoPosts
  /\ fresh \subseteq Keys /\ torn \subseteq Keys /\ disturbed \in BOOLEAN

Init ==
  /\ AttachmentsInit /\ SecretsInit
  /\ schema = TRUE
  /\ backup = NoBackup
  /\ archive = NoArchive
  /\ restore = NoRestore
  /\ fresh = {} /\ torn = {} /\ disturbed = FALSE

-----------------------------------------------------------------------------
(* The server goes on.                                                       *)

\* From the dump to the counts, and from the restored dump to the counts.
Counting == backup.step \in {"dumped", "keys"} \/ restore.step = "writing"

\* A backup takes less than UNCLAIMED_ATTACHMENT_TTL.
Young == IF backup.step \in {"files", "dumped", "keys"} THEN fresh ELSE {}

\* Its statements fail while there are no tables.
Beside ==
  /\ schema
  /\ fresh' = fresh \cup (RowKeys(row') \ RowKeys(row))
  /\ disturbed' = (disturbed \/ (Counting /\ CountsOf(row', sent') # CountsOf(row, sent)))
  /\ UNCHANGED <<secretVars, schema, backup, archive, restore, torn>>

\* Files, time and crashes need no tables.
Apart == UNCHANGED <<secretVars, backupVars>>

\* The HTTP export copies the files and runs pg_dump without yielding: the
\* server takes no step of its own then, but a statement it has already sent
\* may still be carried out.
Awake == ~(backup.step = "files" /\ backup.way = "http")

\* Bound: a behaviour has uploads or settings, which only meet in the backup
\* and the restore, and these copy both alike.
OnlyUploads  == smtp = NoSetting /\ Putting = {} /\ env.current = 1
OnlySettings == born = {}

InSettings == schema /\ OnlySettings /\ UNCHANGED <<attachmentVars, backupVars>>

\* Bound: the keys stay as they are once a restore has begun.
InEnvironment ==
  restore.step = "never" /\ OnlySettings /\ UNCHANGED <<attachmentVars, backupVars>>

-----------------------------------------------------------------------------
(* Backup.                                                                   *)

\* Bound: one archive.
BackupBegin(way) ==
  /\ backup.step \in {"idle", "refused"} /\ ~archive.there /\ schema
  /\ restore.step = "never"
  /\ backup' = [NoBackup EXCEPT !.step = "files", !.way = way, !.left = Keys]
  /\ fresh' = {} /\ torn' = {}
  /\ UNCHANGED <<attachmentVars, secretVars, schema, archive, restore, disturbed>>

\* readAttachments: the walk reaches a file, or the place where it would be.
CopyFile(k) ==
  /\ backup.step \in {"files", "dumped"} /\ k \in backup.left
  /\ backup' = [backup EXCEPT !.left = @ \ {k}, !.files[k] = file[k]]
  /\ torn' = IF file[k] = "part" THEN torn \cup {k} ELSE torn
  /\ UNCHANGED <<attachmentVars, secretVars, schema, archive, restore, fresh, disturbed>>

\* Mutation: the dump may be taken before the files are copied.
DumpAnyTime == TRUE

FilesCopied == backup.left = {}

\* pg_dump, in one snapshot.
Dump ==
  /\ backup.step = "files" /\ FilesCopied
  /\ backup' = [backup EXCEPT !.step = "dumped", !.row = row, !.sent = sent,
                               !.smtp = smtp]
  /\ disturbed' = FALSE
  /\ UNCHANGED <<attachmentVars, secretVars, schema, archive, restore, fresh, torn>>

\* SELECT storage_key FROM message_attachments
ReadKeys ==
  /\ backup.step = "dumped" /\ FilesCopied
  /\ backup' = [backup EXCEPT !.step = "keys", !.keys = RowKeys(row)]
  /\ UNCHANGED <<attachmentVars, secretVars, schema, archive, restore, fresh, torn, disturbed>>

Refused ==
  /\ Missing(backup.keys, backup.files) # {}
  /\ backup.way # "allow missing"

\* The rows are counted, the two halves are compared and the archive is
\* written.
Write ==
  /\ backup.step = "keys" /\ ~Refused
  /\ archive' = [there |-> TRUE, intact |-> TRUE, way |-> backup.way,
                 files |-> backup.files, row |-> backup.row,
                 sent |-> backup.sent, smtp |-> backup.smtp,
                 keyId |-> env.current, counts |-> CountsOf(row, sent)]
  /\ backup' = NoBackup
  /\ UNCHANGED <<attachmentVars, secretVars, schema, restore, fresh, torn, disturbed>>

Refuse ==
  /\ backup.step = "keys" /\ Refused
  /\ backup' = [backup EXCEPT !.step = "refused"]
  /\ UNCHANGED <<attachmentVars, secretVars, schema, archive, restore, fresh, torn, disturbed>>

\* The archive is truncated or altered where it is kept: a file in it is cut
\* short.
Damage(k) ==
  /\ archive.files[k] = "whole" /\ restore.step = "never"
  /\ archive' = [archive EXCEPT !.intact = FALSE, !.files[k] = "part"]
  /\ UNCHANGED <<attachmentVars, secretVars, schema, backup, restore, fresh, torn, disturbed>>

-----------------------------------------------------------------------------
(* Restore.                                                                  *)

\* The machine is lost; the restore is to go onto an empty one.
Lose ==
  /\ archive.there /\ restore.step = "never" /\ schema
  /\ schema' = FALSE
  /\ row' = NoRows /\ sent' = NoPosts /\ file' = NoRows
  /\ upload' = Waiting /\ send' = NoPosts /\ doomed' = {}
  /\ smtp' = NoSetting /\ put' = [w \in Writers |-> Unbegun]
  /\ UNCHANGED <<env, collided, born, old, backup, archive, restore, fresh, torn, disturbed>>

\* Mutation: the digests are not compared.
AnyArchive == archive.there

Verified == archive.there /\ archive.intact

\* Mutation: the key ids are not compared.
NeverWarned == FALSE

\* The id in the manifest is that of the key current when it was written.
OtherKey == archive.keyId # env.current

\* open(): the whole archive is read and checked first.  Bound: one restore.
RestoreOpen ==
  /\ restore.step = "never" /\ Verified
  /\ restore' = [NoRestore EXCEPT !.step = "opened", !.warned = OtherKey]
  /\ UNCHANGED <<attachmentVars, secretVars, schema, backup, archive, fresh, torn, disturbed>>

\* --force: DROP SCHEMA waits for open transactions.  A pass of the sweep is
\* taken to have removed its files by then.
DropSchema ==
  /\ restore.step = "opened" /\ schema
  /\ upload = Waiting /\ Locked = {} /\ doomed = {} /\ Putting = {}
  /\ schema' = FALSE
  /\ row' = NoRows /\ sent' = NoPosts /\ smtp' = NoSetting
  /\ UNCHANGED <<env, put, collided, file, born, old, requests, backup, archive, restore, fresh,
                 torn, disturbed>>

\* Mutation: the dump is applied without its table definitions.
LoadDataOnly ==
  /\ restore.step = "opened" /\ ~schema
  /\ row' = archive.row /\ sent' = archive.sent /\ smtp' = archive.smtp
  /\ restore' = [restore EXCEPT !.step = "writing", !.left = FileKeys(archive.files)]
  /\ UNCHANGED <<env, put, collided, schema, file, born, old, requests, backup,
                 archive, fresh, torn, disturbed>>

\* Mutation: psql goes on after a statement that failed.
LoadHalf ==
  /\ restore.step = "opened" /\ ~schema
  /\ schema' = TRUE
  /\ row' = NoRows /\ sent' = archive.sent /\ smtp' = archive.smtp
  /\ restore' = [restore EXCEPT !.step = "writing", !.left = FileKeys(archive.files)]
  /\ UNCHANGED <<env, put, collided, file, born, old, requests, backup, archive,
                 fresh, torn, disturbed>>

\* psql runs the dump and stops at the first statement that fails.
Load ==
  /\ restore.step = "opened" /\ ~schema
  /\ schema' = TRUE
  /\ row' = archive.row /\ sent' = archive.sent /\ smtp' = archive.smtp
  /\ restore' = [restore EXCEPT !.step = "writing", !.left = FileKeys(archive.files)]
  /\ UNCHANGED <<env, put, collided, file, born, old, requests, backup, archive,
                 fresh, torn, disturbed>>

WriteFile(k) ==
  /\ restore.step = "writing" /\ k \in restore.left
  /\ file' = [file EXCEPT ![k] = archive.files[k]]
  /\ restore' = [restore EXCEPT !.left = @ \ {k}]
  /\ UNCHANGED <<secretVars, tables, born, old, requests, schema, backup, archive,
                 fresh, torn, disturbed>>

\* The restored database is asked what it expects ...
Ask ==
  /\ restore.step = "writing" /\ restore.left = {}
  /\ restore' = [restore EXCEPT !.step = "checking", !.keys = RowKeys(row),
                                !.counts = CountsOf(row, sent)]
  /\ UNCHANGED <<attachmentVars, secretVars, schema, backup, archive, fresh, torn, disturbed>>

AllThere == Missing(restore.keys, file) = {}

\* ... and the disk is searched for it.
Compare ==
  /\ restore.step = "checking"
  /\ restore' = [NoRestore EXCEPT !.warned = restore.warned, !.step =
       IF ~AllThere THEN "inconsistent"
       ELSE IF restore.counts # archive.counts THEN "mismatch" ELSE "complete"]
  /\ UNCHANGED <<attachmentVars, secretVars, schema, backup, archive, fresh, torn, disturbed>>

BackupFails ==
  /\ backup.step \in {"files", "dumped", "keys"}
  /\ backup' = NoBackup
  /\ UNCHANGED <<attachmentVars, secretVars, schema, archive, restore, fresh, torn, disturbed>>

\* The export is a request of the server that crashes.
ExportDies ==
  /\ backup' = IF backup.way = "http" THEN NoBackup ELSE backup
  /\ UNCHANGED <<secretVars, schema, archive, restore, fresh, torn, disturbed>>

RestoreDies ==
  /\ restore.step \in {"opened", "writing", "checking"}
  /\ restore' = [NoRestore EXCEPT !.step = "died", !.warned = restore.warned]
  /\ UNCHANGED <<attachmentVars, secretVars, schema, backup, archive, fresh, torn, disturbed>>

-----------------------------------------------------------------------------

Next ==
  \/ \E k \in Keys : UploadInsert(k) /\ OnlyUploads /\ Awake /\ Beside
  \/ WriteBegin /\ Awake /\ Apart
  \/ WriteEnd /\ Awake /\ Apart
  \/ UploadCommit /\ Beside
  \/ UploadFails /\ Apart
  \/ \E m \in Messages, K \in SUBSET Keys : SendClaim(m, K) /\ Awake /\ Beside
  \/ \E m \in Messages : SendCommit(m) /\ Beside
  \/ \E m \in Messages : SendRollback(m) /\ Apart
  \/ \E k \in Keys \ Young : Age(k) /\ Apart
  \/ SweepDelete /\ Beside
  \/ \E k \in Keys : SweepRemove(k) /\ Awake /\ Apart
  \/ \E k \in Keys : SweepFails(k) /\ Awake /\ Apart
  \/ Crash /\ ExportDies
  \/ \E w \in Writers, p \in {"omitted", "null", "given"} : PutRead(w, p) /\ Awake /\ InSettings
  \/ \E w \in Writers : PutCommit(w) /\ InSettings
  \/ \E w \in Writers : PutFails(w) /\ InSettings
  \/ Rotate /\ InEnvironment
  \/ EndRotation /\ InEnvironment
  \/ \E way \in Ways : BackupBegin(way)
  \/ \E k \in Keys : CopyFile(k) \/ WriteFile(k)
  \/ \E k \in Keys : Damage(k)
  \/ Dump \/ ReadKeys \/ Write \/ Refuse \/ BackupFails \/ Lose
  \/ RestoreOpen \/ DropSchema \/ Load \/ Ask \/ Compare \/ RestoreDies

Spec == Init /\ [][Next]_vars

-----------------------------------------------------------------------------
(* What must hold.                                                           *)

Settled == schema /\ restore.step \in {"never", "complete"}

\* A row always has its file, through crashes, sweeps and a restore that says
\* it is complete.  A restored file may be cut short if it was copied while it
\* was being written, never because the archive was damaged.
RowHasFile ==
  Settled => \A k \in RowKeys(row) : file[k] = "whole" \/ (k \in torn /\ file[k] = "part")

\* A message is there with all the files it was sent with, or not at all, and
\* no file is in two; a restored database keeps that.
MessageWhole ==
  /\ \A m \in Messages : \A k \in sent[m] : row[k] = m
  /\ \A k \in Keys : row[k] \in Messages => k \in sent[row[k]]

\* Nothing of a message is lost or shared, neither on disk nor in the tables.
FilesWhole == RowHasFile /\ MessageWhole

\* What was sent is not taken away by a sweep or by another message.
SentStays ==
  [][\A k \in Keys :
       row[k] \in Messages /\ row'[k] # row[k] => schema' # schema]_vars

\* A backup is refused only for rows that appeared while it was being taken:
\* the system it looks at is never inconsistent by itself.
RefusedOnlyFresh ==
  backup.step = "refused" => Missing(backup.keys, backup.files) \subseteq fresh

\* Files first: every row in an archive has its file there, unless it was
\* asked for with rows that have none.
ArchiveComplete ==
  archive.there /\ archive.way # "allow missing" =>
    Missing(RowKeys(archive.row), archive.files) = {}

\* A backup of a running server is worth having: complete when it is written,
\* and refused only for what arrived while it was being taken.
BackupSound == ArchiveComplete /\ RefusedOnlyFresh

\* A restore that does not reproduce the counts was disturbed, when the backup
\* was taken or while it ran.
MismatchExplained == restore.step = "mismatch" => disturbed

\* A restore that did not warn of another key leaves a readable password, if
\* the archive's was encrypted under the key its manifest names.
UnwarnedReadable ==
  /\ restore.step = "complete" /\ ~restore.warned
  /\ archive.smtp.key \subseteq {archive.keyId}
  => Readable

\* What a restore says at its end is so: it complains about counts only when
\* something interfered, and keeps quiet about keys only when they fit.
RestoreHonest == MismatchExplained /\ UnwarnedReadable

-----------------------------------------------------------------------------
(* The server, until its data are lost or replaced, implements MessageFiles. *)

InService == schema /\ restore.step = "never"

\* A row without its file, or with a part of it, is no status at all.
StatusOf(k) ==
  IF row[k] # "none" THEN IF file[k] = "whole" THEN row[k] ELSE "broken"
  ELSE IF k \in born \ upload.key THEN "gone" ELSE "fresh"

Abstract ==
  INSTANCE MessageFiles WITH
    inService <- InService,
    status <- [k \in Keys |-> IF InService THEN StatusOf(k) ELSE "fresh"],
    posted <- IF InService THEN sent ELSE NoPosts

\* Whatever uploads, sends, sweeps, crashes and backups do side by side, each
\* file goes its way as if every one of them were a single step: offered whole,
\* sent with all the others of its message, and kept; or given up.
FilesAreKept == Abstract!Spec

=============================================================================
