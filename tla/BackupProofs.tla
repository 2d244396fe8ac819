---------------------------- MODULE BackupProofs ----------------------------
(* What holds of Backup for any uploads, messages, settings requests and     *)
(* keys: types, whole messages, rows that have their files, archives that    *)
(* are complete, and that the server implements MessageFiles until its data  *)
(* are lost or replaced.                                                     *)
EXTENDS Backup, FiniteSetTheorems, TLAPS

-----------------------------------------------------------------------------
(* Types.                                                                    *)

LEMMA CountsType ==
  ASSUME NEW r \in Rows, NEW s \in Posts
  PROVE  CountsOf(r, s) \in Counts
<1>1. /\ IsFiniteSet({k \in Keys : r[k] # "none"})
      /\ Cardinality({k \in Keys : r[k] # "none"}) \in 0..Cardinality(Keys)
  BY AttachmentsAssumption, FS_Subset, FS_CardinalityType, SMT
<1>2. Cardinality({m \in Messages : s[m] # {}}) \in 0..Cardinality(Messages)
  BY AttachmentsAssumption, FS_Subset, FS_CardinalityType, SMT
<1> QED BY <1>1, <1>2 DEF CountsOf, Counts

LEMMA InitTyped == Init => TypeOK
<1> SUFFICES ASSUME Init PROVE TypeOK
  OBVIOUS
<1>1. AttachmentsTypeOK
  BY DEF Init, AttachmentsInit, AttachmentsTypeOK, Rows, Files, Posts, Waiting
<1>2. SecretsTypeOK
  <2>1. NoSetting \in Setting /\ 1 \in KeyIds
    BY SecretsAssumption DEF NoSetting, Setting, KeyIds
  <2> QED BY <2>1 DEF Init, SecretsInit, SecretsTypeOK, Unbegun
<1>3. NoSetting \in Setting /\ NoRows \in Rows /\ NoRows \in Files /\ NoPosts \in Posts
  BY DEF NoSetting, Setting, NoRows, Rows, Files, NoPosts, Posts
<1>4. 1 \in KeyIds
  BY SecretsAssumption DEF KeyIds
<1>5. <<0, 0>> \in Counts
  BY AttachmentsAssumption, FS_CardinalityType DEF Counts
<1>6. backup \in [step: {"idle", "files", "dumped", "keys", "refused"}, way: Ways,
                  left: SUBSET Keys, files: Files, row: Rows, sent: Posts,
                  smtp: Setting, keys: SUBSET Keys]
  BY <1>3 DEF Init, NoBackup, Ways
<1>7. archive \in [there: BOOLEAN, intact: BOOLEAN, way: Ways, files: Files,
                   row: Rows, sent: Posts, smtp: Setting, keyId: KeyIds,
                   counts: Counts]
  BY <1>3, <1>4, <1>5 DEF Init, NoArchive, Ways
<1>8. restore \in [step: {"never", "opened", "dropped", "writing", "checking",
                          "died", "inconsistent", "mismatch", "complete"},
                   warned: BOOLEAN, left: SUBSET Keys, keys: SUBSET Keys,
                   counts: Counts]
  BY <1>5 DEF Init, NoRestore
<1> QED BY <1>1, <1>2, <1>6, <1>7, <1>8 DEF TypeOK, Init

\* Who takes the step: the server's files and messages, its settings, or
\* whoever backs up and restores.
Uploading ==
  \/ schema /\ \E k \in Keys : UploadInsert(k)
  \/ WriteBegin \/ WriteEnd \/ UploadCommit \/ UploadFails
Sending ==
  \/ schema /\ \E m \in Messages, K \in SUBSET Keys : SendClaim(m, K)
  \/ \E m \in Messages : SendCommit(m) \/ SendRollback(m)
Sweeping ==
  \/ \E k \in Keys \ Young : Age(k)
  \/ schema /\ SweepDelete
  \/ \E k \in Keys : SweepRemove(k) \/ SweepFails(k)
Server == Uploading \/ Sending \/ Sweeping \/ Crash

\* What the server's steps leave alone or keep account of.
Bystander ==
  /\ UNCHANGED <<secretVars, schema, archive, restore, torn>>
  /\ backup' = backup \/ backup' = NoBackup
  /\ fresh' = fresh \cup (RowKeys(row') \ RowKeys(row))
  /\ disturbed' = (disturbed \/ (Counting /\ CountsOf(row', sent') # CountsOf(row, sent)))

Setup ==
  \/ \E w \in Writers, p \in {"omitted", "null", "given"} : PutRead(w, p)
  \/ \E w \in Writers : PutCommit(w) \/ PutFails(w)
Rekeying == Rotate \/ EndRotation

\* The settings and the keys change, and nothing else.
Configuring ==
  /\ (Setup /\ schema) \/ (Rekeying /\ restore.step = "never")
  /\ UNCHANGED <<attachmentVars, backupVars>>

Archiving ==
  \/ \E way \in Ways : BackupBegin(way)
  \/ \E k \in Keys : CopyFile(k) \/ Damage(k)
  \/ Dump \/ ReadKeys \/ Write \/ Refuse \/ BackupFails

Restoring ==
  \/ \E k \in Keys : WriteFile(k)
  \/ Lose \/ RestoreOpen \/ DropSchema \/ Load \/ Ask \/ Compare \/ RestoreDies

\* Every step is one of these.
LEMMA StepCases ==
  ASSUME TypeOK, [Next]_vars
  PROVE  \/ Server /\ Bystander
         \/ Configuring \/ Archiving \/ Restoring
         \/ UNCHANGED vars
<1>1. ASSUME UNCHANGED tables, UNCHANGED <<secretVars, schema, archive, restore, torn, fresh, disturbed>>,
             backup' = backup \/ backup' = NoBackup
      PROVE  Bystander
  <2>1. row' = row /\ sent' = sent
    BY <1>1 DEF tables
  <2>2. RowKeys(row') \ RowKeys(row) = {} /\ CountsOf(row', sent') = CountsOf(row, sent)
    BY <2>1
  <2>3. fresh' = fresh \cup (RowKeys(row') \ RowKeys(row))
    BY <1>1, <2>2
  <2>4. disturbed' = (disturbed \/ (Counting /\ CountsOf(row', sent') # CountsOf(row, sent)))
    BY <1>1, <2>2 DEF TypeOK
  <2> QED BY <1>1, <2>3, <2>4 DEF Bystander
<1>2. Apart => UNCHANGED <<secretVars, schema, archive, restore, torn, fresh, disturbed>> /\ backup' = backup
  BY DEF Apart, backupVars
<1>3. Beside => Bystander /\ schema
  BY DEF Beside, Bystander
<1>4. CASE \E k \in Keys : UploadInsert(k) /\ OnlyUploads /\ Awake /\ Beside
  BY <1>3, <1>4 DEF Server, Uploading
<1>5. CASE (WriteBegin \/ WriteEnd \/ UploadFails) /\ Apart
  BY <1>1, <1>2, <1>5 DEF Server, Uploading, WriteBegin, WriteEnd, UploadStep, UploadFails
<1>6. CASE UploadCommit /\ Beside
  BY <1>3, <1>6 DEF Server, Uploading
<1>7. CASE \E m \in Messages, K \in SUBSET Keys : SendClaim(m, K) /\ Awake /\ Beside
  BY <1>3, <1>7 DEF Server, Sending
<1>8. CASE \E m \in Messages : SendCommit(m) /\ Beside
  BY <1>3, <1>8 DEF Server, Sending
<1>9. CASE \E m \in Messages : SendRollback(m) /\ Apart
  BY <1>1, <1>2, <1>9 DEF Server, Sending, SendRollback
<1>10. CASE \E k \in Keys \ Young : Age(k) /\ Apart
  BY <1>1, <1>2, <1>10 DEF Server, Sweeping, Age
<1>11. CASE SweepDelete /\ Beside
  BY <1>3, <1>11 DEF Server, Sweeping
<1>12. CASE \E k \in Keys : (SweepRemove(k) \/ SweepFails(k)) /\ Awake /\ Apart
  BY <1>1, <1>2, <1>12 DEF Server, Sweeping, SweepRemove, SweepFails
<1>13. CASE Crash /\ ExportDies
  <2>1. UNCHANGED tables
    BY <1>13 DEF Crash
  <2>2. UNCHANGED <<secretVars, schema, archive, restore, torn, fresh, disturbed>>
    BY <1>13 DEF ExportDies
  <2>3. backup' = backup \/ backup' = NoBackup
    BY <1>13 DEF ExportDies
  <2> QED BY <1>1, <1>13, <2>1, <2>2, <2>3 DEF Server
<1>14. CASE \/ \E w \in Writers, p \in {"omitted", "null", "given"} : PutRead(w, p) /\ Awake /\ InSettings
            \/ \E w \in Writers : (PutCommit(w) \/ PutFails(w)) /\ InSettings
  BY <1>14 DEF Configuring, Setup, InSettings
<1>15. CASE (Rotate \/ EndRotation) /\ InEnvironment
  BY <1>15 DEF Configuring, Rekeying, InEnvironment
<1>16. CASE \/ \E way \in Ways : BackupBegin(way)
            \/ \E k \in Keys : CopyFile(k) \/ Damage(k)
            \/ Dump \/ ReadKeys \/ Write \/ Refuse \/ BackupFails
  BY <1>16 DEF Archiving
<1>17. CASE \/ \E k \in Keys : WriteFile(k)
            \/ Lose \/ RestoreOpen \/ DropSchema \/ Load \/ Ask \/ Compare \/ RestoreDies
  BY <1>17 DEF Restoring
<1> QED
  BY <1>4, <1>5, <1>6, <1>7, <1>8, <1>9, <1>10, <1>11, <1>12, <1>13, <1>14, <1>15, <1>16, <1>17
  DEF Next

LEMMA UploadingTyped ==
  ASSUME AttachmentsTypeOK, Uploading
  PROVE  AttachmentsTypeOK'
<1>1. CASE \E k \in Keys : UploadInsert(k)
  BY <1>1 DEF AttachmentsTypeOK, UploadInsert, tables
<1>2. CASE WriteBegin \/ WriteEnd
  BY <1>2 DEF AttachmentsTypeOK, WriteBegin, WriteEnd, UploadStep, tables, Files
<1>3. CASE UploadCommit
  BY <1>3 DEF AttachmentsTypeOK, UploadCommit, Rows, Waiting
<1>4. CASE UploadFails
  BY <1>4 DEF AttachmentsTypeOK, UploadFails, tables, Waiting
<1> QED BY <1>1, <1>2, <1>3, <1>4 DEF Uploading

LEMMA SendingTyped ==
  ASSUME AttachmentsTypeOK, Sending
  PROVE  AttachmentsTypeOK'
<1>1. ASSUME NEW m \in Messages, NEW K \in SUBSET Keys, SendClaim(m, K)
      PROVE  AttachmentsTypeOK'
  BY <1>1 DEF AttachmentsTypeOK, SendClaim, tables, Posts
<1>2. ASSUME NEW m \in Messages, SendCommit(m)
      PROVE  AttachmentsTypeOK'
  <2>1. row' \in Rows
    BY <1>2 DEF AttachmentsTypeOK, SendCommit, Rows
  <2>2. sent' \in Posts /\ send' \in Posts
    BY <1>2 DEF AttachmentsTypeOK, SendCommit, Posts
  <2> QED BY <1>2, <2>1, <2>2 DEF AttachmentsTypeOK, SendCommit
<1>3. ASSUME NEW m \in Messages, SendRollback(m)
      PROVE  AttachmentsTypeOK'
  BY <1>3 DEF AttachmentsTypeOK, SendRollback, tables, Posts
<1> QED BY <1>1, <1>2, <1>3 DEF Sending

LEMMA SweepingTyped ==
  ASSUME AttachmentsTypeOK, Sweeping
  PROVE  AttachmentsTypeOK'
<1>1. ASSUME NEW k \in Keys, Age(k) PROVE AttachmentsTypeOK'
  BY <1>1 DEF AttachmentsTypeOK, Age, tables, requests
<1>2. CASE SweepDelete
  BY <1>2 DEF AttachmentsTypeOK, SweepDelete, Unclaimed, Rows
<1>3. ASSUME NEW k \in Keys, SweepRemove(k) PROVE AttachmentsTypeOK'
  BY <1>3 DEF AttachmentsTypeOK, SweepRemove, tables, Files
<1>4. ASSUME NEW k \in Keys, SweepFails(k) PROVE AttachmentsTypeOK'
  BY <1>4 DEF AttachmentsTypeOK, SweepFails, tables
<1> QED BY <1>1, <1>2, <1>3, <1>4 DEF Sweeping

LEMMA CrashTyped ==
  ASSUME AttachmentsTypeOK, Crash
  PROVE  AttachmentsTypeOK'
  BY DEF AttachmentsTypeOK, Crash, tables, Posts, Waiting

\* The parts of the type invariant that the backup and the restore keep.
BackupTypeOK ==
  /\ schema \in BOOLEAN
  /\ backup \in [step: {"idle", "files", "dumped", "keys", "refused"}, way: Ways,
                 left: SUBSET Keys, files: Files, row: Rows, sent: Posts,
                 smtp: Setting, keys: SUBSET Keys]
  /\ archive \in [there: BOOLEAN, intact: BOOLEAN, way: Ways, files: Files,
                  row: Rows, sent: Posts, smtp: Setting, keyId: KeyIds,
                  counts: Counts]
  /\ restore \in [step: {"never", "opened", "dropped", "writing", "checking",
                         "died", "inconsistent", "mismatch", "complete"},
                  warned: BOOLEAN, left: SUBSET Keys, keys: SUBSET Keys,
                  counts: Counts]
  /\ fresh \subseteq Keys /\ torn \subseteq Keys /\ disturbed \in BOOLEAN

Gone == schema = FALSE => row = NoRows /\ sent = NoPosts

LEMMA TypeParts == TypeOK <=> AttachmentsTypeOK /\ SecretsTypeOK /\ BackupTypeOK /\ Gone
  BY DEF TypeOK, BackupTypeOK, Gone

LEMMA EmptyTypes ==
  /\ NoSetting \in Setting /\ NoRows \in Rows /\ NoRows \in Files /\ NoPosts \in Posts
  /\ <<0, 0>> \in Counts
<1>1. <<0, 0>> \in Counts
  BY AttachmentsAssumption, FS_CardinalityType DEF Counts
<1> QED BY <1>1 DEF NoSetting, Setting, NoRows, Rows, Files, NoPosts, Posts

LEMMA NoBackupTyped ==
  NoBackup \in [step: {"idle", "files", "dumped", "keys", "refused"}, way: Ways,
                left: SUBSET Keys, files: Files, row: Rows, sent: Posts,
                smtp: Setting, keys: SUBSET Keys]
  BY EmptyTypes DEF NoBackup, Ways

LEMMA NoRestoreTyped ==
  NoRestore \in [step: {"never", "opened", "dropped", "writing", "checking",
                        "died", "inconsistent", "mismatch", "complete"},
                 warned: BOOLEAN, left: SUBSET Keys, keys: SUBSET Keys,
                 counts: Counts]
  BY EmptyTypes DEF NoRestore

LEMMA ServerTyped ==
  ASSUME TypeOK, Server, Bystander
  PROVE  AttachmentsTypeOK' /\ SecretsTypeOK' /\ BackupTypeOK'
<1>1. AttachmentsTypeOK'
  BY UploadingTyped, SendingTyped, SweepingTyped, CrashTyped DEF Server, TypeOK
<1>2. SecretsTypeOK'
  BY DEF TypeOK, Bystander, SecretsTypeOK, secretVars
<1>3. RowKeys(row') \subseteq Keys
  BY DEF RowKeys
<1> QED BY <1>1, <1>2, <1>3, NoBackupTyped DEF TypeOK, BackupTypeOK, Bystander

LEMMA ConfiguringTyped ==
  ASSUME TypeOK, Configuring
  PROVE  AttachmentsTypeOK' /\ SecretsTypeOK' /\ BackupTypeOK'
<1>1. UNCHANGED <<row, sent, file, born, old, upload, send, doomed>>
  BY DEF Configuring, attachmentVars, tables, requests
<1>2. AttachmentsTypeOK'
  BY <1>1 DEF TypeOK, AttachmentsTypeOK
<1>3. BackupTypeOK'
  BY DEF TypeOK, BackupTypeOK, Configuring, backupVars
<1>4. ASSUME NEW w \in Writers, NEW p \in {"omitted", "null", "given"}, PutRead(w, p)
      PROVE  SecretsTypeOK'
  BY <1>4 DEF TypeOK, SecretsTypeOK, PutRead
<1>5. ASSUME NEW w \in Writers, PutCommit(w)
      PROVE  SecretsTypeOK'
  <2>1. NewPassword(w) \in {{}} \cup {{k} : k \in KeyIds}
    BY DEF NewPassword, TypeOK, SecretsTypeOK, Setting
  <2>2. smtp' \in Setting
    BY <1>5, <2>1 DEF PutCommit, Setting
  <2>3. Unbegun \in [open: BOOLEAN, password: {"omitted", "null", "given"}, stored: Setting]
    BY EmptyTypes DEF Unbegun
  <2> QED BY <1>5, <2>2, <2>3 DEF TypeOK, SecretsTypeOK, PutCommit
<1>6. ASSUME NEW w \in Writers, PutFails(w)
      PROVE  SecretsTypeOK'
  <2>1. Unbegun \in [open: BOOLEAN, password: {"omitted", "null", "given"}, stored: Setting]
    BY EmptyTypes DEF Unbegun
  <2> QED BY <1>6, <2>1 DEF TypeOK, SecretsTypeOK, PutFails
<1>7. CASE Rotate
  <2>1. env.current + 1 \in KeyIds
    BY <1>7, SecretsAssumption DEF Rotate, TypeOK, SecretsTypeOK, KeyIds
  <2>2. env' \in [current: KeyIds, previous: {{}} \cup {{k} : k \in KeyIds}]
    BY <1>7, <2>1 DEF TypeOK, SecretsTypeOK, Rotate
  <2> QED BY <1>7, <2>2, <1>2, <1>3 DEF TypeOK, SecretsTypeOK, Rotate
<1>8. CASE EndRotation
  BY <1>2, <1>3, <1>8 DEF TypeOK, SecretsTypeOK, EndRotation
<1> QED BY <1>2, <1>3, <1>4, <1>5, <1>6, <1>7, <1>8 DEF Configuring, Setup, Rekeying

LEMMA ArchivingTyped ==
  ASSUME TypeOK, Archiving
  PROVE  AttachmentsTypeOK' /\ SecretsTypeOK' /\ BackupTypeOK'
<1>1. UNCHANGED <<attachmentVars, secretVars>> => AttachmentsTypeOK' /\ SecretsTypeOK'
  <2>1. UNCHANGED attachmentVars => UNCHANGED <<row, sent, file, born, old, upload, send, doomed>>
    BY DEF attachmentVars, tables, requests
  <2> QED BY <2>1 DEF TypeOK, AttachmentsTypeOK, SecretsTypeOK, secretVars
<1>2. ASSUME NEW way \in Ways, BackupBegin(way)
      PROVE  UNCHANGED <<attachmentVars, secretVars>> /\ BackupTypeOK'
  BY <1>2, NoBackupTyped DEF BackupBegin, TypeOK, BackupTypeOK
<1>3. ASSUME NEW k \in Keys, CopyFile(k)
      PROVE  UNCHANGED <<attachmentVars, secretVars>> /\ BackupTypeOK'
  <2>1. [backup.files EXCEPT ![k] = file[k]] \in Files
    BY DEF TypeOK, AttachmentsTypeOK, Files
  <2>2. backup' = [backup EXCEPT !.left = @ \ {k}, !.files = [backup.files EXCEPT ![k] = file[k]]]
    BY <1>3 DEF CopyFile, TypeOK
  <2>3. backup' \in [step: {"idle", "files", "dumped", "keys", "refused"}, way: Ways,
                     left: SUBSET Keys, files: Files, row: Rows, sent: Posts,
                     smtp: Setting, keys: SUBSET Keys]
    <3> DEFINE f == [backup.files EXCEPT ![k] = file[k]]
    <3> HIDE DEF f
    <3>1. backup' = [backup EXCEPT !.left = @ \ {k}, !.files = f] /\ f \in Files
      BY <2>1, <2>2 DEF f
    <3> QED BY <3>1 DEF TypeOK
  <2>4. torn' \subseteq Keys
    BY <1>3 DEF CopyFile, TypeOK
  <2> QED BY <1>3, <2>3, <2>4 DEF CopyFile, TypeOK, BackupTypeOK
<1>4. ASSUME NEW k \in Keys, Damage(k)
      PROVE  UNCHANGED <<attachmentVars, secretVars>> /\ BackupTypeOK'
  <2>1. [archive.files EXCEPT ![k] = "part"] \in Files
    BY DEF TypeOK, Files
  <2>2. archive' = [archive EXCEPT !.intact = FALSE, !.files = [archive.files EXCEPT ![k] = "part"]]
    BY <1>4 DEF Damage, TypeOK
  <2> QED BY <1>4, <2>1, <2>2 DEF Damage, TypeOK, BackupTypeOK
<1>5. ASSUME Dump
      PROVE  UNCHANGED <<attachmentVars, secretVars>> /\ BackupTypeOK'
  BY <1>5 DEF Dump, TypeOK, BackupTypeOK, AttachmentsTypeOK, SecretsTypeOK
<1>6. ASSUME ReadKeys
      PROVE  UNCHANGED <<attachmentVars, secretVars>> /\ BackupTypeOK'
  BY <1>6 DEF ReadKeys, TypeOK, BackupTypeOK, RowKeys
<1>7. ASSUME Write
      PROVE  UNCHANGED <<attachmentVars, secretVars>> /\ BackupTypeOK'
  <2>1. CountsOf(row, sent) \in Counts
    BY CountsType DEF TypeOK, AttachmentsTypeOK
  <2> QED BY <1>7, <2>1, NoBackupTyped DEF Write, TypeOK, BackupTypeOK, SecretsTypeOK
<1>8. ASSUME Refuse
      PROVE  UNCHANGED <<attachmentVars, secretVars>> /\ BackupTypeOK'
  BY <1>8 DEF Refuse, TypeOK, BackupTypeOK
<1>9. ASSUME BackupFails
      PROVE  UNCHANGED <<attachmentVars, secretVars>> /\ BackupTypeOK'
  BY <1>9, NoBackupTyped DEF BackupFails, TypeOK, BackupTypeOK
<1>10. UNCHANGED <<attachmentVars, secretVars>> /\ BackupTypeOK'
  BY <1>2, <1>3, <1>4, <1>5, <1>6, <1>7, <1>8, <1>9
  DEF Archiving, Dump, ReadKeys, Write, Refuse, BackupFails
<1> QED BY <1>1, <1>10

LEMMA RestoringTyped ==
  ASSUME TypeOK, Restoring
  PROVE  AttachmentsTypeOK' /\ SecretsTypeOK' /\ BackupTypeOK'
<1>1. UNCHANGED <<attachmentVars, secretVars>> => AttachmentsTypeOK' /\ SecretsTypeOK'
  <2>1. UNCHANGED attachmentVars => UNCHANGED <<row, sent, file, born, old, upload, send, doomed>>
    BY DEF attachmentVars, tables, requests
  <2> QED BY <2>1 DEF TypeOK, AttachmentsTypeOK, SecretsTypeOK, secretVars
<1>2. ASSUME NEW k \in Keys, WriteFile(k)
      PROVE  AttachmentsTypeOK' /\ SecretsTypeOK' /\ BackupTypeOK'
  <2>1. file' \in Files
    BY <1>2 DEF WriteFile, TypeOK, AttachmentsTypeOK, Files
  <2>2. UNCHANGED <<row, sent, born, old, upload, send, doomed>>
    BY <1>2 DEF WriteFile, tables, requests
  <2>3. UNCHANGED <<smtp, env, put, collided>>
    BY <1>2 DEF WriteFile, secretVars
  <2> QED BY <1>2, <2>1, <2>2, <2>3 DEF WriteFile, TypeOK, AttachmentsTypeOK, SecretsTypeOK, BackupTypeOK
<1>3. CASE Lose
  <2>1. Unbegun \in [open: BOOLEAN, password: {"omitted", "null", "given"}, stored: Setting]
    BY EmptyTypes DEF Unbegun
  <2>2. AttachmentsTypeOK'
    BY <1>3, EmptyTypes DEF Lose, TypeOK, AttachmentsTypeOK, Waiting
  <2> QED BY <1>3, <2>1, <2>2, EmptyTypes DEF Lose, TypeOK, SecretsTypeOK, BackupTypeOK
<1>4. CASE RestoreOpen
  BY <1>1, <1>4, NoRestoreTyped DEF RestoreOpen, TypeOK, BackupTypeOK, OtherKey
<1>5. CASE DropSchema
  BY <1>5, EmptyTypes
  DEF DropSchema, TypeOK, AttachmentsTypeOK, SecretsTypeOK, BackupTypeOK, requests
<1>6. CASE Load
  <2>1. FileKeys(archive.files) \subseteq Keys
    BY DEF FileKeys
  <2> QED BY <1>6, <2>1 DEF Load, TypeOK, AttachmentsTypeOK, SecretsTypeOK, BackupTypeOK, requests
<1>7. CASE Ask
  <2>1. CountsOf(row, sent) \in Counts /\ RowKeys(row) \subseteq Keys
    BY CountsType DEF TypeOK, AttachmentsTypeOK, RowKeys
  <2> QED BY <1>1, <1>7, <2>1 DEF Ask, TypeOK, BackupTypeOK
<1>8. CASE Compare
  BY <1>1, <1>8, NoRestoreTyped DEF Compare, TypeOK, BackupTypeOK
<1>9. CASE RestoreDies
  BY <1>1, <1>9, NoRestoreTyped DEF RestoreDies, TypeOK, BackupTypeOK
<1> QED BY <1>2, <1>3, <1>4, <1>5, <1>6, <1>7, <1>8, <1>9 DEF Restoring

-----------------------------------------------------------------------------
(* The server's own invariant.                                               *)

\* The upload past its insert is of one file, which is no row's, not old and
\* not to be removed, and which is whole once it is written.
UploadApart ==
  /\ upload = Waiting \/ (upload.step # "idle" /\ \E k \in born : upload.key = {k})
  /\ \A k \in upload.key : row[k] = "none" /\ k \notin old /\ k \notin doomed
  /\ \A k \in upload.key : upload.step = "written" => file[k] = "whole"

\* Rows are of files that were uploaded and are not to be removed.
RowsBorn == \A k \in Keys : row[k] # "none" => k \in born /\ k \notin doomed

\* Whoever is sending a message holds rows that nobody else holds or has sent.
SendsApart ==
  /\ \A m \in Messages : \A k \in send[m] : row[k] = "unsent" /\ sent[m] = {}
  /\ \A m, n \in Messages : m # n => send[m] \cap send[n] = {}

\* Nothing of the server is under way while there are no tables.
Quiet == ~schema => upload = Waiting /\ send = NoPosts /\ doomed = {} /\ Putting = {}

\* What MessageWhole says, of the tables r and s.
Whole(r, s) ==
  /\ \A m \in Messages : \A k \in s[m] : r[k] = m
  /\ \A k \in Keys : r[k] \in Messages => k \in s[r[k]]

\* Dumps are of whole messages and of files that were uploaded.
DumpsWhole ==
  /\ Whole(backup.row, backup.sent) /\ Whole(archive.row, archive.sent)
  /\ \A k \in Keys : backup.row[k] # "none" \/ archive.row[k] # "none" => k \in born

\* What the server keeps of its files and messages.
FilesInv == UploadApart /\ RowsBorn /\ SendsApart /\ Whole(row, sent)

\* Backup and restore take turns.
Phases ==
  /\ backup.step # "idle" => ~archive.there
  /\ ~archive.there => schema /\ restore.step = "never" /\ archive.row = NoRows
  /\ archive.intact => archive.there
  /\ restore.step # "never" => archive.intact
  /\ restore.step \notin {"never", "opened", "died"} => schema

\* A row that is the server's own, not restored, has its whole file.
ServedWhole == InService => \A k \in Keys : row[k] # "none" => file[k] = "whole"

\* The rows there were when the backup began are copied or still to be copied.
Copied ==
  /\ backup.step \in {"files", "dumped"} =>
       \A k \in Keys : row[k] # "none" /\ k \notin fresh =>
          k \in backup.left \/ backup.files[k] # "none"
  /\ backup.step \in {"files", "dumped", "keys"} => fresh \cap old = {}
  /\ backup.step = "dumped" =>
       \A k \in Keys : backup.row[k] # "none" =>
          \/ backup.files[k] # "none"
          \/ k \in fresh /\ row[k] # "none"
  /\ backup.step \in {"dumped", "keys", "refused"} => backup.left = {}
  /\ backup.step = "keys" =>
       \A k \in Keys : backup.row[k] # "none" => backup.files[k] # "none" \/ k \in backup.keys
  /\ backup.step \in {"keys", "refused"} =>
       \A k \in backup.keys : backup.files[k] # "none" \/ k \in fresh

\* Of what a restore writes, only a file that was torn may be cut short.
TornOnly ==
  /\ \A k \in Keys : backup.files[k] = "part" => k \in torn
  /\ archive.intact => \A k \in Keys : archive.files[k] = "part" => k \in torn
  /\ \A k \in Keys : file[k] = "part" =>
       k \in torn \/ (row[k] = "none" /\ backup.row[k] = "none" /\ archive.row[k] = "none")
  /\ upload.key \cap restore.left = {} /\ restore.left \subseteq born
  /\ \A k \in upload.key : backup.row[k] = "none" /\ archive.row[k] = "none"
  /\ \A k \in Keys :
       file[k] # "none" \/ backup.files[k] # "none" \/ archive.files[k] # "none" => k \in born

\* What the restore expects to find, and what it found.
Expected ==
  /\ restore.step = "checking" =>
       \A k \in Keys : row[k] # "none" => k \in restore.keys \/ file[k] # "none"
  /\ restore.step = "complete" => \A k \in Keys : row[k] # "none" => file[k] # "none"

\* Counts agree with what was dumped unless they changed in between.
Counted ==
  ~disturbed =>
    /\ backup.step \in {"dumped", "keys"} =>
         CountsOf(backup.row, backup.sent) = CountsOf(row, sent)
    /\ archive.there => CountsOf(archive.row, archive.sent) = archive.counts
    /\ restore.step = "writing" => CountsOf(row, sent) = archive.counts
    /\ restore.step = "checking" => restore.counts = archive.counts
    /\ restore.step # "mismatch"

\* Settings that are stored, or were read by a request, can be read.
Warned ==
  /\ restore.step = "opened" /\ ~restore.warned => archive.keyId = env.current
  /\ /\ restore.step \in {"writing", "checking", "complete"} /\ ~restore.warned
     /\ archive.smtp.key \subseteq {archive.keyId}
     => /\ Readable
        /\ \A w \in Putting : put[w].stored.key \subseteq {env.current} \cup env.previous

\* A request that was alone when it began read what is still stored.
ReadAlone ==
  ~collided => /\ \A w \in Putting : put[w].stored = smtp
               /\ \A v, w \in Putting : v = w

LEMMA UploadingKeeps ==
  ASSUME AttachmentsTypeOK, AttachmentsTypeOK', FilesInv, Uploading
  PROVE  FilesInv'
<1> USE DEF FilesInv, AttachmentsTypeOK
<1>1. ASSUME NEW k \in Keys, UploadInsert(k)
      PROVE  FilesInv'
  <2>1. UNCHANGED <<row, sent, file, old, send, doomed>> /\ born' = born \cup {k} /\ k \notin born
    BY <1>1 DEF UploadInsert, tables
  <2>2. UploadApart'
    BY <1>1, <2>1 DEF UploadInsert, UploadApart, RowsBorn
  <2> QED BY <2>1, <2>2 DEF RowsBorn, SendsApart, Whole
<1>2. CASE WriteBegin \/ WriteEnd
  <2>1. UNCHANGED <<row, sent, born, old, send, doomed>>
    BY <1>2 DEF WriteBegin, WriteEnd, UploadStep, tables
  <2>2. UploadApart'
    BY <1>2, <2>1 DEF WriteBegin, WriteEnd, UploadStep, UploadApart, Waiting
  <2> QED BY <2>1, <2>2 DEF RowsBorn, SendsApart, Whole
<1>3. CASE UploadCommit
  <2>1. UNCHANGED <<sent, file, born, old, send, doomed>> /\ upload' = Waiting
    BY <1>3 DEF UploadCommit
  <2>2. \A k \in Keys : row'[k] = IF k \in upload.key THEN "unsent" ELSE row[k]
    BY <1>3 DEF UploadCommit
  <2>3. UploadApart'
    BY <2>1 DEF UploadApart, Waiting
  <2>4. RowsBorn'
    BY <2>1, <2>2 DEF RowsBorn, UploadApart
  <2>5. SendsApart'
    BY <2>1, <2>2 DEF SendsApart, UploadApart, Posts
  <2>6. Whole(row, sent)'
    BY <2>1, <2>2, AttachmentsAssumption DEF Whole, UploadApart, Posts
  <2> QED BY <2>3, <2>4, <2>5, <2>6
<1>4. CASE UploadFails
  BY <1>4 DEF UploadFails, UploadApart, RowsBorn, SendsApart, Whole, tables, Waiting
<1> QED BY <1>1, <1>2, <1>3, <1>4 DEF Uploading

LEMMA SendingKeeps ==
  ASSUME AttachmentsTypeOK, AttachmentsTypeOK', FilesInv, Sending
  PROVE  FilesInv'
<1> USE DEF FilesInv, AttachmentsTypeOK
<1>1. ASSUME NEW m \in Messages, NEW K \in SUBSET Keys, SendClaim(m, K)
      PROVE  FilesInv'
  <2>1. UNCHANGED <<row, sent, file, born, old, upload, doomed>>
    BY <1>1 DEF SendClaim, tables
  <2>2. \A n \in Messages : send'[n] = IF n = m THEN K ELSE send[n]
    BY <1>1 DEF SendClaim, Posts
  <2>3. sent[m] = {} /\ (\A k \in K : row[k] = "unsent") /\ \A n \in Messages : K \cap send[n] = {}
    BY <1>1 DEF SendClaim, Locked, Claimable, Unsent
  <2>4. SendsApart'
    BY <2>1, <2>2, <2>3 DEF SendsApart
  <2> QED BY <2>1, <2>4 DEF UploadApart, RowsBorn, Whole
<1>2. ASSUME NEW m \in Messages, SendCommit(m)
      PROVE  FilesInv'
  <2>1. UNCHANGED <<file, born, old, upload, doomed>>
    BY <1>2 DEF SendCommit
  <2>2. \A k \in Keys : row'[k] = IF k \in send[m] THEN m ELSE row[k]
    BY <1>2 DEF SendCommit
  <2>3. \A n \in Messages : /\ sent'[n] = IF n = m THEN send[m] ELSE sent[n]
                            /\ send'[n] = IF n = m THEN {} ELSE send[n]
    BY <1>2 DEF SendCommit, Posts
  <2>4. send[m] # {} /\ send[m] \subseteq Keys /\ \A k \in send[m] : row[k] = "unsent" /\ sent[m] = {}
    BY <1>2 DEF SendCommit, SendsApart, Posts
  <2>5. UploadApart'
    BY <2>1, <2>2, <2>4 DEF UploadApart
  <2>6. RowsBorn'
    BY <2>1, <2>2, <2>4 DEF RowsBorn
  <2>7. SendsApart'
    BY <2>2, <2>3 DEF SendsApart, Posts
  <2>8. Whole(row, sent)'
    BY <2>2, <2>3, <2>4, AttachmentsAssumption DEF Whole, Posts
  <2> QED BY <2>5, <2>6, <2>7, <2>8
<1>3. ASSUME NEW m \in Messages, SendRollback(m)
      PROVE  FilesInv'
  <2>1. UNCHANGED <<row, sent, file, born, old, upload, doomed>>
    BY <1>3 DEF SendRollback, tables
  <2>2. \A n \in Messages : send'[n] \subseteq send[n]
    BY <1>3 DEF SendRollback, Posts
  <2> QED BY <2>1, <2>2 DEF UploadApart, RowsBorn, SendsApart, Whole
<1> QED BY <1>1, <1>2, <1>3 DEF Sending

LEMMA SweepingKeeps ==
  ASSUME AttachmentsTypeOK, AttachmentsTypeOK', FilesInv, Sweeping
  PROVE  FilesInv'
<1> USE DEF FilesInv, AttachmentsTypeOK
<1>1. ASSUME NEW k \in Keys, Age(k)
      PROVE  FilesInv'
  BY <1>1 DEF Age, tables, requests, UploadApart, RowsBorn, SendsApart, Whole
<1>2. CASE SweepDelete
  <2>1. UNCHANGED <<sent, file, born, old, upload, send>> /\ doomed' = doomed \cup Unclaimed
    BY <1>2 DEF SweepDelete
  <2>2. \A k \in Keys : row'[k] = IF k \in Unclaimed THEN "none" ELSE row[k]
    BY <1>2 DEF SweepDelete
  <2>3. \A k \in Unclaimed : row[k] = "unsent" /\ k \in Keys /\ \A m \in Messages : k \notin send[m]
    BY <1>2 DEF SweepDelete, Unclaimed, Locked
  <2>4. UploadApart'
    BY <2>1, <2>2, <2>3 DEF UploadApart
  <2>5. RowsBorn'
    BY <2>1, <2>2 DEF RowsBorn
  <2>6. SendsApart'
    BY <2>1, <2>2, <2>3 DEF SendsApart, Posts
  <2>7. Whole(row, sent)'
    BY <2>1, <2>2, <2>3, AttachmentsAssumption DEF Whole, Posts
  <2> QED BY <2>4, <2>5, <2>6, <2>7
<1>3. ASSUME NEW k \in Keys, SweepRemove(k) \/ SweepFails(k)
      PROVE  FilesInv'
  <2>1. UNCHANGED <<row, sent, born, old, upload, send>> /\ k \in doomed /\ doomed' \subseteq doomed
    BY <1>3 DEF SweepRemove, SweepFails, tables
  <2>2. \A j \in Keys : j # k => file'[j] = file[j]
    BY <1>3 DEF SweepRemove, SweepFails, Files
  <2> QED BY <2>1, <2>2 DEF UploadApart, RowsBorn, SendsApart, Whole
<1> QED BY <1>1, <1>2, <1>3 DEF Sweeping

LEMMA CrashKeeps ==
  ASSUME AttachmentsTypeOK, FilesInv, Crash
  PROVE  FilesInv'
  BY DEF FilesInv, Crash, tables, UploadApart, RowsBorn, SendsApart, Whole, Waiting

\* What a step of the server may do to a row, a file, and the keys given out.
RowStep(k) ==
  \/ row'[k] = row[k]
  \/ row[k] = "none" /\ k \in upload.key /\ file[k] = "whole" /\ row'[k] = "unsent"
  \/ row[k] = "unsent" /\ row'[k] \in Messages
  \/ row[k] = "unsent" /\ row'[k] = "none" /\ k \in old
FileStep(k) ==
  file'[k] = file[k] \/ (k \in doomed /\ file'[k] = "none") \/ (k \in upload.key /\ file'[k] # "none")
KeyStep(k) ==
  /\ k \in born => k \in born'
  /\ k \in upload'.key => k \in upload.key \/ k \notin born
  /\ k \in old' => k \in old \/ (row[k] # "none" /\ k \notin Young)

LEMMA ServerEffects ==
  ASSUME AttachmentsTypeOK, FilesInv, Server, NEW k \in Keys
  PROVE  RowStep(k) /\ FileStep(k) /\ KeyStep(k)
<1> USE DEF AttachmentsTypeOK, RowStep, FileStep, KeyStep
<1>1. ASSUME NEW j \in Keys, UploadInsert(j)
      PROVE  RowStep(k) /\ FileStep(k) /\ KeyStep(k)
  BY <1>1 DEF UploadInsert, tables
<1>2. CASE WriteBegin \/ WriteEnd
  BY <1>2 DEF WriteBegin, WriteEnd, UploadStep, tables, Files
<1>3. CASE UploadCommit
  BY <1>3 DEF UploadCommit, FilesInv, UploadApart, FileWritten, Waiting, Rows
<1>4. CASE UploadFails
  BY <1>4 DEF UploadFails, tables, Waiting
<1>5. ASSUME NEW m \in Messages, NEW K \in SUBSET Keys, SendClaim(m, K)
      PROVE  RowStep(k) /\ FileStep(k) /\ KeyStep(k)
  BY <1>5 DEF SendClaim, tables
<1>6. ASSUME NEW m \in Messages, SendCommit(m)
      PROVE  RowStep(k) /\ FileStep(k) /\ KeyStep(k)
  BY <1>6 DEF SendCommit, FilesInv, SendsApart
<1>7. ASSUME NEW m \in Messages, SendRollback(m)
      PROVE  RowStep(k) /\ FileStep(k) /\ KeyStep(k)
  BY <1>7 DEF SendRollback, tables
<1>8. ASSUME NEW j \in Keys \ Young, Age(j)
      PROVE  RowStep(k) /\ FileStep(k) /\ KeyStep(k)
  BY <1>8 DEF Age, tables, requests
<1>9. CASE SweepDelete
  BY <1>9 DEF SweepDelete, Unclaimed
<1>10. ASSUME NEW j \in Keys, SweepRemove(j) \/ SweepFails(j)
      PROVE  RowStep(k) /\ FileStep(k) /\ KeyStep(k)
  BY <1>10 DEF SweepRemove, SweepFails, tables, Files
<1>11. CASE Crash
  BY <1>11 DEF Crash, tables, Waiting
<1> QED
  BY <1>1, <1>2, <1>3, <1>4, <1>5, <1>6, <1>7, <1>8, <1>9, <1>10, <1>11
  DEF Server, Uploading, Sending, Sweeping

LEMMA ServerQuiet ==
  ASSUME TypeOK, FilesInv, Quiet, Server, Bystander, ~schema
  PROVE  FALSE
<1> USE DEF Quiet, TypeOK, AttachmentsTypeOK
<1>1. upload = Waiting /\ upload.step = "idle" /\ doomed = {} /\ row = NoRows /\ sent = NoPosts
      /\ \A m \in Messages : send[m] = {}
  BY DEF Waiting, NoPosts
<1>2. ~Uploading
  BY <1>1 DEF Uploading, WriteBegin, WriteEnd, UploadStep, UploadCommit, UploadFails, FileWritten
<1>3. ~Sending
  BY <1>1 DEF Sending, SendCommit, SendRollback
<1>4. ~Sweeping
  BY <1>1 DEF Sweeping, Age, SweepRemove, SweepFails, NoRows
<1>5. ~Crash
  BY <1>1 DEF Crash, Locked
<1> QED BY <1>2, <1>3, <1>4, <1>5 DEF Server

-----------------------------------------------------------------------------
(* The invariant of the whole, part by part.                                 *)

IInv ==
  /\ TypeOK
  /\ FilesInv /\ Quiet /\ DumpsWhole /\ Phases /\ ServedWhole
  /\ Copied /\ ArchiveComplete
  /\ TornOnly /\ Expected /\ Counted /\ Warned /\ ReadAlone

\* What Configuring and Archiving leave alone, one variable at a time.
ServerAlone == UNCHANGED <<row, sent, file, born, old, upload, send, doomed>>
BackupAlone == UNCHANGED <<schema, backup, archive, restore, fresh, torn, disturbed>>

LEMMA ConfiguringFrame ==
  ASSUME Configuring
  PROVE  ServerAlone /\ BackupAlone
  BY DEF Configuring, attachmentVars, tables, requests, backupVars, ServerAlone, BackupAlone

LEMMA ArchivingFrame ==
  ASSUME Archiving
  PROVE  ServerAlone /\ UNCHANGED <<smtp, env, put, collided, schema, restore>>
<1>1. UNCHANGED <<attachmentVars, secretVars, schema, restore>>
  BY DEF Archiving, BackupBegin, CopyFile, Damage, Dump, ReadKeys, Write, Refuse, BackupFails
<1> QED BY <1>1 DEF attachmentVars, tables, requests, secretVars, ServerAlone

LEMMA RestoringFrame ==
  ASSUME Restoring
  PROVE  /\ UNCHANGED <<born, old, env, collided, backup, archive, fresh, torn>>
         /\ ~Lose => UNCHANGED <<upload, send, doomed, put>>
         /\ ~(Lose \/ DropSchema \/ Load) => UNCHANGED <<row, sent, smtp, schema>>
         /\ ~(Lose \/ \E k \in Keys : WriteFile(k)) => UNCHANGED file
  BY DEF Restoring, Lose, RestoreOpen, DropSchema, Load, Ask, Compare, RestoreDies, WriteFile,
         attachmentVars, tables, requests, secretVars

LEMMA FilesInvStep ==
  ASSUME IInv, [Next]_vars, TypeOK'
  PROVE  FilesInv'
<1> USE DEF IInv, TypeOK
<1>1. CASE Server /\ Bystander
  BY <1>1, UploadingKeeps, SendingKeeps, SweepingKeeps, CrashKeeps DEF Server
<1>2. CASE ServerAlone
  BY <1>2 DEF ServerAlone, FilesInv, UploadApart, RowsBorn, SendsApart, Whole
<1>3. CASE Restoring
  <2>1. ASSUME NEW k \in Keys, WriteFile(k)
        PROVE  FilesInv'
    <3>1. UNCHANGED <<row, sent, born, old, upload, send, doomed>> /\ k \notin upload.key
      BY <2>1 DEF WriteFile, tables, requests, TornOnly
    <3>2. \A j \in Keys : j # k => file'[j] = file[j]
      BY <2>1 DEF WriteFile, AttachmentsTypeOK, Files
    <3> QED BY <3>1, <3>2 DEF FilesInv, UploadApart, RowsBorn, SendsApart, Whole, AttachmentsTypeOK
  <2>2. CASE Lose
    BY <2>2, AttachmentsAssumption
    DEF Lose, FilesInv, UploadApart, RowsBorn, SendsApart, Whole, NoRows, NoPosts, Waiting
  <2>3. CASE DropSchema
    <3>1. upload' = Waiting /\ send' = send /\ doomed' = {} /\ row' = NoRows /\ sent' = NoPosts
      BY <2>3 DEF DropSchema, requests
    <3>2. \A m \in Messages : send[m] = {}
      BY <2>3 DEF DropSchema, Locked, AttachmentsTypeOK, Posts
    <3> QED BY <3>1, <3>2, AttachmentsAssumption
        DEF FilesInv, UploadApart, RowsBorn, SendsApart, Whole, NoRows, NoPosts, Waiting
  <2>4. CASE Load
    <3>1. upload' = Waiting /\ send' = NoPosts /\ doomed' = {} /\ born' = born
      BY <2>4 DEF Load, requests, Quiet
    <3>2. row' = archive.row /\ sent' = archive.sent
      BY <2>4 DEF Load
    <3> QED BY <3>1, <3>2
        DEF FilesInv, UploadApart, RowsBorn, SendsApart, Whole, NoPosts, Waiting, DumpsWhole
  <2>5. CASE RestoreOpen \/ Ask \/ Compare \/ RestoreDies
    <3>1. ServerAlone
      BY <2>5 DEF RestoreOpen, Ask, Compare, RestoreDies, attachmentVars, tables, requests, ServerAlone
    <3> QED BY <3>1, <1>2
  <2> QED BY <1>3, <2>1, <2>2, <2>3, <2>4, <2>5 DEF Restoring
<1>4. CASE UNCHANGED vars
  BY <1>2, <1>4 DEF vars, attachmentVars, tables, requests, ServerAlone
<1> QED BY <1>1, <1>2, <1>3, <1>4, StepCases, ConfiguringFrame, ArchivingFrame

LEMMA QuietStep ==
  ASSUME IInv, [Next]_vars, TypeOK'
  PROVE  Quiet'
<1> SUFFICES ASSUME ~schema' PROVE (upload = Waiting /\ send = NoPosts /\ doomed = {} /\ Putting = {})'
  BY DEF Quiet
<1> USE DEF IInv, TypeOK
<1>1. CASE Server /\ Bystander
  BY <1>1, ServerQuiet DEF Bystander
<1>2. CASE Configuring
  <2>1. Rekeying /\ UNCHANGED <<upload, send, doomed, schema>>
    BY <1>2, ConfiguringFrame DEF Configuring, ServerAlone, BackupAlone
  <2>2. put' = put
    BY <2>1 DEF Rekeying, Rotate, EndRotation
  <2> QED BY <2>1, <2>2 DEF Quiet, Putting
<1>3. CASE Archiving
  BY <1>3, ArchivingFrame DEF ServerAlone, Quiet, Putting
<1>4. CASE Restoring
  <2>1. CASE Lose
    BY <2>1 DEF Lose, Putting, Unbegun
  <2>2. CASE DropSchema
    <3>1. send = NoPosts
      BY <2>2 DEF DropSchema, Locked, AttachmentsTypeOK, Posts, NoPosts
    <3> QED BY <2>2, <3>1 DEF DropSchema, requests, Putting
  <2>3. CASE Load
    BY <2>3 DEF Load
  <2>4. CASE ~(Lose \/ DropSchema \/ Load)
    BY <1>4, <2>4, RestoringFrame DEF Quiet, Putting
  <2> QED BY <2>1, <2>2, <2>3, <2>4
<1>5. CASE UNCHANGED vars
  BY <1>5 DEF vars, attachmentVars, requests, secretVars, backupVars, Quiet, Putting
<1> QED BY <1>1, <1>2, <1>3, <1>4, <1>5, StepCases

LEMMA NothingWhole == Whole(NoRows, NoPosts)
  BY AttachmentsAssumption DEF Whole, NoRows, NoPosts

LEMMA DumpsWholeStep ==
  ASSUME IInv, [Next]_vars, TypeOK'
  PROVE  DumpsWhole'
<1> USE DEF IInv, TypeOK
<1>1. CASE Server /\ Bystander
  <2>1. \A k \in Keys : k \in born => k \in born'
    BY <1>1, ServerEffects DEF KeyStep
  <2>2. archive' = archive /\ (backup' = backup \/ (backup'.row = NoRows /\ backup'.sent = NoPosts))
    BY <1>1 DEF Bystander, NoBackup
  <2> QED BY <2>1, <2>2, NothingWhole DEF DumpsWhole, NoRows
<1>2. CASE UNCHANGED <<backup, archive, born>>
  BY <1>2 DEF DumpsWhole
<1>3. CASE Archiving
  <2>1. UNCHANGED <<row, sent, born>>
    BY <1>3, ArchivingFrame DEF ServerAlone
  <2>2. CASE (\E way \in Ways : BackupBegin(way)) \/ BackupFails
    <3>1. archive' = archive /\ backup'.row = NoRows /\ backup'.sent = NoPosts
      <4>1. ASSUME NEW way \in Ways, BackupBegin(way)
            PROVE  archive' = archive /\ backup'.row = NoRows /\ backup'.sent = NoPosts
        BY <4>1 DEF BackupBegin, NoBackup
      <4>2. BackupFails => archive' = archive /\ backup' = NoBackup
        BY DEF BackupFails
      <4> QED BY <2>2, <4>1, <4>2 DEF NoBackup
    <3> QED BY <2>1, <3>1, NothingWhole DEF DumpsWhole, NoRows
  <2>3. CASE Dump
    <3>1. archive' = archive /\ backup'.row = row /\ backup'.sent = sent
      BY <2>3 DEF Dump
    <3> QED BY <2>1, <3>1 DEF DumpsWhole, FilesInv, RowsBorn
  <2>4. CASE Write
    <3>1. archive'.row = backup.row /\ archive'.sent = backup.sent
      BY <2>4 DEF Write
    <3>2. backup'.row = NoRows /\ backup'.sent = NoPosts
      BY <2>4 DEF Write, NoBackup
    <3> QED BY <2>1, <3>1, <3>2, NothingWhole DEF DumpsWhole, NoRows
  <2>5. CASE (\E k \in Keys : CopyFile(k) \/ Damage(k)) \/ ReadKeys \/ Refuse
    <3>1. /\ backup'.row = backup.row /\ backup'.sent = backup.sent
          /\ archive'.row = archive.row /\ archive'.sent = archive.sent
      BY <2>5 DEF CopyFile, Damage, ReadKeys, Refuse
    <3> QED BY <2>1, <3>1 DEF DumpsWhole
  <2> QED BY <1>3, <2>2, <2>3, <2>4, <2>5 DEF Archiving
<1>4. CASE UNCHANGED vars
  BY <1>2, <1>4 DEF vars, attachmentVars, backupVars
<1> QED
  BY <1>1, <1>2, <1>3, <1>4, StepCases, ConfiguringFrame, RestoringFrame DEF ServerAlone, BackupAlone

LEMMA PhasesStep ==
  ASSUME IInv, [Next]_vars, TypeOK'
  PROVE  Phases'
<1> USE DEF IInv, TypeOK
<1>1. CASE Server /\ Bystander
  BY <1>1 DEF Bystander, NoBackup, Phases
<1>2. CASE UNCHANGED <<backup, archive, restore, schema>>
  BY <1>2 DEF Phases
<1>3. CASE Archiving
  <2>1. UNCHANGED <<schema, restore>>
    BY <1>3, ArchivingFrame
  <2>2. ASSUME NEW way \in Ways, BackupBegin(way)
        PROVE  Phases'
    BY <2>1, <2>2 DEF BackupBegin, Phases
  <2>3. ASSUME NEW k \in Keys, CopyFile(k)
        PROVE  Phases'
    BY <2>1, <2>3 DEF CopyFile, Phases
  <2>4. ASSUME NEW k \in Keys, Damage(k)
        PROVE  Phases'
    <3>1. archive.files[k] # "none" /\ backup' = backup /\ restore.step = "never"
      BY <2>4 DEF Damage
    <3>2. archive.there' = archive.there /\ archive.intact' = FALSE /\ archive.row' = archive.row
      BY <2>4 DEF Damage
    <3> QED BY <2>1, <3>1, <3>2 DEF Phases
  <2>5. CASE Dump \/ ReadKeys \/ Refuse \/ BackupFails
    BY <2>1, <2>5 DEF Dump, ReadKeys, Refuse, BackupFails, NoBackup, Phases
  <2>6. CASE Write
    BY <2>1, <2>6 DEF Write, NoBackup, Phases
  <2> QED BY <1>3, <2>2, <2>3, <2>4, <2>5, <2>6 DEF Archiving
<1>4. CASE Restoring
  <2>1. UNCHANGED <<backup, archive>>
    BY <1>4, RestoringFrame
  <2>2. CASE Lose
    BY <2>1, <2>2 DEF Lose, Phases
  <2>3. CASE RestoreOpen
    BY <2>1, <2>3 DEF RestoreOpen, Verified, NoRestore, Phases
  <2>4. CASE DropSchema
    BY <2>1, <2>4 DEF DropSchema, Phases
  <2>5. CASE Load
    BY <2>1, <2>5 DEF Load, Phases
  <2>6. ASSUME NEW k \in Keys, WriteFile(k)
        PROVE  Phases'
    BY <2>1, <2>6 DEF WriteFile, Phases
  <2>7. CASE Ask \/ Compare \/ RestoreDies
    BY <2>1, <2>7 DEF Ask, Compare, RestoreDies, NoRestore, Phases
  <2> QED BY <1>4, <2>2, <2>3, <2>4, <2>5, <2>6, <2>7 DEF Restoring
<1>5. CASE UNCHANGED vars
  BY <1>2, <1>5 DEF vars, backupVars
<1> QED BY <1>1, <1>2, <1>3, <1>4, <1>5, StepCases, ConfiguringFrame DEF BackupAlone

LEMMA ServedWholeStep ==
  ASSUME IInv, [Next]_vars, TypeOK'
  PROVE  ServedWhole'
<1> USE DEF IInv, TypeOK
<1>1. CASE Server /\ Bystander
  <2> SUFFICES ASSUME InService', NEW k \in Keys, row'[k] # "none"
               PROVE  file'[k] = "whole"
    BY DEF ServedWhole
  <2>1. InService
    BY <1>1 DEF Bystander, InService
  <2>2. RowStep(k) /\ FileStep(k)
    BY <1>1, ServerEffects
  <2>3. file[k] = "whole"
    BY <2>1, <2>2 DEF RowStep, ServedWhole
  <2>4. k \notin doomed'
    BY FilesInvStep DEF FilesInv, RowsBorn
  <2>5. CASE file'[k] = file[k]
    BY <2>3, <2>5
  <2>6. CASE k \in doomed
    BY <1>1, <2>4, <2>6, <2>2 DEF RowStep, FilesInv, RowsBorn, UploadApart
  <2>7. CASE k \in upload.key /\ file'[k] # file[k]
    <3>1. WriteBegin \/ WriteEnd \/ \E j \in Keys : SweepRemove(j)
      BY <1>1, <2>7 DEF Server, Uploading, Sending, Sweeping, UploadInsert, UploadCommit, UploadFails,
           SendClaim, SendCommit, SendRollback, Age, SweepDelete, SweepFails, Crash
    <3>2. row' = row
      BY <3>1 DEF WriteBegin, WriteEnd, UploadStep, SweepRemove, tables
    <3> QED BY <2>7, <3>2 DEF FilesInv, UploadApart
  <2> QED BY <2>2, <2>5, <2>6, <2>7 DEF FileStep
<1>2. CASE UNCHANGED <<row, file, restore, schema>>
  BY <1>2 DEF ServedWhole, InService
<1>3. CASE Restoring
  <2>1. ~InService'
    BY <1>3 DEF Restoring, InService, WriteFile, Lose, RestoreOpen, DropSchema, Load, Ask, Compare,
         RestoreDies, NoRestore
  <2> QED BY <2>1 DEF ServedWhole
<1>4. CASE UNCHANGED vars
  BY <1>2, <1>4 DEF vars, attachmentVars, tables, backupVars
<1> QED
  BY <1>1, <1>2, <1>3, <1>4, StepCases, ConfiguringFrame, ArchivingFrame DEF ServerAlone, BackupAlone

\* The backup copies what is there: until it has read its keys, every row that
\* was committed before it began has its file in the copy or will have.
LEMMA CopiedStep ==
  ASSUME IInv, [Next]_vars, TypeOK'
  PROVE  Copied'
<1> USE DEF IInv, TypeOK
<1>1. CASE Server /\ Bystander
  <2>1. CASE backup' = NoBackup
    BY <2>1 DEF Copied, NoBackup
  <2>2. CASE backup' = backup
    <3>1. \A k \in Keys : RowStep(k) /\ KeyStep(k)
      BY <1>1, ServerEffects
    <3>2. \A k \in Keys : k \in fresh' <=> k \in fresh \/ (row'[k] # "none" /\ row[k] = "none")
      BY <1>1 DEF Bystander, RowKeys
    <3>3. ASSUME backup.step \in {"files", "dumped", "keys"}, NEW k \in Keys, k \in fresh', k \in old'
          PROVE  FALSE
      <4>1. k \in old => k \notin fresh
        BY <3>3 DEF Copied
      <4>2. k \in fresh => k \in Young
        BY <3>3 DEF Young
      <4>3. CASE k \in fresh
        BY <3>1, <3>3, <4>1, <4>2, <4>3 DEF KeyStep
      <4>4. CASE k \notin fresh
        <5>1. row[k] = "none" /\ k \in upload.key
          BY <3>1, <3>2, <3>3, <4>4 DEF RowStep
        <5> QED BY <3>1, <3>3, <5>1 DEF KeyStep, FilesInv, UploadApart
      <4> QED BY <4>3, <4>4
    <3>4. ASSUME backup.step = "dumped", NEW k \in Keys, k \in fresh, row[k] # "none"
          PROVE  row'[k] # "none"
      BY <3>1, <3>4, AttachmentsAssumption DEF RowStep, Copied
    <3>5. fresh' \subseteq Keys /\ old' \subseteq Keys
      BY DEF AttachmentsTypeOK
    <3>6. \A k \in Keys : row'[k] # "none" /\ k \notin fresh' => row[k] # "none" /\ k \notin fresh
      BY <3>2
    <3>7. backup.step \in {"files", "dumped", "keys"} => fresh' \cap old' = {}
      BY <3>3, <3>5
    <3>8. \A k \in Keys : k \in fresh => k \in fresh'
      BY <3>2
    <3> QED BY <2>2, <3>4, <3>6, <3>7, <3>8 DEF Copied
  <2> QED BY <1>1, <2>1, <2>2 DEF Bystander
<1>2. CASE UNCHANGED <<backup, row, fresh, old>>
  BY <1>2 DEF Copied
<1>3. CASE Archiving
  <2>1. UNCHANGED <<row, file, old>>
    BY <1>3, ArchivingFrame DEF ServerAlone
  <2>2. ASSUME NEW way \in Ways, BackupBegin(way)
        PROVE  Copied'
    BY <2>1, <2>2 DEF BackupBegin, NoBackup, Copied
  <2>3. ASSUME NEW k \in Keys, CopyFile(k)
        PROVE  Copied'
    <3>1. InService
      BY <2>3 DEF CopyFile, Phases, InService
    <3>2. row[k] # "none" => file[k] # "none"
      BY <3>1 DEF ServedWhole
    <3>3. /\ backup'.step = backup.step /\ backup'.row = backup.row /\ backup'.keys = backup.keys
          /\ backup'.left = backup.left \ {k} /\ backup.step \in {"files", "dumped"} /\ fresh' = fresh
      BY <2>3 DEF CopyFile
    <3>4. \A j \in Keys : backup'.files[j] = IF j = k THEN file[k] ELSE backup.files[j]
      BY <2>3 DEF CopyFile, Files
    <3>5. backup.step = "files"
      BY <2>3, <3>3 DEF CopyFile, Copied
    <3> QED BY <2>1, <3>2, <3>3, <3>4, <3>5 DEF Copied
  <2>4. ASSUME NEW k \in Keys, Damage(k)
        PROVE  Copied'
    BY <2>1, <2>4 DEF Damage, Copied
  <2>5. CASE Dump
    <3>1. /\ backup'.step = "dumped" /\ backup'.row = row /\ backup'.files = backup.files
          /\ backup'.left = {} /\ fresh' = fresh /\ backup.step = "files" /\ backup.left = {}
      BY <2>5 DEF Dump, FilesCopied
    <3> QED BY <2>1, <3>1 DEF Copied
  <2>6. CASE ReadKeys
    <3>1. /\ backup'.step = "keys" /\ backup'.row = backup.row /\ backup'.files = backup.files
          /\ backup'.left = {} /\ fresh' = fresh /\ backup.step = "dumped" /\ backup.left = {}
          /\ backup'.keys = RowKeys(row)
      BY <2>6 DEF ReadKeys, FilesCopied
    <3> QED BY <2>1, <3>1 DEF Copied, RowKeys
  <2>7. CASE Refuse
    <3>1. /\ backup'.step = "refused" /\ backup'.files = backup.files /\ backup'.left = backup.left
          /\ fresh' = fresh /\ backup.step = "keys" /\ backup'.keys = backup.keys
      BY <2>7 DEF Refuse
    <3> QED BY <2>1, <3>1 DEF Copied
  <2>8. CASE Write \/ BackupFails
    BY <2>8 DEF Write, BackupFails, NoBackup, Copied
  <2> QED BY <1>3, <2>2, <2>3, <2>4, <2>5, <2>6, <2>7, <2>8 DEF Archiving
<1>4. CASE Restoring
  <2>1. backup.step = "idle" \/ backup.step = "refused"
    BY <1>4 DEF Restoring, WriteFile, Lose, RestoreOpen, Verified, DropSchema, Load, Ask, Compare,
         RestoreDies, Phases
  <2>2. UNCHANGED <<backup, old, fresh>>
    BY <1>4, RestoringFrame
  <2> QED BY <2>1, <2>2 DEF Copied
<1>5. CASE UNCHANGED vars
  BY <1>2, <1>5 DEF vars, attachmentVars, tables, backupVars
<1> QED BY <1>1, <1>2, <1>3, <1>4, <1>5, StepCases, ConfiguringFrame DEF ServerAlone, BackupAlone

LEMMA ArchiveCompleteStep ==
  ASSUME IInv, [Next]_vars, TypeOK'
  PROVE  ArchiveComplete'
<1> USE DEF IInv, TypeOK
<1>1. CASE archive' = archive
  BY <1>1 DEF ArchiveComplete
<1>2. ASSUME NEW k \in Keys, Damage(k)
      PROVE  ArchiveComplete'
  <2>1. /\ archive'.there = archive.there /\ archive'.way = archive.way /\ archive'.row = archive.row
        /\ archive.files[k] = "whole"
    BY <1>2 DEF Damage
  <2>2. \A j \in Keys : archive'.files[j] = IF j = k THEN "part" ELSE archive.files[j]
    BY <1>2 DEF Damage, Files
  <2>3. FileKeys(archive'.files) = FileKeys(archive.files)
    BY <2>1, <2>2 DEF FileKeys
  <2> QED BY <2>1, <2>3 DEF ArchiveComplete, Missing
<1>3. CASE Write
  <2>1. backup.step = "keys" /\ (Missing(backup.keys, backup.files) = {} \/ backup.way = "allow missing")
    BY <1>3 DEF Write, Refused
  <2>2. archive'.way = backup.way /\ archive'.row = backup.row /\ archive'.files = backup.files
    BY <1>3 DEF Write
  <2>3. \A k \in Keys : backup.row[k] # "none" => backup.files[k] # "none" \/ k \in backup.keys
    BY <2>1 DEF Copied
  <2>4. Missing(backup.keys, backup.files) = {} => Missing(RowKeys(backup.row), backup.files) = {}
    BY <2>3 DEF Missing, RowKeys, FileKeys
  <2> QED BY <2>1, <2>2, <2>4 DEF ArchiveComplete
<1>4. \/ archive' = archive \/ Write \/ \E k \in Keys : Damage(k)
  BY StepCases, ConfiguringFrame, RestoringFrame
  DEF Bystander, BackupAlone, Archiving, BackupBegin, CopyFile, Dump, ReadKeys, Refuse, BackupFails,
      vars, backupVars
<1> QED BY <1>1, <1>2, <1>3, <1>4

LEMMA TornOnlyStep ==
  ASSUME IInv, [Next]_vars, TypeOK'
  PROVE  TornOnly'
<1> USE DEF IInv, TypeOK
<1>1. CASE Server /\ Bystander
  <2>1. \A k \in Keys : RowStep(k) /\ FileStep(k) /\ KeyStep(k)
    BY <1>1, ServerEffects
  <2>2. torn' = torn /\ archive' = archive /\ restore' = restore
    BY <1>1 DEF Bystander
  <2>3. \A k \in Keys :
          \/ backup'.row[k] = backup.row[k] /\ backup'.files[k] = backup.files[k]
          \/ backup'.row[k] = "none" /\ backup'.files[k] = "none"
    BY <1>1 DEF Bystander, NoBackup, NoRows
  <2>4. upload'.key \subseteq Keys /\ restore.left \subseteq Keys
    BY DEF AttachmentsTypeOK
  <2>5. (upload'.key \cap restore.left = {}) /\ restore.left \subseteq born'
    BY <2>1, <2>4 DEF TornOnly, KeyStep
  <2>6. \A k \in upload'.key : backup'.row[k] = "none" /\ archive.row[k] = "none"
    BY <2>1, <2>3, <2>4 DEF TornOnly, KeyStep, DumpsWhole
  <2>7. ASSUME NEW k \in Keys, file'[k] = "part"
        PROVE  k \in torn \/ (row'[k] = "none" /\ backup'.row[k] = "none" /\ archive.row[k] = "none")
    <3>1. CASE file'[k] = file[k]
      <4>1. row[k] = "none" => row'[k] = "none"
        BY <2>1, <2>7, <3>1, AttachmentsAssumption DEF RowStep
      <4> QED BY <2>3, <2>7, <3>1, <4>1 DEF TornOnly
    <3>2. CASE k \in upload.key
      <4>1. row[k] = "none" /\ backup.row[k] = "none" /\ archive.row[k] = "none"
        BY <3>2 DEF TornOnly, FilesInv, UploadApart
      <4>2. CASE row'[k] = "none"
        BY <2>3, <4>1, <4>2
      <4>3. CASE row'[k] # "none" /\ file'[k] # file[k]
        <5>1. UploadCommit
          BY <1>1, <4>1, <4>3 DEF Server, Uploading, Sending, Sweeping, UploadInsert, WriteBegin, WriteEnd,
             UploadStep, UploadFails, SendClaim, SendCommit, SendRollback, Age, SweepDelete, SweepRemove,
             SweepFails, Crash, tables, FilesInv, SendsApart
        <5> QED BY <4>3, <5>1 DEF UploadCommit
      <4> QED BY <3>1, <4>2, <4>3
    <3> QED BY <2>1, <2>7, <3>1, <3>2 DEF FileStep
  <2>8. \A k \in Keys : backup'.files[k] = "part" => k \in torn
    BY <2>3 DEF TornOnly
  <2>9. \A k \in Keys :
          file'[k] # "none" \/ backup'.files[k] # "none" \/ archive.files[k] # "none" => k \in born'
    <3>1. \A k \in Keys : file'[k] # "none" => file[k] # "none" \/ k \in born
      BY <2>1 DEF FileStep, AttachmentsTypeOK
    <3> QED BY <2>1, <2>3, <3>1 DEF TornOnly, KeyStep
  <2>10. archive.intact => \A k \in Keys : archive.files[k] = "part" => k \in torn
    BY DEF TornOnly
  <2> QED BY <2>2, <2>5, <2>6, <2>7, <2>8, <2>9, <2>10 DEF TornOnly
<1>2. CASE UNCHANGED <<backup, archive, restore, file, torn, row, upload, born>>
  BY <1>2 DEF TornOnly
<1>3. CASE UNCHANGED vars
  BY <1>2, <1>3 DEF vars, attachmentVars, tables, requests, backupVars
<1>4. CASE Archiving
  <2>1. UNCHANGED <<row, file, upload, born, restore>>
    BY <1>4, ArchivingFrame DEF ServerAlone
  <2>2. ASSUME NEW way \in Ways, BackupBegin(way)
        PROVE  TornOnly'
    <3>1. InService /\ archive' = archive /\ ~archive.intact /\ torn' = {} /\ archive.row = NoRows
      BY <2>2 DEF BackupBegin, InService, Phases
    <3>2. backup'.files = NoRows /\ backup'.row = NoRows
      BY <2>2 DEF BackupBegin, NoBackup
    <3> QED BY <2>1, <3>1, <3>2 DEF TornOnly, NoRows, ServedWhole
  <2>3. ASSUME NEW k \in Keys, CopyFile(k)
        PROVE  TornOnly'
    <3>1. \A j \in Keys : backup'.files[j] = IF j = k THEN file[k] ELSE backup.files[j]
      BY <2>3 DEF CopyFile, Files
    <3>2. backup'.row = backup.row /\ archive' = archive
          /\ torn' = IF file[k] = "part" THEN torn \cup {k} ELSE torn
      BY <2>3 DEF CopyFile
    <3> QED BY <2>1, <3>1, <3>2 DEF TornOnly
  <2>4. ASSUME NEW k \in Keys, Damage(k)
        PROVE  TornOnly'
    <3>1. \A j \in Keys : archive'.files[j] = IF j = k THEN "part" ELSE archive.files[j]
      BY <2>4 DEF Damage, Files
    <3>2. /\ archive'.row = archive.row /\ ~archive'.intact /\ UNCHANGED <<backup, torn>>
          /\ archive.files[k] = "whole"
      BY <2>4 DEF Damage
    <3> QED BY <2>1, <3>1, <3>2 DEF TornOnly
  <2>5. CASE Dump
    <3>1. backup'.row = row /\ backup'.files = backup.files /\ UNCHANGED <<archive, torn>>
      BY <2>5 DEF Dump
    <3> QED BY <2>1, <3>1 DEF TornOnly, FilesInv, UploadApart
  <2>6. CASE ReadKeys \/ Refuse
    <3>1. backup'.row = backup.row /\ backup'.files = backup.files /\ UNCHANGED <<archive, torn>>
      BY <2>6 DEF ReadKeys, Refuse
    <3> QED BY <2>1, <3>1 DEF TornOnly
  <2>7. CASE Write
    <3>1. backup'.row = NoRows /\ backup'.files = NoRows /\ torn' = torn
          /\ archive'.row = backup.row /\ archive'.files = backup.files
      BY <2>7 DEF Write, NoBackup
    <3> QED BY <2>1, <3>1 DEF TornOnly, NoRows, AttachmentsTypeOK
  <2>8. CASE BackupFails
    <3>1. backup'.row = NoRows /\ backup'.files = NoRows /\ UNCHANGED <<archive, torn>>
      BY <2>8 DEF BackupFails, NoBackup
    <3> QED BY <2>1, <3>1 DEF TornOnly, NoRows, AttachmentsTypeOK
  <2> QED BY <1>4, <2>2, <2>3, <2>4, <2>5, <2>6, <2>7, <2>8 DEF Archiving
<1>5. CASE Restoring
  <2>1. UNCHANGED <<backup, archive, torn, born>>
    BY <1>5, RestoringFrame
  <2>2. CASE Lose
    <3>1. restore' = restore /\ row' = NoRows /\ file' = NoRows /\ upload'.key = {}
      BY <2>2 DEF Lose, Waiting
    <3> QED BY <2>1, <3>1 DEF TornOnly, NoRows
  <2>3. CASE RestoreOpen \/ Compare \/ RestoreDies
    <3>1. UNCHANGED <<row, file, upload>> /\ restore'.left = {}
      BY <2>3 DEF RestoreOpen, Compare, RestoreDies, NoRestore, attachmentVars, tables, requests
    <3> QED BY <2>1, <3>1 DEF TornOnly
  <2>4. CASE DropSchema
    <3>1. UNCHANGED <<file, upload, restore>> /\ row' = NoRows
      BY <2>4 DEF DropSchema, requests
    <3> QED BY <2>1, <3>1 DEF TornOnly, NoRows
  <2>5. CASE Load
    <3>1. file' = file /\ row' = archive.row /\ upload' = upload /\ upload.key = {}
          /\ restore'.left = FileKeys(archive.files)
      BY <2>5 DEF Load, requests, Quiet, Waiting
    <3> QED BY <2>1, <3>1 DEF TornOnly, FileKeys
  <2>6. ASSUME NEW k \in Keys, WriteFile(k)
        PROVE  TornOnly'
    <3>1. UNCHANGED <<row, upload>> /\ restore'.left \subseteq restore.left /\ archive.intact
      BY <2>6 DEF WriteFile, tables, requests, Phases
    <3>2. \A j \in Keys : file'[j] = IF j = k THEN archive.files[k] ELSE file[j]
      BY <2>6 DEF WriteFile, AttachmentsTypeOK, Files
    <3> QED BY <2>1, <3>1, <3>2 DEF TornOnly
  <2>7. CASE Ask
    <3>1. UNCHANGED <<row, file, upload>> /\ restore'.left = restore.left
      BY <2>7 DEF Ask, attachmentVars, tables, requests
    <3> QED BY <2>1, <3>1 DEF TornOnly
  <2> QED BY <1>5, <2>2, <2>3, <2>4, <2>5, <2>6, <2>7 DEF Restoring
<1> QED
  BY <1>1, <1>2, <1>3, <1>4, <1>5, StepCases, ConfiguringFrame DEF ServerAlone, BackupAlone

LEMMA ExpectedStep ==
  ASSUME IInv, [Next]_vars, TypeOK'
  PROVE  Expected'
<1> USE DEF IInv, TypeOK
<1>1. CASE Server /\ Bystander
  <2>1. \A k \in Keys : RowStep(k) /\ FileStep(k)
    BY <1>1, ServerEffects
  <2>2. \A k \in Keys : row[k] # "none" => k \notin doomed /\ k \notin upload.key
    BY DEF FilesInv, RowsBorn, UploadApart
  <2>3. \A k \in upload.key : k \notin doomed
    BY DEF FilesInv, UploadApart
  <2>4. \A k \in Keys : row'[k] # "none" => (row[k] # "none" /\ file'[k] = file[k]) \/ file'[k] # "none"
    BY <2>1, <2>2, <2>3 DEF RowStep, FileStep
  <2> QED BY <1>1, <2>4 DEF Bystander, Expected
<1>2. CASE UNCHANGED <<restore, row, file>>
  BY <1>2 DEF Expected
<1>3. CASE Restoring
  <2>1. CASE Lose \/ RestoreOpen \/ DropSchema \/ Load \/ RestoreDies
    BY <2>1 DEF Lose, RestoreOpen, DropSchema, Load, RestoreDies, NoRestore, Expected
  <2>2. ASSUME NEW k \in Keys, WriteFile(k)
        PROVE  Expected'
    BY <2>2 DEF WriteFile, Expected
  <2>3. CASE Ask
    <3>1. UNCHANGED <<row, file>> /\ restore'.step = "checking" /\ restore'.keys = RowKeys(row)
      BY <2>3 DEF Ask, attachmentVars, tables
    <3> QED BY <3>1 DEF Expected, RowKeys
  <2>4. CASE Compare
    <3>1. UNCHANGED <<row, file>> /\ restore.step = "checking" /\ restore'.step # "checking"
          /\ (restore'.step = "complete" => AllThere)
      BY <2>4 DEF Compare, NoRestore, attachmentVars, tables
    <3> QED BY <3>1 DEF Expected, AllThere, Missing, FileKeys
  <2> QED BY <1>3, <2>1, <2>2, <2>3, <2>4 DEF Restoring
<1>4. CASE UNCHANGED vars
  BY <1>2, <1>4 DEF vars, attachmentVars, tables, backupVars
<1> QED
  BY <1>1, <1>2, <1>3, <1>4, StepCases, ConfiguringFrame, ArchivingFrame DEF ServerAlone, BackupAlone

LEMMA CountedStep ==
  ASSUME IInv, [Next]_vars, TypeOK'
  PROVE  Counted'
<1> USE DEF IInv, TypeOK
<1>1. CASE Server /\ Bystander
  <2> SUFFICES ASSUME ~disturbed' PROVE Counted'
    BY DEF Counted
  <2>1. ~disturbed /\ (Counting => CountsOf(row', sent') = CountsOf(row, sent))
    BY <1>1 DEF Bystander
  <2>2. archive' = archive /\ restore' = restore /\ (backup' = backup \/ backup'.step = "idle")
    BY <1>1 DEF Bystander, NoBackup
  <2>3. CountsOf(row, sent)' = CountsOf(row', sent')
    BY DEF CountsOf
  <2> QED BY <2>1, <2>2, <2>3 DEF Counted, Counting
<1>2. CASE UNCHANGED <<backup, archive, restore, row, sent, disturbed>>
  BY <1>2 DEF Counted, CountsOf
<1>3. CASE Archiving
  <2>1. UNCHANGED <<row, sent, restore>>
    BY <1>3, ArchivingFrame DEF ServerAlone
  <2>2. ASSUME NEW way \in Ways, BackupBegin(way)
        PROVE  Counted'
    BY <2>1, <2>2 DEF BackupBegin, NoBackup, Counted
  <2>3. ASSUME NEW k \in Keys, CopyFile(k)
        PROVE  Counted'
    <3>1. /\ backup'.step = backup.step /\ backup'.row = backup.row /\ backup'.sent = backup.sent
          /\ UNCHANGED <<archive, disturbed>>
      BY <2>3 DEF CopyFile
    <3> QED BY <2>1, <3>1 DEF Counted
  <2>4. ASSUME NEW k \in Keys, Damage(k)
        PROVE  Counted'
    <3>1. /\ archive'.there = archive.there /\ archive'.row = archive.row /\ archive'.sent = archive.sent
          /\ archive'.counts = archive.counts /\ UNCHANGED <<backup, disturbed>>
      BY <2>4 DEF Damage
    <3> QED BY <2>1, <3>1 DEF Counted
  <2>5. CASE Dump
    <3>1. backup'.row = row /\ backup'.sent = sent /\ archive' = archive /\ backup.step = "files"
      BY <2>5 DEF Dump
    <3>2. ~archive.there /\ restore.step = "never"
      BY <3>1 DEF Phases
    <3> QED BY <2>1, <3>1, <3>2 DEF Counted
  <2>6. CASE ReadKeys
    <3>1. /\ backup.step = "dumped" /\ backup'.row = backup.row /\ backup'.sent = backup.sent
          /\ UNCHANGED <<archive, disturbed>>
      BY <2>6 DEF ReadKeys
    <3> QED BY <2>1, <3>1 DEF Counted
  <2>7. CASE Write
    <3>1. /\ backup.step = "keys" /\ archive'.row = backup.row /\ archive'.sent = backup.sent
          /\ archive'.counts = CountsOf(row, sent) /\ backup'.step = "idle" /\ disturbed' = disturbed
      BY <2>7 DEF Write, NoBackup
    <3>2. restore.step = "never"
      BY <3>1 DEF Phases
    <3> QED BY <2>1, <3>1, <3>2 DEF Counted
  <2>8. CASE Refuse \/ BackupFails
    BY <2>1, <2>8 DEF Refuse, BackupFails, NoBackup, Counted
  <2> QED BY <1>3, <2>2, <2>3, <2>4, <2>5, <2>6, <2>7, <2>8 DEF Archiving
<1>4. CASE Restoring
  <2>1. UNCHANGED <<backup, archive>>
    BY <1>4, RestoringFrame
  <2>2. CASE Lose
    <3>1. backup.step = "idle" /\ restore.step = "never" /\ UNCHANGED <<restore, disturbed>>
      BY <2>2 DEF Lose, Phases
    <3> QED BY <2>1, <3>1 DEF Counted
  <2>3. CASE RestoreOpen \/ RestoreDies
    <3>1. UNCHANGED <<row, sent, disturbed>> /\ restore'.step \in {"opened", "died"}
      BY <2>3 DEF RestoreOpen, RestoreDies, NoRestore, attachmentVars, tables
    <3> QED BY <2>1, <3>1 DEF Counted, CountsOf
  <2>4. CASE DropSchema
    <3>1. backup.step = "idle" /\ restore.step = "opened" /\ UNCHANGED <<restore, disturbed>>
      BY <2>4 DEF DropSchema, Phases
    <3> QED BY <2>1, <3>1 DEF Counted
  <2>5. CASE Load
    <3>1. /\ row' = archive.row /\ sent' = archive.sent /\ disturbed' = disturbed
          /\ restore'.step = "writing" /\ backup.step = "idle" /\ archive.there
      BY <2>5 DEF Load, Phases
    <3> QED BY <2>1, <3>1 DEF Counted
  <2>6. ASSUME NEW k \in Keys, WriteFile(k)
        PROVE  Counted'
    <3>1. UNCHANGED <<row, sent, disturbed>> /\ restore.step = "writing" /\ restore'.step = "writing"
      BY <2>6 DEF WriteFile, tables
    <3> QED BY <2>1, <3>1 DEF Counted, CountsOf
  <2>7. CASE Ask
    <3>1. /\ UNCHANGED <<row, sent, disturbed>> /\ restore.step = "writing"
          /\ restore'.step = "checking" /\ restore'.counts = CountsOf(row, sent)
      BY <2>7 DEF Ask, attachmentVars, tables
    <3> QED BY <2>1, <3>1 DEF Counted, CountsOf
  <2>8. CASE Compare
    <3>1. /\ UNCHANGED <<row, sent, disturbed>> /\ restore.step = "checking"
          /\ restore'.step \in {"inconsistent", "mismatch", "complete"}
          /\ restore'.step = "mismatch" => restore.counts # archive.counts
      BY <2>8 DEF Compare, NoRestore, attachmentVars, tables
    <3> QED BY <2>1, <3>1 DEF Counted, CountsOf
  <2> QED BY <1>4, <2>2, <2>3, <2>4, <2>5, <2>6, <2>7, <2>8 DEF Restoring
<1>5. CASE UNCHANGED vars
  BY <1>2, <1>5 DEF vars, attachmentVars, tables, backupVars
<1> QED
  BY <1>1, <1>2, <1>3, <1>4, <1>5, StepCases, ConfiguringFrame DEF ServerAlone, BackupAlone

LEMMA WarnedStep ==
  ASSUME IInv, [Next]_vars, TypeOK'
  PROVE  Warned'
<1> USE DEF IInv, TypeOK
<1>1. CASE UNCHANGED <<archive, restore, smtp, env, put>>
  BY <1>1 DEF Warned, Readable, Putting
<1>2. CASE Configuring
  <2>1. UNCHANGED <<archive, restore>>
    BY <1>2, ConfiguringFrame DEF BackupAlone
  <2>2. CASE Rekeying /\ restore.step = "never"
    BY <2>1, <2>2 DEF Warned
  <2>3. ASSUME NEW w \in Writers, NEW p \in {"omitted", "null", "given"}, PutRead(w, p)
        PROVE  Warned'
    <3>1. UNCHANGED <<smtp, env>>
      BY <2>3 DEF PutRead
    <3>2. \A v \in Putting' : (v \in Putting /\ put'[v] = put[v]) \/ put'[v].stored = smtp
      BY <2>3 DEF PutRead, Putting, SecretsTypeOK
    <3> QED BY <2>1, <3>1, <3>2 DEF Warned, Readable
  <2>4. ASSUME NEW w \in Writers, PutCommit(w) \/ PutFails(w)
        PROVE  Warned'
    <3>1. env' = env /\ \A v \in Putting' : v \in Putting /\ put'[v] = put[v]
      BY <2>4 DEF PutCommit, PutFails, Putting, SecretsTypeOK, Unbegun
    <3>2. PutCommit(w) => w \in Putting /\ smtp'.key = NewPassword(w)
      BY DEF PutCommit, Putting
    <3>3. NewPassword(w) \in {put[w].stored.key, {}, {env.current}}
      BY DEF NewPassword, SecretsTypeOK
    <3>4. PutFails(w) => smtp' = smtp
      BY DEF PutFails
    <3> QED BY <2>1, <2>4, <3>1, <3>2, <3>3, <3>4 DEF Warned, Readable
  <2> QED BY <1>2, <2>2, <2>3, <2>4 DEF Configuring, Setup
<1>3. CASE Archiving
  <2>1. UNCHANGED <<smtp, env, put, restore>>
    BY <1>3, ArchivingFrame
  <2>2. CASE restore.step = "never"
    BY <2>1, <2>2 DEF Warned
  <2>3. CASE restore.step # "never"
    <3>1. archive' = archive
      BY <1>3, <2>3 DEF Archiving, BackupBegin, CopyFile, Damage, Dump, ReadKeys, Write, Refuse,
           BackupFails, Phases
    <3> QED BY <1>1, <2>1, <3>1
  <2> QED BY <2>2, <2>3
<1>4. CASE Restoring
  <2>1. UNCHANGED <<env, archive>>
    BY <1>4, RestoringFrame
  <2>2. CASE Lose
    BY <2>2 DEF Lose, Warned
  <2>3. CASE RestoreOpen
    <3>1. restore'.step = "opened" /\ restore'.warned = OtherKey
      BY <2>3 DEF RestoreOpen, NoRestore
    <3> QED BY <2>1, <3>1 DEF Warned, OtherKey
  <2>4. CASE DropSchema
    BY <2>1, <2>4 DEF DropSchema, Warned
  <2>5. CASE Load
    <3>1. /\ restore.step = "opened" /\ restore'.step = "writing" /\ restore'.warned = restore.warned
          /\ smtp' = archive.smtp /\ put' = put
      BY <2>5 DEF Load
    <3>2. Putting' = {}
      BY <2>5, <3>1 DEF Load, Quiet, Putting
    <3> QED BY <2>1, <3>1, <3>2 DEF Warned, Readable
  <2>6. ASSUME NEW k \in Keys, WriteFile(k)
        PROVE  Warned'
    <3>1. /\ restore.step = "writing" /\ restore'.step = "writing" /\ restore'.warned = restore.warned
          /\ UNCHANGED <<smtp, put>>
      BY <2>6 DEF WriteFile, secretVars
    <3> QED BY <2>1, <3>1 DEF Warned, Readable, Putting
  <2>7. CASE Ask \/ Compare
    <3>1. /\ restore.step \in {"writing", "checking"} /\ restore'.warned = restore.warned
          /\ restore'.step # "opened" /\ UNCHANGED <<smtp, put>>
      BY <2>7 DEF Ask, Compare, NoRestore, secretVars
    <3> QED BY <2>1, <3>1 DEF Warned, Readable, Putting
  <2>8. CASE RestoreDies
    BY <2>8 DEF RestoreDies, NoRestore, Warned
  <2> QED BY <1>4, <2>2, <2>3, <2>4, <2>5, <2>6, <2>7, <2>8 DEF Restoring
<1> QED
  BY <1>1, <1>2, <1>3, <1>4, StepCases DEF Bystander, vars, secretVars, backupVars

LEMMA ReadAloneStep ==
  ASSUME IInv, [Next]_vars, TypeOK'
  PROVE  ReadAlone'
<1> USE DEF IInv, TypeOK
<1>1. CASE UNCHANGED <<smtp, put, collided>>
  BY <1>1 DEF ReadAlone, Putting
<1>2. ASSUME NEW w \in Writers, NEW p \in {"omitted", "null", "given"}, PutRead(w, p)
      PROVE  ReadAlone'
  <2> SUFFICES ASSUME ~collided' PROVE ReadAlone'
    BY DEF ReadAlone
  <2>1. Putting = {}
    BY <1>2 DEF PutRead, RowFree
  <2>2. Putting' = {w} /\ put'[w].stored = smtp /\ smtp' = smtp
    BY <1>2, <2>1 DEF PutRead, Putting, SecretsTypeOK
  <2> QED BY <2>2 DEF ReadAlone
<1>3. ASSUME NEW w \in Writers, PutCommit(w) \/ PutFails(w)
      PROVE  ReadAlone'
  <2>1. w \in Putting /\ collided' = collided
    BY <1>3 DEF PutCommit, PutFails, Putting
  <2>2. \A v \in Putting' : v \in Putting /\ v # w
    BY <1>3 DEF PutCommit, PutFails, Putting, SecretsTypeOK, Unbegun
  <2> QED BY <2>1, <2>2 DEF ReadAlone
<1>4. CASE Rekeying
  BY <1>1, <1>4 DEF Rekeying, Rotate, EndRotation
<1>5. CASE Lose
  <2>1. Putting' = {}
    BY <1>5 DEF Lose, Putting, Unbegun
  <2> QED BY <2>1 DEF ReadAlone
<1>6. CASE DropSchema \/ Load
  <2>1. Putting = {} /\ put' = put
    BY <1>6 DEF DropSchema, Load, Quiet
  <2> QED BY <2>1 DEF ReadAlone, Putting
<1>7. CASE Restoring /\ ~(Lose \/ DropSchema \/ Load)
  BY <1>1, <1>7, RestoringFrame
<1> QED
  BY <1>1, <1>2, <1>3, <1>4, <1>5, <1>6, <1>7, StepCases, ArchivingFrame
  DEF Bystander, Configuring, Setup, vars, secretVars

-----------------------------------------------------------------------------
(* The invariant holds.                                                      *)

LEMMA IInvInit == Init => IInv
<1> SUFFICES ASSUME Init PROVE IInv
  OBVIOUS
<1>1. TypeOK
  BY InitTyped
<1>2. FilesInv /\ Quiet
  BY AttachmentsAssumption
  DEF Init, AttachmentsInit, FilesInv, UploadApart, RowsBorn, SendsApart, Whole, Waiting, Quiet
<1>3. DumpsWhole
  BY NothingWhole DEF Init, DumpsWhole, NoBackup, NoArchive, NoRows
<1>4. Phases /\ ServedWhole /\ Copied
  BY DEF Init, AttachmentsInit, Phases, NoBackup, NoArchive, NoRestore, ServedWhole, Copied
<1>5. ArchiveComplete /\ TornOnly /\ Expected
  BY DEF Init, AttachmentsInit, ArchiveComplete, TornOnly, Expected, NoBackup, NoArchive, NoRestore,
         NoRows, Waiting
<1>6. Counted /\ Warned /\ ReadAlone
  BY DEF Init, SecretsInit, Counted, Warned, ReadAlone, NoBackup, NoArchive, NoRestore, Putting, Unbegun
<1> QED BY <1>1, <1>2, <1>3, <1>4, <1>5, <1>6 DEF IInv

LEMMA GoneStep ==
  ASSUME IInv, [Next]_vars, AttachmentsTypeOK'
  PROVE  Gone'
<1> SUFFICES ASSUME schema' = FALSE PROVE (row = NoRows /\ sent = NoPosts)'
  BY DEF Gone
<1> USE DEF IInv, TypeOK
<1>1. CASE Server /\ Bystander
  BY <1>1, ServerQuiet DEF Bystander
<1>2. CASE Configuring \/ Archiving
  BY <1>2, ConfiguringFrame, ArchivingFrame DEF ServerAlone, BackupAlone
<1>3. CASE Lose \/ DropSchema \/ Load
  BY <1>3 DEF Lose, DropSchema, Load
<1>4. CASE Restoring /\ ~(Lose \/ DropSchema \/ Load)
  BY <1>4, RestoringFrame
<1>5. CASE UNCHANGED vars
  BY <1>5 DEF vars, attachmentVars, tables, backupVars
<1> QED BY <1>1, <1>2, <1>3, <1>4, <1>5, StepCases

LEMMA TypeStep ==
  ASSUME IInv, [Next]_vars
  PROVE  TypeOK'
<1>1. AttachmentsTypeOK' /\ SecretsTypeOK' /\ BackupTypeOK'
  <2>1. TypeOK
    BY DEF IInv
  <2>2. CASE UNCHANGED vars
    BY <2>1, <2>2 DEF TypeOK, AttachmentsTypeOK, SecretsTypeOK, BackupTypeOK, vars, attachmentVars,
       tables, requests, secretVars, backupVars
  <2> QED BY <2>1, <2>2, StepCases, ServerTyped, ConfiguringTyped, ArchivingTyped, RestoringTyped
<1> QED BY <1>1, GoneStep DEF TypeOK, BackupTypeOK, Gone

LEMMA IInvStep == IInv /\ [Next]_vars => IInv'
<1> SUFFICES ASSUME IInv, [Next]_vars PROVE IInv'
  OBVIOUS
<1>1. TypeOK'
  BY TypeStep
<1> QED
  BY <1>1, FilesInvStep, QuietStep, DumpsWholeStep, PhasesStep, ServedWholeStep, CopiedStep,
     ArchiveCompleteStep, TornOnlyStep, ExpectedStep, CountedStep, WarnedStep, ReadAloneStep
  DEF IInv

LEMMA IInvHolds == Spec => []IInv
  BY IInvInit, IInvStep, PTL DEF Spec

-----------------------------------------------------------------------------
(* What follows from it.                                                     *)

\* Every state is one the code can be in: rows, files, archives and settings
\* of attachment-storage.ts, backup-export.ts, cli.ts and settings.ts.
THEOREM Typed == Spec => []TypeOK
  BY IInvHolds, PTL DEF IInv

\* However uploads, sends, sweeps, crashes and a restore interleave, a message
\* has the files its request named and no file is in two (chat.ts, the claim in
\* POST /messages; the dump is of one snapshot).
THEOREM MessagesWhole == Spec => []MessageWhole
<1>1. IInv => MessageWhole
  BY DEF IInv, FilesInv, Whole, MessageWhole
<1> QED BY <1>1, IInvHolds, PTL

\* Outside a restore or the loss of the machine, a row that belongs to a message
\* is neither swept nor claimed again (attachment-sweep.ts, chat.ts).
THEOREM SentFilesStay == Spec => SentStays
<1>1. ASSUME IInv, [Next]_vars, NEW k \in Keys, row[k] \in Messages, row'[k] # row[k]
      PROVE  schema' # schema
  <2> USE DEF IInv, TypeOK
  <2>1. CASE Server /\ Bystander
    BY <1>1, <2>1, ServerEffects, AttachmentsAssumption DEF RowStep
  <2>2. CASE Lose \/ DropSchema \/ Load
    BY <2>2 DEF Lose, DropSchema, Load
  <2>3. CASE Restoring /\ ~(Lose \/ DropSchema \/ Load)
    BY <1>1, <2>3, RestoringFrame
  <2>4. CASE Configuring \/ Archiving \/ UNCHANGED vars
    BY <1>1, <2>4, ConfiguringFrame, ArchivingFrame DEF ServerAlone, vars, attachmentVars, tables
  <2> QED BY <1>1, <2>1, <2>2, <2>3, <2>4, StepCases
<1>2. IInv /\ [Next]_vars =>
        [\A k \in Keys : row[k] \in Messages /\ row'[k] # row[k] => schema' # schema]_vars
  BY <1>1
<1> QED BY <1>2, IInvHolds, PTL DEF Spec, SentStays

\* A row always has its file, in the system that was never restored and in one
\* whose restore said it was complete; only a file that was copied while it was
\* being written may be cut short (attachments.ts, attachment-sweep.ts, cli.ts).
THEOREM RowsHaveFiles == Spec => []RowHasFile
<1>1. ASSUME IInv, Settled, NEW k \in RowKeys(row)
      PROVE  file[k] = "whole" \/ (k \in torn /\ file[k] = "part")
  <2>1. k \in Keys /\ row[k] # "none" /\ file[k] \in {"none", "part", "whole"}
    BY <1>1 DEF RowKeys, IInv, TypeOK, AttachmentsTypeOK, Files
  <2>2. file[k] = "part" => k \in torn
    BY <1>1, <2>1 DEF IInv, TornOnly
  <2>3. CASE restore.step = "never"
    BY <1>1, <2>1, <2>3 DEF Settled, InService, IInv, ServedWhole
  <2>4. CASE restore.step = "complete"
    BY <1>1, <2>1, <2>2, <2>4 DEF IInv, Expected
  <2> QED BY <1>1, <2>3, <2>4 DEF Settled
<1>2. IInv => RowHasFile
  BY <1>1 DEF RowHasFile
<1> QED BY <1>2, IInvHolds, PTL

\* Files first, then the dump, then the keys: every row of an archive has its
\* file in it, unless rows without one were allowed (backup-export.ts, cli.ts).
THEOREM ArchivesComplete == Spec => []ArchiveComplete
  BY IInvHolds, PTL DEF IInv

\* A backup is refused only for rows committed after it began.
THEOREM RefusalsAreRaces == Spec => []RefusedOnlyFresh
<1>1. IInv => RefusedOnlyFresh
  BY DEF IInv, Copied, RefusedOnlyFresh, Missing, FileKeys, TypeOK
<1> QED BY <1>1, IInvHolds, PTL

\* When a restore does not reproduce the archive's counts, the tables changed
\* between a dump and the counting (cli.ts).
THEOREM MismatchesExplained == Spec => []MismatchExplained
<1>1. IInv => MismatchExplained
  BY DEF IInv, Counted, MismatchExplained
<1> QED BY <1>1, IInvHolds, PTL

\* A restore that did not warn of another key leaves a password the server can
\* decrypt, if the archive's was of the key its manifest names (cli.ts,
\* secret-store.ts).
THEOREM UnwarnedIsReadable == Spec => []UnwarnedReadable
<1>1. IInv => UnwarnedReadable
  BY DEF IInv, Warned, UnwarnedReadable
<1> QED BY <1>1, IInvHolds, PTL

\* PUT /settings/smtp without a password keeps the stored one, unless two first
\* requests overlapped (settings.ts).
THEOREM OmittedKeeps == Spec => OmittedKeepsAlone
<1>1. ASSUME IInv, [Next]_vars, NEW w \in Writers,
             put[w].open, put[w].password = "omitted", ~collided,
             smtp' # smtp, ~put'[w].open, smtp'.there
      PROVE  smtp'.key = smtp.key
  <2> USE DEF IInv, TypeOK
  <2>1. w \in Putting /\ put[w].stored = smtp /\ \A v \in Putting : v = w
    BY <1>1 DEF Putting, ReadAlone
  <2>2. CASE Configuring
    <3>1. ASSUME NEW v \in Writers, PutCommit(v)
          PROVE  smtp'.key = smtp.key
      <4>1. v = w
        BY <2>1, <3>1 DEF PutCommit, Putting
      <4> QED BY <1>1, <2>1, <3>1, <4>1 DEF PutCommit, NewPassword
    <3>2. \E v \in Writers : PutCommit(v)
      BY <1>1, <2>2 DEF Configuring, Setup, Rekeying, PutRead, PutFails, Rotate, EndRotation
    <3> QED BY <3>1, <3>2
  <2>3. CASE Lose
    BY <1>1, <2>3 DEF Lose, NoSetting
  <2>4. CASE DropSchema \/ Load
    <3>1. Putting = {}
      <4>1. Load => ~schema
        BY DEF Load
      <4>2. DropSchema => Putting = {}
        BY DEF DropSchema
      <4> QED BY <1>1, <2>4, <4>1, <4>2 DEF Quiet
    <3> QED BY <2>1, <3>1
  <2>5. CASE Restoring /\ ~(Lose \/ DropSchema \/ Load)
    BY <1>1, <2>5, RestoringFrame
  <2>6. CASE (Server /\ Bystander) \/ Archiving \/ UNCHANGED vars
    BY <1>1, <2>6, ArchivingFrame DEF Bystander, vars, secretVars
  <2> QED BY <1>1, <2>2, <2>3, <2>4, <2>5, <2>6, StepCases
<1>2. IInv /\ [Next]_vars =>
        [\A w \in Writers :
           /\ put[w].open /\ put[w].password = "omitted" /\ ~collided
           /\ smtp' # smtp /\ ~put'[w].open /\ smtp'.there
           => smtp'.key = smtp.key]_secretVars
  BY <1>1
<1> QED BY <1>2, IInvHolds, PTL DEF Spec, OmittedKeepsAlone

-----------------------------------------------------------------------------
(* The server implements MessageFiles.                                       *)

Status == [k \in Keys |-> IF InService THEN StatusOf(k) ELSE "fresh"]
Posted == IF InService THEN sent ELSE NoPosts

\* In service no row is without its whole file, so nothing is "broken".
LEMMA StatusInService ==
  ASSUME IInv, InService, NEW k \in Keys
  PROVE  Status[k] = IF row[k] # "none" THEN row[k]
                     ELSE IF k \in born /\ k \notin upload.key THEN "gone" ELSE "fresh"
  BY DEF Status, StatusOf, IInv, ServedWhole

LEMMA InitMaps == Init => Abstract!Init
<1> SUFFICES ASSUME Init PROVE Abstract!Init
  OBVIOUS
<1>1. InService /\ Posted = NoPosts
  BY DEF Init, AttachmentsInit, InService, NoRestore, Posted, NoPosts
<1>2. Status = [k \in Keys |-> "fresh"]
  BY DEF Status, StatusOf, Init, AttachmentsInit
<1> QED BY <1>1, <1>2 DEF Abstract!Init, Abstract!Fresh, Abstract!Nobody, Status, Posted, NoPosts

\* A step within service is one of MessageFiles or changes nothing it sees.
LEMMA ServiceMaps ==
  ASSUME IInv, IInv', InService, InService', Server
  PROVE  [Abstract!Next]_(Abstract!vars)
<1> DEFINE Same == Status' = Status /\ Posted' = Posted
<1> USE DEF IInv, TypeOK, AttachmentsTypeOK
<1>1. \A k \in Keys : Status[k] = IF row[k] # "none" THEN row[k]
                        ELSE IF k \in born /\ k \notin upload.key THEN "gone" ELSE "fresh"
  BY StatusInService
<1>2. \A k \in Keys : Status'[k] = IF row'[k] # "none" THEN row'[k]
                        ELSE IF k \in born' /\ k \notin upload'.key THEN "gone" ELSE "fresh"
  BY DEF Status, StatusOf, ServedWhole
<1>3. Posted = sent /\ Posted' = sent'
  BY DEF Posted
<1>4. Same => UNCHANGED Abstract!vars
  BY DEF Abstract!vars, Status, Posted
<1>5. ASSUME NEW k \in Keys, UploadInsert(k)
      PROVE  Same
  <2>1. /\ row' = row /\ sent' = sent /\ upload.key = {} /\ upload'.key = {k}
        /\ born' = born \cup {k} /\ k \notin born
    BY <1>5 DEF UploadInsert, tables, Waiting
  <2>2. \A j \in Keys : Status'[j] = Status[j]
    BY <1>1, <1>2, <2>1
  <2> QED BY <1>3, <2>1, <2>2 DEF Status
<1>6. CASE WriteBegin \/ WriteEnd
  <2>1. row' = row /\ sent' = sent /\ born' = born /\ upload'.key = upload.key
    BY <1>6 DEF WriteBegin, WriteEnd, UploadStep, tables
  <2>2. \A j \in Keys : Status'[j] = Status[j]
    BY <1>1, <1>2, <2>1
  <2> QED BY <1>3, <1>4, <2>1, <2>2 DEF Status
<1>7. ASSUME UploadFails \/ Crash, upload # Waiting
      PROVE  \E k \in Keys : Abstract!Abandon(k)
  <2>1. PICK k \in born : upload.key = {k} /\ row[k] = "none"
    BY <1>7 DEF FilesInv, UploadApart
  <2>2. row' = row /\ sent' = sent /\ born' = born /\ upload'.key = {}
    BY <1>7 DEF UploadFails, Crash, tables, Waiting
  <2>3. k \in Keys /\ Status[k] = "fresh"
    BY <1>1, <2>1
  <2>4. \A j \in Keys : Status'[j] = IF j \in {k} THEN "gone" ELSE Status[j]
    BY <1>1, <1>2, <2>1, <2>2
  <2>5. Status' = [j \in Keys |-> IF j \in {k} THEN "gone" ELSE Status[j]]
    BY <2>4 DEF Status
  <2> QED BY <1>3, <2>2, <2>3, <2>5
      DEF Abstract!Abandon, Abstract!Become, Abstract!All, Status, Posted
<1>8. ASSUME UploadCommit
      PROVE  \E k \in Keys : Abstract!Offer(k)
  <2>1. PICK k \in born : upload.key = {k} /\ row[k] = "none"
    BY <1>8 DEF UploadCommit, FileWritten, FilesInv, UploadApart, Waiting
  <2>2. sent' = sent /\ born' = born /\ upload'.key = {}
    BY <1>8 DEF UploadCommit, Waiting
  <2>3. \A j \in Keys : row'[j] = IF j = k THEN "unsent" ELSE row[j]
    BY <1>8, <2>1 DEF UploadCommit
  <2>4. k \in Keys /\ Status[k] = "fresh"
    BY <1>1, <2>1
  <2>5. \A j \in Keys : Status'[j] = IF j \in {k} THEN "unsent" ELSE Status[j]
    BY <1>1, <1>2, <2>1, <2>2, <2>3
  <2>6. Status' = [j \in Keys |-> IF j \in {k} THEN "unsent" ELSE Status[j]]
    BY <2>5 DEF Status
  <2> QED BY <1>3, <2>2, <2>4, <2>6
      DEF Abstract!Offer, Abstract!Become, Abstract!All, Status, Posted
<1>9. CASE Crash /\ upload = Waiting
  <2>1. row' = row /\ sent' = sent /\ born' = born /\ upload'.key = upload.key
    BY <1>9 DEF Crash, tables
  <2>2. \A j \in Keys : Status'[j] = Status[j]
    BY <1>1, <1>2, <2>1
  <2> QED BY <1>3, <1>4, <2>1, <2>2 DEF Status
<1>10. ASSUME NEW m \in Messages,
              (\E K \in SUBSET Keys : SendClaim(m, K)) \/ SendRollback(m)
       PROVE  Same
  <2>1. row' = row /\ sent' = sent /\ born' = born /\ upload' = upload
    BY <1>10 DEF SendClaim, SendRollback, tables
  <2>2. \A j \in Keys : Status'[j] = Status[j]
    BY <1>1, <1>2, <2>1
  <2> QED BY <1>3, <2>1, <2>2 DEF Status
<1>11. ASSUME NEW m \in Messages, SendCommit(m)
       PROVE  Abstract!Post(m, send[m])
  <2>1. sent' = [sent EXCEPT ![m] = send[m]] /\ born' = born /\ upload' = upload /\ send[m] # {}
    BY <1>11 DEF SendCommit
  <2>2. \A j \in Keys : row'[j] = IF j \in send[m] THEN m ELSE row[j]
    BY <1>11 DEF SendCommit
  <2>3. send[m] \subseteq Keys /\ sent[m] = {} /\ \A j \in send[m] : row[j] = "unsent"
    BY <2>1 DEF FilesInv, SendsApart, Posts
  <2>4. \A j \in send[m] : Status[j] = "unsent"
    BY <1>1, <2>3
  <2>5. \A j \in Keys : Status'[j] = IF j \in send[m] THEN m ELSE Status[j]
    BY <1>1, <1>2, <2>1, <2>2, <2>3, AttachmentsAssumption
  <2>6. Status' = [j \in Keys |-> IF j \in send[m] THEN m ELSE Status[j]]
    BY <2>5 DEF Status
  <2> QED BY <1>3, <2>1, <2>3, <2>4, <2>6
      DEF Abstract!Post, Abstract!Become, Abstract!All, Status, Posted
<1>12. CASE \E k \in Keys : Age(k) \/ SweepRemove(k) \/ SweepFails(k)
  <2>1. row' = row /\ sent' = sent /\ born' = born /\ upload' = upload
    BY <1>12 DEF Age, SweepRemove, SweepFails, tables, requests
  <2>2. \A j \in Keys : Status'[j] = Status[j]
    BY <1>1, <1>2, <2>1
  <2> QED BY <1>3, <1>4, <2>1, <2>2 DEF Status
<1>13. ASSUME SweepDelete
       PROVE  Abstract!GiveUp(Unclaimed)
  <2>1. sent' = sent /\ born' = born /\ upload' = upload
    BY <1>13 DEF SweepDelete
  <2>2. \A j \in Keys : row'[j] = IF j \in Unclaimed THEN "none" ELSE row[j]
    BY <1>13 DEF SweepDelete
  <2>3. \A j \in Unclaimed : j \in Keys /\ j \in born /\ row[j] = "unsent" /\ j \notin upload.key
    BY DEF Unclaimed, FilesInv, UploadApart
  <2>4. \A j \in Unclaimed : Status[j] = "unsent"
    BY <1>1, <2>3
  <2>5. \A j \in Keys : Status'[j] = IF j \in Unclaimed THEN "gone" ELSE Status[j]
    BY <1>1, <1>2, <2>1, <2>2, <2>3
  <2>6. Status' = [j \in Keys |-> IF j \in Unclaimed THEN "gone" ELSE Status[j]]
    BY <2>5 DEF Status
  <2> QED BY <1>3, <2>1, <2>4, <2>6
      DEF Abstract!GiveUp, Abstract!Become, Abstract!All, Status, Posted
<1>14. CASE Uploading
  BY <1>4, <1>5, <1>6, <1>7, <1>8, <1>14 DEF Uploading, UploadFails, Abstract!Next
<1>15. CASE Sending
  BY <1>4, <1>10, <1>11, <1>15 DEF Sending, Abstract!Next, Posts
<1>16. CASE Sweeping
  <2>1. Unclaimed \in SUBSET Keys
    BY DEF Unclaimed
  <2> QED BY <1>4, <1>12, <1>13, <1>16, <2>1 DEF Sweeping, Abstract!Next
<1>17. CASE Crash
  BY <1>4, <1>7, <1>9, <1>17 DEF Abstract!Next
<1> QED BY <1>14, <1>15, <1>16, <1>17 DEF Server

LEMMA StepMaps ==
  ASSUME IInv, IInv', [Next]_vars
  PROVE  [Abstract!Next]_(Abstract!vars)
<1> USE DEF IInv, TypeOK
<1>1. CASE Server /\ Bystander
  <2>1. InService' <=> InService
    BY <1>1 DEF Bystander, InService
  <2>2. CASE ~InService
    BY <2>1, <2>2 DEF Abstract!vars
  <2> QED BY <1>1, <2>1, <2>2, ServiceMaps
<1>2. CASE Configuring \/ Archiving \/ UNCHANGED vars
  <2>1. UNCHANGED <<row, sent, file, born, upload, schema, restore>>
    BY <1>2, ConfiguringFrame, ArchivingFrame
    DEF ServerAlone, BackupAlone, vars, attachmentVars, tables, requests, backupVars
  <2>2. InService' <=> InService
    BY <2>1 DEF InService
  <2>3. \A k \in Keys : StatusOf(k)' = StatusOf(k)
    BY <2>1 DEF StatusOf
  <2> QED BY <2>1, <2>2, <2>3 DEF Abstract!vars
<1>3. CASE Restoring
  <2>1. ~InService'
    BY <1>3 DEF Restoring, InService, WriteFile, Lose, RestoreOpen, DropSchema, Load, Ask, Compare,
         RestoreDies, NoRestore
  <2>2. CASE InService
    BY <2>1, <2>2 DEF Abstract!Next, Abstract!Stop, Abstract!Fresh, Abstract!Nobody, NoPosts
  <2>3. CASE ~InService
    <3>1. InService' <=> InService
      BY <2>1, <2>3
    <3> QED BY <2>3, <3>1 DEF Abstract!vars
  <2> QED BY <2>2, <2>3
<1> QED BY <1>1, <1>2, <1>3, StepCases

\* Whatever uploads, sends, sweeps, crashes and backups do side by side, until
\* its data are lost or replaced the server does what MessageFiles says
\* (attachments.ts, chat.ts, attachment-sweep.ts).
THEOREM ServerKeepsFiles == Spec => FilesAreKept
<1>1. IInv /\ IInv' /\ [Next]_vars => [Abstract!Next]_(Abstract!vars)
  BY StepMaps
<1> QED BY <1>1, InitMaps, IInvHolds, PTL DEF Spec, FilesAreKept, Abstract!Spec

-----------------------------------------------------------------------------
(* The properties the run checks, for any files, messages and requests.      *)

\* Nothing of a message is lost or shared, through crashes, sweeps and restores.
THEOREM FilesAlwaysWhole == Spec => []FilesWhole
BY RowsHaveFiles, MessagesWhole, PTL DEF FilesWhole

\* An archive is complete, and a backup refused only for what arrived meanwhile.
THEOREM BackupsAreSound == Spec => []BackupSound
BY ArchivesComplete, RefusalsAreRaces, PTL DEF BackupSound

\* A restore reports what happened to it, and warns when keys do not fit.
THEOREM RestoresAreHonest == Spec => []RestoreHonest
BY MismatchesExplained, UnwarnedIsReadable, PTL DEF RestoreHonest

=============================================================================
