---------------------------- MODULE Attachments ----------------------------
(* Files attached to chat messages: a row of message_attachments in the      *)
(* database and a file under ATTACHMENT_ROOT, written and removed in         *)
(* separate steps by uploads, sends and the sweep.                           *)
(*                                                                           *)
(* The file is written before the row is committed and removed after the row *)
(* is deleted.  A crash ends every transaction and the pass of the sweep.    *)
(* Who may upload and which types are accepted are left out; a refused       *)
(* upload changes nothing.                                                   *)
EXTENDS Naturals, FiniteSets

CONSTANTS
  Keys,        \* bound: uploads ever begun, each with a storage key of its own
  Messages     \* bound: messages ever sent with files

\* "none" and "unsent" are what a row is before it belongs to a message.
ASSUME AttachmentsAssumption ==
  /\ IsFiniteSet(Keys) /\ IsFiniteSet(Messages)
  /\ Messages \cap {"none", "unsent"} = {}

VARIABLES
  row,         \* committed rows: "none", "unsent", or the message they belong to
  sent,        \* committed messages |-> the files named in the request
  file,        \* the files on disk
  born,        \* keys that have been given out
  old,         \* uploads older than UNCLAIMED_ATTACHMENT_TTL
  upload,      \* the transaction of the one upload past its insert
  send,        \* open transactions of POST /messages
  doomed       \* rows of these files are deleted, the files are not yet

tables   == <<row, sent>>
requests == <<upload, send, doomed>>
attachmentVars == <<tables, file, born, old, requests>>

Waiting == [step |-> "idle", key |-> {}]

Rows  == [Keys -> {"none", "unsent"} \cup Messages]
Files == [Keys -> {"none", "part", "whole"}]
Posts == [Messages -> SUBSET Keys]

AttachmentsTypeOK ==
  /\ row \in Rows /\ sent \in Posts /\ file \in Files
  /\ born \subseteq Keys /\ old \subseteq born /\ doomed \subseteq born
  /\ upload \in [step: {"idle", "inserted", "writing", "written"}, key: SUBSET born]
  /\ send \in Posts

AttachmentsInit ==
  /\ row = [k \in Keys |-> "none"]
  /\ sent = [m \in Messages |-> {}]
  /\ file = [k \in Keys |-> "none"]
  /\ born = {} /\ old = {} /\ doomed = {}
  /\ upload = Waiting
  /\ send = [m \in Messages |-> {}]

-----------------------------------------------------------------------------
(* Uploading.                                                                *)

\* The row is inserted with storage_key '', which is unique: another upload
\* waits at its insert until this one has ended.
UploadInsert(k) ==
  /\ upload = Waiting /\ k \notin born
  /\ born' = born \cup {k}
  /\ upload' = [step |-> "inserted", key |-> {k}]
  /\ UNCHANGED <<tables, file, old, send, doomed>>

UploadStep(from, to, content) ==
  /\ upload.step = from
  /\ upload' = [upload EXCEPT !.step = to]
  /\ file' = [k \in Keys |-> IF k \in upload.key THEN content ELSE file[k]]
  /\ UNCHANGED <<tables, born, old, send, doomed>>

WriteBegin == UploadStep("inserted", "writing", "part")
WriteEnd   == UploadStep("writing", "written", "whole")

\* Mutation: the row is committed before the file is written.
RowInserted == upload # Waiting

FileWritten == upload.step = "written"

\* storage_key is filled in and the transaction commits.
UploadCommit ==
  /\ FileWritten
  /\ row' = [k \in Keys |-> IF k \in upload.key THEN "unsent" ELSE row[k]]
  /\ upload' = Waiting
  /\ UNCHANGED <<sent, file, born, old, send, doomed>>

\* The disk is full or the connection is lost: what is written stays.
UploadFails ==
  /\ upload # Waiting
  /\ upload' = Waiting
  /\ UNCHANGED <<tables, file, born, old, send, doomed>>

-----------------------------------------------------------------------------
(* Sending.                                                                  *)

Locked == UNION {send[m] : m \in Messages}

Unsent(K) == \A k \in K : row[k] = "unsent"

\* Mutation: the rows that were claimed are not counted.
SomeUnsent(K) == \E k \in K : row[k] = "unsent"

Claimable(K) == Unsent(K)

\* UPDATE ... WHERE message_id IS NULL waits for rows another message is
\* claiming; a file that is not claimed fails the whole request.
SendClaim(m, K) ==
  /\ sent[m] = {} /\ send[m] = {} /\ K # {}
  /\ K \cap Locked = {}
  /\ Claimable(K)
  /\ send' = [send EXCEPT ![m] = K]
  /\ UNCHANGED <<tables, file, born, old, upload, doomed>>

SendCommit(m) ==
  /\ send[m] # {}
  /\ row' = [k \in Keys |-> IF k \in send[m] THEN m ELSE row[k]]
  /\ sent' = [sent EXCEPT ![m] = send[m]]
  /\ send' = [send EXCEPT ![m] = {}]
  /\ UNCHANGED <<file, born, old, upload, doomed>>

SendRollback(m) ==
  /\ send[m] # {}
  /\ send' = [send EXCEPT ![m] = {}]
  /\ UNCHANGED <<tables, file, born, old, upload, doomed>>

-----------------------------------------------------------------------------
(* The sweep of what was never sent.                                         *)

\* An upload takes less than UNCLAIMED_ATTACHMENT_TTL.
Age(k) ==
  /\ k \in born \ old /\ row[k] # "none"
  /\ old' = old \cup {k}
  /\ UNCHANGED <<tables, file, born, requests>>

\* Mutation: everything old is swept, sent or not.
OldRows == {k \in old : row[k] # "none"}

Unclaimed == {k \in old : row[k] = "unsent"}

\* DELETE ... RETURNING storage_key waits for rows that are being claimed and
\* looks at them again afterwards.
SweepDelete ==
  /\ Unclaimed # {} /\ Unclaimed \cap Locked = {}
  /\ row' = [k \in Keys |-> IF k \in Unclaimed THEN "none" ELSE row[k]]
  /\ doomed' = doomed \cup Unclaimed
  /\ UNCHANGED <<sent, file, born, old, upload, send>>

SweepRemove(k) ==
  /\ k \in doomed
  /\ doomed' = doomed \ {k}
  /\ file' = [file EXCEPT ![k] = "none"]
  /\ UNCHANGED <<tables, born, old, upload, send>>

\* The file cannot be removed; no later sweep finds it.
SweepFails(k) ==
  /\ k \in doomed
  /\ doomed' = doomed \ {k}
  /\ UNCHANGED <<tables, file, born, old, upload, send>>

Crash ==
  /\ upload # Waiting \/ Locked # {} \/ doomed # {}
  /\ upload' = Waiting
  /\ send' = [m \in Messages |-> {}]
  /\ doomed' = {}
  /\ UNCHANGED <<tables, file, born, old>>

=============================================================================
