----------------------------- MODULE Obligations -----------------------------
(***************************************************************************)
(* The acknowledgement engine of one announcement: authoring, publishing,  *)
(* the obligation commands, acknowledging, disabling and restoring people. *)
(*                                                                         *)
(* Every handler runs in a PostgreSQL transaction at the default isolation *)
(* level, READ COMMITTED (apps/server/src/db.ts, withTransaction), so each *)
(* statement reads a snapshot of its own, taken when the statement starts, *)
(* and a statement that then waits for a row lock re-evaluates its         *)
(* condition only for rows that were UPDATED meanwhile, not for rows that  *)
(* were merely locked.  A handler is therefore one action per snapshot     *)
(* whose result is used later, then one action that takes the locks,       *)
(* re-checks what PostgreSQL re-checks, writes and commits.  Other         *)
(* handlers interleave between these actions.  A transaction whose         *)
(* constraint fails, whose command affects nobody or whose connection      *)
(* breaks is rolled back and leaves no trace.                              *)
(***************************************************************************)
EXTENDS Naturals, Sequences, FiniteSets

CONSTANTS
  Users,           \* people the announcement may reach
  Tx,              \* transactions that may be open at the same time
  MaxRevisions,    \* bound: content revisions written
  MaxObligations   \* bound: obligations in all

ASSUME BoundsAssumption ==
  MaxRevisions \in Nat \ {0} /\ MaxObligations \in Nat \ {0}

VARIABLES
  enabled,         \* users.disabled_at IS NULL
  requiresAck,     \* announcements.requires_acknowledgement
  revisions,       \* number of content revisions; version_no is 1..revisions
  published,       \* version_no of the published revision, 0 when a draft
  released,        \* history: every revision that was ever the published one
  covered,         \* people the current target version resolves to
  recipients,      \* announcement_recipients
  obl,             \* per recipient, its obligations in order of creation
  outbox,          \* notification_outbox rows written with the obligations
  publishEvents,   \* announcement.published webhooks queued
  ackEvents,       \* per person, announcement.acknowledged webhooks queued
  tx,              \* local state of the open transactions
  overlapped       \* history: two transactions were open at the same time

vars == <<enabled, requiresAck, revisions, published, released, covered,
          recipients, obl, outbox, publishEvents, ackEvents, tx, overlapped>>

authoring == <<requiresAck, revisions, published, released, covered>>
people    == <<enabled, recipients>>
queued    == <<outbox, publishEvents, ackEvents>>

-----------------------------------------------------------------------------
(* Rows and local state.                                                   *)

Obligation == [rev: Nat, prev: Nat, waived: BOOLEAN, superseded: BOOLEAN,
               acked: BOOLEAN]

NewObligation(rev, prev) ==
  [rev |-> rev, prev |-> prev, waived |-> FALSE, superseded |-> FALSE,
   acked |-> FALSE]

OutboxRow == [user: Users, n: Nat,
              event: {"obligation.assigned", "obligation.reassigned"}]

Ops == {"idle", "publish", "assign", "reack", "waive", "disable", "revise",
        "acknowledge"}

\* scope: the people a handler was asked about; rev: the revision it read;
\* sel: the people its query selected, and at: the obligation read for each.
Local == [op: Ops, step: {"start", "loaded", "selected"}, scope: SUBSET Users,
          rev: Nat, sel: SUBSET Users, at: [Users -> Nat]]

NoRows == [u \in Users |-> 0]
Idle == [op |-> "idle", step |-> "start", scope |-> {}, rev |-> 0,
         sel |-> {}, at |-> NoRows]

TypeOK ==
  /\ enabled \subseteq Users
  /\ requiresAck \in BOOLEAN
  /\ revisions \in Nat
  /\ published \in Nat
  /\ released \subseteq Nat
  /\ covered \subseteq Users
  /\ recipients \subseteq Users
  /\ obl \in [Users -> Seq(Obligation)]
  /\ outbox \subseteq OutboxRow
  /\ publishEvents \in Nat
  /\ ackEvents \in [Users -> Nat]
  /\ tx \in [Tx -> Local]
  /\ overlapped \in BOOLEAN

\* A draft has just been created with its first revision.
Init ==
  /\ enabled = Users
  /\ requiresAck \in BOOLEAN
  /\ revisions = 1
  /\ published = 0
  /\ released = {}
  /\ covered = {}
  /\ recipients = {}
  /\ obl = [u \in Users |-> <<>>]
  /\ outbox = {}
  /\ publishEvents = 0
  /\ ackEvents = [u \in Users |-> 0]
  /\ tx = [t \in Tx |-> Idle]
  /\ overlapped = FALSE

-----------------------------------------------------------------------------
(* What the queries read.                                                  *)

Live(o) == ~o.waived /\ ~o.superseded

LiveOf(u) == {i \in DOMAIN obl[u] : Live(obl[u][i])}
HoldsLive(u) == LiveOf(u) # {}
LiveIndex(u) == IF HoldsLive(u) THEN CHOOSE i \in LiveOf(u) : TRUE ELSE 0

\* Mutation: disabled people stay candidates.
CandidatesKeepDisabled(S) == S \cap recipients

\* candidates: recipients whose account is enabled.
Candidates(S) == S \cap recipients \cap enabled

\* Mutation: the waive forgets the acknowledgements.
PendingForgetsAcks(S) == {u \in S : HoldsLive(u)}

\* What a waive selects: live and not acknowledged.
Pending(S) == {u \in S : HoldsLive(u) /\ ~obl[u][LiveIndex(u)].acked}

ReadLive(S) == [u \in Users |-> IF u \in S THEN LiveIndex(u) ELSE 0]

\* The rows a waive read that still satisfy its condition once locked.
StillLive(t) == {u \in tx[t].sel : Live(obl[u][tx[t].at[u]])}

\* Mutation: publish reads the announcement without FOR UPDATE.
AnnouncementNeverLocked == FALSE

\* Row locks other handlers have to wait for: publish takes the announcement
\* FOR UPDATE, which conflicts with the foreign key checks of new revisions
\* and target versions; a disable updates the user's row.
AnnouncementLocked == \E t \in Tx : tx[t].op = "publish"
UserLocked(u) == \E t \in Tx : tx[t].op = "disable" /\ u \in tx[t].scope

-----------------------------------------------------------------------------
(* What the commands write.                                                *)

SumLen == Cardinality({x \in Users \X (1..MaxObligations) : x[2] <= Len(obl[x[1]])})
Room(S) == SumLen + Cardinality(S) <= MaxObligations

\* Mutation: the unique index is missing.
NoIndex(u, i) == TRUE

\* uq_active_obligation_per_recipient, for an insert that leaves obligation i
\* of u out of the live set (0 when none is superseded first).
NoOtherLive(u, i) == LiveOf(u) \subseteq {i}

\* Mutation: the CHECK is missing.
NoCheck(u, i) == TRUE

\* ck_obligation_not_waived_and_superseded.
NotWaived(u, i) == ~obl[u][i].waived

Grant(S, rev) ==
  [u \in Users |-> IF u \in S THEN Append(obl[u], NewObligation(rev, 0))
                              ELSE obl[u]]

Retire(s, i) == [s EXCEPT ![i].superseded = TRUE]

\* Mutation: the successor does not name what it replaces.
SucceedUnlinked(S, at, rev) ==
  [u \in Users |->
     IF u \in S THEN Append(Retire(obl[u], at[u]), NewObligation(rev, 0))
                ELSE obl[u]]

Succeed(S, at, rev) ==
  [u \in Users |->
     IF u \in S THEN Append(Retire(obl[u], at[u]), NewObligation(rev, at[u]))
                ELSE obl[u]]

WaiveAt(S, at) ==
  [u \in Users |-> IF u \in S THEN [obl[u] EXCEPT ![at[u]].waived = TRUE]
                              ELSE obl[u]]

\* Mutation: one event type for every operation.
QueueAlwaysAssigned(S, kind) ==
  outbox \cup {[user |-> u, n |-> Len(obl[u]) + 1,
                event |-> "obligation.assigned"] : u \in S}

\* Mutation: an event type the table does not know.
QueueUnknownEvent(S, kind) ==
  outbox \cup {[user |-> u, n |-> Len(obl[u]) + 1, event |-> "assigned"] : u \in S}

QueueNotification(S, kind) ==
  outbox \cup {[user |-> u, n |-> Len(obl[u]) + 1, event |-> kind] : u \in S}

-----------------------------------------------------------------------------
(* Transactions.                                                           *)

Free(t) == tx[t].op = "idle"
In(t, op, step) == tx[t].op = op /\ tx[t].step = step

Overlap(local) ==
  \E t, s \in Tx : t # s /\ local[t].op # "idle" /\ local[s].op # "idle"

Goto(t, local) ==
  /\ tx' = [tx EXCEPT ![t] = local]
  /\ overlapped' = (overlapped \/ Overlap(tx'))
Done(t) == Goto(t, Idle)

\* An exception, a failed constraint, a command that affected nobody or a
\* lost connection: nothing of the transaction remains.
Rollback(t) ==
  /\ ~Free(t)
  /\ Done(t)
  /\ UNCHANGED <<authoring, people, obl, queued>>

-----------------------------------------------------------------------------
(* Authoring.                                                              *)

SetTargets(S) ==
  /\ ~AnnouncementLocked
  /\ covered' = S
  /\ UNCHANGED <<requiresAck, revisions, published, released, people, obl,
                 queued, tx, overlapped>>

\* POST /content reads the announcement without a lock ...
ReviseLoad(t) ==
  /\ Free(t)
  /\ revisions < MaxRevisions
  /\ Goto(t, [Idle EXCEPT !.op = "revise", !.step = "loaded",
                          !.rev = published])
  /\ UNCHANGED <<authoring, people, obl, queued>>

\* Mutation: a revision never moves the published pointer.
NeverMovesPublished(t) == FALSE

\* ... and decides on that reading whether the new revision is published.
MovesPublished(t) == tx[t].rev # 0

ReviseCommit(t) ==
  /\ In(t, "revise", "loaded")
  /\ ~AnnouncementLocked
  /\ revisions < MaxRevisions
  /\ revisions' = revisions + 1
  /\ IF MovesPublished(t)
       THEN /\ published' = revisions + 1
            /\ released' = released \cup {revisions + 1}
       ELSE UNCHANGED <<published, released>>
  /\ Done(t)
  /\ UNCHANGED <<requiresAck, covered, people, obl, queued>>

-----------------------------------------------------------------------------
(* Publishing.                                                             *)

\* Mutation: publish does not refuse an announcement that is published.
PublishAgain(t) ==
  /\ Free(t)
  /\ ~AnnouncementLocked
  /\ covered \cap enabled # {}
  /\ Goto(t, [Idle EXCEPT !.op = "publish", !.step = "loaded",
                          !.scope = covered \cap enabled, !.rev = revisions])
  /\ UNCHANGED <<authoring, people, obl, queued>>

\* Mutation: targets resolve to disabled people too.
PublishToDisabled(t) ==
  /\ Free(t)
  /\ ~AnnouncementLocked
  /\ published = 0
  /\ covered # {}
  /\ Goto(t, [Idle EXCEPT !.op = "publish", !.step = "loaded",
                          !.scope = covered, !.rev = revisions])
  /\ UNCHANGED <<authoring, people, obl, queued>>

\* The announcement is locked, refused when published or without anybody to
\* reach, and its latest revision and its targets are read.
PublishLock(t) ==
  /\ Free(t)
  /\ ~AnnouncementLocked
  /\ published = 0
  /\ covered \cap enabled # {}
  /\ Goto(t, [Idle EXCEPT !.op = "publish", !.step = "loaded",
                          !.scope = covered \cap enabled, !.rev = revisions])
  /\ UNCHANGED <<authoring, people, obl, queued>>

\* The recipients are written, and assignObligations reads its candidates.
PublishSelect(t) ==
  /\ In(t, "publish", "loaded")
  /\ Goto(t, [tx[t] EXCEPT !.step = "selected",
                !.sel = IF requiresAck
                          THEN {u \in tx[t].scope \cap enabled : ~HoldsLive(u)}
                          ELSE {}])
  /\ UNCHANGED <<authoring, people, obl, queued>>

PublishCommit(t) ==
  /\ In(t, "publish", "selected")
  /\ \A u \in tx[t].sel : NoOtherLive(u, 0)
  /\ Room(tx[t].sel)
  /\ recipients' = recipients \cup tx[t].scope
  /\ published' = tx[t].rev
  /\ released' = released \cup {tx[t].rev}
  /\ obl' = Grant(tx[t].sel, tx[t].rev)
  /\ outbox' = QueueNotification(tx[t].sel, "obligation.assigned")
  /\ publishEvents' = publishEvents + 1
  /\ Done(t)
  /\ UNCHANGED <<enabled, requiresAck, revisions, covered, ackEvents>>

-----------------------------------------------------------------------------
(* The obligation commands.  S is everybody, or the one person named.      *)

\* Mutation: obligations bind the latest revision, released or not.
BoundToLatest == revisions

\* Mutation: obligations bind the first revision.
BoundToFirst == 1

Bound == published

Load(t, op, S) ==
  /\ Free(t)
  /\ published # 0
  /\ Goto(t, [Idle EXCEPT !.op = op, !.step = "loaded", !.scope = S,
                          !.rev = Bound])
  /\ UNCHANGED <<authoring, people, obl, queued>>

\* candidates takes the recipients FOR UPDATE, but recipients are never
\* updated: a command that waits there goes on with the obligations it read.
Select(t, op, S) ==
  /\ In(t, op, "loaded")
  /\ S # {}
  /\ Goto(t, [tx[t] EXCEPT !.step = "selected", !.sel = S,
                           !.at = ReadLive(S)])
  /\ UNCHANGED <<authoring, people, obl, queued>>

AssignLoad(t, S) == Load(t, "assign", S)
AssignSelect(t) ==
  Select(t, "assign", {u \in Candidates(tx[t].scope) : ~HoldsLive(u)})

AssignCommit(t) ==
  /\ In(t, "assign", "selected")
  /\ \A u \in tx[t].sel : NoOtherLive(u, 0)
  /\ Room(tx[t].sel)
  /\ obl' = Grant(tx[t].sel, tx[t].rev)
  /\ outbox' = QueueNotification(tx[t].sel, "obligation.assigned")
  /\ Done(t)
  /\ UNCHANGED <<authoring, people, publishEvents, ackEvents>>

ReackLoad(t, S) == Load(t, "reack", S)
ReackSelect(t) ==
  Select(t, "reack", {u \in Candidates(tx[t].scope) : HoldsLive(u)})

ReackCommit(t) ==
  /\ In(t, "reack", "selected")
  /\ \A u \in tx[t].sel : /\ NotWaived(u, tx[t].at[u])
                          /\ NoOtherLive(u, tx[t].at[u])
  /\ Room(tx[t].sel)
  /\ obl' = Succeed(tx[t].sel, tx[t].at, tx[t].rev)
  /\ outbox' = QueueNotification(tx[t].sel, "obligation.reassigned")
  /\ Done(t)
  /\ UNCHANGED <<authoring, people, publishEvents, ackEvents>>

\* waiveObligations reads the acknowledgements in the same statement that
\* then waits for the rows; an acknowledgement only locks its row.
WaiveSelect(t, S) ==
  /\ Free(t)
  /\ Pending(S \cap recipients) # {}
  /\ Goto(t, [Idle EXCEPT !.op = "waive", !.step = "selected", !.scope = S,
                          !.sel = Pending(S \cap recipients),
                          !.at = ReadLive(Pending(S \cap recipients))])
  /\ UNCHANGED <<authoring, people, obl, queued>>

WaiveCommit(t) ==
  /\ In(t, "waive", "selected")
  /\ StillLive(t) # {}
  /\ obl' = WaiveAt(StillLive(t), tx[t].at)
  /\ Done(t)
  /\ UNCHANGED <<authoring, people, queued>>

-----------------------------------------------------------------------------
(* Accounts.                                                               *)

\* The user's row is updated, hence locked, before the obligations are read;
\* disabling somebody who is disabled updates no row, and only waives.
DisableSelect(t, u) ==
  /\ Free(t)
  /\ ~UserLocked(u)
  /\ Goto(t, [Idle EXCEPT !.op = "disable", !.step = "selected",
                          !.scope = {u} \cap enabled,
                          !.sel = Pending({u}), !.at = ReadLive(Pending({u}))])
  /\ UNCHANGED <<authoring, people, obl, queued>>

DisableCommit(t) ==
  /\ In(t, "disable", "selected")
  /\ enabled' = enabled \ tx[t].scope
  /\ obl' = WaiveAt(StillLive(t), tx[t].at)
  /\ Done(t)
  /\ UNCHANGED <<authoring, recipients, queued>>

\* Mutation: restoring an account re-arms what was waived.
RestoreRearms(u) ==
  /\ u \notin enabled
  /\ ~UserLocked(u)
  /\ enabled' = enabled \cup {u}
  /\ obl' = [obl EXCEPT ![u] = [i \in DOMAIN @ |-> [@[i] EXCEPT !.waived = FALSE]]]
  /\ UNCHANGED <<authoring, recipients, queued, tx, overlapped>>

Restore(u) ==
  /\ u \notin enabled
  /\ ~UserLocked(u)
  /\ enabled' = enabled \cup {u}
  /\ UNCHANGED <<authoring, recipients, obl, queued, tx, overlapped>>

-----------------------------------------------------------------------------
(* Acknowledging: the session was checked when the request arrived.        *)

AcknowledgeBegin(t, u) ==
  /\ Free(t)
  /\ u \in enabled
  /\ Goto(t, [Idle EXCEPT !.op = "acknowledge", !.step = "loaded",
                          !.scope = {u}])
  /\ UNCHANGED <<authoring, people, obl, queued>>

\* Mutation: every tap is told, recorded or not.
RecordedEveryTap(u) == 1

\* ON CONFLICT DO NOTHING: only the insert that recorded something is told.
Recorded(u) == IF obl[u][LiveIndex(u)].acked THEN 0 ELSE 1

AcknowledgeCommit(t) ==
  /\ In(t, "acknowledge", "loaded")
  /\ \E u \in tx[t].scope :
       /\ HoldsLive(u)
       /\ obl' = [obl EXCEPT ![u][LiveIndex(u)].acked = TRUE]
       /\ ackEvents' = [ackEvents EXCEPT ![u] = @ + Recorded(u)]
  /\ Done(t)
  /\ UNCHANGED <<authoring, people, outbox, publishEvents>>

-----------------------------------------------------------------------------

Scopes == {Users} \cup {{u} : u \in Users}

Next ==
  \/ \E S \in SUBSET Users \ {{}} : SetTargets(S)
  \/ \E u \in Users : Restore(u)
  \/ \E t \in Tx :
       \/ Rollback(t)
       \/ ReviseLoad(t) \/ ReviseCommit(t)
       \/ PublishLock(t) \/ PublishSelect(t) \/ PublishCommit(t)
       \/ AssignSelect(t) \/ AssignCommit(t)
       \/ ReackSelect(t) \/ ReackCommit(t)
       \/ WaiveCommit(t)
       \/ DisableCommit(t)
       \/ AcknowledgeCommit(t)
       \/ \E S \in Scopes : AssignLoad(t, S) \/ ReackLoad(t, S) \/ WaiveSelect(t, S)
       \/ \E u \in Users : DisableSelect(t, u) \/ AcknowledgeBegin(t, u)

Spec == Init /\ [][Next]_vars

(* What must hold whatever runs concurrently.                              *)

\* One person is never counted twice: a recipient holds at most one live
\* obligation, whichever commands ran at the same time.
OneLivePerRecipient ==
  \A u \in Users : \A i, j \in LiveOf(u) : i = j

\* A successor replaces an earlier obligation of the same person, which left
\* the denominator by being superseded and not by a waive.
ChainSound ==
  \A u \in Users : \A i \in DOMAIN obl[u] :
    LET p == obl[u][i].prev
    IN  p # 0 => p < i /\ obl[u][p].superseded /\ ~obl[u][p].waived

\* Nobody silently drops out of the denominator: what a re-acknowledgement
\* superseded has a successor.
SupersededIsReplaced ==
  \A u \in Users : \A i \in DOMAIN obl[u] :
    obl[u][i].superseded => \E j \in DOMAIN obl[u] : obl[u][j].prev = i

\* The denominator counts every recipient exactly once, whichever commands ran
\* at the same time: never two live obligations of one person, and nobody lost
\* in the chain of re-acknowledgements.
EveryoneCountedOnce == OneLivePerRecipient /\ ChainSound /\ SupersededIsReplaced

\* Nobody is asked to confirm a text that was never released, although drafts
\* newer than the published revision exist.
OnlyReleasedText ==
  \A u \in Users : \A i \in DOMAIN obl[u] : obl[u][i].rev \in released

\* The transactional outbox: one row per obligation, and the event tells a
\* first request from a repeated one.
EveryDemandQueued ==
  outbox = UNION {{[user |-> u, n |-> i,
                    event |-> IF obl[u][i].prev = 0
                                THEN "obligation.assigned"
                                ELSE "obligation.reassigned"]
                   : i \in DOMAIN obl[u]} : u \in Users}

\* Two administrators pressing publish at the same moment publish once.
PublishedOnce == publishEvents = IF published = 0 THEN 0 ELSE 1

\* A second tap on a slow connection does not tell a subscriber it happened
\* twice: one announcement.acknowledged webhook per acknowledgement.
OneEventPerAck ==
  \A u \in Users :
    ackEvents[u] = Cardinality({i \in DOMAIN obl[u] : obl[u][i].acked})

\* Whoever is told of something is told once: one outbox row per obligation,
\* one webhook event per publication and per acknowledgement, however often and
\* however concurrently the button was pressed.
EventsOnce == EveryDemandQueued /\ PublishedOnce /\ OneEventPerAck

\* The denominator does not move because somebody was re-targeted: recipients
\* are the snapshot that publishing took.
RecipientsFrozen ==
  [][recipients' # recipients => published = 0 /\ published' # 0]_vars

\* Acknowledgements, waives and supersessions are history: no later command,
\* restoring an account included, undoes one or changes what was bound.
HistoryStands ==
  [][\A u \in Users : \A i \in DOMAIN obl[u] :
       LET o == obl[u][i]  n == obl'[u][i]
       IN  /\ i \in DOMAIN obl'[u]
           /\ n.rev = o.rev /\ n.prev = o.prev
           /\ (o.acked => n.acked) /\ (o.waived => n.waived)
           /\ (o.superseded => n.superseded)]_vars

\* What publishing and acknowledging established stands: neither the recipients
\* nor anything recorded about their obligations is rewritten afterwards.
PublishedStands == HistoryStands /\ RecipientsFrozen

-----------------------------------------------------------------------------
(* What the source claims; it holds as long as no two handlers overlapped.   *)

\* An acknowledged obligation can never be waived.
AckedNeverWaived ==
  \A u \in Users : \A i \in DOMAIN obl[u] :
    ~(obl[u][i].acked /\ obl[u][i].waived)

\* Somebody who cannot sign in does not stay in a denominator unconfirmed.
DisabledNotPending ==
  \A u \in Users \ enabled : \A i \in LiveOf(u) : obl[u][i].acked

\* A re-acknowledgement asks for content at least as new as what it replaces.
SuccessorNotOlder ==
  \A u \in Users : \A i \in DOMAIN obl[u] :
    obl[u][i].prev # 0 => obl[u][i].rev >= obl[u][obl[u][i].prev].rev

\* A published announcement moves to a new revision immediately.
PublishedIsLatest == published # 0 => published = revisions

\* A published announcement that wants acknowledgement asks somebody.
PublishedAsksSomebody ==
  published # 0 /\ requiresAck => \E u \in Users : obl[u] # <<>>

\* The claims of the source hold as long as no two handlers overlapped: an
\* acknowledged obligation is not waived, nobody who cannot sign in is left in a
\* denominator, a re-acknowledgement never asks for older content, and a
\* published announcement shows its newest revision and asks somebody.
AsPromisedAlone ==
  overlapped \/ /\ AckedNeverWaived
                /\ DisabledNotPending
                /\ SuccessorNotOlder
                /\ PublishedIsLatest
                /\ PublishedAsksSomebody

=============================================================================
