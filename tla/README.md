# Atarimae: a TLA+ model of its protocols

Atarimae is a self-hosted announcement, chat and calling server for small
organisations: a Fastify server in TypeScript over PostgreSQL, a web client
with a service worker, a desktop shell and a backup tool. What it promises is
mostly about *state that several people change at once*: an announcement is
published once and everybody who was asked is counted exactly once, a queued
notification is neither lost nor sent twice, a file that was sent keeps its
row and its bytes, the screen ends up showing what the server has. Those
promises rest on unique indexes, CHECK constraints, one deferred trigger, row
locks, the order of statements in READ COMMITTED transactions and, in the
browser, on the order in which answers, events and pushes arrive. They are
broken by interleavings and crashes that a test suite does not reach.

This directory holds TLA+ modules of those protocols, TLC configurations that
check them on small instances, and machine-checked proofs, for every value of the
constants, of all the safety properties those check. All paths below are relative to the repository root; `server/`
stands for `apps/server/src/`, `web/` for `apps/web/src/`.

* [How to run it](#how-to-run-it)
* [Inventory](#inventory)
* [How the code is modelled](#how-the-code-is-modelled)
* [The modules](#the-modules)
* [The runs](#the-runs)
* [The proofs](#the-proofs)
* [Where code and documentation disagree](#where-code-and-documentation-disagree)
* [What is not modelled](#what-is-not-modelled)
* [Plan](#plan)

## How to run it

    tlc -workers 2 -config Obligations.cfg MCObligations.tla
    tlapm ObligationsProofs.tla
    tlapm AccountsProofs.tla
    tlapm BackupProofs.tla
    tlapm OutboxProofs.tla
    tlapm AdministrationProofs.tla
    tlapm CallsProofs.tla
    tlapm ChatProofs.tla
    tlapm ClientProofs.tla

`PROJECT.json` lists every run with its module, configuration and properties,
every mutant, the source lines each definition models, the hazards and the
theorems. A property of a run is one *idea*, such as `EveryoneCountedOnce`; its
conjuncts are definitions of their own, each with a comment that says which
promise of the code it states.

## Inventory

| Component | State | Operations | Talks to | Hard because |
|---|---|---|---|---|
| **Announcement engine** `server/routes/announcements.ts`, `services/obligations.ts`, `services/publish.ts` | announcements, content revisions, target versions, recipients, acknowledgement obligations, acknowledgements | create, re-target, revise, publish, assign, re-acknowledge, waive, acknowledge; disabling an account waives | outbox and webhook rows in the same transaction | candidates and pointers are read before the locks are taken |
| **Targets and CSV** `services/targets.ts`, `routes/announcement-csv.ts` | target rules, personalised paragraphs | resolve, preview, import | announcement engine, organisation units | obligations must bind what the import writes; a round trip must be quiet |
| **Organisation units** `routes/org-units.ts` | units, memberships | create, close, restore, assign, leave, primary | targets | primary unit is moved by several statements |
| **Notification outbox** `services/notification-worker.ts`, `services/push.ts`, `routes/push.ts` | outbox rows with attempts and locks, deliveries per channel, subscriptions | claim, send, settle, release, reclaim, subscribe, revoke | SMTP, push services, worker loop, the administrator's "drain now" | crash between sending and recording, partial success, lock expiry |
| **Reminders** `services/reminders.ts` | reminder rows | queue due reminders | outbox | two instances at once |
| **Webhooks** `services/webhooks.ts`, `routes/webhooks.ts` | deliveries, consecutive failures, disabled flag | enqueue, claim, send, mark, count, reclaim, disable, restore | endpoints of the organisation | two statements after one request, several servers |
| **Accounts** `routes/setup.ts`, `routes/auth.ts`, `routes/users.ts`, `plugins/auth.ts` | users with role and disabled flag, sessions | first-run setup, login, logout, create, change role, disable, restore | announcement engine, webhooks | an unlocked EXISTS behind a deferred trigger; authorisation read before the transaction |
| **Service accounts** `routes/service-accounts.ts` | users of kind service, API tokens | create, disable, restore, issue, revoke | accounts | tokens outlive what they were issued under; a plaintext is in one answer only |
| **Chat** `routes/chat.ts`, `services/chat.ts` | channels, members, messages, read positions | create, open direct, join, post, page, read | realtime, attachments | direct conversation created twice; ids and commits in different orders |
| **Attachments** `services/attachment-store.ts`, `attachment-sweep.ts` | files and rows | upload, claim, sweep | chat, backup | file and row are not one transaction |
| **Calls** `routes/calls.ts`, `services/call-providers.ts`, `services/call-sweep.ts`, `plugins/security-headers.ts` | providers, calls, participants, the frame origin in memory | configure, disable, start, join, leave, sweep | external providers, realtime, response headers | network call between check and insert; a cached header |
| **Settings and secret store** `routes/settings.ts`, `packages/secret-store` | the SMTP row, keys in the environment | save, encrypt, decrypt, rotate | outbox, backup | a field left out keeps the stored value; which key an old value needs |
| **Backup** `routes/backup.ts`, `services/backup-export.ts`, `packages/backup` | archives | export, back up, verify, restore, reconcile | database, files, keys | two stores and one environment, copied at different moments beside a running server |
| **Realtime** `plugins/realtime.ts` | sockets per user | connect, look the session up, publish, close | chat, calls, web client | the lookup is awaited while the socket may close |
| **Web client** `web/pages`, `web/chat`, `web/api.ts`, `web/push.ts`, `web/pwa.ts`, `public/sw.js` | query caches, one socket, the box one writes in, ring and room, copies of the worker, its versions, a push subscription | refetch, merge an event, mark read, send, enter a call, sign out, install, update, subscribe | the API, realtime, push services | answers, events and clicks cross each other; half of a change fails |
| **Audit** `lib/audit.ts` | append-only rows | write, list | everything | – |
| **Desktop shell** `apps/desktop`, **scripts** `scripts/`, **schemas** `packages/api-schema`, **assembly** `server/app.ts` | – | – | – | – |

What makes each of them correct:

* *Engine*: one live obligation per person; nobody leaves the denominator
  except by a waive or by a successor; history is never rewritten; nobody is
  asked to confirm a draft; one publish; every demand has its outbox row.
* *Targets, CSV, organisation*: it stays explainable why somebody was included;
  people are asked for what is current and only when something changed; nobody
  confirms what they could not see; the primary unit is the one asked for.
* *Outbox, reminders*: what is settled was delivered; nothing is repeated; a
  row is in one drain's hands; every row is concluded.
* *Webhooks*: the record of a delivery is true and final; only an endpoint that
  is consistently gone is switched off; every delivery is concluded.
* *Accounts*: one Owner is created by setup, there is always one who is active,
  ownership is moved by Owners only, disabled means signed out.
* *Chat*: one conversation per pair, one channel per name, members only; paging
  shows everything once; what is new is unread.
* *Attachments, backup*: a row has its file and a message all of its files,
  through crashes, sweeps and restores; an archive is complete; a restore says
  what is true.
* *Calls*: one live call per channel, live exactly while somebody is in it; the
  header names the provider that calls are held with, or nobody.
* *Client*: one socket; a settled screen shows what the server has; what is
  typed is sent once; what rings is running; a copy is called a copy and leaves
  with its owner; a new version reaches every window; page, browser and server
  agree about push.

## How the code is modelled

**Transactions.** Handlers run in `withTransaction` (`server/db.ts:77`) at the
PostgreSQL default, READ COMMITTED. Every statement takes its own snapshot, and
a statement that waited for a row lock re-evaluates its condition for that row
only if the row was *updated*. A handler is therefore split at each snapshot
whose result is used later: one action for each such read, and one final action
that takes the locks, re-checks what PostgreSQL re-checks, writes and commits.
What lies between two such points commutes with everybody else, so nothing is
lost by merging it. A unique index, a CHECK or a trigger is a guard of the
committing action; its failure, a refusal, a deadlock, a lost connection and a
crash of the server are all `Rollback`, which leaves no trace.

**Locks.** A lock held across actions (the announcement row during a publish,
the user row during a disable, the participant row during a leave) is derived
from the local state of the transactions, and blocks the actions that need it.

**Network calls.** Whatever happens between sending and recording is between
two actions. Mail and push are history counters of what the other side took.

**Time.** Backoff, due times and the clock are left open: a row may be due, a
lock expired or a call abandoned at any moment the code permits. Where the
distance matters (a lock of five minutes against a drain that is alive) it is
an explicit fault, "slow", that an instance may or may not include.

**The browser.** A request is split where others can act: asked, answered by
the server, taken by the page; an answer may be lost. A query that is asked
again while it is under way is cancelled or joined as TanStack Query does it
for the call at hand. A React handler or effect is one action; what it schedules
(a refetch, a timer, a close event that comes later) is another. Queues, such as
the frames on one socket, keep their order.

**History variables** (`released`, `accepted`, `streak`, `crossed`, `outrun`,
`skewed`, `overlapped`, `setups`, `excused`, `missed`, `deaf`, `fate`, `fresh`,
`torn`, `disturbed`, `unseen`, `uncounted`, `denied`, `late` and others, listed as such in each module) are
never read by a guard. Several
record that two requests overlapped in a particular way: the property then says
exactly which overlap the code does *not* withstand, and holds for all others.

**Mutations.** Each module has a few operators headed "Mutation": the same
definition with a plausible bug. They are used by no action; `PROJECT.json`
pairs each property with one that breaks it.

## The modules

`MC*.tla` instantiate the root modules for TLC: symmetry, the fault sets, the
sheets and target lists, one constraint. `*Proofs.tla` hold the proofs. What
composes what:

    Obligations                                   <- ObligationsProofs
    Accounts                                      <- AccountsProofs
    NotificationOutbox                            <- OutboxProofs
    WebhookDelivery                               <- AdministrationProofs
    Calls                                         <- CallsProofs
    Chat                                          <- ChatProofs
    Attachments, Secrets <- Backup                <- BackupProofs
                               `- implements MessageFiles
    OrgUnits <- PersonalContent \
    TargetPicker                 >- Administration  <- AdministrationProofs
    IssuedSecrets               /
    Realtime <- Conversation, CallScreen \
    ServiceWorker, AppUpdate, PushDevice  >- Client   <- ClientProofs

### `Obligations` – the announcement engine

One announcement, from the draft `POST /announcements` creates.

| Module | Code |
|---|---|
| `enabled` | `users.disabled_at IS NULL` |
| `requiresAck`, `revisions`, `published`, `covered` | the announcement row, its revisions, its published pointer, what the current target version resolves to |
| `recipients` | `announcement_recipients` |
| `obl[u]` | the person's `announcement_ack_obligations` in order of creation; `prev` is `supersedes_obligation_id` (0 for none) |
| `outbox`, `publishEvents`, `ackEvents` | `notification_outbox` and webhook rows queued in the same transactions |
| `tx` | what each open handler has read |
| `SetTargets`, `ReviseLoad`/`ReviseCommit` | `PUT …/targets`, `POST …/content` |
| `PublishLock`/`PublishSelect`/`PublishCommit` | `publishAnnouncement`: `FOR UPDATE` on the announcement, resolving, assigning |
| `AssignLoad`/`Select`/`Commit`, `ReackLoad`/`Select`/`Commit`, `WaiveSelect`/`Commit` | the three commands: `requirePublished`, `candidates`, and the write |
| `DisableSelect`/`DisableCommit`, `Restore` | `POST /users/:id/disable` with `waiveObligationsForUser`, `…/restore` |
| `AcknowledgeBegin`/`AcknowledgeCommit` | `POST /my/announcements/:id/acknowledge` |
| `NoOtherLive`, `NotWaived` | the partial unique index `uq_active_obligation_per_recipient` and the CHECK that a row is not both waived and superseded |

Left out: due dates, timeline and audit rows, who may call what, and the
`user.disabled` webhook. Bounds: `MaxRevisions`, `MaxObligations` (guards of
`ReviseCommit` and of the inserts).

### `OrgUnits`, `PersonalContent` – who is reached, and with which paragraph

`OrgUnits` has the units, the memberships (how many rows, whether the newest is
live and primary) and the requests that add somebody to a unit: the unlocked
read, the demotion of the old primary, and the insert or update that commits
(`AssignRead`, `DemoteBegin`/`DemoteEnd`, `AssignCommit`), with the two partial
unique indexes (`Clashes`).

`PersonalContent` composes it with an announcement that has a paragraph per
person: targets resolved to recipients with the units that brought them
(`because`), revisions, single paragraphs, the preview and import of a sheet
(`ImportBegin`, `ImportCommit`), asking again (`AskSelect`, `AskCommit`), what
the screen of a recipient holds (`Look`) when they confirm (`Acknowledge`), and
the two statements of the statistics (`StatsCount`, `StatsNames`). A cell is a
text, blank, or padded with white space, and `Trimmed` is what `parseCsv` does.

### `TargetPicker`, `IssuedSecrets`, `Administration` – the administrator's pages

`TargetPicker` is the part of `AnnouncementDetail.tsx` with chips for target
groups: the query, the list a chip is toggled in (read from the page's copy),
the `PUT` of the whole list, another administrator's `PUT`, and the button that
publishes. `IssuedSecrets` is a panel that issues API tokens or a form that
registers webhooks: the plaintext is in one answer, which may come when the
panel is closed, folded or another one. `Administration` puts the three side by
side: they share no state, and a behaviour looks at one of them, its `desk`.

### `NotificationOutbox` – draining the outbox, and reminders

A drain is one call of `drainOutbox`; there may be several (a tick, the
administrator's button, another instance). Per row it records the in-app
notification, mails, pushes to each live subscription and settles or releases
the row. `Claim` is `FOR UPDATE SKIP LOCKED` with the increment of `attempts`;
`Reclaim` is `reclaimStaleLocks`; `EmailAccepted` and `EmailSent` are the
moment the SMTP server takes the mail and the statement that says so, and
`Crash` or a failing statement (`EmailUnrecorded`, `Interrupted`) may come in
between. `Look` and `QueueReminders` are the snapshot and the insert of
`queueDueReminders`, one statement taken by one server or by two side by side;
`NoLongerDue` is whatever takes an obligation out of it. `CONSTANT
Environments` is a set of fault sets; one of them is chosen in `Init` and each
property says which of them it withstands.

Approximations: the person's preferences are chosen once; `Interrupted` stands
for the outer `catch`, wherever in the row it happened; `Crash` also stands for
a release that fails; which obligations are due is open. The branches that mark
a channel "skipped" cannot be reached with a row of an existing person.

### `WebhookDelivery` – deliveries to one endpoint

A pass is one call of `deliverPendingWebhooks`. `Send` is the request and its
answer (classes 2xx, 3xx, 5xx and no answer); `MarkDelivered` and
`ResetFailures`, `ReleaseForRetry` and `CountFailure` are the two statements
that follow it. `SuccessUnrecorded` is the success whose `UPDATE` fails and
which is then counted as a failure. There is no "slow" fault: twenty requests
with a timeout of ten seconds end before their five-minute locks do.

### `Accounts` – people, service accounts, sessions and tokens

A request is authorised when it arrives (`Request`, with the role the actor had
then), reads its target without a lock (`Read`), updates one row of `users`
under its row lock (`Update`), has the deferred trigger run (`Check`) and
becomes visible (`Commit`). Splitting `Check` from `Commit` is what READ
COMMITTED allows: two transactions may both be checked before either is
visible. First-run setup holds an advisory lock from its `EXISTS` to its
commit. Login reads the account, verifies the password and only then opens the
transaction that creates the session. Expiry of sessions and tokens only takes
access away and is left out; creating devices, e-mail uniqueness and passwords
too.

### `Calls` – one channel, its calls, and the frame origin

Providers are created and disabled, and after each change the handler re-reads
the preferred provider (`ReadOrigin`) and puts its origin into the in-memory
header (`ApplyOrigin`, `RefreshFails`); a `Restart` rebuilds it. Starting a
call checks for a live one, asks the provider, and inserts; joining reads
`ended_at` and inserts a participant; leaving marks the participant, counts who
remains and ends the call if nobody does; `Sweep` ends it after twelve hours
(`services/call-sweep.ts`; nothing is said about when). Membership of the
channel is fixed because no code ends one. What an HTTP provider answers is
left out: it fails, or there is a URL.

### `Chat` – channels, messages and read positions

`CreateInsert`/`CreateCommit` insert the channel, then its members.
`OpenExisting` answers with the conversation of a pair; `OpenMissing`,
`OpenLink`, `OpenConflict` and `OpenCommit` are `openDirectChannel` when there
is none: insert the channel, link the pair with `ON CONFLICT DO NOTHING`, which
waits for another link of the same pair, and on a conflict drop the channel and
read the other one. `SendInsert` takes an id, which is not yet visible;
`SendCommit` makes it so and sets the sender's position. `MarkRead` is one
statement that only moves a position forward. `WalkBegin`, `WalkPage`, `WalkEnd` are a client that
pages back to the beginning with `NextBefore`, while others write.

### `Attachments`, `Secrets`, `Backup`, `MessageFiles`

`Attachments` has the row and the file of each upload: the row is inserted and
not yet visible, the file is written, the row is committed; if that fails the
file stays, without a row. A message claims its uploads under their row locks or is
rolled back; the sweep deletes old unsent rows and then removes their files, one
by one, and a removal may fail. `Crash` ends everything that is open.
`Secrets` has the SMTP row, the key its password is encrypted with, the keys in
the environment, `PUT /settings/smtp` with a password given, `null` or omitted,
and a rotation.

`Backup` composes both with the export of the server and the command line
(`Ways`: over HTTP, directly, and directly with rows that have no file allowed):
copying file by file, the dump, the keys, reconciling, writing or refusing; an
archive that is damaged; the loss of the machine; and a restore that verifies,
warns, drops the schema, loads, writes the files and compares, or dies.

`MessageFiles` is the abstract specification: a file is offered whole or given
up, sent with all the others of its message or given up, and once sent it stays.
`Abstract` in `Backup` is the refinement mapping (`StatusOf`): a committed row
with its whole file is "unsent" or its message, a row without one is "broken",
which `MessageFiles` does not know. `FilesAreKept == Abstract!Spec` says that
the server implements it until its data are lost or replaced by a restore.

### `Realtime`, `Conversation`, `CallScreen`

`Realtime` joins the two ends of a WebSocket: the effect of `useRealtime` with
its cleanup flag, timer and close events, and the hub with the session lookup
between accepting a socket and registering it. `Conversation` adds the page of a
channel: the log and the channel list as queries (asked, answered, taken), the
merging of events into them, the reports of a read position, the divider, and the
box one writes in. A query may fail, and so may the report of a read position: it
never reaches the server (`MarkLost`), or it is recorded and the answer is lost
(`MarkUnheard`), after which nothing has the list asked for again. `CallScreen` adds what rings, the panel of a conversation with
its room, the two places from which a call is entered (`Hooks`) with the window
that is opened before the answer is known, and leaving.

### `ServiceWorker`, `AppUpdate`, `PushDevice`, `Client`

`ServiceWorker` has the copy of the announcements (who asked for it, which label
the page shows, when it is deleted; a query that fails is `Waiting` to be sent once
more, with its data on the screen and the label gone if it was refused) and the application shell with its bundles
across deploys. `AppUpdate` has several windows of one registration, versions of
`sw.js`, and the button that lets a waiting one take over. `PushDevice` has the
browser's subscription, the rows of the server, and turning it on and off as two
calls to two parties. `Client` composes all of them. The conversation and the
calls share the socket; the rest share nothing, so a behaviour looks at one part,
its `focus`, and the others stay as they were. `Connecting` and `Losing` are the
socket as far as another focus needs it.

## The runs

| Run | Bounds | Distinct states | Properties |
|---|---|---|---|
| `obligations` | 2 people, 2 transactions, 2 revisions, 2 obligations in all | 2.05 million | `EveryoneCountedOnce` (one live obligation, sound chains, nobody drops out), `OnlyReleasedText`, `EventsOnce` (outbox complete, published once, one event per acknowledgement), `PublishedStands` (recipients frozen, history stands), `AsPromisedAlone` (five claims of the comments, as long as no two handlers overlapped) |
| `outbox_safety` | 2 notes, 2 rows, 2 drains, 1 device, 2 instances, 2 attempts; one fault at a time: no push sender, overlapping reminders, crashes, failing statements | 1.77 million | `RowsHeldOnce`, `NobodyToldTwice` (nothing sent twice, reminded once, a recorded success stays) |
| `outbox_live` | 1 note, 1 row, 2 drains, 2 devices, 1 instance, 2 attempts; crashes, slow drains, failing statements and lost replies together | 218 thousand | `ProcessedIsDelivered`, `EventuallyConcluded` |
| `webhook` | 2 deliveries, 2 passes, 3 attempts, 3 failures to switch off | 110 thousand | `SwitchedOffRightly` (only what is consistently gone, after its full allowance), `RecordIsTrue` (delivered was accepted, and is not sent again), `EventuallyConcluded` |
| `accounts` | 2 people, 1 service account, 2 credentials, 2 requests | 1.36 million | `OwnersHold` (an Owner remains, one setup), `DisabledSignedOut`, `OwnersByOwners` |
| `calls` | 2 people, 2 requests, 2 providers, 2 calls | 404 thousand | `CallsSound` (one live call, ended is empty, empty is ended), `FrameOrigin` |
| `chat` | 2 people, 2 transactions, 2 channels, 1 name, 3 messages, pages of 1 | 479 thousand | `ChannelsSound` (one conversation per pair, unique names, the creator can post, only members post), `WalkComplete`, `PositionsHold` (back only by sending, new is unread) |
| `backup` | 2 uploads, 2 messages, 2 settings requests, 2 keys | 587 thousand | `FilesWhole` (rows have files, messages are whole), `BackupSound` (complete, refused only for what is fresh), `RestoreHonest` (mismatches explained, unwarned is readable), `OmittedKeepsAlone`, and the refinement `FilesAreKept` |
| `organisation` | 1 person, 2 units, 2 administrators; 3 paragraphs, 4 sheets, 2 target versions, 2 revisions, 2 obligations; 2 chips; 2 secrets, panel put up twice | 1.51 million | `AnnouncementTells` (explainable, shown not older, figures agree), `MembershipHolds` (the primary asked for wins, refused only when raced), `ImportAsks` (for what is current; an untouched sheet is quiet), `TargetsAsSeen`, `SecretsTold` |
| `client` | see below | 1.45 million | `SocketsHold`, `ConversationShown`, `WritingHolds`, `CallsShown`, `CopiesHold`, `UpdatesReach`, `PushAgrees` |
| `acked_waived`, `owner_always` | as small as the counterexample | – | see [below](#where-code-and-documentation-disagree) |

The foci of `client`: `sockets` (3 sockets, 2 runs of the effect, restarts,
refusals), `delivery` (2 messages, 1 visit, one lost connection, log queries that
fail), `reading` (2 messages, 2 visits, marks, joining, list queries that fail; the
connection stays, others write before the second visit only, the page is left when
the channel list is known, and one thing is lost at a time), `writing`
(2 texts, 2 posts, 1 visit), `ringing` (2 calls in 2 conversations, one lost
connection), `entering` (1 call, both places to enter from, framing changing
meanwhile), `copy` (2 people in turn, 2 requests at a time, the page's own sent
again once, 1 sign-out, sessions that end before it), `shell` (2 builds,
network and worker come and go), `updating` (2 windows, 3 versions of the
worker), `push` (2 people in turn, 2 subscriptions).

Why the bounds are enough. Every hazard found needs two transactions: the guards
that protect a row look at one other transaction, and a third adds no new kind
of overlap. Obligations of different people never read each other. Two attempts
distinguish the first from a retry and the last from one more. Three failures
distinguish "in a row" from "in total". Two calls are needed for a second one to
be kept out or to follow; two providers for one default to replace the other, one
of them embeddable and one not. Three messages and pages of one make a walk with
a page in the middle. Two uploads make a message with several files, of which one
can be swept. A socket, its successor and one more make a stale close event meet
a newer run; three versions of the worker make one that waits be replaced.
`accounts` is cut off after the overlap `skewed` records (`BeforeSkew`), because
nothing is claimed after it.

Symmetry sets are used in the safety runs only; liveness runs and `client` have
none.

**Deadlock** is checked except in `accounts`, `chat`, `backup` and `client`. An
organisation whose only Owner is disabled by the race below, with nobody else
able to sign in, really stops; so do people of whom everybody was disabled, a
system whose restore died, and a browser that has used up its bounds.

**Fairness.** `outbox_live` and `webhook` assume what `worker-loop.ts`
provides: a drain that is running keeps running (`WF` of its own steps; a crash
ends it), the tick comes every 30 seconds and takes the rows that have been due
longest, so a row that is claimable again and again is eventually claimed (`SF`
of a claim that includes it: it may be unclaimable in between while another
drain holds it), the reclaimer runs every five minutes (`WF`), and the tick also
looks for reminders (`WF`). Nothing is assumed about SMTP, push services or
endpoints: they may refuse for ever, and the row then runs out of attempts.
`attempts` is incremented by the claim, which is why crashes cannot postpone the
conclusion for ever. The client has no liveness property: nothing in it retries
for ever but the socket, and what must hold in the end is stated of a screen on which
nothing is under way (`Quiet`, `CallsQuiet`).

## The proofs

`ObligationsProofs.tla` proves, for any set of people, any number of
overlapping transactions and any bounds (`BoundsAssumption`: they are positive
naturals):

| Theorem | States |
|---|---|
| `Typed` | `Spec => []TypeOK` |
| `HistoryAlwaysStands` | `Spec => HistoryStands` |
| `ChainAlways` | `Spec => []ChainInv` |
| `NobodyCountedTwice`, `ChainsAreSound`, `NobodyDropsOut` | `[]OneLivePerRecipient`, `[]ChainSound`, `[]SupersededIsReplaced` |
| `PublishAlways` | `Spec => []PublishInv` |
| `PublishedOnceAlways`, `RecipientsAlwaysFrozen` | `[]PublishedOnce`, `RecipientsFrozen` |
| `NoDraftIsBound` | `Spec => []OnlyReleasedText` |
| `EveryoneIsCountedOnce`, `PublishedAlwaysStands` | `[]EveryoneCountedOnce` and `PublishedStands`, the properties of the run, from the ones above |
| `EventsAlwaysOnce` | `Spec => []EventsOnce` |
| `AloneAlways`, `PromisesHoldAlone` | `[]AloneInv`, `[]AsPromisedAlone` |

*Types.* One lemma per operator that writes (`GrantType`, `SucceedType`,
`WaiveAtType`, `QueueType`), then `NextTyped` with one step per action.

*History.* Every commit extends each person's chain: it appends or sets flags,
never clears one. `Extends` is transitive (`ExtendsTransitive`), so a
re-acknowledgement, which supersedes and then appends, needs no case of its own.

*Chains.* `OneLivePerRecipient` is not inductive: a re-acknowledgement
supersedes the row it read, by index, possibly after waiting. `ChainInv` adds
that what an open transaction read is still within the chain (`Bounded`) and
says in `Sound` everything about one chain at once: at most one live member,
links to earlier superseded and unwaived members, a successor for everything
superseded. `GrantSound`, `SucceedSound` and `FlagSound` are the three shapes a
write can have; the unique index and the CHECK are exactly the guards they use.

*Publishing.* `PublishInv` says that at most one transaction is past
`PublishLock`, that the announcement is then unpublished, and that events and
recipients are what they were; the row lock is what makes it inductive.

*Released text.* `NextReleased` carries, with `OnlyReleasedText`, that the
revision an open handler has read as published was released.

*Events.* One outbox row per obligation and one webhook event per
acknowledgement are counts over chains that grow: `EventsInv` follows each chain
through a commit, with the cardinality of the acknowledged positions kept by
everything but an acknowledgement, which adds the one position it flags
(`Acks`). It needs `ChainInv`, which is why it is proved after it.

*Handlers one after the other.* `AsPromisedAlone` collects what the comments
claim and what READ COMMITTED grants only to handlers that do not overlap.
`Knowing` says what an open transaction has read and still relies on (the
published revision, the people it selected, the obligations it is about to
change), and `OverlapSeen` that whoever is open beside it has been noticed; a
commit of somebody else is therefore a commit after an overlap, and `Kept` has to
be re-established only from what the committing transaction itself knows.

`AccountsProofs.tla` proves, for any people and service accounts (the two kinds
are disjoint: `AccountsAssumption`), any credentials and any number of
overlapping requests:

| Theorem | States |
|---|---|
| `Typed` | `Spec => []TypeOK` |
| `OwnersAlways` | `Spec => []OwnerInv` |
| `OwnerAlwaysRemains`, `SetupAlwaysOnce` | `[]OwnerRemains`, `[]SetupOnce` |
| `OwnersAlwaysHold` | `[]OwnersHold`, both together |
| `SoloAlways` | `[](RowsInv /\ SoloInv)` |
| `DisabledAlwaysSignedOut`, `OwnersAlwaysByOwners` | `[]DisabledSignedOut`, `OwnersByOwners` |

*Types.* No service account is ever an Owner, which is a fact about the target a
request read earlier: `RowsInv` adds that an updated target still exists and may
hold the new role, that a change of role names one, and that only existing
accounts are disabled. `GotoRows` serves the steps that leave the accounts alone,
`CommitRows` the commits.

*Owners.* The owner check looks at what its own transaction would leave, so
`OwnerInv` says (`Passed`) that every request past the check would leave an Owner
if it committed now, as long as no two were past it together; `SkewSeen` says
that such a pair is always recorded; `RowTaken` that a change of role has its
row. Steps that take no Owner away keep `Passed` (`StillLeavesOwner`); the commit
of a taker is alone past the check and leaves its own Owner. Setup is the base
case: `OneSetup` is what the advisory lock gives, and that a setup under way has
none committed before it follows from `OwnerRemains` itself, because the handler
looked and saw no Owner. The two invariants are proved together for that reason.

*Requests one after the other.* Neither `DisabledSignedOut` nor `OwnersByOwners`
is inductive: a login that read its account before a disable would sign a
disabled person in, and a change of role that read "member" before a promotion
would take an Owner from an administrator. `Knowing` says that, unless requests
overlapped, what a request read of its target is still so, and `Aimed` that each
is about one account of the kind its route is for.

`BackupProofs.tla` proves, for any finite sets of uploads and messages
(`AttachmentsAssumption`), any settings requests and any number of keys
(`SecretsAssumption`: at least one):

| Theorem | States |
|---|---|
| `Typed` | `Spec => []TypeOK` |
| `MessagesWhole`, `SentFilesStay`, `RowsHaveFiles` | `[]MessageWhole`, `SentStays`, `[]RowHasFile` |
| `ArchivesComplete`, `RefusalsAreRaces` | `[]ArchiveComplete`, `[]RefusedOnlyFresh` |
| `MismatchesExplained`, `UnwarnedIsReadable` | `[]MismatchExplained`, `[]UnwarnedReadable` |
| `OmittedKeeps` | `Spec => OmittedKeepsAlone` |
| `FilesAlwaysWhole`, `BackupsAreSound`, `RestoresAreHonest` | `[]FilesWhole`, `[]BackupSound`, `[]RestoreHonest`, the properties of the run |
| `ServerKeepsFiles` | `Spec => FilesAreKept`: the server implements `MessageFiles` |

*Layout.* `StepCases` splits `Next` once and for all into the server's own steps
with what they leave alone (`Server /\ Bystander`), `Configuring`, `Archiving`
and `Restoring`; every lemma about a step has these four cases.

*The invariant* `IInv` is a conjunction of named parts, each with a lemma of its
own (`FilesInvStep`, `CopiedStep`, ...), because none of the properties is
inductive. `FilesInv` is about the server: uploads and sends hold different rows
(`UploadApart`, `SendsApart`), a row that is born has its file (`RowsBorn`), and
messages are whole (`Whole`). `Quiet` says that the server is still while the
tables are gone; `DumpsWhole` and `ServedWhole` carry what a dump and an archive
hold from the tables they were taken of to those they are loaded into; `Phases`
ties the steps of a backup to what it has; `Copied` is why files are copied
before the dump: every row older than the backup has its file in the copy, or is
still to be copied, so that only `fresh` rows can be missing. `TornOnly` says that
only a copy of a file being written is cut short, `Expected` and `Counted` carry
the counts of an archive and of a restore up to the comparison, `Warned` the key,
and `ReadAlone` that a settings request holds what is stored.

*The refinement.* `InitMaps` maps the initial state, `ServiceMaps` each step of a
server in service to `Offer`, `Abandon`, `Post`, `GiveUp` or a stutter, and
`StepMaps` everything else to `Stop` or a stutter. It needs `FilesInv`: without
it a row could be "broken", from which the abstract specification has no way on.

`OutboxProofs.tla` proves, for any notes, drains, servers and devices, any finite
set of rows (`OutboxAssumption`; the table is finite, and `Cardinality` speaks of
finite sets only) and any combination of faults, where the run takes them one at
a time:

| Theorem | States |
|---|---|
| `OutboxAlways` | `Spec => []OutboxInv` |
| `RowsAlwaysHeldOnce` | `[]RowsHeldOnce`, type correctness included |
| `ProcessedIsAlwaysDelivered` | `[]ProcessedIsDelivered` |
| `NobodyEverToldTwice` | `NobodyToldTwice`, its action property included |

*Layout.* Each action has a lemma ending in `Shape` that says field by field what
it changes, with the note in hand named (`Turn`); the lemmas about the invariants
use only those. A drain that claims, settles, releases or dies has no row in hand
afterwards (`Empties`), and what no drain does leaves every note that has a row
alone (`Still`): most of each proof is one of these two.

*The invariant.* `HandsInv` is what a drain has in hand: one row of its batch,
recorded before anything is sent. `Hold` adds, for drains that do not outlive
their locks, that what a batch has left is locked and in no other batch;
`SKIP LOCKED` and the reclaimer's five minutes are the two guards it uses.
`Reminding` is why two rows never ask for one note: while a server has looked and
not yet inserted, nothing it is about to queue has a row, which rests on `Filed`
(what is processed was recorded). Together they give `Exclusive`: two drains
have two notes in hand. `DeliveryInv` carries what was taken from the moment it
was taken to the moment the row is settled (`Progress`), and nothing taken is
undone (`Grows`). `Sole` says that a channel somebody is sending on has no success
on record, which is `SentStays` and the reason why a retry repeats nothing; `Once`
that a mail or push that was taken is on record, or in the hands of the one drain
that will put it there.

`AdministrationProofs.tla` proves what is claimed of `Administration` and of
`WebhookDelivery`. The two share no state and no name, each theorem is about the
specification of one of them (`AdminSpec`, `Spec`), and the sections do not use
one another except where it is said.

Of `Administration`, for any finite set of people, any units, administrators,
texts, sheets of any length and target lists, any number of target groups,
secrets and mounts, and any bounds (`OrgUnitsAssumption`, `ContentAssumption`,
`IssuedSecretsAssumption`: the people are finite because they are counted, and
bounds are naturals):

| Theorem | States |
|---|---|
| `MembershipAlwaysHolds` | `MembershipHolds`, its action property included |
| `AnnouncementAlwaysTells` | `[]AnnouncementTells` |
| `ImportAlwaysAsks` | `ImportAsks`: both its action properties |
| `TargetsAlwaysAsSeen` | `TargetsAsSeen`, its action properties included |
| `SecretsAlwaysTold` | `[]SecretsTold` |

*Memberships.* `OrgInv` says what an addition that is under way still knows
(`StillSo`): unless another raced it, a person it found outside the unit is still
outside, and the rows it holds to be demoted include every primary unit of the
person, so the indexes have nothing to refuse. `CommitWrites` says field by field
what the commit leaves.

*One announcement.* `ContentInv` has a conjunct for each thing that has to survive
the time between two steps. `AskedForWritten`: nobody is asked for a text that is
not published or a paragraph that is not written. `ScreenFollows`: a screen is not
older than what its reader had been asked for when it was fetched, which is what
an acknowledgement, perhaps of a later obligation, takes over as `shown`.
`AskFollows`: a re-acknowledgement that waited still holds what is live, and asks
for what is current unless a text changed. `OneLive`, which a re-acknowledgement
needs, holds here because whoever asks supersedes what it asked for in the same
step. What a command does to one person's obligations is always one of two things
(`Continues`): it keeps what was bound, and it appends; `TextsHold` is for the
steps that ask nobody, `AskedHold` for the others, and each handler only has to
say which `Continues` it is.

*The sheet* is the recursive part: a row is compared with what the rows before it
left. What holds of the paragraphs after every row is proved by the least
counterexample (`AllNumbers`, from the well-foundedness of `<`), after `RowsExist`
has shown that the recursive function exists and `RowAfterRow` what it is. From it:
a sheet only adds paragraphs (`ImportedType`), and the roster as it stands adds
none (`RosterSaysNothing`), whatever its order. `AskedAgainIs` says that somebody
with several rows is asked once for each and that only the last stays live.

*Figures.* The pending are counted as pairs of a person and an obligation and
named as people; `PendingCounted` is the bijection between the two, which `OneLive`
makes injective.

*The page of targets.* As long as nobody else saves, what the page shows or was
just answered is what is saved, but between a save's commit and its answer
(`PageFollows`), and a press made at rest is about what is saved until it is
answered (`PressesFollow`).

*Secrets.* A list that differs from what is in use is being asked for again, or will
be, or the page has yet to be told of the change (`ToldOf`, `ListFollows`); a secret
on the screen was answered and not put away (`ScreenOnce`), and what is in use, on a
list or revoked was issued before (`IssuedBefore`).

Of `WebhookDelivery`, for any deliveries, passes and servers, any numbers of
attempts and of failures to switch off (`WebhookAssumption`: positive) and any
combination of faults:

| Theorem | States |
|---|---|
| `RecordAlways` | `Spec => []RecordInv` |
| `RecordIsAlwaysTrue` | `RecordIsTrue`, the property of the run |
| `AllowanceAlways` | `Spec => []AllowanceInv` |
| `SwitchedOffAlwaysRightly` | `SwitchedOffRightly`, the property of the run |

`Ownership` says that what a pass has not settled is locked for it alone and not
delivered, and that a row between its 2xx and its `UPDATE` was taken. That makes
a second delivery impossible, because a claim only takes what is not locked.
`StreakInv` is about one server that runs undisturbed: between the request and
the second of the two statements that follow it, the counter of the webhook and
the failures since the last success may differ by the one that is being counted.

`CallsProofs.tla` proves, for any members, requests and bounds and any finite set
of providers (`CallsAssumption`; the preferred one is the least, and an infinite
set need not have one):

| Theorem | States |
|---|---|
| `Typed` | `Spec => []TypeOK` |
| `CallsAlways` | `[](TypeInv /\ CallInv)` |
| `OneCallAlways`, `CallsAlwaysSound` | `[]OneLiveCall`, `[]CallsSound` |
| `FrameOriginAlways` | `[]FrameOrigin` |

The unique index is the guard that makes `AtMostOne` inductive. "Live exactly
while somebody is in it" needs what a join and a leave remember: `JoinsHold` says
that the call a join found has not ended but by the sweep, `CountsHold` that the
number a leave counted is still the number of those who remain, both unless they
crossed. `RefreshInv` says that one refresh of the header runs at a time and that
what it read is still preferred, unless two ran side by side.

`ChatProofs.tla` proves, for any people, channels, names and requests, any number
of messages and any page size (`ChatAssumption`: at least one):

| Theorem | States |
|---|---|
| `Typed` | `Spec => []TypeOK` |
| `ChatAlways` | `Spec => []ChatInv` |
| `ChannelsAlwaysSound`, `WalkAlwaysComplete` | `[]ChannelsSound`, `[]WalkComplete` |
| `PositionsAlwaysHold` | `PositionsHold` |

*Channels.* A pair is linked in a transaction that has not committed yet, and the
conflict of another is what it waits for: `LinkInv` says that whoever has linked a
pair is alone and the pair has no conversation; `NoneLeftOver` that the channel of
a lost conflict is dropped; `NameInv` the same of names.

*Messages.* Ids are taken before they are visible. `SendsOwn` and `SendsApart` say
that a send holds an id of its own; `SendsInOrder` that in a channel whose sends
never overlapped the id is the newest, without which a position set by the
sender would jump over a message. *The walk.* `WalkInv`: everything due at or
above the oldest message shown was returned exactly once and nothing below it; a
page is the greatest messages below, and that a bounded set of numbers has a
greatest and a least one comes from well-foundedness (`WFMin`), not from an
induction of our own.

`ClientProofs.tla` proves, for any users, people and windows and for any numbers
of subscriptions, versions, sign-outs, runs, sockets, messages, texts, visits and
calls (`ServiceWorkerAssumption`: at least one build exists, since something is
deployed; `ConversationAssumption`: `NoData`, for a query without an answer, is
neither a log nor an item of the channel list):

| Theorem | States |
|---|---|
| `PushAlways`, `PushAlwaysAgrees` | `[]PushInv`, `[]PushAgrees` |
| `UpdatesAlways`, `UpdatesAlwaysReach` | `[]UpdateInv`, `[]UpdatesReach` |
| `CopiesAlways`, `CopiesAlwaysHold` | `[]CopyInv`, `[]CopiesHold` |
| `SocketsAlways`, `SocketsAlwaysHold` | `[]SocketInv` with `NewOnesAllowed` of every step; `SocketsHold`, its action property included |
| `WritingAlways`, `WritingAlwaysHolds` | `[]WritingInv`, `[]WritingHolds` |
| `CallsOnScreen`, `CallsAlwaysShown` | `[]CallInv`, `[]CallsShown` |
| `ConversationOnScreen`, `ConversationAlwaysShown` | `[]TalkInv`, `[]ConversationShown` |

Each property is about one part. A lemma per part says that every other focus
leaves its variables alone (`PushMoves`, `UpdateMoves`, `CopyMoves`,
`SocketMoves`), so the invariant is proved of the steps of the part and carried to
the whole.

*Notifications.* Turning them on or off is two halves, of which either may fail.
`PushInv` adds what is under way: which subscription the second half is about,
that the browser's half is done (`HalfOff`), and that the server has one row of an
endpoint.

*New versions.* `WorkersInOrder`: the worker that is waiting is newer than the
active one and the one being installed newer than both, so that a version that is
replaced is recognised by its number. `PageHolds` is about one window and relates
what it has been told, what it watches and what it has asked for to those three;
what an event of the registration does to a window is a lemma (`HeardHolds`,
`TakenHolds`, `ReplacedHolds`, `ClaimedHolds`, `PressedHolds`).

*The copy.* `ReadsHalf` says whose a request, an answer and a copy can be, and that a
copy comes with an answer only; with that the three claims about it are inductive.
`ShellHalf` says that the page kept is of a build whose bundles are kept.

*The socket.* "One is in use" is not inductive: the close event of a socket
arrives when a newer run has opened another. `SocketsOfRun` says that what an
older run opened is closed or closing, `RetryOfRun` that a timer is of the current
run and only while none is in use, `RefusedIsOver` that a run that was told 4401
has no timer left.

*Writing.* `BoxFollowsPosts` says what the box can hold while a message is on its
way: that message, or something typed over it, or nothing because a success has
cleared it. `SaidOnceMore` is the same for saying something twice: two posts of one
text, or one of a text that was said, are only there if it was submitted again.

*Calls.* "What rings is running" says nothing while an event is on its way, so
`CallsHold` says which event: of a call that is over (`Over`: ended, not by the
sweep, and its end not missed) and is still shown, the end is unpublished or is on
the wire of every socket by which the browser is connected (`Coming`). A ring
appears when a start is taken off the wire, so `StartsFollowed` carries the same
from the commit on: unpublished with its start, and behind it on the wire. It uses
`SocketInv`, one socket in use, where a start is heard on one socket and its end
could be on another (`EventTaken`), and `WiresHold`, that a socket carries nothing
before it is in the hub. Most steps leave the socket alone: `Local` says what
they do to the calls and to the panel, and `LocalFollowed` proves it once for all.

*The conversation.* "None is missing" says nothing while anything is under way, so
`LogFollowed` says where a message can be: in the log, in the answer that will
replace it, still to be asked for, or on every wire. `BadgeFollowed` is about the
count: it is a function of what the server held when it answered (`IsItem`), and
once nothing would have the list asked for again (`Silent`) that is what it holds
now, unless something its count depends on has changed unheard (`uncounted`). `MarkFollowed` says that the position a page has marked is on its way, was
lost, or has arrived. The line is drawn by counting backwards
(`DividerAtPosition`): the log holds each message once and in the order of ids, so
that the messages from there on are as many as, and part of, those above the
position.

What is proved is proved of the same definitions the runs check, and every
inductive invariant was checked by TLC on an instance before or after it was
proved. Recursion over data is proved about where the recursive function and the
statement are fixed, by the least counterexample; the induction theorems of the
library, which take an operator, are not used.
**Only model-checked**:

* all liveness, `EventuallyConcluded` of the outbox and of webhooks: it needs
  fairness and `ENABLED`, which the prover does not handle;
* the two disagreements below, which are counterexamples.

## Where code and documentation disagree

Each of these was met while modelling. The first two have a run that ends in the
counterexample.

1. `acked_waived`. A waive reads "no acknowledgement exists" in the statement
   that then waits for the row lock; the acknowledgement only locked that row,
   so PostgreSQL does not look again, and an acknowledged obligation is waived.
   `docs/architecture/announcement-model.md:119` says that can never happen.
2. `owner_always`. The deferred trigger is an unlocked `EXISTS` in READ
   COMMITTED. Two transactions that take away two different Owners both pass.

The next ones are stated by the property named, or by the exception it makes;
without the exception TLC shows the trace.

3. `AsPromisedAlone` (`Obligations`): a command that read somebody as enabled
   inserts their obligation after the disable waived everything; a
   re-acknowledgement binds a revision older than the one it replaces; a
   revision written while a publish commits stays unpublished; everybody
   targeted is disabled between two snapshots and an announcement is published
   that asks nobody. A re-acknowledgement that waited may also replace an
   obligation whose successor was waived meanwhile.
4. `NothingTwice`: a crash after the SMTP server took the mail sends it again.
5. `OneDrainPerRow`: locks of a slow drain are reclaimed under it (twenty mails
   with timeouts of twenty seconds are longer than five minutes).
6. `ProcessedIsDelivered` excepts a drain without a push sender: the
   administrator's drain settles a row whose push was never tried
   (`routes/settings.ts:249`, `notification-worker.ts:15-20`).
7. `RemindedOnce` holds for one server: `reminders.ts:20-22` calls the query
   idempotent by construction, but two servers that look at the same moment both
   insert, because the unique index is on `notifications` and not on the outbox.
8. `OnlyGoneIsSwitchedOff`: a success whose pass dies before the counter is
   reset, or whose reset another server's pass overtakes, does not count.
9. `DisabledSignedOut`: a login that verified the password before the disable
   creates its session after it; restoring the account revives that session.
   `OwnersByOwners`: a change of role that read "member" before a promotion may take
   an Owner from an administrator.
10. `EmptyIsEnded`: the last two people leave at once, each counts the other,
    and the call stays live until the sweep; `EndedIsEmpty`: a join that read
    "not ended" adds a participant to an ended call.
11. `FrameOrigin`: two refreshes whose queries answer in the other order leave
    the origin of a stopped provider in `frame-src`.
12. `OmittedKeepsAlone`: `FOR UPDATE` holds nothing while there is no row, so of
    two first requests the one without a password may store none.
13. `SetPrimaryWins`: the row to be primary is found without a lock
    (`org-units.ts:376`); somebody who leaves meanwhile, and even comes back, loses
    the old primary unit and gets none.
14. `UntouchedSheetIsQuiet`: a paragraph stored with white space around it is
    re-asked by an untouched round trip (`announcement-csv.ts:207-212`).
15. `ShownNotOlder` excepts a screen fetched before the person was asked: the
    request names the announcement only, and whatever obligation is live by then is
    acknowledged.
16. `NewIsUnread`, `BackOnlyBySending`: ids are handed out at the insert, so of two
    messages sent at once the older may appear below a stored position; and one's
    own message moves one's position back if a newer one was read first.
17. `MismatchExplained`: the export counts after the dump, so a restore may report
    a mismatch although nothing is lost; `cli.ts:751-755` takes it for a bad dump.
    `RowHasFile` excepts a file that was copied while it was being written.
18. `RegistryClean`: a socket that closes while its session is looked up is
    registered after its close handler could have run, and stays until a restart.
19. `MissedOnlyRaced`: `useRealtime.ts:12-16` counts on the refetch after a
    reconnect, but the browser asks before the hub knows the socket; a message
    published in between is in neither. `BadgeSettles`: a read position that is
    recorded while its answer is lost leaves the badge above the server's count,
    because only a success has the list asked for again (`Channel.tsx:109-112`)
    and no code publishes `channel.read`; a list query that fails twice leaves it
    as well. Both last until something else has the list asked for (`uncounted`).
20. `WipedOnlyOverlapped`, `TwiceOnlyAgain`: text typed while a message is being
    sent is wiped when it succeeds, and Ctrl+Enter sends it a second time.
    `DividerWhereLeft` excepts a log whose messages came out of order (`InOrder`):
    `format.ts:218-226` counts backwards in the order of arrival, the server counts
    by id, so the line is then drawn elsewhere than where the badge counts from.
    It takes three messages, one more than the run has: the proof showed it.
21. `RingIsRunning`, `RoomIsRunning`: the end of a call that comes before its
    start leaves it ringing; a call the sweep ends is announced to nobody.
22. `LabelTellsTruth`: "on screen, every time" (`api.ts:87-89`, `pwa.md:52-54`)
    holds until the query fails. A refused answer deletes the label
    (`api.ts:163-165`) while the copy stays on the screen until the query is sent
    again (`main.tsx:14`); and when that fails too, the copy stays and
    `MyAnnouncements.tsx:51` shows no label over it. A request that was given up
    also sets or clears the label. `CopyKeepsBar` excepts what else reached the
    server. `SignOutForgets`: a request that was on its way when somebody signed out
    writes its copy afterwards (`sw.js:156`), and a page that the worker does not
    control has nobody to tell.
23. `StartsOffline`: any answer to a navigation is kept as the shell, an error page
    included (`sw.js:263-270`).
24. `WaitingIsAnnounced`, `ReloadedByNew`: a page loaded during an installation is
    not told of it; a `controllerchange` of an earlier takeover reloads a page that
    has just pressed the button. `sw.js:86-93` says a page is not taken over in
    the middle of a session; the other windows are, when one window presses.
25. `OneChipChanges`, `PublishedAsSeen`: a chip pressed before the page was asked
    for again is applied to the list before the last one; a save under way does not
    disable the button that publishes.
26. `LiveWasShown`, `ListTellsLive`: a token whose answer comes after its panel was
    closed is in use and was never shown. The form of webhooks says that its secret
    cannot be shown again once it is closed (`ServiceAccounts.tsx`), but folding
    keeps it and unfolding shows it again, which is why `GoneForGood` is about
    what was copied, replaced, or closed with the page.
27. `RowHasSubscription`, `SubscribedIsKnown`: half of turning notifications on or
    off may fail, and turning them off as another person leaves the row.

Met while reading, and the subject of no property:

* A blank cell does not clear a paragraph, and a sheet that names somebody twice
  asks twice (`announcement-csv.ts:32-34,158`). An import against a `PUT` of one
  paragraph can deadlock; it is `ImportFails`.
* A unit that is closed while an assignment is under way still gets the member
  (`org-units.ts:343-349`).
* The worker's context query finds every obligation, so the check at
  `notification-worker.ts:311-314` never stops the mail of a withdrawn one.
* `cli.ts:369-372` says of a refused backup that the running system is already
  inconsistent; what was committed while it ran is refused as well
  (`RefusedOnlyFresh`). `secret-store.ts:26` says rows under the old key stay
  readable; after a second rotation, or when the previous key is dropped, they do
  not.
* `chat.ts` says a file without a row is swept; `attachment-sweep.ts:30` looks at
  rows only, so it stays.
* Reporting a read position does not ask whether the message is of that channel
  (`chat.ts:745-753`); the browser sends ids of the channel's own log only.
* `MyAnnouncements.tsx:34` may confirm a text it has not shown, see 15; a copy may
  be unlabelled, see 22.
* `channel.read` is handled by the client and published by no code;
  `disconnectUser` has no caller. The divider moves with later messages although
  `Channel.tsx:95-101` says it is captured once. Dismissing on settle may clear a
  newer ring. A list that changes under another administrator is overwritten
  whole. A failed revocation is not shown, and the plaintext of a revoked token
  stays on the screen.

## What is not modelled

`PROJECT.json` lists every component with what is left out of it. In short:

* The **audit log** and the **schemas** have no protocol; the **assembly** of the
  server is wiring; the **scripts** and the **desktop shell** are sequential
  programs around files and windows; the **end-to-end tests** are tests.
* The contents of mails, pushes, signatures, URLs, archives and sheets are data no
  property is about, and so are ciphers, compression and the tar layout.
* Of the server: archiving, the timeline, replies, mentions, search, expiry of
  sessions and tokens, thumbnails, heartbeats, and a session lookup of the
  realtime hub that throws.
* Of the client: the push and `notificationclick`
  handlers, the prompt to install, attachments in the composer, formatting, the
  copies of `/auth/me` and `/setup/status`, and the product of the foci, of which
  no property speaks.

## Plan

Done: the modules above, with proofs of everything safe that the runs check. What
would add most next:

1. An abstract at-least-once delivery (a demand is open, taken or concluded) that
   `NotificationOutbox` and `WebhookDelivery` both implement, and the safety part
   of it proved.
2. Attachments in the composer, joined with `Attachments`; the push and
   `notificationclick` handlers, joined with `AppUpdate`'s windows.
3. A session that ends while a socket is open, joined with `Accounts`.
