-------------------------- MODULE NotificationOutbox --------------------------
(***************************************************************************)
(* The notification outbox: queue the reminders that fall due, claim a     *)
(* batch, record the in-app notification, send the email and the push, and *)
(* settle the row or release it for another attempt.                       *)
(*                                                                         *)
(* A drain is one call of drainOutbox: a tick of the worker loop, the      *)
(* administrator's button, or another server instance.  Between two of its *)
(* database statements other drains, the reclaimer and the person's        *)
(* devices may act, so each statement or network call whose result matters *)
(* to somebody else is an action.  A note is a notification of one person, *)
(* for an obligation and an event: what is recorded and sent is kept by    *)
(* note, and a row asks for one.                                           *)
(* The backoff only says when a released row is due again, and which rows  *)
(* are due is left open.                                                   *)
(***************************************************************************)
EXTENDS Naturals, FiniteSets

CONSTANTS
  Notes,          \* obligations and events to notify the person of
  NoNote,         \* what a row that is not inserted yet is about
  Rows,           \* bound: notification_outbox rows
  Drains,         \* calls of drainOutbox that may run at the same time
  Instances,      \* servers whose worker loops queue reminders
  Devices,        \* devices the person may have subscribed to push
  MaxAttempts,    \* MAX_ATTEMPTS, 10 in the code
  BatchSize,      \* batchSize, 20 in the code
  Environments    \* sets of what may go wrong around a running server

ASSUME OutboxAssumption ==
  /\ MaxAttempts \in Nat \ {0} /\ BatchSize \in Nat \ {0}
  /\ NoNote \notin Notes /\ IsFiniteSet(Rows)
  /\ Environments \subseteq
       SUBSET {"crash",      \* the process dies
               "slow",       \* a drain outlives its locks
               "database",   \* a statement fails
               "lostReply",  \* a mail is accepted, the reply is lost
               "overlap",    \* several instances queue reminders
               "noPush"}     \* drains without a push sender

VARIABLES
  about, attempts, locked, processed,  \* columns of the outbox rows
  due,             \* notes that are reminders, due within a day and not done
  seen,            \* what the INSERT of an instance has selected
  recorded,        \* notes whose in-app notification exists
  delivery,        \* notification_deliveries.status, per note and channel
  emails,          \* mails the SMTP server took, per note
  pushes,          \* pushes a push service took, per note and device
  faults,          \* what may go wrong here
  prefs,           \* channels the person's preferences leave enabled
  live,            \* devices with a subscription that is not revoked
  excused,         \* history: notes whose push had no subscription to go to
  drain            \* local state of the drains

queue  == <<about, due, seen>>
claims == <<attempts, locked, processed>>
rows   == <<queue, claims>>
sent   == <<recorded, delivery, emails, pushes, excused>>
given  == <<faults, prefs>>
person == <<given, live>>
vars   == <<rows, sent, person, drain>>

-----------------------------------------------------------------------------

Channels == {"email", "push"}
Status == {"none", "pending", "sent", "failed", "abandoned"}
Steps == {"idle", "next", "email", "sending", "accepted", "push", "pushing",
          "finish"}

\* todo: subscriptions still to be tried; hit, retry: some push was taken, or
\* is worth another attempt.
Local == [step: Steps, batch: SUBSET Rows, row: SUBSET Rows,
          sender: BOOLEAN, failed: BOOLEAN,
          todo: SUBSET Devices, hit: BOOLEAN, retry: BOOLEAN]

Idle == [step |-> "idle", batch |-> {}, row |-> {}, sender |-> FALSE,
         failed |-> FALSE, todo |-> {}, hit |-> FALSE,
         retry |-> FALSE]

TypeOK ==
  /\ about \in [Rows -> Notes \cup {NoNote}]
  /\ due \subseteq Notes /\ seen \in [Instances -> SUBSET Notes]
  /\ attempts \in [Rows -> 0..MaxAttempts]
  /\ locked \subseteq Rows /\ processed \subseteq Rows
  /\ recorded \subseteq Notes /\ excused \subseteq Notes
  /\ delivery \in [Notes -> [Channels -> Status]]
  /\ emails \in [Notes -> Nat]
  /\ pushes \in [Notes -> [Devices -> Nat]]
  /\ faults \in Environments /\ prefs \subseteq Channels
  /\ live \subseteq Devices
  /\ drain \in [Drains -> Local]

RowsOf(n) == {r \in Rows : about[r] = n}

\* A row was committed together with each new obligation; nobody was reminded.
Init ==
  /\ due \in SUBSET Notes /\ seen = [i \in Instances |-> {}]
  /\ about \in [Rows -> Notes \cup {NoNote}]
  /\ \A n \in Notes : Cardinality(RowsOf(n)) = IF n \in due THEN 0 ELSE 1
  /\ attempts = [r \in Rows |-> 0]
  /\ locked = {} /\ processed = {} /\ recorded = {}
  /\ delivery = [n \in Notes |-> [c \in Channels |-> "none"]]
  /\ emails = [n \in Notes |-> 0]
  /\ pushes = [n \in Notes |-> [d \in Devices |-> 0]]
  /\ faults \in Environments /\ prefs \in SUBSET Channels
  /\ live = Devices /\ excused = {}
  /\ drain = [d \in Drains |-> Idle]

Goto(d, local) == drain' = [drain EXCEPT ![d] = local]
At(d, step) == drain[d].step = step
SetDelivery(n, c, status) == delivery' = [delivery EXCEPT ![n][c] = status]

\* ON CONFLICT DO NOTHING: an attempt reuses the row of an earlier one.
OpenDelivery(n, c) ==
  IF delivery[n][c] = "none" THEN SetDelivery(n, c, "pending")
                             ELSE UNCHANGED delivery

-----------------------------------------------------------------------------
(* Deadline reminders.                                                     *)

\* Mutation: only what is still waiting to be sent keeps a reminder back.
NotQueued == {n \in due : RowsOf(n) \subseteq processed}

\* Not notified of, and not waiting to be, as the statement sees the tables.
ToRemind == {n \in due : n \notin recorded /\ RowsOf(n) \subseteq processed}

\* The INSERT ... SELECT of a tick takes its snapshot ...
Look(i) ==
  /\ seen[i] = {}
  /\ "overlap" \in faults \/ \A j \in Instances : seen[j] = {}
  /\ ToRemind # {} /\ seen' = [seen EXCEPT ![i] = ToRemind]
  /\ UNCHANGED <<about, due, claims, sent, person, drain>>

\* ... and commits: no index keeps a second row for the same note out.
QueueReminders(i) ==
  /\ seen[i] # {} /\ seen' = [seen EXCEPT ![i] = {}]
  /\ about' \in [Rows -> Notes \cup {NoNote}]
  /\ \A r \in Rows \ RowsOf(NoNote) : about'[r] = about[r]
  /\ \A n \in Notes : Cardinality({r \in RowsOf(NoNote) : about'[r] = n})
                       = IF n \in seen[i] THEN 1 ELSE 0
  /\ UNCHANGED <<due, claims, sent, person, drain>>

\* Acknowledged, waived, superseded, disabled, or the deadline has passed.
NoLongerDue(n) ==
  /\ n \in due /\ due' = due \ {n}
  /\ UNCHANGED <<about, seen, claims, sent, person, drain>>

-----------------------------------------------------------------------------
(* Claiming, reclaiming.                                                   *)

Waiting == Rows \ (processed \cup RowsOf(NoNote))

\* Mutation: the claim does not ask whether a row is locked.
ClaimLocked == {r \in Waiting : attempts[r] < MaxAttempts}

\* Mutation: the claim does not count attempts.
ClaimForever == Waiting \ locked

Claimable == {r \in Waiting \ locked : attempts[r] < MaxAttempts}

\* One UPDATE; SKIP LOCKED keeps concurrent claims apart.
Claim(d) ==
  /\ At(d, "idle")
  /\ \E S \in SUBSET Claimable, sender \in BOOLEAN :
       /\ S # {} /\ Cardinality(S) <= BatchSize
       /\ sender \/ "noPush" \in faults
       /\ attempts' = [r \in Rows |-> attempts[r] + IF r \in S THEN 1 ELSE 0]
       /\ locked' = locked \cup S
       /\ Goto(d, [Idle EXCEPT !.step = "next", !.batch = S, !.sender = sender])
  /\ UNCHANGED <<queue, processed, sent, person>>

Held == UNION {drain[d].batch : d \in Drains}

\* Mutation: locks are released however young they are.
ExpiredAlways == locked \ processed

\* Mutation: nothing is ever reclaimed.
ExpiredNever == {}

\* Locks older than five minutes: their drain died, or is that slow.
Expired == (locked \ processed) \ IF "slow" \in faults THEN {} ELSE Held

Reclaim ==
  /\ \E S \in SUBSET Expired : S # {} /\ locked' = locked \ S
  /\ UNCHANGED <<queue, attempts, processed, sent, person, drain>>

-----------------------------------------------------------------------------
(* One row.                                                                *)

\* The obligation is read, and its notification recorded once; whether it is
\* still asked of anybody is not looked at.
Load(d) ==
  /\ At(d, "next")
  /\ \E r \in drain[d].batch :
       /\ Goto(d, [drain[d] EXCEPT !.step = "email", !.row = {r}])
       /\ recorded' = recorded \cup {about[r]}
  /\ UNCHANGED <<rows, delivery, emails, pushes, excused, person>>

\* The notification the row in hand is about.
Subject(d) == {about[r] : r \in drain[d].row}

\* Mutation: the channel does not look whether it already succeeded.
NeverSent(n, c) == FALSE

AlreadySent(n, c) == delivery[n][c] = "sent"

Wanted(n, c) == c \in prefs /\ ~AlreadySent(n, c)

StartEmail(d) ==
  /\ At(d, "email")
  /\ \E n \in Subject(d) :
       IF Wanted(n, "email")
         THEN /\ OpenDelivery(n, "email")
              /\ Goto(d, [drain[d] EXCEPT !.step = "sending"])
         ELSE /\ Goto(d, [drain[d] EXCEPT !.step = "push"])
              /\ UNCHANGED delivery
  /\ UNCHANGED <<rows, recorded, emails, pushes, excused, person>>

\* The SMTP server takes the mail ...
EmailAccepted(d) ==
  /\ At(d, "sending")
  /\ \E n \in Subject(d) : emails' = [emails EXCEPT ![n] = @ + 1]
  /\ Goto(d, [drain[d] EXCEPT !.step = "accepted"])
  /\ UNCHANGED <<rows, recorded, delivery, pushes, excused, person>>

\* ... or send throws, and the failure is recorded, whatever the status was.
EmailFailed(d) ==
  /\ At(d, "sending")
  /\ \E n \in Subject(d) :
       /\ SetDelivery(n, "email", "failed")
       /\ \/ UNCHANGED emails
          \/ "lostReply" \in faults /\ emails' = [emails EXCEPT ![n] = @ + 1]
  /\ Goto(d, [drain[d] EXCEPT !.step = "push", !.failed = TRUE])
  /\ UNCHANGED <<rows, recorded, pushes, excused, person>>

EmailSent(d) ==
  /\ At(d, "accepted")
  /\ \E n \in Subject(d) : SetDelivery(n, "email", "sent")
  /\ Goto(d, [drain[d] EXCEPT !.step = "push"])
  /\ UNCHANGED <<rows, recorded, emails, pushes, excused, person>>

\* The UPDATE that records the success fails: it is recorded as a failure.
EmailUnrecorded(d) ==
  /\ "database" \in faults
  /\ At(d, "accepted")
  /\ \E n \in Subject(d) : SetDelivery(n, "email", "failed")
  /\ Goto(d, [drain[d] EXCEPT !.step = "push", !.failed = TRUE])
  /\ UNCHANGED <<rows, recorded, emails, pushes, excused, person>>

\* The subscriptions are read; having none is not a failure.
StartPush(d) ==
  /\ At(d, "push")
  /\ \E n \in Subject(d) :
       LET try == drain[d].sender /\ Wanted(n, "push")
       IN  IF try /\ live # {}
             THEN /\ OpenDelivery(n, "push")
                  /\ Goto(d, [drain[d] EXCEPT !.step = "pushing", !.todo = live])
                  /\ UNCHANGED excused
             ELSE /\ Goto(d, [drain[d] EXCEPT !.step = "finish"])
                  /\ excused' = excused \cup IF try THEN {n} ELSE {}
                  /\ UNCHANGED delivery
  /\ UNCHANGED <<rows, recorded, emails, pushes, person>>

PushTaken(d, dev) ==
  /\ At(d, "pushing") /\ dev \in drain[d].todo
  /\ \E n \in Subject(d) : pushes' = [pushes EXCEPT ![n][dev] = @ + 1]
  /\ Goto(d, [drain[d] EXCEPT !.todo = @ \ {dev}, !.hit = TRUE])
  /\ UNCHANGED <<rows, recorded, delivery, emails, excused, person>>

\* 404, 410 or 403: the subscription is revoked, and that is not a failure.
PushGone(d, dev) ==
  /\ At(d, "pushing") /\ dev \in drain[d].todo
  /\ live' = live \ {dev}
  /\ Goto(d, [drain[d] EXCEPT !.todo = @ \ {dev}])
  /\ UNCHANGED <<rows, sent, given>>

PushFailed(d, dev) ==
  /\ At(d, "pushing") /\ dev \in drain[d].todo
  /\ Goto(d, [drain[d] EXCEPT !.todo = @ \ {dev}, !.retry = TRUE])
  /\ UNCHANGED <<rows, sent, person>>

\* Delivered to one device is delivered; all gone is nothing to retry.
FinishPush(d) ==
  /\ At(d, "pushing") /\ drain[d].todo = {}
  /\ \E n \in Subject(d) :
       /\ SetDelivery(n, "push", IF drain[d].hit THEN "sent"
                                 ELSE IF drain[d].retry THEN "failed"
                                 ELSE "abandoned")
       /\ excused' = excused \cup IF drain[d].hit \/ drain[d].retry THEN {} ELSE {n}
  /\ Goto(d, [drain[d] EXCEPT !.step = "finish",
                !.failed = @ \/ (drain[d].retry /\ ~drain[d].hit)])
  /\ UNCHANGED <<rows, recorded, emails, pushes, person>>

\* The next row of the batch, or the end of the pass.
Advance(d) ==
  LET rest == drain[d].batch \ drain[d].row
  IN  Goto(d, IF rest = {} THEN Idle
              ELSE [Idle EXCEPT !.step = "next", !.batch = rest,
                                !.sender = drain[d].sender])

\* Mutation: a row whose channel failed is marked processed like any other.
SettlesAnyway(d) == TRUE

Settles(d) == ~drain[d].failed

\* Neither update asks whether this drain still holds the row.
Settle(d) ==
  /\ At(d, "finish")
  /\ Settles(d)
  /\ processed' = processed \cup drain[d].row
  /\ locked' = locked \ drain[d].row
  /\ Advance(d)
  /\ UNCHANGED <<queue, attempts, sent, person>>

Release(d) ==
  /\ locked' = locked \ drain[d].row
  /\ Advance(d)
  /\ UNCHANGED <<queue, attempts, processed, sent, person>>

ReleaseForRetry(d) == At(d, "finish") /\ ~Settles(d) /\ Release(d)

\* Any other statement of the row fails: it is released by the outer catch.
Interrupted(d) ==
  /\ "database" \in faults
  /\ drain[d].step \notin {"idle", "next", "accepted"}
  /\ Release(d)

\* The process dies, or the database is gone and not even the release gets
\* through: what the drain had locked stays locked.
Crash(d) ==
  /\ "crash" \in faults
  /\ ~At(d, "idle")
  /\ Goto(d, Idle)
  /\ UNCHANGED <<rows, sent, person>>

-----------------------------------------------------------------------------
(* Meanwhile.                                                              *)

Subscribe(dev) ==
  /\ live' = live \cup {dev}
  /\ UNCHANGED <<rows, sent, given, drain>>

Unsubscribe(dev) ==
  /\ live' = live \ {dev}
  /\ UNCHANGED <<rows, sent, given, drain>>

\* What a drain does on its own once it has claimed a batch.
Work(d) ==
  \/ Load(d)
  \/ StartEmail(d) \/ EmailAccepted(d) \/ EmailFailed(d)
  \/ EmailSent(d) \/ EmailUnrecorded(d)
  \/ StartPush(d) \/ FinishPush(d)
  \/ \E dev \in Devices : PushTaken(d, dev) \/ PushGone(d, dev) \/ PushFailed(d, dev)
  \/ Settle(d) \/ ReleaseForRetry(d) \/ Interrupted(d)

Next ==
  \/ \E d \in Drains : Claim(d) \/ Work(d) \/ Crash(d)
  \/ Reclaim
  \/ \E i \in Instances : Look(i) \/ QueueReminders(i)
  \/ \E n \in Notes : NoLongerDue(n)
  \/ \E dev \in Devices : Subscribe(dev) \/ Unsubscribe(dev)

Spec == Init /\ [][Next]_vars

\* The worker loop ticks every 30 seconds and reclaims every five minutes, and
\* a claim takes the rows that have been due for longest.
Fairness ==
  /\ \A d \in Drains : WF_vars(Work(d))
  /\ \A r \in Rows : SF_vars(r \in Claimable /\ \E d \in Drains : Claim(d)
                                                         /\ r \in locked')
  /\ \A r \in Rows : WF_vars(Reclaim /\ r \in locked \ locked')
  /\ \A i \in Instances : WF_vars(Look(i)) /\ WF_vars(QueueReminders(i))

FairSpec == Spec /\ Fairness

-----------------------------------------------------------------------------
(* What must hold.                                                         *)

Reached(n, c) == IF c = "email" THEN emails[n] > 0
                                ELSE \E dev \in Devices : pushes[n][dev] > 0

DeliveredTo(n) ==
  /\ n \in recorded
  /\ \A c \in prefs : Reached(n, c) \/ (c = "push" /\ n \in excused)

\* Retry, never discard: a row is only marked processed once the notification
\* is recorded and every channel the person left on took it, except a push
\* that had no subscription to go to.  Crashes, failing statements and drains
\* that overtake each other do not matter; a drain without a sender does.
ProcessedIsDelivered ==
  "noPush" \notin faults => \A r \in processed : DeliveredTo(about[r])

\* Several workers never process the same row twice: as long as no drain is
\* slower than its locks, no two drains hold one, crashes or not.
OneDrainPerRow ==
  "slow" \notin faults =>
    \A d, e \in Drains : d # e => drain[d].batch \cap drain[e].batch = {}

\* What a row records and who holds it: as typed, and in one drain's hands.
RowsHeldOnce == TypeOK /\ OneDrainPerRow

\* One notification, one email, and one push per device: neither a retry for
\* the sake of the other channel nor a second drain repeats what succeeded,
\* unless something breaks between a success and its record.
NothingTwice ==
  faults \subseteq {"noPush"} =>
    \A n \in Notes : emails[n] <= 1 /\ \A dev \in Devices : pushes[n][dev] <= 1

\* A success on record stays on record: no later attempt turns it into a
\* failure that would be retried, unless a slow drain, or one that
\* works on a second row for the same note, writes late.
SentStays ==
  [][\A n \in Notes, c \in Channels :
       {"slow", "overlap"} \cap faults = {} /\ delivery[n][c] = "sent"
         => delivery'[n][c] = "sent"]_vars

\* Exactly one reminder, however often the tick runs: an obligation is never
\* queued twice by one server, whatever crashes, fails or is retried
\* meanwhile.  Two servers may queue it twice.
RemindedOnce ==
  "overlap" \notin faults => \A n \in Notes : Cardinality(RowsOf(n)) <= 1

\* Nobody hears of the same thing twice: it is queued once, a success is sent
\* once, and a success on record is not turned back into something to send.
NobodyToldTwice == [](NothingTwice /\ RemindedOnce) /\ SentStays

\* A reminder that stays due is queued, and what is queued is eventually
\* delivered, or has used up its attempts and is left, unlocked, for review; a
\* crash does not leave it locked forever.
Concludes(r) == r \in processed \/ (attempts[r] = MaxAttempts /\ r \notin locked)
Concluded(n) == /\ n \in due => RowsOf(n) # {}
                /\ \A r \in RowsOf(n) : Concludes(r)
EventuallyConcluded == \A n \in Notes : <>Concluded(n)

=============================================================================
