--------------------------- MODULE WebhookDelivery ---------------------------
(***************************************************************************)
(* Deliveries to one webhook: queued inside the transaction they describe, *)
(* claimed in batches, sent, and settled in two statements, one for the    *)
(* delivery and one for the health of the webhook.  A pass is one call of  *)
(* deliverPendingWebhooks; a server runs one at a time, several servers    *)
(* run as many.  As in NotificationOutbox, which released rows are due     *)
(* again is left open.                                                     *)
(***************************************************************************)
EXTENDS Naturals, FiniteSets

CONSTANTS
  Deliveries,             \* rows of webhook_deliveries
  Passes,                 \* passes that may run at the same time
  MaxAttempts,            \* MAX_ATTEMPTS, 10 in the code
  FailuresBeforeDisable,  \* FAILURES_BEFORE_DISABLE, 20 in the code
  BatchSize,              \* batchSize, 20 in the code
  Environments            \* sets of what may happen around a running server

ASSUME WebhookAssumption ==
  /\ MaxAttempts \in Nat \ {0} /\ BatchSize \in Nat \ {0}
  /\ FailuresBeforeDisable \in Nat \ {0}
  /\ Environments \subseteq
       SUBSET {"crash",      \* the process dies, or loses its database
               "database",   \* a statement fails
               "scaledOut"}  \* more than one server makes passes

VARIABLES
  queued, attempts, locked, delivered,  \* webhook_deliveries
  failures,        \* webhooks.consecutive_failures
  disabled,        \* webhooks.disabled_at IS NOT NULL
  accepted,        \* history: deliveries the endpoint answered with a 2xx
  streak,          \* history: attempts that failed since the last success
  faults,          \* what may happen here
  pass             \* local state of the passes

rows    == <<queued, attempts, locked, delivered>>
webhook == <<failures, disabled, faults>>
history == <<accepted, streak>>
vars    == <<rows, webhook, history, pass>>

-----------------------------------------------------------------------------

Steps == {"idle", "send", "ok", "reset", "bad", "count"}
Local == [step: Steps, batch: SUBSET Deliveries, row: SUBSET Deliveries]
Idle == [step |-> "idle", batch |-> {}, row |-> {}]

TypeOK ==
  /\ queued \subseteq Deliveries /\ locked \subseteq queued
  /\ delivered \subseteq queued /\ accepted \subseteq queued
  /\ attempts \in [Deliveries -> 0..MaxAttempts]
  /\ failures \in Nat /\ streak \in Nat /\ disabled \in BOOLEAN
  /\ faults \in Environments
  /\ pass \in [Passes -> Local]

Init ==
  /\ queued = {} /\ locked = {} /\ delivered = {} /\ accepted = {}
  /\ attempts = [d \in Deliveries |-> 0]
  /\ failures = 0 /\ streak = 0 /\ disabled = FALSE /\ faults \in Environments
  /\ pass = [p \in Passes |-> Idle]

At(p, step) == pass[p].step = step
Goto(p, local) == pass' = [pass EXCEPT ![p] = local]
Step(p, step) == Goto(p, [pass[p] EXCEPT !.step = step])

\* The next row of the batch, or the end of the pass.
Advance(p) ==
  LET rest == pass[p].batch \ pass[p].row
  IN  Goto(p, IF rest = {} THEN Idle
              ELSE [step |-> "send", batch |-> rest, row |-> {}])

-----------------------------------------------------------------------------
(* Queueing, claiming, reclaiming.                                         *)

\* A row per webhook that is not disabled, when the event happens.
Enqueue(d) ==
  /\ d \notin queued
  /\ ~disabled
  /\ queued' = queued \cup {d}
  /\ UNCHANGED <<attempts, locked, delivered, webhook, history, pass>>

\* Mutation: the claim takes what was delivered before.
ClaimDelivered == {d \in queued \ locked : attempts[d] < MaxAttempts}

Claimable ==
  {d \in queued \ (locked \cup delivered) : attempts[d] < MaxAttempts}

\* A server makes one pass at a time; whether the webhook is disabled by now
\* is not asked.
Claim(p) ==
  /\ At(p, "idle")
  /\ "scaledOut" \in faults \/ \A q \in Passes : At(q, "idle")
  /\ \E S \in SUBSET Claimable :
       /\ S # {} /\ Cardinality(S) <= BatchSize
       /\ attempts' = [d \in Deliveries |-> attempts[d] + IF d \in S THEN 1 ELSE 0]
       /\ locked' = locked \cup S
       /\ Goto(p, [step |-> "send", batch |-> S, row |-> {}])
  /\ UNCHANGED <<queued, delivered, webhook, history>>

\* Mutation: nothing is ever reclaimed.
ExpiredNever == {}

Held == UNION {pass[p].batch : p \in Passes}

\* Locks older than five minutes: their pass died, because twenty requests
\* that time out after ten seconds each end sooner.
Expired == (locked \ delivered) \ Held

Reclaim ==
  /\ \E S \in SUBSET Expired : S # {} /\ locked' = locked \ S
  /\ UNCHANGED <<queued, attempts, delivered, webhook, history, pass>>

-----------------------------------------------------------------------------
(* One delivery.                                                           *)

\* Mutation: a redirect counts as delivered.
SuccessOrRedirect(status) == status >= 200 /\ status < 400

Success(status) == status >= 200 /\ status < 300

\* No answer at all is reported as 0.
Send(p) ==
  /\ At(p, "send")
  /\ \E d \in pass[p].batch, status \in {200, 302, 500, 0} :
       /\ Goto(p, [pass[p] EXCEPT !.step = IF Success(status) THEN "ok" ELSE "bad",
                                  !.row = {d}])
       /\ accepted' = IF status = 200 THEN accepted \cup {d} ELSE accepted
       /\ streak' = IF status = 200 THEN 0 ELSE streak + 1
  /\ UNCHANGED <<rows, webhook>>

\* markDelivered: the row first ...
MarkDelivered(p) ==
  /\ At(p, "ok")
  /\ delivered' = delivered \cup pass[p].row
  /\ locked' = locked \ pass[p].row
  /\ Step(p, "reset")
  /\ UNCHANGED <<queued, attempts, webhook, history>>

\* Mutation: a success does not reset the counter.
KeepsCounting == failures

AfterSuccess == 0

\* ... then the counter of the webhook.
ResetFailures(p) ==
  /\ At(p, "reset")
  /\ failures' = AfterSuccess
  /\ Advance(p)
  /\ UNCHANGED <<rows, disabled, faults, history>>

\* Either statement fails, and the delivery is treated as failed.
SuccessUnrecorded(p) ==
  /\ "database" \in faults
  /\ pass[p].step \in {"ok", "reset"}
  /\ Step(p, "bad")
  /\ UNCHANGED <<rows, webhook, history>>

\* markFailed: the row is released for another attempt ...
ReleaseForRetry(p) ==
  /\ At(p, "bad")
  /\ locked' = locked \ pass[p].row
  /\ Step(p, "count")
  /\ UNCHANGED <<queued, attempts, delivered, webhook, history>>

\* ... then the failure is counted, and too many switch the webhook off.
CountFailure(p) ==
  /\ At(p, "count")
  /\ failures' = failures + 1
  /\ disabled' = (disabled \/ failures + 1 >= FailuresBeforeDisable)
  /\ Advance(p)
  /\ UNCHANGED <<rows, faults, history>>

\* The process dies, or a statement of markFailed throws out of the pass.
Crash(p) ==
  /\ "crash" \in faults
  /\ ~At(p, "idle")
  /\ Goto(p, Idle)
  /\ UNCHANGED <<rows, webhook, history>>

-----------------------------------------------------------------------------
(* The administrator.                                                      *)

Disable ==
  /\ disabled' = TRUE
  /\ UNCHANGED <<failures, faults, rows, history, pass>>

\* Mutation: the counter survives a restore.
RestoreKeepsFailures ==
  /\ disabled' = FALSE
  /\ UNCHANGED <<failures, faults, rows, history, pass>>

Restore ==
  /\ disabled' = FALSE /\ failures' = 0
  /\ UNCHANGED <<faults, rows, history, pass>>

Work(p) ==
  \/ Send(p) \/ MarkDelivered(p) \/ ResetFailures(p) \/ SuccessUnrecorded(p)
  \/ ReleaseForRetry(p) \/ CountFailure(p)

Next ==
  \/ \E d \in Deliveries : Enqueue(d)
  \/ \E p \in Passes : Claim(p) \/ Work(p) \/ Crash(p)
  \/ Reclaim \/ Disable \/ Restore

Spec == Init /\ [][Next]_vars

\* The worker loop ticks every 30 seconds and reclaims every five minutes, and
\* a claim takes the rows that have been due for longest.
Fairness ==
  /\ \A p \in Passes : WF_vars(Work(p))
  /\ \A d \in Deliveries : SF_vars(\E p \in Passes : Claim(p) /\ d \in locked' \ locked)
  /\ \A d \in Deliveries : WF_vars(Reclaim /\ d \in locked \ locked')

FairSpec == Spec /\ Fairness

-----------------------------------------------------------------------------
(* What must hold.                                                         *)

\* What is recorded as delivered was answered with a 2xx: a redirect or an
\* error is never taken for a delivery, whatever fails in between.
DeliveredWasAccepted == delivered \subseteq accepted

\* A row marked as delivered is never sent again.
DeliveredNotResent ==
  [][\A p \in Passes : At(p, "send") /\ pass'[p].row # {}
       => pass'[p].row \cap delivered = {}]_vars

\* The record of deliveries is true and final: typed, never claiming what the
\* endpoint did not take, and never sending again what it did.
RecordIsTrue == [](TypeOK /\ DeliveredWasAccepted) /\ DeliveredNotResent

\* An endpoint that is merely flaky is never switched off, only one that is
\* consistently gone: that many attempts failed since the last success.  A
\* crash or a second server may put a success on record late, or not at all.
OnlyGoneIsSwitchedOff ==
  [][failures' = failures + 1 /\ disabled' /\ ~disabled /\ faults = {}
       => streak >= FailuresBeforeDisable]_vars

\* Re-enabling gives a full allowance again: the failure that switches a
\* webhook off is never one of fewer than that many since the restore.
FullAllowance == ~disabled => failures < FailuresBeforeDisable

\* A webhook is switched off for the right reason only: its endpoint is gone,
\* and it has had the whole of the allowance since it last worked or was
\* restored.
SwitchedOffRightly == []FullAllowance /\ OnlyGoneIsSwitchedOff

\* Every event is delivered in the end, or has used up its attempts.
Concludes(d) == d \in delivered \/ (attempts[d] = MaxAttempts /\ d \notin locked)
EventuallyConcluded == \A d \in Deliveries : d \in queued ~> Concludes(d)

=============================================================================
