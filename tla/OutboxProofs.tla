------------------------------ MODULE OutboxProofs ------------------------------
(* What holds of NotificationOutbox for any rows, notes, devices, drains and  *)
(* servers: a row is in one drain's hands, what is processed was delivered,   *)
(* and nobody is told twice.                                                  *)
EXTENDS NotificationOutbox, FiniteSetTheorems, TLAPS

-----------------------------------------------------------------------------
(* The invariants.                                                         *)

\* A drain has one row of its batch in hand, from the moment its notification
\* is recorded, and has no push result before it pushes.
InHand(d) ==
  /\ At(d, "idle") => drain[d].batch = {}
  /\ drain[d].step \in {"idle", "next"} => drain[d].row = {}
  /\ drain[d].step \notin {"idle", "next"} =>
       \E r \in drain[d].batch : drain[d].row = {r} /\ about[r] \in recorded
  /\ drain[d].hit => drain[d].step \in {"pushing", "finish"}
  /\ "noPush" \in faults \/ At(d, "idle") \/ drain[d].sender
  /\ \A r \in drain[d].batch : about[r] \in Notes

\* What is processed was recorded.
Filed == \A r \in processed : about[r] \in recorded

HandsInv == TypeOK /\ Filed /\ \A d \in Drains : InHand(d)

\* Nobody takes a row out of the hands of a drain that is not slow.
Hold ==
  "slow" \notin faults =>
    /\ \A d \in Drains : drain[d].batch \subseteq locked
    /\ \A d, e \in Drains : d # e => drain[d].batch \cap drain[e].batch = {}

\* One server looks at a time, and nothing it is about to queue has a row.
OneRowPerNote ==
  \A r, s \in Rows : about[r] \in Notes /\ about[s] = about[r] => r = s

Reminding ==
  "overlap" \notin faults =>
    /\ OneRowPerNote
    /\ \A i, j \in Instances : seen[i] # {} /\ seen[j] # {} => i = j
    /\ \A i \in Instances : \A n \in seen[i] : \A r \in Rows : about[r] # n

\* What is on record as sent was taken, and what a drain is about to put on
\* record, or to settle, was taken too.
SentReached == \A n \in Notes, c \in Channels : AlreadySent(n, c) => Reached(n, c)

Progress(d) ==
  \A n \in Subject(d) :
    /\ At(d, "accepted") => Reached(n, "email")
    /\ drain[d].step \in {"push", "pushing", "finish"} /\ ~drain[d].failed
         => "email" \notin prefs \/ Reached(n, "email")
    /\ drain[d].hit => Reached(n, "push")
    /\ At(d, "finish") /\ ~drain[d].failed /\ "noPush" \notin faults
         => "push" \notin prefs \/ Reached(n, "push") \/ n \in excused

DeliveryInv ==
  SentReached /\ ProcessedIsDelivered /\ \A d \in Drains : Progress(d)

\* Whoever sends has looked, and nobody else has succeeded since.
Sole ==
  {"slow", "overlap"} \cap faults = {} =>
    \A d \in Drains : \A n \in Subject(d) :
      /\ drain[d].step \in {"sending", "accepted"} => ~AlreadySent(n, "email")
      /\ At(d, "pushing") => ~AlreadySent(n, "push")

\* What was taken once is on record, or about to be.
Once ==
  faults \subseteq {"noPush"} =>
    \A n \in Notes :
      /\ emails[n] <= 1
      /\ emails[n] = 1 => \/ AlreadySent(n, "email")
                          \/ \E d \in Drains : n \in Subject(d) /\ At(d, "accepted")
      /\ \A dev \in Devices :
           /\ pushes[n][dev] <= 1
           /\ pushes[n][dev] = 1 =>
                \/ AlreadySent(n, "push")
                \/ \E d \in Drains : /\ n \in Subject(d) /\ At(d, "pushing")
                                     /\ drain[d].hit /\ dev \notin drain[d].todo

OutboxInv == HandsInv /\ Hold /\ Reminding /\ DeliveryInv /\ Sole /\ Once

-----------------------------------------------------------------------------
(* Shapes: what a step changes, field by field.                            *)

LEMMA IdleType ==
  /\ Idle \in Local /\ Idle.step = "idle" /\ Idle.batch = {} /\ Idle.row = {}
  /\ Idle.hit = FALSE /\ Idle.failed = FALSE
  BY DEF Idle, Local, Steps

\* One drain goes on, the others stand still.
LEMMA GotoType ==
  ASSUME TypeOK, NEW d \in Drains, NEW l \in Local, Goto(d, l)
  PROVE  /\ drain' \in [Drains -> Local] /\ drain'[d] = l
         /\ \A e \in Drains \ {d} : drain'[e] = drain[e]
  BY DEF Goto, TypeOK

LEMMA SubjectIs ==
  ASSUME NEW d \in Drains, NEW r \in Rows, drain[d].row = {r}
  PROVE  Subject(d) = {about[r]}
  BY DEF Subject

LEMMA NoSubject ==
  ASSUME NEW d \in Drains, drain[d].row = {}
  PROVE  Subject(d) = {}
  BY DEF Subject

\* A drain beyond its claim has a note in hand, and it is recorded.
LEMMA Loaded ==
  ASSUME HandsInv, NEW d \in Drains, drain[d].step \notin {"idle", "next"}
  PROVE  \E r \in drain[d].batch : /\ r \in Rows /\ drain[d].row = {r}
                                   /\ about[r] \in Notes /\ about[r] \in recorded
                                   /\ Subject(d) = {about[r]}
<1>1. PICK r \in drain[d].batch : drain[d].row = {r} /\ about[r] \in recorded
  BY DEF HandsInv, InHand
<1>2. r \in Rows
  BY DEF HandsInv, TypeOK, Local
<1>3. about[r] \in Notes
  BY DEF HandsInv, InHand
<1> QED BY <1>1, <1>2, <1>3, SubjectIs

\* What a drain holds is typed.
LEMMA HeldType ==
  ASSUME TypeOK, NEW d \in Drains
  PROVE  /\ drain[d] \in Local /\ drain[d].step \in Steps
         /\ drain[d].batch \subseteq Rows /\ drain[d].row \subseteq Rows
         /\ drain[d].sender \in BOOLEAN /\ drain[d].failed \in BOOLEAN
         /\ drain[d].hit \in BOOLEAN /\ drain[d].retry \in BOOLEAN
         /\ drain[d].todo \subseteq Devices
  BY DEF TypeOK, Local

\* Drain d goes to step s with the row it has in hand.
Moved(d, s) ==
  /\ drain' \in [Drains -> Local]
  /\ \A e \in Drains \ {d} : drain'[e] = drain[e]
  /\ drain'[d].step = s /\ drain'[d].batch = drain[d].batch
  /\ drain'[d].row = drain[d].row /\ drain'[d].sender = drain[d].sender

\* Drain d is through with a row, or has claimed or lost a batch: it has none
\* in hand.
Empties(d) ==
  /\ drain' \in [Drains -> Local]
  /\ \A e \in Drains \ {d} : drain'[e] = drain[e]
  /\ drain'[d].step \in {"idle", "next"} /\ drain'[d].row = {}
  /\ drain'[d].hit = FALSE
  /\ drain'[d].step = "idle" => drain'[d].batch = {}

LEMMA MovedSubject ==
  ASSUME NEW d \in Drains, NEW s, Moved(d, s), UNCHANGED about
  PROVE  \A e \in Drains : Subject(e)' = Subject(e)
  BY DEF Moved, Subject

LEMMA GotoStep ==
  ASSUME TypeOK, NEW d \in Drains, NEW s \in Steps,
         Goto(d, [drain[d] EXCEPT !.step = s])
  PROVE  /\ Moved(d, s) /\ drain'[d].failed = drain[d].failed
         /\ drain'[d].hit = drain[d].hit
<1> DEFINE l == [drain[d] EXCEPT !.step = s]
<1>1. drain[d] \in Local
  BY DEF TypeOK
<1>2. /\ l \in Local /\ l.step = s /\ l.batch = drain[d].batch /\ l.row = drain[d].row
      /\ l.sender = drain[d].sender /\ l.failed = drain[d].failed /\ l.hit = drain[d].hit
  BY <1>1 DEF Local
<1>3. Goto(d, l)
  OBVIOUS
<1> HIDE DEF l
<1> QED BY <1>2, <1>3, GotoType DEF Moved

LEMMA GotoOutcome ==
  ASSUME TypeOK, NEW d \in Drains, NEW s \in Steps, NEW b \in BOOLEAN,
         Goto(d, [drain[d] EXCEPT !.step = s, !.failed = b])
  PROVE  Moved(d, s) /\ drain'[d].failed = b /\ drain'[d].hit = drain[d].hit
<1> DEFINE l == [drain[d] EXCEPT !.step = s, !.failed = b]
<1>1. drain[d] \in Local
  BY DEF TypeOK
<1>2. /\ l \in Local /\ l.step = s /\ l.batch = drain[d].batch /\ l.row = drain[d].row
      /\ l.sender = drain[d].sender /\ l.failed = b /\ l.hit = drain[d].hit
  BY <1>1 DEF Local
<1>3. Goto(d, l)
  OBVIOUS
<1> HIDE DEF l
<1> QED BY <1>2, <1>3, GotoType DEF Moved

LEMMA AdvanceShape ==
  ASSUME TypeOK, NEW d \in Drains, Advance(d)
  PROVE  /\ Empties(d) /\ drain'[d].batch = drain[d].batch \ drain[d].row
         /\ At(d, "idle")' \/ drain'[d].sender = drain[d].sender
<1> DEFINE rest == drain[d].batch \ drain[d].row
           l == IF rest = {} THEN Idle
                ELSE [Idle EXCEPT !.step = "next", !.batch = rest,
                                  !.sender = drain[d].sender]
<1>1. rest \subseteq Rows /\ drain[d].sender \in BOOLEAN
  BY HeldType
<1>2. /\ l \in Local /\ l.step \in {"idle", "next"} /\ l.row = {} /\ l.batch = rest
      /\ l.hit = FALSE
      /\ l.step = "idle" => rest = {}
      /\ l.step = "idle" \/ l.sender = drain[d].sender
  <2>1. CASE rest = {}
    BY <2>1, IdleType
  <2>2. CASE rest # {}
    BY <2>2, <1>1 DEF Idle, Local, Steps
  <2> QED BY <2>1, <2>2
<1>3. Goto(d, l)
  BY DEF Advance
<1> HIDE DEF l
<1> QED BY <1>2, <1>3, GotoType DEF Empties, At

LEMMA ClaimShape ==
  ASSUME TypeOK, NEW d \in Drains, Claim(d)
  PROVE  /\ At(d, "idle") /\ Empties(d)
         /\ drain'[d].step = "next" /\ drain'[d].batch \subseteq Claimable
         /\ locked' = locked \cup drain'[d].batch
         /\ drain'[d].sender \/ "noPush" \in faults
         /\ attempts' \in [Rows -> 0..MaxAttempts]
         /\ UNCHANGED <<queue, processed, sent, person>>
<1>1. PICK S \in SUBSET Claimable, b \in BOOLEAN :
        /\ b \/ "noPush" \in faults
        /\ attempts' = [r \in Rows |-> attempts[r] + IF r \in S THEN 1 ELSE 0]
        /\ locked' = locked \cup S
        /\ Goto(d, [Idle EXCEPT !.step = "next", !.batch = S, !.sender = b])
  BY DEF Claim
<1> DEFINE l == [Idle EXCEPT !.step = "next", !.batch = S, !.sender = b]
<1>2. S \subseteq Rows
  BY DEF Claimable, Waiting
<1>3. l \in Local /\ l.step = "next" /\ l.batch = S /\ l.sender = b /\ l.row = {}
      /\ l.hit = FALSE
  BY <1>2 DEF Idle, Local, Steps
<1>4. Goto(d, l)
  BY <1>1
<1> HIDE DEF l
<1>5. Empties(d) /\ drain'[d] = l
  BY <1>3, <1>4, GotoType DEF Empties
<1>6. attempts' \in [Rows -> 0..MaxAttempts]
  <2>1. \A r \in Rows : attempts[r] \in 0..MaxAttempts
    BY DEF TypeOK
  <2>2. \A r \in S : attempts[r] < MaxAttempts
    BY DEF Claimable
  <2> QED BY <1>1, <2>1, <2>2, OutboxAssumption
<1> QED BY <1>1, <1>3, <1>5, <1>6 DEF Claim

-----------------------------------------------------------------------------
(* The work on one row.                                                    *)

\* Drain d has note n in hand.
Turn(d, n) == n \in Notes /\ n \in recorded /\ Subject(d) = {n}

LEMMA TurnOf ==
  ASSUME HandsInv, NEW d \in Drains, drain[d].step \notin {"idle", "next"}
  PROVE  \A n \in Subject(d) : Turn(d, n)
  BY Loaded DEF Turn

LEMMA SetDeliveryShape ==
  ASSUME TypeOK, NEW n \in Notes, NEW c \in Channels, NEW st \in Status,
         SetDelivery(n, c, st)
  PROVE  /\ delivery' \in [Notes -> [Channels -> Status]]
         /\ AlreadySent(n, c)' <=> st = "sent"
         /\ \A m \in Notes, k \in Channels :
              m # n \/ k # c => (AlreadySent(m, k)' <=> AlreadySent(m, k))
  BY DEF SetDelivery, TypeOK, AlreadySent

LEMMA OpenDeliveryShape ==
  ASSUME TypeOK, NEW n \in Notes, NEW c \in Channels, OpenDelivery(n, c)
  PROVE  /\ delivery' \in [Notes -> [Channels -> Status]]
         /\ \A m \in Notes, k \in Channels : AlreadySent(m, k)' <=> AlreadySent(m, k)
<1>1. CASE delivery[n][c] = "none"
  <2>1. SetDelivery(n, c, "pending") /\ ~AlreadySent(n, c)
    BY <1>1 DEF OpenDelivery, AlreadySent
  <2> QED BY <2>1, SetDeliveryShape DEF Status
<1>2. CASE delivery[n][c] # "none"
  BY <1>2 DEF OpenDelivery, TypeOK, AlreadySent
<1> QED BY <1>1, <1>2

LEMMA LoadShape ==
  ASSUME HandsInv, NEW d \in Drains, Load(d)
  PROVE  \E r \in drain[d].batch :
           /\ r \in Rows /\ about[r] \in Notes
           /\ drain' \in [Drains -> Local]
           /\ \A e \in Drains \ {d} : drain'[e] = drain[e]
           /\ drain'[d].step = "email" /\ drain'[d].batch = drain[d].batch
           /\ drain'[d].row = {r} /\ drain'[d].sender = drain[d].sender
           /\ drain'[d].hit = drain[d].hit
           /\ At(d, "next") /\ recorded' = recorded \cup {about[r]}
           /\ UNCHANGED <<rows, delivery, emails, pushes, excused, person>>
<1>1. PICK r \in drain[d].batch :
        /\ Goto(d, [drain[d] EXCEPT !.step = "email", !.row = {r}])
        /\ recorded' = recorded \cup {about[r]}
  BY DEF Load
<1> DEFINE l == [drain[d] EXCEPT !.step = "email", !.row = {r}]
<1>2. drain[d] \in Local /\ r \in Rows /\ about[r] \in Notes
  BY HeldType DEF HandsInv, InHand
<1>3. /\ l \in Local /\ l.step = "email" /\ l.batch = drain[d].batch /\ l.row = {r}
      /\ l.sender = drain[d].sender /\ l.hit = drain[d].hit
  BY <1>2 DEF Local, Steps
<1>4. Goto(d, l)
  BY <1>1
<1> HIDE DEF l
<1>5. /\ drain' \in [Drains -> Local] /\ drain'[d] = l
      /\ \A e \in Drains \ {d} : drain'[e] = drain[e]
  BY <1>3, <1>4, GotoType DEF HandsInv
<1> QED BY <1>1, <1>2, <1>3, <1>5 DEF Load

LEMMA StartEmailShape ==
  ASSUME HandsInv, NEW d \in Drains, StartEmail(d)
  PROVE  \E n \in Notes :
           /\ Turn(d, n) /\ At(d, "email")
           /\ \/ Moved(d, "sending") /\ ~AlreadySent(n, "email")
              \/ Moved(d, "push") /\ ("email" \notin prefs \/ AlreadySent(n, "email"))
           /\ drain'[d].failed = drain[d].failed /\ drain'[d].hit = drain[d].hit
           /\ delivery' \in [Notes -> [Channels -> Status]]
           /\ \A m \in Notes, k \in Channels : AlreadySent(m, k)' <=> AlreadySent(m, k)
           /\ UNCHANGED <<rows, recorded, emails, pushes, excused, person>>
<1>1. PICK n \in Subject(d) :
        IF Wanted(n, "email")
          THEN /\ OpenDelivery(n, "email")
               /\ Goto(d, [drain[d] EXCEPT !.step = "sending"])
          ELSE /\ Goto(d, [drain[d] EXCEPT !.step = "push"])
               /\ UNCHANGED delivery
  BY DEF StartEmail
<1>2. Turn(d, n) /\ n \in Notes /\ TypeOK /\ "email" \in Channels
  BY TurnOf DEF StartEmail, At, Turn, HandsInv, Channels
<1>3. delivery' \in [Notes -> [Channels -> Status]]
      /\ \A m \in Notes, k \in Channels : AlreadySent(m, k)' <=> AlreadySent(m, k)
  <2>1. CASE Wanted(n, "email")
    BY <1>1, <1>2, <2>1, OpenDeliveryShape
  <2>2. CASE ~Wanted(n, "email")
    BY <1>1, <1>2, <2>2 DEF TypeOK, AlreadySent
  <2> QED BY <2>1, <2>2
<1>4. /\ \/ Moved(d, "sending") /\ ~AlreadySent(n, "email")
         \/ Moved(d, "push") /\ ("email" \notin prefs \/ AlreadySent(n, "email"))
      /\ drain'[d].failed = drain[d].failed /\ drain'[d].hit = drain[d].hit
  <2>1. CASE Wanted(n, "email")
    BY <1>1, <1>2, <2>1, GotoStep DEF Wanted, Steps
  <2>2. CASE ~Wanted(n, "email")
    BY <1>1, <1>2, <2>2, GotoStep DEF Wanted, Steps
  <2> QED BY <2>1, <2>2
<1> QED BY <1>2, <1>3, <1>4 DEF StartEmail

LEMMA EmailAcceptedShape ==
  ASSUME HandsInv, NEW d \in Drains, EmailAccepted(d)
  PROVE  \E n \in Notes :
           /\ Turn(d, n) /\ At(d, "sending") /\ Moved(d, "accepted")
           /\ drain'[d].failed = drain[d].failed /\ drain'[d].hit = drain[d].hit
           /\ emails' = [emails EXCEPT ![n] = @ + 1]
           /\ UNCHANGED <<rows, recorded, delivery, pushes, excused, person>>
<1>1. PICK n \in Subject(d) : emails' = [emails EXCEPT ![n] = @ + 1]
  BY DEF EmailAccepted
<1>2. Turn(d, n) /\ n \in Notes /\ TypeOK
  BY TurnOf DEF EmailAccepted, At, Turn, HandsInv
<1>3. /\ Moved(d, "accepted")
      /\ drain'[d].failed = drain[d].failed /\ drain'[d].hit = drain[d].hit
  BY <1>2, GotoStep DEF EmailAccepted, Steps
<1> QED BY <1>1, <1>2, <1>3 DEF EmailAccepted

LEMMA EmailFailedShape ==
  ASSUME HandsInv, NEW d \in Drains, EmailFailed(d)
  PROVE  \E n \in Notes :
           /\ Turn(d, n) /\ At(d, "sending") /\ Moved(d, "push")
           /\ drain'[d].failed /\ drain'[d].hit = drain[d].hit
           /\ SetDelivery(n, "email", "failed")
           /\ \/ UNCHANGED emails
              \/ "lostReply" \in faults /\ emails' = [emails EXCEPT ![n] = @ + 1]
           /\ UNCHANGED <<rows, recorded, pushes, excused, person>>
<1>1. PICK n \in Subject(d) :
        /\ SetDelivery(n, "email", "failed")
        /\ \/ UNCHANGED emails
           \/ "lostReply" \in faults /\ emails' = [emails EXCEPT ![n] = @ + 1]
  BY DEF EmailFailed
<1>2. Turn(d, n) /\ n \in Notes /\ TypeOK
  BY TurnOf DEF EmailFailed, At, Turn, HandsInv
<1>3. Moved(d, "push") /\ drain'[d].failed /\ drain'[d].hit = drain[d].hit
  BY <1>2, GotoOutcome DEF EmailFailed, Steps
<1> QED BY <1>1, <1>2, <1>3 DEF EmailFailed

LEMMA EmailSentShape ==
  ASSUME HandsInv, NEW d \in Drains, EmailSent(d)
  PROVE  \E n \in Notes :
           /\ Turn(d, n) /\ At(d, "accepted") /\ Moved(d, "push")
           /\ drain'[d].failed = drain[d].failed /\ drain'[d].hit = drain[d].hit
           /\ SetDelivery(n, "email", "sent")
           /\ UNCHANGED <<rows, recorded, emails, pushes, excused, person>>
<1>1. PICK n \in Subject(d) : SetDelivery(n, "email", "sent")
  BY DEF EmailSent
<1>2. Turn(d, n) /\ n \in Notes /\ TypeOK
  BY TurnOf DEF EmailSent, At, Turn, HandsInv
<1>3. /\ Moved(d, "push")
      /\ drain'[d].failed = drain[d].failed /\ drain'[d].hit = drain[d].hit
  BY <1>2, GotoStep DEF EmailSent, Steps
<1> QED BY <1>1, <1>2, <1>3 DEF EmailSent

LEMMA EmailUnrecordedShape ==
  ASSUME HandsInv, NEW d \in Drains, EmailUnrecorded(d)
  PROVE  \E n \in Notes :
           /\ Turn(d, n) /\ At(d, "accepted") /\ Moved(d, "push")
           /\ drain'[d].failed /\ drain'[d].hit = drain[d].hit
           /\ "database" \in faults /\ SetDelivery(n, "email", "failed")
           /\ UNCHANGED <<rows, recorded, emails, pushes, excused, person>>
<1>1. PICK n \in Subject(d) : SetDelivery(n, "email", "failed")
  BY DEF EmailUnrecorded
<1>2. Turn(d, n) /\ n \in Notes /\ TypeOK
  BY TurnOf DEF EmailUnrecorded, At, Turn, HandsInv
<1>3. Moved(d, "push") /\ drain'[d].failed /\ drain'[d].hit = drain[d].hit
  BY <1>2, GotoOutcome DEF EmailUnrecorded, Steps
<1> QED BY <1>1, <1>2, <1>3 DEF EmailUnrecorded

LEMMA StartPushShape ==
  ASSUME HandsInv, NEW d \in Drains, StartPush(d)
  PROVE  \E n \in Notes :
           /\ Turn(d, n) /\ At(d, "push")
           /\ drain'[d].failed = drain[d].failed /\ drain'[d].hit = drain[d].hit
           /\ \/ /\ Moved(d, "pushing") /\ ~AlreadySent(n, "push")
                 /\ excused' = excused
              \/ /\ Moved(d, "finish") /\ excused \subseteq excused'
                 /\ \/ "noPush" \in faults \/ "push" \notin prefs
                    \/ AlreadySent(n, "push") \/ n \in excused'
           /\ excused' \subseteq Notes
           /\ delivery' \in [Notes -> [Channels -> Status]]
           /\ \A m \in Notes, k \in Channels : AlreadySent(m, k)' <=> AlreadySent(m, k)
           /\ UNCHANGED <<rows, recorded, emails, pushes, person>>
<1> DEFINE try(n) == drain[d].sender /\ Wanted(n, "push")
           l == [drain[d] EXCEPT !.step = "pushing", !.todo = live]
<1>1. PICK n \in Subject(d) :
        IF try(n) /\ live # {}
          THEN /\ OpenDelivery(n, "push") /\ Goto(d, l)
               /\ UNCHANGED excused
          ELSE /\ Goto(d, [drain[d] EXCEPT !.step = "finish"])
               /\ excused' = excused \cup IF try(n) THEN {n} ELSE {}
               /\ UNCHANGED delivery
  BY DEF StartPush
<1>2. Turn(d, n) /\ n \in Notes /\ TypeOK /\ "push" \in Channels /\ At(d, "push")
  BY TurnOf DEF StartPush, At, Turn, HandsInv, Channels
<1>3. UNCHANGED <<rows, recorded, emails, pushes, person>>
  BY DEF StartPush
<1>4. CASE try(n) /\ live # {}
  <2>1. drain[d] \in Local /\ live \subseteq Devices
    BY <1>2 DEF TypeOK
  <2>2. /\ l \in Local /\ l.step = "pushing" /\ l.batch = drain[d].batch
        /\ l.row = drain[d].row /\ l.sender = drain[d].sender
        /\ l.failed = drain[d].failed /\ l.hit = drain[d].hit
    BY <2>1 DEF Local, Steps
  <2>3. Goto(d, l) /\ OpenDelivery(n, "push") /\ excused' = excused
    BY <1>1, <1>4
  <2>4. ~AlreadySent(n, "push")
    BY <1>4 DEF Wanted
  <2> HIDE DEF l
  <2>5. Moved(d, "pushing") /\ drain'[d] = l
    BY <1>2, <2>2, <2>3, GotoType DEF Moved
  <2>6. /\ delivery' \in [Notes -> [Channels -> Status]]
        /\ \A m \in Notes, k \in Channels : AlreadySent(m, k)' <=> AlreadySent(m, k)
    BY <1>2, <2>3, OpenDeliveryShape
  <2>7. excused' \subseteq Notes
    BY <1>2, <2>3 DEF TypeOK
  <2> QED BY <1>2, <1>3, <2>2, <2>3, <2>4, <2>5, <2>6, <2>7
<1>5. CASE ~(try(n) /\ live # {})
  <2>1. /\ Goto(d, [drain[d] EXCEPT !.step = "finish"])
        /\ excused' = excused \cup IF try(n) THEN {n} ELSE {}
        /\ UNCHANGED delivery
    BY <1>1, <1>5
  <2>2. /\ Moved(d, "finish")
        /\ drain'[d].failed = drain[d].failed /\ drain'[d].hit = drain[d].hit
    BY <1>2, <2>1, GotoStep DEF Steps
  <2>3. "noPush" \in faults \/ drain[d].sender
    BY <1>2 DEF HandsInv, InHand, At
  <2>4. /\ excused \subseteq excused'
        /\ \/ "noPush" \in faults \/ "push" \notin prefs
           \/ AlreadySent(n, "push") \/ n \in excused'
    BY <2>1, <2>3 DEF Wanted
  <2>5. excused' \subseteq Notes
    BY <1>2, <2>1 DEF TypeOK
  <2>6. /\ delivery' \in [Notes -> [Channels -> Status]]
        /\ \A m \in Notes, k \in Channels : AlreadySent(m, k)' <=> AlreadySent(m, k)
    BY <1>2, <2>1 DEF TypeOK, AlreadySent
  <2> QED BY <1>2, <1>3, <2>2, <2>4, <2>5, <2>6
<1> QED BY <1>4, <1>5

LEMMA PushTakenShape ==
  ASSUME HandsInv, NEW d \in Drains, NEW dev \in Devices, PushTaken(d, dev)
  PROVE  \E n \in Notes :
           /\ Turn(d, n) /\ At(d, "pushing") /\ Moved(d, "pushing")
           /\ dev \in drain[d].todo /\ drain'[d].todo = drain[d].todo \ {dev}
           /\ drain'[d].failed = drain[d].failed /\ drain'[d].hit
           /\ pushes' = [pushes EXCEPT ![n][dev] = @ + 1]
           /\ UNCHANGED <<rows, recorded, delivery, emails, excused, person>>
<1> DEFINE l == [drain[d] EXCEPT !.todo = @ \ {dev}, !.hit = TRUE]
<1>1. PICK n \in Subject(d) : pushes' = [pushes EXCEPT ![n][dev] = @ + 1]
  BY DEF PushTaken
<1>2. Turn(d, n) /\ n \in Notes /\ TypeOK /\ At(d, "pushing") /\ dev \in drain[d].todo
  BY TurnOf DEF PushTaken, At, Turn, HandsInv
<1>3. drain[d] \in Local /\ Goto(d, l)
  BY <1>2 DEF TypeOK, PushTaken
<1>4. /\ l \in Local /\ l.step = "pushing" /\ l.batch = drain[d].batch
      /\ l.row = drain[d].row /\ l.sender = drain[d].sender
      /\ l.failed = drain[d].failed /\ l.hit /\ l.todo = drain[d].todo \ {dev}
  BY <1>2, <1>3 DEF Local, At
<1> HIDE DEF l
<1>5. Moved(d, "pushing") /\ drain'[d] = l
  BY <1>2, <1>3, <1>4, GotoType DEF Moved
<1> QED BY <1>1, <1>2, <1>4, <1>5 DEF PushTaken

\* Gone or failed: one device less to try.
LEMMA PushMissedShape ==
  ASSUME HandsInv, NEW d \in Drains, NEW dev \in Devices,
         PushGone(d, dev) \/ PushFailed(d, dev)
  PROVE  /\ \A n \in Subject(d) : Turn(d, n)
         /\ At(d, "pushing") /\ Moved(d, "pushing")
         /\ drain'[d].todo = drain[d].todo \ {dev}
         /\ drain'[d].failed = drain[d].failed /\ drain'[d].hit = drain[d].hit
         /\ live' \subseteq Devices /\ UNCHANGED <<rows, sent, given>>
<1> DEFINE l(b) == [drain[d] EXCEPT !.todo = @ \ {dev}, !.retry = b]
           k == [drain[d] EXCEPT !.todo = @ \ {dev}]
<1>1. TypeOK /\ At(d, "pushing") /\ drain[d] \in Local /\ UNCHANGED <<rows, sent, given>>
  BY DEF HandsInv, TypeOK, PushGone, PushFailed, person, sent
<1>2. \A n \in Subject(d) : Turn(d, n)
  BY <1>1, TurnOf DEF At
<1>3. live' \subseteq Devices
  BY <1>1 DEF TypeOK, PushGone, PushFailed, person
<1>4. PICK m \in Local :
        /\ Goto(d, m) /\ m.step = "pushing" /\ m.batch = drain[d].batch
        /\ m.row = drain[d].row /\ m.sender = drain[d].sender
        /\ m.failed = drain[d].failed /\ m.hit = drain[d].hit
        /\ m.todo = drain[d].todo \ {dev}
  <2>1. CASE PushGone(d, dev)
    <3>1. Goto(d, k)
      BY <2>1 DEF PushGone
    <3>2. /\ k \in Local /\ k.step = "pushing" /\ k.batch = drain[d].batch
          /\ k.row = drain[d].row /\ k.sender = drain[d].sender
          /\ k.failed = drain[d].failed /\ k.hit = drain[d].hit
          /\ k.todo = drain[d].todo \ {dev}
      BY <1>1 DEF Local, At
    <3> HIDE DEF k
    <3> QED BY <3>1, <3>2
  <2>2. CASE PushFailed(d, dev)
    <3>1. Goto(d, l(TRUE))
      BY <2>2 DEF PushFailed
    <3>2. /\ l(TRUE) \in Local /\ l(TRUE).step = "pushing"
          /\ l(TRUE).batch = drain[d].batch
          /\ l(TRUE).row = drain[d].row /\ l(TRUE).sender = drain[d].sender
          /\ l(TRUE).failed = drain[d].failed /\ l(TRUE).hit = drain[d].hit
          /\ l(TRUE).todo = drain[d].todo \ {dev}
      BY <1>1 DEF Local, At
    <3> HIDE DEF l
    <3> QED BY <3>1, <3>2
  <2> QED BY <2>1, <2>2
<1>5. Moved(d, "pushing") /\ drain'[d] = m
  BY <1>1, <1>4, GotoType DEF Moved
<1> QED BY <1>1, <1>2, <1>3, <1>4, <1>5

LEMMA FinishPushShape ==
  ASSUME HandsInv, NEW d \in Drains, FinishPush(d)
  PROVE  \E n \in Notes :
           /\ Turn(d, n) /\ At(d, "pushing") /\ Moved(d, "finish")
           /\ drain[d].todo = {} /\ drain'[d].hit = drain[d].hit
           /\ ~drain'[d].failed => ~drain[d].failed
           /\ excused \subseteq excused' /\ excused' \subseteq Notes
           /\ \/ drain[d].hit /\ SetDelivery(n, "push", "sent")
              \/ /\ ~drain[d].hit
                 /\ \E st \in Status \ {"sent"} : SetDelivery(n, "push", st)
                 /\ drain'[d].failed \/ n \in excused'
           /\ UNCHANGED <<rows, recorded, emails, pushes, person>>
<1> DEFINE b == drain[d].failed \/ (drain[d].retry /\ ~drain[d].hit)
<1>1. PICK n \in Subject(d) :
       /\ SetDelivery(n, "push", IF drain[d].hit THEN "sent"
                                 ELSE IF drain[d].retry THEN "failed"
                                 ELSE "abandoned")
       /\ excused' = excused \cup IF drain[d].hit \/ drain[d].retry THEN {} ELSE {n}
  BY DEF FinishPush
<1>2. Turn(d, n) /\ n \in Notes /\ TypeOK /\ At(d, "pushing") /\ drain[d].todo = {}
  BY TurnOf DEF FinishPush, At, Turn, HandsInv
<1>3. Goto(d, [drain[d] EXCEPT !.step = "finish", !.failed = b])
  BY <1>2 DEF FinishPush, TypeOK, Local
<1>4. b \in BOOLEAN
  OBVIOUS
<1> HIDE DEF b
<1>5. Moved(d, "finish") /\ drain'[d].failed = b /\ drain'[d].hit = drain[d].hit
  BY <1>2, <1>3, <1>4, GotoOutcome DEF Steps
<1>6. excused \subseteq excused' /\ excused' \subseteq Notes
  BY <1>1, <1>2 DEF TypeOK
<1>7. \/ drain[d].hit /\ SetDelivery(n, "push", "sent")
      \/ /\ ~drain[d].hit
         /\ \E st \in Status \ {"sent"} : SetDelivery(n, "push", st)
         /\ b \/ n \in excused'
  BY <1>1 DEF b, Status
<1>8. ~b => ~drain[d].failed
  BY DEF b
<1>9. UNCHANGED <<rows, recorded, emails, pushes, person>>
  BY DEF FinishPush
<1> QED BY <1>2, <1>5, <1>6, <1>7, <1>8, <1>9

-----------------------------------------------------------------------------
(* Settling, releasing, and what happens meanwhile.                        *)

\* What happens to no drain and to no note that has a row.
Still ==
  /\ \A r \in Rows : about[r] \in Notes => about'[r] = about[r]
  /\ UNCHANGED <<processed, sent, given, drain>>

LEMMA RowsOfFinite == \A n : RowsOf(n) \subseteq Rows /\ IsFiniteSet(RowsOf(n))
  BY OutboxAssumption, FS_Subset DEF RowsOf

\* One row, or none: no two that differ.
LEMMA AtMostOne ==
  ASSUME NEW S, IsFiniteSet(S), Cardinality(S) <= 1
  PROVE  \A x, y \in S : x = y
<1> SUFFICES ASSUME NEW x \in S, NEW y \in S, x # y PROVE FALSE
  OBVIOUS
<1>1. Cardinality({x, y}) = 2
  <2>1. IsFiniteSet({x}) /\ Cardinality({x}) = 1
    BY FS_Singleton
  <2>2. y \notin {x} /\ {x, y} = {x} \cup {y}
    OBVIOUS
  <2> QED BY <2>1, <2>2, FS_AddElement
<1>2. Cardinality({x, y}) <= Cardinality(S)
  BY FS_Subset
<1>3. Cardinality(S) \in Nat
  BY FS_CardinalityType
<1> QED BY <1>1, <1>2, <1>3

LEMMA QueueShape ==
  ASSUME TypeOK, NEW i \in Instances, QueueReminders(i)
  PROVE  /\ Still /\ about' \in [Rows -> Notes \cup {NoNote}]
         /\ seen' = [seen EXCEPT ![i] = {}] /\ seen[i] # {}
         /\ \A r \in Rows : about[r] = about'[r] \/ (about[r] = NoNote /\ about'[r] \in seen[i])
         /\ \A r, s \in Rows : /\ about[r] = NoNote /\ about[s] = NoNote
                               /\ about'[r] \in Notes /\ about'[s] = about'[r]
                               => r = s
         /\ UNCHANGED <<due, claims, live>>
<1> DEFINE New(n) == {r \in RowsOf(NoNote) : about'[r] = n}
<1>1. /\ about' \in [Rows -> Notes \cup {NoNote}]
      /\ \A r \in Rows \ RowsOf(NoNote) : about'[r] = about[r]
      /\ \A n \in Notes : Cardinality(New(n)) = IF n \in seen[i] THEN 1 ELSE 0
      /\ seen' = [seen EXCEPT ![i] = {}] /\ seen[i] # {}
      /\ UNCHANGED <<due, claims, sent, person, drain>>
  BY DEF QueueReminders
<1>2. \A n : New(n) \subseteq Rows /\ IsFiniteSet(New(n))
  BY RowsOfFinite, FS_Subset DEF RowsOf
<1>3. \A r \in Rows : r \in RowsOf(NoNote) <=> about[r] = NoNote
  BY DEF RowsOf
<1>4. \A n \in Notes : Cardinality(New(n)) <= 1
  BY <1>1
<1>5. \A n \in Notes : n \notin seen[i] => New(n) = {}
  BY <1>1, <1>2, FS_EmptySet
<1>6. \A r \in Rows : about[r] = about'[r] \/ (about[r] = NoNote /\ about'[r] \in seen[i])
  <2> SUFFICES ASSUME NEW r \in Rows, about[r] # about'[r]
               PROVE  about[r] = NoNote /\ about'[r] \in seen[i]
    OBVIOUS
  <2>1. about[r] = NoNote /\ r \in RowsOf(NoNote)
    BY <1>1, <1>3
  <2>2. about'[r] \in Notes
    BY <1>1, <2>1
  <2>3. r \in New(about'[r])
    BY <2>1
  <2> QED BY <1>5, <2>1, <2>2, <2>3
<1>7. ASSUME NEW r \in Rows, NEW s \in Rows, about[r] = NoNote, about[s] = NoNote,
             about'[r] \in Notes, about'[s] = about'[r]
      PROVE  r = s
  <2>1. r \in New(about'[r]) /\ s \in New(about'[r])
    BY <1>3, <1>7
  <2> HIDE DEF New
  <2>2. IsFiniteSet(New(about'[r])) /\ Cardinality(New(about'[r])) <= 1
    BY <1>2, <1>4, <1>7
  <2> QED BY <2>1, <2>2, AtMostOne
<1>8. Still
  <2>1. \A r \in Rows : about[r] \in Notes => about'[r] = about[r]
    BY <1>1, <1>3, OutboxAssumption
  <2> QED BY <1>1, <2>1 DEF Still, claims, person
<1> HIDE DEF New
<1> QED BY <1>1, <1>6, <1>7, <1>8 DEF person

\* Reminders that look or are dropped, locks that expire, devices that come
\* and go.
LEMMA StillShape ==
  ASSUME TypeOK,
         \/ Reclaim
         \/ \E i \in Instances : Look(i) \/ QueueReminders(i)
         \/ \E n \in Notes : NoLongerDue(n)
         \/ \E dev \in Devices : Subscribe(dev) \/ Unsubscribe(dev)
  PROVE  Still /\ TypeOK'
<1>1. CASE Reclaim
  <2>1. UNCHANGED <<queue, attempts, processed, sent, person, drain>>
        /\ locked' \subseteq locked
    BY <1>1 DEF Reclaim
  <2> QED BY <2>1 DEF Still, TypeOK, queue, sent, person, given
<1>2. ASSUME NEW i \in Instances, Look(i)
      PROVE  Still /\ TypeOK'
  <2>1. /\ UNCHANGED <<about, due, claims, sent, person, drain>>
        /\ seen' = [seen EXCEPT ![i] = ToRemind]
    BY <1>2 DEF Look
  <2>2. ToRemind \subseteq Notes
    BY DEF ToRemind, TypeOK
  <2> QED BY <2>1, <2>2 DEF Still, TypeOK, claims, sent, person, given
<1>3. ASSUME NEW i \in Instances, QueueReminders(i)
      PROVE  Still /\ TypeOK'
  <2>1. /\ Still /\ about' \in [Rows -> Notes \cup {NoNote}]
        /\ seen' = [seen EXCEPT ![i] = {}]
        /\ UNCHANGED <<due, claims, live>>
    BY <1>3, QueueShape
  <2> QED BY <2>1 DEF Still, TypeOK, claims, sent, given
<1>4. ASSUME NEW n \in Notes, NoLongerDue(n)
      PROVE  Still /\ TypeOK'
  <2>1. UNCHANGED <<about, seen, claims, sent, person, drain>> /\ due' \subseteq due
    BY <1>4 DEF NoLongerDue
  <2> QED BY <2>1 DEF Still, TypeOK, claims, sent, person, given
<1>5. ASSUME NEW dev \in Devices, Subscribe(dev) \/ Unsubscribe(dev)
      PROVE  Still /\ TypeOK'
  <2>1. UNCHANGED <<rows, sent, given, drain>> /\ live' \subseteq live \cup {dev}
    BY <1>5 DEF Subscribe, Unsubscribe
  <2> QED BY <2>1 DEF Still, TypeOK, rows, queue, claims, sent, given
<1> QED BY <1>1, <1>2, <1>3, <1>4, <1>5

\* A drain is through with its row.
LEMMA SettleShape ==
  ASSUME HandsInv, NEW d \in Drains, Settle(d)
  PROVE  \E r \in drain[d].batch :
           /\ r \in Rows /\ drain[d].row = {r} /\ Turn(d, about[r])
           /\ At(d, "finish") /\ ~drain[d].failed
           /\ Empties(d) /\ drain'[d].batch = drain[d].batch \ {r}
           /\ At(d, "idle")' \/ drain'[d].sender = drain[d].sender
           /\ processed' = processed \cup {r} /\ locked' = locked \ {r}
           /\ UNCHANGED <<queue, attempts, sent, person>>
<1>1. PICK r \in drain[d].batch :
        /\ r \in Rows /\ drain[d].row = {r}
        /\ about[r] \in Notes /\ about[r] \in recorded /\ Subject(d) = {about[r]}
  BY Loaded DEF Settle, At
<1>2. TypeOK /\ Advance(d)
  BY DEF Settle, HandsInv
<1>3. /\ Empties(d) /\ drain'[d].batch = drain[d].batch \ drain[d].row
      /\ At(d, "idle")' \/ drain'[d].sender = drain[d].sender
  BY <1>2, AdvanceShape
<1> QED BY <1>1, <1>3 DEF Settle, Settles, Turn

LEMMA ReleaseShape ==
  ASSUME HandsInv, NEW d \in Drains, ReleaseForRetry(d) \/ Interrupted(d)
  PROVE  /\ drain[d].step \notin {"idle", "next"}
         /\ At(d, "finish") \/ "database" \in faults
         /\ Empties(d) /\ drain'[d].batch = drain[d].batch \ drain[d].row
         /\ At(d, "idle")' \/ drain'[d].sender = drain[d].sender
         /\ locked' = locked \ drain[d].row
         /\ UNCHANGED <<queue, attempts, processed, sent, person>>
<1>1. /\ drain[d].step \notin {"idle", "next"}
      /\ At(d, "finish") \/ "database" \in faults
      /\ Release(d)
  BY DEF ReleaseForRetry, Interrupted, At
<1>2. TypeOK /\ Advance(d)
  BY <1>1 DEF Release, HandsInv
<1>3. /\ Empties(d) /\ drain'[d].batch = drain[d].batch \ drain[d].row
      /\ At(d, "idle")' \/ drain'[d].sender = drain[d].sender
  BY <1>2, AdvanceShape
<1> QED BY <1>1, <1>3 DEF Release

LEMMA CrashShape ==
  ASSUME TypeOK, NEW d \in Drains, Crash(d)
  PROVE  /\ "crash" \in faults /\ Empties(d)
         /\ At(d, "idle")' /\ drain'[d].batch = {}
         /\ UNCHANGED <<rows, sent, person>>
<1>1. drain'[d] = Idle /\ drain' \in [Drains -> Local]
      /\ \A e \in Drains \ {d} : drain'[e] = drain[e]
  BY IdleType, GotoType DEF Crash
<1> QED BY <1>1, IdleType DEF Crash, Empties, At

-----------------------------------------------------------------------------
(* What is in hand.                                                        *)

LEMMA InitHands == Init => HandsInv
<1> SUFFICES ASSUME Init PROVE HandsInv
  OBVIOUS
<1>1. \A d \in Drains : drain[d] = Idle
  BY DEF Init
<1>2. TypeOK
  <2>1. drain \in [Drains -> Local]
    BY IdleType DEF Init
  <2>2. attempts \in [Rows -> 0..MaxAttempts]
    BY OutboxAssumption DEF Init
  <2>3. emails \in [Notes -> Nat] /\ pushes \in [Notes -> [Devices -> Nat]]
    BY DEF Init
  <2>4. delivery \in [Notes -> [Channels -> Status]]
    BY DEF Init, Status
  <2> QED BY <2>1, <2>2, <2>3, <2>4 DEF Init, TypeOK
<1>3. \A d \in Drains : InHand(d)
  BY <1>1, IdleType DEF InHand, At
<1>4. Filed
  BY DEF Init, Filed
<1> QED BY <1>2, <1>3, <1>4 DEF HandsInv

\* Nobody forgets what was recorded, so only the drain that moves can lose its
\* hold of its row.
LEMMA DrainHands ==
  ASSUME HandsInv, TypeOK', NEW d \in Drains,
         \A e \in Drains \ {d} : drain'[e] = drain[e],
         UNCHANGED <<about, faults>>, recorded \subseteq recorded',
         \A r \in processed' \ processed : about[r] \in recorded,
         InHand(d)'
  PROVE  HandsInv'
<1>1. Filed'
  BY DEF HandsInv, Filed
<1>2. ASSUME NEW e \in Drains, e # d
      PROVE  InHand(e)'
  BY <1>2 DEF HandsInv, InHand, At
<1> QED BY <1>1, <1>2 DEF HandsInv

LEMMA MovedHands ==
  ASSUME HandsInv, TypeOK', NEW d \in Drains, NEW s, Moved(d, s),
         drain[d].step \notin {"idle", "next"}, s \notin {"idle", "next"},
         drain'[d].hit => s \in {"pushing", "finish"},
         UNCHANGED <<about, faults, processed>>, recorded' = recorded
  PROVE  HandsInv'
<1>1. InHand(d)'
  BY DEF HandsInv, InHand, Moved, At
<1> QED BY <1>1, DrainHands DEF Moved

LEMMA EmptiesHands ==
  ASSUME HandsInv, TypeOK', NEW d \in Drains, Empties(d),
         drain'[d].batch \subseteq {r \in Rows : about[r] \in Notes},
         At(d, "idle")' \/ drain'[d].sender \/ "noPush" \in faults,
         UNCHANGED <<about, faults>>, recorded' = recorded,
         \A r \in processed' \ processed : about[r] \in recorded
  PROVE  HandsInv'
<1>1. InHand(d)'
  BY DEF InHand, Empties, At
<1> QED BY <1>1, DrainHands DEF Empties

LEMMA StillHands ==
  ASSUME HandsInv, Still, TypeOK'
  PROVE  HandsInv'
<1>1. Filed'
  <2>1. \A r \in processed : r \in Rows /\ about[r] \in Notes /\ about[r] \in recorded
    BY DEF HandsInv, Filed, TypeOK
  <2> QED BY <2>1 DEF Still, Filed, sent
<1>2. ASSUME NEW d \in Drains PROVE InHand(d)'
  <2>1. InHand(d) /\ drain' = drain /\ faults' = faults /\ recorded' = recorded
    BY DEF HandsInv, Still, sent, given
  <2>2. \A r \in drain[d].batch : about[r] \in Notes /\ about'[r] = about[r]
    BY <2>1, HeldType DEF HandsInv, InHand, Still
  <2> QED BY <2>1, <2>2 DEF InHand, At
<1> QED BY <1>1, <1>2 DEF HandsInv

LEMMA ClaimHands ==
  ASSUME HandsInv, NEW d \in Drains, Claim(d)
  PROVE  HandsInv'
<1>1. /\ At(d, "idle") /\ Empties(d)
      /\ drain'[d].batch \subseteq Claimable
      /\ locked' = locked \cup drain'[d].batch
      /\ drain'[d].sender \/ "noPush" \in faults
      /\ attempts' \in [Rows -> 0..MaxAttempts]
      /\ UNCHANGED <<queue, processed, sent, person>>
  BY ClaimShape DEF HandsInv
<1>2. Claimable \subseteq {r \in Rows : about[r] \in Notes}
  BY DEF HandsInv, TypeOK, Claimable, Waiting, RowsOf
<1>3. TypeOK'
  BY <1>1, <1>2 DEF HandsInv, TypeOK, Empties, queue, sent, person, given
<1> QED BY <1>1, <1>2, <1>3, EmptiesHands DEF queue, person, given, sent

LEMMA LoadHands ==
  ASSUME HandsInv, NEW d \in Drains, Load(d)
  PROVE  HandsInv'
<1>1. PICK r \in drain[d].batch :
           /\ r \in Rows /\ about[r] \in Notes
           /\ drain' \in [Drains -> Local]
           /\ \A e \in Drains \ {d} : drain'[e] = drain[e]
           /\ drain'[d].step = "email" /\ drain'[d].batch = drain[d].batch
           /\ drain'[d].row = {r} /\ drain'[d].sender = drain[d].sender
           /\ drain'[d].hit = drain[d].hit
           /\ At(d, "next") /\ recorded' = recorded \cup {about[r]}
           /\ UNCHANGED <<rows, delivery, emails, pushes, excused, person>>
  BY LoadShape
<1>2. TypeOK'
  BY <1>1 DEF HandsInv, TypeOK, rows, queue, claims, person, given
<1>3. InHand(d)'
  <2>1. InHand(d)
    BY DEF HandsInv
  <2> QED BY <1>1, <2>1 DEF InHand, At, rows, queue, person, given
<1> QED BY <1>1, <1>2, <1>3, DrainHands DEF rows, queue, claims, person, given

LEMMA StartEmailHands ==
  ASSUME HandsInv, NEW d \in Drains, StartEmail(d)
  PROVE  HandsInv'
<1>1. PICK n \in Notes :
           /\ At(d, "email")
           /\ Moved(d, "sending") \/ Moved(d, "push")
           /\ drain'[d].hit = drain[d].hit
           /\ delivery' \in [Notes -> [Channels -> Status]]
           /\ UNCHANGED <<rows, recorded, emails, pushes, excused, person>>
  BY StartEmailShape
<1>2. TypeOK'
  BY <1>1 DEF HandsInv, TypeOK, rows, queue, claims, person, given, Moved
<1>3. ~drain[d].hit
  BY <1>1 DEF HandsInv, InHand, At
<1> QED BY <1>1, <1>2, <1>3, MovedHands DEF rows, queue, claims, person, given, At

LEMMA MailHands ==
  ASSUME HandsInv, NEW d \in Drains,
         EmailAccepted(d) \/ EmailFailed(d) \/ EmailSent(d) \/ EmailUnrecorded(d)
  PROVE  HandsInv'
<1>1. PICK n \in Notes :
           /\ At(d, "sending") \/ At(d, "accepted")
           /\ Moved(d, "accepted") \/ Moved(d, "push")
           /\ drain'[d].hit = drain[d].hit
           /\ UNCHANGED emails \/ emails' = [emails EXCEPT ![n] = @ + 1]
           /\ UNCHANGED delivery \/ SetDelivery(n, "email", "failed")
              \/ SetDelivery(n, "email", "sent")
           /\ UNCHANGED <<rows, recorded, pushes, excused, person>>
  BY EmailAcceptedShape, EmailFailedShape, EmailSentShape, EmailUnrecordedShape
<1>2. TypeOK'
  <2>1. delivery' \in [Notes -> [Channels -> Status]]
    BY <1>1, SetDeliveryShape DEF HandsInv, TypeOK, Channels, Status
  <2>2. emails' \in [Notes -> Nat]
    <3>1. emails \in [Notes -> Nat] /\ emails[n] + 1 \in Nat
      BY DEF HandsInv, TypeOK
    <3> QED BY <1>1, <3>1
  <2> QED BY <1>1, <2>1, <2>2 DEF HandsInv, TypeOK, rows, queue, claims, person, given, Moved
<1>3. ~drain[d].hit
  BY <1>1 DEF HandsInv, InHand, At
<1> QED BY <1>1, <1>2, <1>3, MovedHands DEF rows, queue, claims, person, given, At

LEMMA PushHands ==
  ASSUME HandsInv, NEW d \in Drains, StartPush(d) \/ FinishPush(d)
  PROVE  HandsInv'
<1>1. PICK n \in Notes :
           /\ At(d, "push") \/ At(d, "pushing")
           /\ Moved(d, "pushing") \/ Moved(d, "finish")
           /\ excused' \subseteq Notes
           /\ delivery' \in [Notes -> [Channels -> Status]]
           /\ UNCHANGED <<rows, recorded, emails, pushes, person>>
  <2>1. CASE StartPush(d)
    BY <2>1, StartPushShape
  <2>2. CASE FinishPush(d)
    BY <2>2, FinishPushShape, SetDeliveryShape DEF HandsInv, Channels, Status
  <2> QED BY <2>1, <2>2
<1>2. TypeOK'
  BY <1>1 DEF HandsInv, TypeOK, rows, queue, claims, person, given, Moved
<1> QED BY <1>1, <1>2, MovedHands DEF rows, queue, claims, person, given, At

LEMMA DeviceHands ==
  ASSUME HandsInv, NEW d \in Drains, NEW dev \in Devices,
         PushTaken(d, dev) \/ PushGone(d, dev) \/ PushFailed(d, dev)
  PROVE  HandsInv'
<1>1. /\ At(d, "pushing") /\ Moved(d, "pushing")
      /\ pushes' \in [Notes -> [Devices -> Nat]] /\ live' \subseteq Devices
      /\ UNCHANGED <<rows, recorded, delivery, emails, excused, given>>
  <2>1. CASE PushTaken(d, dev)
    <3>1. PICK n \in Notes :
            /\ At(d, "pushing") /\ Moved(d, "pushing")
            /\ pushes' = [pushes EXCEPT ![n][dev] = @ + 1]
            /\ UNCHANGED <<rows, recorded, delivery, emails, excused, person>>
      BY <2>1, PushTakenShape
    <3>2. pushes \in [Notes -> [Devices -> Nat]] /\ pushes[n][dev] + 1 \in Nat
      BY DEF HandsInv, TypeOK
    <3>3. pushes' \in [Notes -> [Devices -> Nat]]
      BY <3>1, <3>2
    <3> QED BY <3>1, <3>3 DEF HandsInv, TypeOK, person
  <2>2. CASE PushGone(d, dev) \/ PushFailed(d, dev)
    BY <2>2, PushMissedShape DEF HandsInv, TypeOK, sent
  <2> QED BY <2>1, <2>2
<1>2. TypeOK'
  BY <1>1 DEF HandsInv, TypeOK, rows, queue, claims, given, Moved
<1> QED BY <1>1, <1>2, MovedHands DEF rows, queue, claims, given, At

LEMMA LeaveHands ==
  ASSUME HandsInv, NEW d \in Drains,
         Settle(d) \/ ReleaseForRetry(d) \/ Interrupted(d) \/ Crash(d)
  PROVE  HandsInv'
<1>1. /\ Empties(d) /\ drain'[d].batch \subseteq drain[d].batch
      /\ At(d, "idle")' \/ (drain'[d].sender = drain[d].sender /\ ~At(d, "idle"))
      /\ UNCHANGED <<queue, attempts, sent, person>>
      /\ locked' \subseteq locked
      /\ processed' \subseteq Rows /\ \A r \in processed' \ processed : about[r] \in recorded
  <2>1. CASE Settle(d)
    BY <2>1, SettleShape DEF HandsInv, TypeOK, Turn, At
  <2>2. CASE ReleaseForRetry(d) \/ Interrupted(d)
    BY <2>2, ReleaseShape DEF HandsInv, TypeOK, At
  <2>3. CASE Crash(d)
    BY <2>3, CrashShape DEF HandsInv, TypeOK, rows, claims
  <2> QED BY <2>1, <2>2, <2>3
<1>2. TypeOK'
  BY <1>1 DEF HandsInv, TypeOK, Empties, queue, sent, person, given
<1>3. /\ drain'[d].batch \subseteq {r \in Rows : about[r] \in Notes}
      /\ At(d, "idle")' \/ drain'[d].sender \/ "noPush" \in faults
  BY <1>1, HeldType DEF HandsInv, InHand
<1> QED BY <1>1, <1>2, <1>3, EmptiesHands DEF queue, person, given, sent

LEMMA NextHands ==
  ASSUME HandsInv, [Next]_vars
  PROVE  HandsInv'
<1>1. CASE UNCHANGED vars
  BY <1>1 DEF HandsInv, TypeOK, Filed, InHand, At, vars, rows, queue, claims, sent,
              person, given
<1>2. CASE \/ Reclaim
           \/ \E i \in Instances : Look(i) \/ QueueReminders(i)
           \/ \E n \in Notes : NoLongerDue(n)
           \/ \E dev \in Devices : Subscribe(dev) \/ Unsubscribe(dev)
  BY <1>2, StillShape, StillHands DEF HandsInv
<1>3. CASE \E d \in Drains : Claim(d) \/ Work(d) \/ Crash(d)
  BY <1>3, ClaimHands, LoadHands, StartEmailHands, MailHands, PushHands, DeviceHands,
     LeaveHands DEF Work
<1> QED BY <1>1, <1>2, <1>3 DEF Next

-----------------------------------------------------------------------------
(* In one drain's hands.                                                   *)

\* The work on a row moves no batch.
LEMMA WorkBatch ==
  ASSUME HandsInv, NEW d \in Drains, Work(d)
  PROVE  /\ \A e \in Drains \ {d} : drain'[e].batch = drain[e].batch
         /\ \/ drain'[d].batch = drain[d].batch /\ locked' = locked
            \/ /\ drain'[d].batch = drain[d].batch \ drain[d].row
               /\ locked' = locked \ drain[d].row
               /\ drain[d].row \subseteq drain[d].batch
         /\ UNCHANGED <<queue, given>>
<1>1. CASE Load(d)
  BY <1>1, LoadShape DEF rows, claims, person
<1>2. CASE StartEmail(d) \/ EmailAccepted(d) \/ EmailFailed(d) \/ EmailSent(d)
             \/ EmailUnrecorded(d)
  <2>1. /\ Moved(d, "sending") \/ Moved(d, "accepted") \/ Moved(d, "push")
        /\ UNCHANGED <<rows, person>>
    BY <1>2, StartEmailShape, EmailAcceptedShape, EmailFailedShape, EmailSentShape,
       EmailUnrecordedShape
  <2> QED BY <2>1 DEF Moved, rows, claims, person
<1>3. CASE StartPush(d) \/ FinishPush(d)
  <2>1. /\ Moved(d, "pushing") \/ Moved(d, "finish")
        /\ UNCHANGED <<rows, person>>
    BY <1>3, StartPushShape, FinishPushShape
  <2> QED BY <2>1 DEF Moved, rows, claims, person
<1>4. ASSUME NEW dev \in Devices, PushTaken(d, dev) \/ PushGone(d, dev) \/ PushFailed(d, dev)
      PROVE  Moved(d, "pushing") /\ UNCHANGED <<rows, given>>
  BY <1>4, PushTakenShape, PushMissedShape DEF person
<1>5. CASE \E dev \in Devices : PushTaken(d, dev) \/ PushGone(d, dev) \/ PushFailed(d, dev)
  BY <1>4, <1>5 DEF Moved, rows, claims
<1>6. CASE Settle(d)
  <2>1. PICK r \in drain[d].batch :
           /\ drain[d].row = {r} /\ Empties(d)
           /\ drain'[d].batch = drain[d].batch \ {r} /\ locked' = locked \ {r}
           /\ UNCHANGED <<queue, person>>
    BY <1>6, SettleShape
  <2> QED BY <2>1 DEF Empties, person
<1>7. CASE ReleaseForRetry(d) \/ Interrupted(d)
  <2>1. /\ drain[d].step \notin {"idle", "next"} /\ Empties(d)
        /\ drain'[d].batch = drain[d].batch \ drain[d].row
        /\ locked' = locked \ drain[d].row /\ UNCHANGED <<queue, person>>
    BY <1>7, ReleaseShape
  <2>2. drain[d].row \subseteq drain[d].batch
    BY <2>1, Loaded
  <2> QED BY <2>1, <2>2 DEF Empties, person
<1> QED BY <1>1, <1>2, <1>3, <1>5, <1>6, <1>7 DEF Work

LEMMA NextHold ==
  ASSUME HandsInv, Hold, [Next]_vars
  PROVE  Hold'
<1> SUFFICES ASSUME "slow" \notin faults,
                    \A d \in Drains : drain[d].batch \subseteq locked,
                    \A d, e \in Drains : d # e => drain[d].batch \cap drain[e].batch = {}
             PROVE  Hold'
  <2>1. faults' = faults
    BY NextHands, WorkBatch, ClaimShape, CrashShape, StillShape
       DEF HandsInv, Next, vars, person, given, Still
  <2> QED BY <2>1 DEF Hold
<1>1. CASE UNCHANGED vars
  BY <1>1 DEF Hold, vars, rows, claims
<1>2. CASE Reclaim
  <2>1. PICK S \in SUBSET Expired : locked' = locked \ S
    BY <1>2 DEF Reclaim
  <2>2. \A d \in Drains : drain[d].batch \cap S = {}
    BY DEF Expired, Held
  <2> QED BY <1>2, <2>1, <2>2 DEF Hold, Reclaim
<1>3. CASE \/ \E i \in Instances : Look(i) \/ QueueReminders(i)
           \/ \E n \in Notes : NoLongerDue(n)
           \/ \E dev \in Devices : Subscribe(dev) \/ Unsubscribe(dev)
  <2>1. UNCHANGED <<locked, drain>>
    BY <1>3 DEF Look, QueueReminders, NoLongerDue, Subscribe, Unsubscribe, rows, claims
  <2> QED BY <2>1 DEF Hold
<1>4. ASSUME NEW d \in Drains, Claim(d)
      PROVE  Hold'
  <2>1. /\ Empties(d) /\ drain'[d].batch \subseteq Claimable
        /\ locked' = locked \cup drain'[d].batch
    BY <1>4, ClaimShape DEF HandsInv
  <2>2. Claimable \cap locked = {}
    BY DEF Claimable
  <2>3. \A e \in Drains \ {d} : drain'[e].batch = drain[e].batch
    BY <2>1 DEF Empties
  <2> QED BY <2>1, <2>2, <2>3 DEF Hold
<1>5. ASSUME NEW d \in Drains, Crash(d)
      PROVE  Hold'
  <2>1. Empties(d) /\ drain'[d].batch = {} /\ locked' = locked
    BY <1>5, CrashShape DEF HandsInv, rows, claims
  <2>2. \A e \in Drains \ {d} : drain'[e].batch = drain[e].batch
    BY <2>1 DEF Empties
  <2> QED BY <2>1, <2>2 DEF Hold
<1>6. ASSUME NEW d \in Drains, Work(d)
      PROVE  Hold'
  <2>1. /\ \A e \in Drains \ {d} : drain'[e].batch = drain[e].batch
        /\ \/ drain'[d].batch = drain[d].batch /\ locked' = locked
           \/ /\ drain'[d].batch = drain[d].batch \ drain[d].row
              /\ locked' = locked \ drain[d].row
              /\ drain[d].row \subseteq drain[d].batch
    BY <1>6, WorkBatch
  <2>2. CASE drain'[d].batch = drain[d].batch /\ locked' = locked
    BY <2>1, <2>2 DEF Hold
  <2>3. CASE /\ drain'[d].batch = drain[d].batch \ drain[d].row
             /\ locked' = locked \ drain[d].row
             /\ drain[d].row \subseteq drain[d].batch
    BY <2>1, <2>3 DEF Hold
  <2> QED BY <2>1, <2>2, <2>3
<1> QED BY <1>1, <1>2, <1>3, <1>4, <1>5, <1>6 DEF Next

-----------------------------------------------------------------------------
(* Reminders.                                                              *)

LEMMA NextReminding ==
  ASSUME HandsInv, Reminding, [Next]_vars
  PROVE  Reminding'
<1>1. CASE UNCHANGED <<about, seen, faults>>
  BY <1>1 DEF Reminding, OneRowPerNote
<1>2. CASE Next /\ ~UNCHANGED <<about, seen, faults>>
  <2>1. \E i \in Instances : Look(i) \/ QueueReminders(i)
    <3>1. CASE \E d \in Drains : Claim(d) \/ Work(d) \/ Crash(d)
      BY <1>2, <3>1, ClaimShape, WorkBatch, CrashShape
         DEF HandsInv, queue, person, given, rows
    <3>2. CASE Reclaim \/ (\E n \in Notes : NoLongerDue(n))
                \/ (\E dev \in Devices : Subscribe(dev) \/ Unsubscribe(dev))
      BY <1>2, <3>2
         DEF Reclaim, NoLongerDue, Subscribe, Unsubscribe, rows, queue, person, given
    <3> QED BY <1>2, <3>1, <3>2 DEF Next
  <2>2. PICK i \in Instances : Look(i) \/ QueueReminders(i)
    BY <2>1
  <2>3. faults' = faults
    BY <2>2 DEF Look, QueueReminders, person, given
  <2> SUFFICES ASSUME "overlap" \notin faults, OneRowPerNote,
                      \A j, k \in Instances : seen[j] # {} /\ seen[k] # {} => j = k,
                      \A j \in Instances : \A n \in seen[j] : \A r \in Rows : about[r] # n
               PROVE  Reminding'
    BY <2>3 DEF Reminding
  <2>4. CASE Look(i)
    <3>1. /\ \A j \in Instances : seen[j] = {}
          /\ seen' = [seen EXCEPT ![i] = ToRemind] /\ about' = about
      BY <2>4 DEF Look
    <3>2. \A n \in ToRemind : \A r \in Rows : about[r] # n
      BY DEF ToRemind, RowsOf, HandsInv, Filed
    <3>3. seen \in [Instances -> SUBSET Notes]
      BY DEF HandsInv, TypeOK
    <3>4. \A j \in Instances : seen'[j] = IF j = i THEN ToRemind ELSE {}
      BY <3>1, <3>3
    <3> QED BY <3>1, <3>2, <3>4 DEF Reminding, OneRowPerNote
  <2>5. CASE QueueReminders(i)
    <3>1. /\ seen' = [seen EXCEPT ![i] = {}] /\ seen[i] # {}
          /\ about' \in [Rows -> Notes \cup {NoNote}]
          /\ \A r \in Rows : \/ about[r] = about'[r]
                             \/ about[r] = NoNote /\ about'[r] \in seen[i]
          /\ \A r, s \in Rows : /\ about[r] = NoNote /\ about[s] = NoNote
                                /\ about'[r] \in Notes /\ about'[s] = about'[r]
                                => r = s
      BY <2>5, QueueShape DEF HandsInv
    <3>2. seen \in [Instances -> SUBSET Notes] /\ about \in [Rows -> Notes \cup {NoNote}]
      BY DEF HandsInv, TypeOK
    <3>3. \A j \in Instances : seen'[j] = {}
      BY <3>1, <3>2
    <3>4. ASSUME NEW r \in Rows, NEW s \in Rows, about'[r] \in Notes, about'[s] = about'[r]
          PROVE  r = s
      <4>1. CASE about[r] = about'[r] /\ about[s] = about'[s]
        BY <3>4, <4>1 DEF OneRowPerNote
      <4>2. CASE about[r] # about'[r] /\ about[s] # about'[s]
        BY <3>1, <3>4, <4>2
      <4>3. CASE about[r] = about'[r] /\ about[s] # about'[s]
        BY <3>1, <3>4, <4>3
      <4>4. CASE about[r] # about'[r] /\ about[s] = about'[s]
        BY <3>1, <3>4, <4>4
      <4> QED BY <4>1, <4>2, <4>3, <4>4
    <3> QED BY <3>3, <3>4 DEF Reminding, OneRowPerNote
  <2> QED BY <2>2, <2>4, <2>5
<1> QED BY <1>1, <1>2 DEF vars, rows, queue, person, given

LEMMA InitHoldReminding == Init => Hold /\ Reminding
<1> SUFFICES ASSUME Init PROVE Hold /\ Reminding
  OBVIOUS
<1>1. Hold
  BY IdleType DEF Init, Hold
<1>2. OneRowPerNote
  <2> SUFFICES ASSUME NEW r \in Rows, NEW s \in Rows, about[r] \in Notes, about[s] = about[r]
               PROVE  r = s
    BY DEF OneRowPerNote
  <2>1. Cardinality(RowsOf(about[r])) <= 1
    BY DEF Init
  <2>2. r \in RowsOf(about[r]) /\ s \in RowsOf(about[r])
    BY DEF RowsOf
  <2> QED BY <2>1, <2>2, RowsOfFinite, AtMostOne
<1>3. \A i \in Instances : seen[i] = {}
  BY DEF Init
<1> QED BY <1>1, <1>2, <1>3 DEF Reminding

-----------------------------------------------------------------------------
(* What is processed was delivered.                                        *)

\* Nothing that was taken, recorded or excused is undone.
Grows ==
  /\ prefs' = prefs /\ faults' = faults
  /\ recorded \subseteq recorded' /\ excused \subseteq excused'
  /\ \A n \in Notes, c \in Channels : Reached(n, c) => Reached(n, c)'
  /\ \A r \in Rows : about[r] \in Notes => about'[r] = about[r]

LEMMA GrowEmails ==
  ASSUME TypeOK, NEW n \in Notes, emails' = [emails EXCEPT ![n] = @ + 1],
         UNCHANGED pushes
  PROVE  /\ \A m \in Notes, c \in Channels : Reached(m, c) => Reached(m, c)'
         /\ Reached(n, "email")'
<1>1. \A m \in Notes : emails[m] \in Nat /\ emails'[m] = IF m = n THEN emails[m] + 1 ELSE emails[m]
  BY DEF TypeOK
<1>2. \A m \in Notes : (emails[m] > 0 => emails'[m] > 0) /\ (m = n => emails'[m] > 0)
  BY <1>1
<1> QED BY <1>2 DEF Reached

LEMMA GrowPushes ==
  ASSUME TypeOK, NEW n \in Notes, NEW dev \in Devices,
         pushes' = [pushes EXCEPT ![n][dev] = @ + 1], UNCHANGED emails
  PROVE  /\ \A m \in Notes, c \in Channels : Reached(m, c) => Reached(m, c)'
         /\ Reached(n, "push")'
<1>1. \A m \in Notes, v \in Devices :
        /\ pushes[m][v] \in Nat
        /\ pushes'[m][v] = IF m = n /\ v = dev THEN pushes[m][v] + 1 ELSE pushes[m][v]
  BY DEF TypeOK
<1>2. \A m \in Notes, v \in Devices :
        (pushes[m][v] > 0 => pushes'[m][v] > 0) /\ (m = n /\ v = dev => pushes'[m][v] > 0)
  BY <1>1
<1> QED BY <1>2 DEF Reached, Channels

LEMMA SameReached ==
  ASSUME UNCHANGED <<emails, pushes>>
  PROVE  \A m \in Notes, c \in Channels : Reached(m, c)' <=> Reached(m, c)
  BY DEF Reached

\* The rows in hand are about what they were.
LEMMA KeptSubject ==
  ASSUME HandsInv, NEW d \in Drains, drain'[d].row = drain[d].row,
         \A r \in Rows : about[r] \in Notes => about'[r] = about[r]
  PROVE  Subject(d)' = Subject(d) /\ Subject(d) \subseteq Notes
<1>1. \A r \in drain[d].row : r \in Rows /\ about[r] \in Notes
  <2>1. CASE drain[d].step \in {"idle", "next"}
    BY <2>1 DEF HandsInv, InHand
  <2>2. CASE drain[d].step \notin {"idle", "next"}
    BY <2>2, Loaded
  <2> QED BY <2>1, <2>2
<1> QED BY <1>1 DEF Subject

LEMMA ProgressKept ==
  ASSUME HandsInv, Grows, NEW d \in Drains, Progress(d), drain'[d] = drain[d]
  PROVE  Progress(d)'
<1>1. Subject(d)' = Subject(d) /\ Subject(d) \subseteq Notes
  BY KeptSubject DEF Grows
<1> QED BY <1>1 DEF Progress, Grows, At, Channels

LEMMA DeliveredKept ==
  ASSUME HandsInv, Grows, NEW r \in processed, DeliveredTo(about[r])
  PROVE  DeliveredTo(about[r])'
<1>1. r \in Rows /\ about[r] \in Notes /\ about'[r] = about[r]
  BY DEF HandsInv, Filed, TypeOK, Grows
<1>2. prefs \subseteq Channels
  BY DEF HandsInv, TypeOK
<1> QED BY <1>1, <1>2 DEF DeliveredTo, Grows

\* One drain moves.
LEMMA DrainDelivery ==
  ASSUME HandsInv, DeliveryInv, Grows, SentReached', NEW d \in Drains,
         \A e \in Drains \ {d} : drain'[e] = drain[e], Progress(d)',
         processed' = processed
  PROVE  DeliveryInv'
<1>1. ProcessedIsDelivered'
  BY DeliveredKept DEF DeliveryInv, ProcessedIsDelivered, Grows
<1> QED BY <1>1, ProgressKept DEF DeliveryInv

LEMMA SameSentReached ==
  ASSUME SentReached, Grows,
         \A m \in Notes, k \in Channels : AlreadySent(m, k)' => AlreadySent(m, k)
  PROVE  SentReached'
  BY DEF SentReached, Grows

LEMMA InitDelivery == Init => DeliveryInv
<1> SUFFICES ASSUME Init PROVE DeliveryInv
  OBVIOUS
<1>1. SentReached /\ ProcessedIsDelivered
  BY DEF Init, SentReached, AlreadySent, ProcessedIsDelivered
<1>2. ASSUME NEW d \in Drains PROVE Progress(d)
  BY IdleType, NoSubject DEF Init, Progress
<1> QED BY <1>1, <1>2 DEF DeliveryInv

LEMMA StillDelivery ==
  ASSUME HandsInv, DeliveryInv, Still
  PROVE  DeliveryInv'
<1>1. Grows
  BY SameReached DEF Still, Grows, sent, given
<1>2. SentReached'
  BY <1>1, SameSentReached DEF DeliveryInv, Still, sent, AlreadySent
<1>3. ProcessedIsDelivered'
  BY <1>1, DeliveredKept DEF DeliveryInv, ProcessedIsDelivered, Grows, Still
<1> QED BY <1>1, <1>2, <1>3, ProgressKept DEF DeliveryInv, Still

\* A drain with no row in hand has nothing to show for it.
LEMMA EmptiesDelivery ==
  ASSUME HandsInv, DeliveryInv, NEW d \in Drains, Empties(d),
         UNCHANGED <<about, sent, given>>,
         "noPush" \notin faults => \A r \in processed' \ processed : DeliveredTo(about[r])
  PROVE  DeliveryInv'
<1>1. Grows
  BY SameReached DEF Grows, sent, given
<1>2. SentReached'
  BY <1>1, SameSentReached DEF DeliveryInv, sent, AlreadySent
<1>3. Progress(d)'
  BY DEF Empties, Progress, Subject
<1>4. ProcessedIsDelivered'
  BY SameReached DEF DeliveryInv, ProcessedIsDelivered, DeliveredTo, Reached, sent, given
<1> QED BY <1>1, <1>2, <1>3, <1>4, ProgressKept DEF DeliveryInv, Empties

LEMMA LoadDelivery ==
  ASSUME HandsInv, DeliveryInv, NEW d \in Drains, Load(d)
  PROVE  DeliveryInv'
<1>1. PICK r \in drain[d].batch :
           /\ \A e \in Drains \ {d} : drain'[e] = drain[e]
           /\ drain'[d].step = "email"
           /\ drain'[d].hit = drain[d].hit
           /\ At(d, "next") /\ recorded' = recorded \cup {about[r]}
           /\ UNCHANGED <<rows, delivery, emails, pushes, excused, person>>
  BY LoadShape
<1>2. Grows
  BY <1>1, SameReached DEF Grows, rows, queue, person, given
<1>3. SentReached'
  BY <1>1, <1>2, SameSentReached DEF DeliveryInv, AlreadySent
<1>4. Progress(d)'
  <2>1. ~drain[d].hit
    BY <1>1 DEF HandsInv, InHand, At
  <2> QED BY <1>1, <2>1 DEF Progress, At
<1> QED BY <1>1, <1>2, <1>3, <1>4, DrainDelivery DEF rows, claims

LEMMA StartEmailDelivery ==
  ASSUME HandsInv, DeliveryInv, NEW d \in Drains, StartEmail(d)
  PROVE  DeliveryInv'
<1>1. PICK n \in Notes :
           /\ Turn(d, n) /\ At(d, "email")
           /\ \/ Moved(d, "sending") /\ ~AlreadySent(n, "email")
              \/ Moved(d, "push") /\ ("email" \notin prefs \/ AlreadySent(n, "email"))
           /\ drain'[d].hit = drain[d].hit
           /\ \A m \in Notes, k \in Channels : AlreadySent(m, k)' <=> AlreadySent(m, k)
           /\ UNCHANGED <<rows, recorded, emails, pushes, excused, person>>
  BY StartEmailShape
<1>2. Grows
  BY <1>1, SameReached DEF Grows, rows, queue, person, given
<1>3. SentReached'
  BY <1>1, <1>2, SameSentReached DEF DeliveryInv
<1>4. Progress(d)'
  <2>1. ~drain[d].hit
    BY <1>1 DEF HandsInv, InHand, At
  <2>2. Subject(d)' = {n}
    BY <1>1, MovedSubject DEF Turn, rows, queue
  <2>3. AlreadySent(n, "email") => Reached(n, "email")'
    BY <1>2 DEF DeliveryInv, SentReached, Grows, Channels
  <2>4. prefs' = prefs /\ drain'[d].step \in {"sending", "push"}
        /\ (drain'[d].step = "push" => "email" \notin prefs \/ AlreadySent(n, "email"))
    BY <1>1 DEF Moved, person, given
  <2> QED BY <1>1, <2>1, <2>2, <2>3, <2>4 DEF Progress, At
<1> QED BY <1>1, <1>2, <1>3, <1>4, DrainDelivery DEF rows, claims, Moved

LEMMA EmailAcceptedDelivery ==
  ASSUME HandsInv, DeliveryInv, NEW d \in Drains, EmailAccepted(d)
  PROVE  DeliveryInv'
<1>1. PICK n \in Notes :
           /\ Turn(d, n) /\ At(d, "sending") /\ Moved(d, "accepted")
           /\ drain'[d].hit = drain[d].hit
           /\ emails' = [emails EXCEPT ![n] = @ + 1]
           /\ UNCHANGED <<rows, recorded, delivery, pushes, excused, person>>
  BY EmailAcceptedShape
<1>2. Grows /\ Reached(n, "email")'
  BY <1>1, GrowEmails DEF HandsInv, Grows, rows, queue, person, given
<1>3. SentReached'
  BY <1>1, <1>2, SameSentReached DEF DeliveryInv, AlreadySent
<1>4. Progress(d)'
  <2>1. ~drain[d].hit
    BY <1>1 DEF HandsInv, InHand, At
  <2>2. Subject(d)' = {n}
    BY <1>1, MovedSubject DEF Turn, rows, queue
  <2> QED BY <1>1, <1>2, <2>1, <2>2 DEF Progress, At, Moved
<1> QED BY <1>1, <1>2, <1>3, <1>4, DrainDelivery DEF rows, claims, Moved

\* A failure on record claims nothing.
LEMMA EmailLostDelivery ==
  ASSUME HandsInv, DeliveryInv, NEW d \in Drains, EmailFailed(d) \/ EmailUnrecorded(d)
  PROVE  DeliveryInv'
<1>1. PICK n \in Notes :
           /\ Turn(d, n) /\ (At(d, "sending") \/ At(d, "accepted"))
           /\ Moved(d, "push")
           /\ drain'[d].failed /\ drain'[d].hit = drain[d].hit
           /\ SetDelivery(n, "email", "failed")
           /\ UNCHANGED emails \/ emails' = [emails EXCEPT ![n] = @ + 1]
           /\ UNCHANGED <<rows, recorded, pushes, excused, person>>
  BY EmailFailedShape, EmailUnrecordedShape
<1>2. Grows
  BY <1>1, GrowEmails, SameReached DEF HandsInv, Grows, rows, queue, person, given
<1>3. SentReached'
  <2>1. \A m \in Notes, k \in Channels : AlreadySent(m, k)' => AlreadySent(m, k)
    BY <1>1, SetDeliveryShape DEF HandsInv, Channels, Status
  <2> QED BY <1>2, <2>1, SameSentReached DEF DeliveryInv
<1>4. Progress(d)'
  <2>1. ~drain[d].hit
    BY <1>1 DEF HandsInv, InHand, At
  <2> QED BY <1>1, <2>1 DEF Progress, At, Moved
<1> QED BY <1>1, <1>2, <1>3, <1>4, DrainDelivery DEF rows, claims, Moved

LEMMA EmailSentDelivery ==
  ASSUME HandsInv, DeliveryInv, NEW d \in Drains, EmailSent(d)
  PROVE  DeliveryInv'
<1>1. PICK n \in Notes :
           /\ Turn(d, n) /\ At(d, "accepted") /\ Moved(d, "push")
           /\ drain'[d].hit = drain[d].hit
           /\ SetDelivery(n, "email", "sent")
           /\ UNCHANGED <<rows, recorded, emails, pushes, excused, person>>
  BY EmailSentShape
<1>2. Grows
  BY <1>1, SameReached DEF Grows, rows, queue, person, given
<1>3. Reached(n, "email")'
  BY <1>1, <1>2 DEF DeliveryInv, Progress, Turn, Grows, Channels
<1>4. SentReached'
  <2>1. \A m \in Notes, k \in Channels :
          m # n \/ k # "email" => (AlreadySent(m, k)' <=> AlreadySent(m, k))
    BY <1>1, SetDeliveryShape DEF HandsInv, Channels, Status
  <2> QED BY <1>2, <1>3, <2>1 DEF SentReached, DeliveryInv, Grows
<1>5. Progress(d)'
  <2>1. ~drain[d].hit
    BY <1>1 DEF HandsInv, InHand, At
  <2>2. Subject(d)' = {n}
    BY <1>1, MovedSubject DEF Turn, rows, queue
  <2> QED BY <1>1, <1>3, <2>1, <2>2 DEF Progress, At, Moved
<1> QED BY <1>1, <1>2, <1>4, <1>5, DrainDelivery DEF rows, claims, Moved

LEMMA StartPushDelivery ==
  ASSUME HandsInv, DeliveryInv, NEW d \in Drains, StartPush(d)
  PROVE  DeliveryInv'
<1>1. PICK n \in Notes :
           /\ Turn(d, n) /\ At(d, "push")
           /\ drain'[d].failed = drain[d].failed /\ drain'[d].hit = drain[d].hit
           /\ \/ Moved(d, "pushing") /\ excused' = excused
              \/ /\ Moved(d, "finish") /\ excused \subseteq excused'
                 /\ \/ "noPush" \in faults \/ "push" \notin prefs
                    \/ AlreadySent(n, "push") \/ n \in excused'
           /\ \A m \in Notes, k \in Channels : AlreadySent(m, k)' <=> AlreadySent(m, k)
           /\ UNCHANGED <<rows, recorded, emails, pushes, person>>
  BY StartPushShape
<1>2. Grows
  BY <1>1, SameReached DEF Grows, rows, queue, person, given
<1>3. SentReached'
  BY <1>1, <1>2, SameSentReached DEF DeliveryInv
<1>4. Progress(d)'
  <2>1. ~drain[d].hit
    BY <1>1 DEF HandsInv, InHand, At
  <2>2. Subject(d)' = {n} /\ Subject(d) = {n}
    BY <1>1, MovedSubject DEF Turn, rows, queue
  <2>3. drain'[d].step \in {"pushing", "finish"}
    BY <1>1 DEF Moved
  <2>4. ~drain'[d].failed => "email" \notin prefs' \/ Reached(n, "email")'
    BY <1>1, <1>2, <2>2 DEF DeliveryInv, Progress, Grows, Channels, At
  <2>5. drain'[d].step = "finish" /\ "noPush" \notin faults'
          => "push" \notin prefs' \/ Reached(n, "push")' \/ n \in excused'
    BY <1>1, <1>2, <1>3 DEF SentReached, Grows, Channels, Moved
  <2> QED BY <1>1, <2>1, <2>2, <2>3, <2>4, <2>5 DEF Progress, At
<1> QED BY <1>1, <1>2, <1>3, <1>4, DrainDelivery DEF rows, claims, Moved

LEMMA DeviceDelivery ==
  ASSUME HandsInv, DeliveryInv, NEW d \in Drains, NEW dev \in Devices,
         PushTaken(d, dev) \/ PushGone(d, dev) \/ PushFailed(d, dev)
  PROVE  DeliveryInv'
<1>1. /\ At(d, "pushing") /\ Moved(d, "pushing") /\ drain'[d].failed = drain[d].failed
      /\ Grows /\ UNCHANGED <<rows, delivery, given>>
      /\ drain'[d].hit => \A n \in Subject(d) : Reached(n, "push")'
  <2>1. CASE PushTaken(d, dev)
    <3>1. PICK n \in Notes :
           /\ Turn(d, n) /\ At(d, "pushing") /\ Moved(d, "pushing")
           /\ drain'[d].failed = drain[d].failed /\ drain'[d].hit
           /\ pushes' = [pushes EXCEPT ![n][dev] = @ + 1]
           /\ UNCHANGED <<rows, recorded, delivery, emails, excused, person>>
      BY <2>1, PushTakenShape
    <3>2. Grows /\ Reached(n, "push")'
      BY <3>1, GrowPushes DEF HandsInv, Grows, rows, queue, person, given
    <3> QED BY <3>1, <3>2 DEF Turn, person
  <2>2. CASE PushGone(d, dev) \/ PushFailed(d, dev)
    <3>1. /\ \A n \in Subject(d) : Turn(d, n)
          /\ At(d, "pushing") /\ Moved(d, "pushing")
          /\ drain'[d].failed = drain[d].failed /\ drain'[d].hit = drain[d].hit
          /\ UNCHANGED <<rows, sent, given>>
      BY <2>2, PushMissedShape
    <3>2. Grows
      BY <3>1, SameReached DEF Grows, rows, queue, sent, given
    <3>3. drain[d].hit => \A n \in Subject(d) : Reached(n, "push")'
      BY <3>1, <3>2 DEF DeliveryInv, Progress, Turn, Grows, Channels
    <3> QED BY <3>1, <3>2, <3>3 DEF sent
  <2> QED BY <2>1, <2>2
<1>2. SentReached'
  BY <1>1, SameSentReached DEF DeliveryInv, AlreadySent
<1>3. Progress(d)'
  <2>1. Subject(d)' = Subject(d) /\ Subject(d) \subseteq Notes
    BY <1>1, KeptSubject DEF Moved, Grows
  <2>2. \A n \in Subject(d) :
          ~drain'[d].failed => "email" \notin prefs' \/ Reached(n, "email")'
    BY <1>1, <2>1 DEF DeliveryInv, Progress, Grows, Channels, At
  <2> QED BY <1>1, <2>1, <2>2 DEF Progress, At, Moved
<1> QED BY <1>1, <1>2, <1>3, DrainDelivery DEF rows, claims, Moved

LEMMA FinishPushDelivery ==
  ASSUME HandsInv, DeliveryInv, NEW d \in Drains, FinishPush(d)
  PROVE  DeliveryInv'
<1>1. PICK n \in Notes :
           /\ Turn(d, n) /\ At(d, "pushing") /\ Moved(d, "finish")
           /\ drain'[d].hit = drain[d].hit
           /\ ~drain'[d].failed => ~drain[d].failed
           /\ excused \subseteq excused'
           /\ \/ drain[d].hit /\ SetDelivery(n, "push", "sent")
              \/ /\ ~drain[d].hit
                 /\ \E st \in Status \ {"sent"} : SetDelivery(n, "push", st)
                 /\ drain'[d].failed \/ n \in excused'
           /\ UNCHANGED <<rows, recorded, emails, pushes, person>>
  BY FinishPushShape
<1>2. Grows
  BY <1>1, SameReached DEF Grows, rows, queue, person, given
<1>3. Subject(d)' = {n} /\ Subject(d) = {n}
  BY <1>1, MovedSubject DEF Turn, rows, queue
<1>4. drain[d].hit => Reached(n, "push")'
  BY <1>1, <1>2, <1>3 DEF DeliveryInv, Progress, Grows, Channels
<1>5. SentReached'
  <2>1. CASE SetDelivery(n, "push", "sent") /\ drain[d].hit
    <3>1. \A m \in Notes, k \in Channels :
            m # n \/ k # "push" => (AlreadySent(m, k)' <=> AlreadySent(m, k))
      BY <2>1, SetDeliveryShape DEF HandsInv, Channels, Status
    <3> QED BY <1>2, <1>4, <2>1, <3>1 DEF SentReached, DeliveryInv, Grows
  <2>2. ASSUME NEW st \in Status \ {"sent"}, SetDelivery(n, "push", st)
        PROVE  SentReached'
    <3>1. \A m \in Notes, k \in Channels : AlreadySent(m, k)' => AlreadySent(m, k)
      BY <2>2, SetDeliveryShape DEF HandsInv, Channels
    <3> QED BY <1>2, <3>1, SameSentReached DEF DeliveryInv
  <2> QED BY <1>1, <2>1, <2>2
<1>6. Progress(d)'
  <2>1. ~drain'[d].failed => "email" \notin prefs' \/ Reached(n, "email")'
    BY <1>1, <1>2, <1>3 DEF DeliveryInv, Progress, Grows, Channels, At
  <2>2. ~drain'[d].failed => Reached(n, "push")' \/ n \in excused'
    BY <1>1, <1>4
  <2> QED BY <1>1, <1>3, <1>4, <2>1, <2>2 DEF Progress, At, Moved
<1> QED BY <1>1, <1>2, <1>5, <1>6, DrainDelivery DEF rows, claims, Moved

LEMMA SettleDelivery ==
  ASSUME HandsInv, DeliveryInv, NEW d \in Drains, Settle(d)
  PROVE  DeliveryInv'
<1>1. PICK r \in drain[d].batch :
           /\ Turn(d, about[r]) /\ At(d, "finish") /\ ~drain[d].failed /\ Empties(d)
           /\ processed' = processed \cup {r}
           /\ UNCHANGED <<queue, attempts, sent, person>>
  BY SettleShape
<1>2. "noPush" \notin faults => DeliveredTo(about[r])
  <2>1. prefs \subseteq {"email", "push"}
    BY DEF HandsInv, TypeOK, Channels
  <2> QED BY <1>1, <2>1 DEF DeliveryInv, Progress, Turn, At, DeliveredTo
<1> QED BY <1>1, <1>2, EmptiesDelivery DEF queue, person

LEMMA NextDelivery ==
  ASSUME HandsInv, DeliveryInv, [Next]_vars
  PROVE  DeliveryInv'
<1>1. CASE UNCHANGED vars
  BY <1>1, StillDelivery DEF Still, vars, rows, queue, claims, person
<1>2. CASE \/ Reclaim
           \/ \E i \in Instances : Look(i) \/ QueueReminders(i)
           \/ \E n \in Notes : NoLongerDue(n)
           \/ \E dev \in Devices : Subscribe(dev) \/ Unsubscribe(dev)
  BY <1>2, StillShape, StillDelivery DEF HandsInv
<1>3. ASSUME NEW d \in Drains, Claim(d) \/ ReleaseForRetry(d) \/ Interrupted(d) \/ Crash(d)
      PROVE  DeliveryInv'
  <2>1. Empties(d) /\ UNCHANGED <<about, sent, given, processed>>
    BY <1>3, ClaimShape, ReleaseShape, CrashShape DEF HandsInv, queue, claims, rows, person
  <2> QED BY <2>1, EmptiesDelivery
<1>4. CASE \E d \in Drains : Claim(d) \/ Work(d) \/ Crash(d)
  BY <1>3, <1>4, LoadDelivery, StartEmailDelivery, EmailAcceptedDelivery,
     EmailLostDelivery, EmailSentDelivery, StartPushDelivery, DeviceDelivery,
     FinishPushDelivery, SettleDelivery DEF Work
<1> QED BY <1>1, <1>2, <1>4 DEF Next

-----------------------------------------------------------------------------
(* A success on record stays on record.                                    *)

LEMMA NextGiven ==
  ASSUME HandsInv, [Next]_vars
  PROVE  UNCHANGED given
<1>1. CASE \/ Reclaim
           \/ \E i \in Instances : Look(i) \/ QueueReminders(i)
           \/ \E n \in Notes : NoLongerDue(n)
           \/ \E dev \in Devices : Subscribe(dev) \/ Unsubscribe(dev)
  BY <1>1, StillShape DEF HandsInv, Still
<1>2. CASE \E d \in Drains : Claim(d) \/ Work(d) \/ Crash(d)
  BY <1>2, ClaimShape, WorkBatch, CrashShape DEF HandsInv, person
<1> QED BY <1>1, <1>2 DEF Next, vars, person

\* Two drains have two notes in hand.
LEMMA Exclusive ==
  ASSUME HandsInv, Hold, Reminding, {"slow", "overlap"} \cap faults = {},
         NEW d \in Drains, NEW e \in Drains, d # e
  PROVE  Subject(d) \cap Subject(e) = {}
<1> SUFFICES ASSUME NEW n \in Subject(d), n \in Subject(e) PROVE FALSE
  OBVIOUS
<1>1. drain[d].step \notin {"idle", "next"} /\ drain[e].step \notin {"idle", "next"}
  BY NoSubject DEF HandsInv, InHand
<1>2. PICK r \in drain[d].batch : r \in Rows /\ about[r] \in Notes /\ Subject(d) = {about[r]}
  BY <1>1, Loaded
<1>3. PICK s \in drain[e].batch : s \in Rows /\ about[s] \in Notes /\ Subject(e) = {about[s]}
  BY <1>1, Loaded
<1>4. r = s
  BY <1>2, <1>3 DEF Reminding, OneRowPerNote
<1> QED BY <1>2, <1>3, <1>4 DEF Hold

\* Only the drain that has a note in hand, and has not finished with the
\* channel, touches its record there; and it looks before it starts.
SentByHand(d) ==
  /\ \A m \in Notes, k \in Channels :
       \/ AlreadySent(m, k)' <=> AlreadySent(m, k)
       \/ /\ m \in Subject(d)
          /\ \/ k = "email" /\ (At(d, "sending") \/ At(d, "accepted"))
             \/ k = "push" /\ At(d, "pushing")
  /\ \A n \in Subject(d)' :
       /\ At(d, "sending")' \/ At(d, "accepted")' =>
            n \in Notes
            /\ \/ ~AlreadySent(n, "email")'
               \/ /\ n \in Subject(d) /\ At(d, "sending")
                  /\ AlreadySent(n, "email")' <=> AlreadySent(n, "email")
       /\ At(d, "pushing")' =>
            n \in Notes
            /\ \/ ~AlreadySent(n, "push")'
               \/ /\ n \in Subject(d) /\ At(d, "pushing")
                  /\ AlreadySent(n, "push")' <=> AlreadySent(n, "push")

LEMMA WorkSent ==
  ASSUME HandsInv, NEW d \in Drains, Work(d)
  PROVE  /\ SentByHand(d) /\ about' = about
         /\ \A e \in Drains \ {d} : drain'[e] = drain[e]
<1>1. CASE Load(d)
  <2>1. /\ drain'[d].step = "email" /\ UNCHANGED <<delivery, about>>
        /\ \A e \in Drains \ {d} : drain'[e] = drain[e]
    BY <1>1, LoadShape DEF rows, queue
  <2> QED BY <2>1 DEF SentByHand, At, AlreadySent
<1>2. CASE StartEmail(d)
  <2>1. PICK n \in Notes :
           /\ Turn(d, n)
           /\ \/ Moved(d, "sending") /\ ~AlreadySent(n, "email")
              \/ Moved(d, "push")
           /\ \A m \in Notes, k \in Channels : AlreadySent(m, k)' <=> AlreadySent(m, k)
           /\ UNCHANGED <<rows, recorded, emails, pushes, excused, person>>
    BY <1>2, StartEmailShape
  <2>2. about' = about /\ Subject(d)' = {n}
    BY <2>1, MovedSubject DEF Turn, rows, queue
  <2> QED BY <2>1, <2>2 DEF SentByHand, At, Moved, Channels
<1>3. CASE EmailAccepted(d)
  <2>1. PICK n \in Notes :
           /\ Turn(d, n) /\ At(d, "sending") /\ Moved(d, "accepted")
           /\ UNCHANGED <<rows, delivery>>
    BY <1>3, EmailAcceptedShape
  <2>2. about' = about /\ Subject(d)' = {n} /\ Subject(d) = {n}
    BY <2>1, MovedSubject DEF Turn, rows, queue
  <2> QED BY <2>1, <2>2 DEF SentByHand, At, Moved, AlreadySent
<1>4. CASE EmailFailed(d) \/ EmailSent(d) \/ EmailUnrecorded(d)
  <2>1. PICK n \in Notes :
           /\ Turn(d, n) /\ (At(d, "sending") \/ At(d, "accepted"))
           /\ Moved(d, "push") /\ UNCHANGED rows
           /\ SetDelivery(n, "email", "failed") \/ SetDelivery(n, "email", "sent")
    BY <1>4, EmailFailedShape, EmailSentShape, EmailUnrecordedShape
  <2>2. about' = about /\ Subject(d)' = {n} /\ Subject(d) = {n}
    BY <2>1, MovedSubject DEF Turn, rows, queue
  <2>3. \A m \in Notes, k \in Channels :
          m # n \/ k # "email" => (AlreadySent(m, k)' <=> AlreadySent(m, k))
    BY <2>1, SetDeliveryShape DEF HandsInv, Channels, Status
  <2> QED BY <2>1, <2>2, <2>3 DEF SentByHand, At, Moved
<1>5. CASE StartPush(d)
  <2>1. PICK n \in Notes :
           /\ Turn(d, n)
           /\ \/ Moved(d, "pushing") /\ ~AlreadySent(n, "push")
              \/ Moved(d, "finish")
           /\ \A m \in Notes, k \in Channels : AlreadySent(m, k)' <=> AlreadySent(m, k)
           /\ UNCHANGED <<rows, recorded, emails, pushes, person>>
    BY <1>5, StartPushShape
  <2>2. about' = about /\ Subject(d)' = {n}
    BY <2>1, MovedSubject DEF Turn, rows, queue
  <2> QED BY <2>1, <2>2 DEF SentByHand, At, Moved, Channels
<1>6. ASSUME NEW dev \in Devices, PushTaken(d, dev) \/ PushGone(d, dev) \/ PushFailed(d, dev)
      PROVE  /\ SentByHand(d) /\ about' = about
             /\ \A e \in Drains \ {d} : drain'[e] = drain[e]
  <2>1. /\ At(d, "pushing") /\ Moved(d, "pushing") /\ UNCHANGED <<rows, delivery>>
    BY <1>6, PushTakenShape, PushMissedShape DEF sent
  <2>2. Subject(d) \subseteq Notes
    BY <2>1, TurnOf DEF At, Turn
  <2>3. about' = about /\ Subject(d)' = Subject(d)
    BY <2>1, MovedSubject DEF rows, queue
  <2> QED BY <2>1, <2>2, <2>3 DEF SentByHand, At, Moved, AlreadySent
<1>7. CASE FinishPush(d)
  <2>1. PICK n \in Notes :
           /\ Turn(d, n) /\ At(d, "pushing") /\ Moved(d, "finish") /\ UNCHANGED rows
           /\ \E st \in Status : SetDelivery(n, "push", st)
    BY <1>7, FinishPushShape DEF Status
  <2>2. about' = about /\ Subject(d) = {n}
    BY <2>1 DEF Turn, rows, queue
  <2>3. \A m \in Notes, k \in Channels :
          m # n \/ k # "push" => (AlreadySent(m, k)' <=> AlreadySent(m, k))
    BY <2>1, SetDeliveryShape DEF HandsInv, Channels
  <2> QED BY <2>1, <2>2, <2>3 DEF SentByHand, At, Moved
<1>8. CASE Settle(d) \/ ReleaseForRetry(d) \/ Interrupted(d)
  <2>1. Empties(d) /\ UNCHANGED <<queue, sent>>
    BY <1>8, SettleShape, ReleaseShape
  <2> QED BY <2>1 DEF SentByHand, Empties, At, AlreadySent, queue, sent
<1> QED BY <1>1, <1>2, <1>3, <1>4, <1>5, <1>6, <1>7, <1>8 DEF Work

\* Every other step leaves the record and the notes in hand alone.
LEMMA OthersSent ==
  ASSUME HandsInv, [Next]_vars, ~\E d \in Drains : Work(d)
  PROVE  /\ UNCHANGED <<delivery, emails, pushes>>
         /\ \A d \in Drains :
              \/ drain'[d] = drain[d] /\ Subject(d)' = Subject(d)
              \/ Empties(d) /\ (At(d, "idle") \/ "crash" \in faults)
<1>1. CASE UNCHANGED vars
  BY <1>1 DEF vars, rows, queue, sent, Subject
<1>2. CASE \/ Reclaim
           \/ \E i \in Instances : Look(i) \/ QueueReminders(i)
           \/ \E n \in Notes : NoLongerDue(n)
           \/ \E dev \in Devices : Subscribe(dev) \/ Unsubscribe(dev)
  BY <1>2, StillShape, KeptSubject DEF HandsInv, Still, sent
<1>3. ASSUME NEW d \in Drains, Claim(d) \/ Crash(d)
      PROVE  /\ UNCHANGED <<delivery, emails, pushes>>
             /\ \A e \in Drains :
                  \/ drain'[e] = drain[e] /\ Subject(e)' = Subject(e)
                  \/ Empties(e) /\ (At(e, "idle") \/ "crash" \in faults)
  <2>1. Empties(d) /\ UNCHANGED <<about, sent>> /\ (At(d, "idle") \/ "crash" \in faults)
    BY <1>3, ClaimShape, CrashShape DEF HandsInv, queue, rows
  <2>2. \A e \in Drains \ {d} : drain'[e] = drain[e]
    BY <2>1 DEF Empties
  <2> QED BY <2>1, <2>2 DEF Subject, sent
<1> QED BY <1>1, <1>2, <1>3 DEF Next

LEMMA NextSole ==
  ASSUME HandsInv, Hold, Reminding, Sole, [Next]_vars
  PROVE  Sole'
<1> SUFFICES ASSUME {"slow", "overlap"} \cap faults = {} PROVE Sole'
  BY NextGiven DEF Sole, given
<1>1. \A d \in Drains : Subject(d) \subseteq Notes
  BY TurnOf, NoSubject DEF HandsInv, InHand, Turn
<1>2. CASE \E d \in Drains : Work(d)
  <2>1. PICK d \in Drains : Work(d)
    BY <1>2
  <2>2. /\ SentByHand(d) /\ about' = about
        /\ \A e \in Drains \ {d} : drain'[e] = drain[e]
    BY <2>1, WorkSent
  <2>3. ASSUME NEW e \in Drains, e # d, NEW n \in Subject(e)'
        PROVE  /\ drain'[e].step \in {"sending", "accepted"} => ~AlreadySent(n, "email")'
               /\ drain'[e].step = "pushing" => ~AlreadySent(n, "push")'
    <3>1. drain'[e] = drain[e] /\ n \in Subject(e) /\ n \in Notes
      BY <1>1, <2>2, <2>3 DEF Subject
    <3>2. n \notin Subject(d)
      BY <2>3, <3>1, Exclusive
    <3>3. \A k \in Channels : AlreadySent(n, k)' <=> AlreadySent(n, k)
      BY <2>2, <3>1, <3>2 DEF SentByHand
    <3> QED BY <3>1, <3>3 DEF Sole, At, Channels
  <2>4. ASSUME NEW n \in Subject(d)'
        PROVE  /\ drain'[d].step \in {"sending", "accepted"} => ~AlreadySent(n, "email")'
               /\ drain'[d].step = "pushing" => ~AlreadySent(n, "push")'
    BY <2>2 DEF SentByHand, Sole, At
  <2> QED BY <2>3, <2>4 DEF Sole, At
<1>3. CASE ~\E d \in Drains : Work(d)
  <2>1. /\ UNCHANGED delivery
        /\ \A d \in Drains : \/ drain'[d] = drain[d] /\ Subject(d)' = Subject(d)
                             \/ Empties(d)
    BY <1>3, OthersSent
  <2> QED BY <2>1 DEF Sole, At, AlreadySent, Empties
<1> QED BY <1>2, <1>3

LEMMA SentStaysStep ==
  ASSUME HandsInv, Sole, [Next]_vars, NEW n \in Notes, NEW c \in Channels,
         {"slow", "overlap"} \cap faults = {}, AlreadySent(n, c)
  PROVE  AlreadySent(n, c)'
<1>1. CASE \E d \in Drains : Work(d)
  BY <1>1, WorkSent DEF SentByHand, Sole, At
<1>2. CASE ~\E d \in Drains : Work(d)
  BY <1>2, OthersSent DEF AlreadySent
<1> QED BY <1>1, <1>2

-----------------------------------------------------------------------------
(* Nobody told twice.                                                      *)

\* What nobody has put on record, and nobody but d has in hand, was not taken.
LEMMA NotTaken ==
  ASSUME HandsInv, Hold, Reminding, Sole, Once, faults \subseteq {"noPush"},
         NEW d \in Drains, NEW n \in Notes, n \in Subject(d)
  PROVE  /\ At(d, "sending") => emails[n] = 0
         /\ \A dev \in Devices :
              At(d, "pushing") /\ (~drain[d].hit \/ dev \in drain[d].todo)
                => pushes[n][dev] = 0
<1>1. {"slow", "overlap"} \cap faults = {}
  OBVIOUS
<1>2. \A e \in Drains : n \in Subject(e) => e = d
  BY <1>1, Exclusive
<1>3. ASSUME At(d, "sending")
      PROVE  emails[n] = 0
  <2>1. emails[n] \in Nat /\ emails[n] <= 1
    BY DEF HandsInv, TypeOK, Once
  <2>2. ~AlreadySent(n, "email")
    BY <1>1, <1>3 DEF Sole, At
  <2>3. ~\E e \in Drains : n \in Subject(e) /\ At(e, "accepted")
    BY <1>2, <1>3 DEF At
  <2>4. emails[n] # 1
    BY <2>2, <2>3 DEF Once
  <2> QED BY <2>1, <2>4
<1>4. ASSUME NEW dev \in Devices, At(d, "pushing"),
             ~drain[d].hit \/ dev \in drain[d].todo
      PROVE  pushes[n][dev] = 0
  <2>1. pushes[n][dev] \in Nat /\ pushes[n][dev] <= 1
    BY DEF HandsInv, TypeOK, Once
  <2>2. ~AlreadySent(n, "push")
    BY <1>1, <1>4 DEF Sole, At
  <2>3. pushes[n][dev] # 1
    BY <1>2, <1>4, <2>2 DEF Once
  <2> QED BY <2>1, <2>3
<1> QED BY <1>3, <1>4

\* A drain that keeps what it knows of its note keeps what was taken on record
\* or about to be.
Knows(d) ==
  /\ At(d, "accepted") => At(d, "accepted")' /\ Subject(d) \subseteq Subject(d)'
  /\ At(d, "pushing") /\ drain[d].hit =>
       /\ At(d, "pushing")' /\ drain'[d].hit
       /\ Subject(d) \subseteq Subject(d)' /\ drain'[d].todo \subseteq drain[d].todo

LEMMA OnceKept ==
  ASSUME Once, faults \subseteq {"noPush"},
         UNCHANGED <<emails, pushes>>,
         \A m \in Notes, k \in Channels : AlreadySent(m, k) => AlreadySent(m, k)',
         \A d \in Drains : Knows(d)
  PROVE  Once'
<1> SUFFICES ASSUME NEW n \in Notes
    PROVE  /\ emails[n] <= 1
           /\ emails[n] = 1 =>
                \/ AlreadySent(n, "email")'
                \/ \E d \in Drains : n \in Subject(d)' /\ At(d, "accepted")'
           /\ \A dev \in Devices :
                /\ pushes[n][dev] <= 1
                /\ pushes[n][dev] = 1 =>
                     \/ AlreadySent(n, "push")'
                     \/ \E d \in Drains : /\ n \in Subject(d)' /\ At(d, "pushing")'
                                          /\ drain'[d].hit /\ dev \notin drain'[d].todo
  BY DEF Once
<1>1. emails[n] = 1 =>
        \/ AlreadySent(n, "email")'
        \/ \E d \in Drains : n \in Subject(d)' /\ At(d, "accepted")'
  <2> SUFFICES ASSUME emails[n] = 1, ~AlreadySent(n, "email")'
               PROVE  \E d \in Drains : n \in Subject(d)' /\ At(d, "accepted")'
    OBVIOUS
  <2>1. ~AlreadySent(n, "email")
    BY DEF Channels
  <2>2. PICK d \in Drains : n \in Subject(d) /\ At(d, "accepted")
    BY <2>1 DEF Once
  <2> QED BY <2>2 DEF Knows
<1>2. ASSUME NEW dev \in Devices, pushes[n][dev] = 1, ~AlreadySent(n, "push")'
      PROVE  \E d \in Drains : /\ n \in Subject(d)' /\ At(d, "pushing")'
                               /\ drain'[d].hit /\ dev \notin drain'[d].todo
  <2>1. ~AlreadySent(n, "push")
    BY <1>2 DEF Channels
  <2>2. PICK d \in Drains : /\ n \in Subject(d) /\ At(d, "pushing")
                            /\ drain[d].hit /\ dev \notin drain[d].todo
    BY <1>2, <2>1 DEF Once
  <2> QED BY <2>2 DEF Knows
<1> QED BY <1>1, <1>2 DEF Once

\* A drain that stands still knows what it knew.
LEMMA KnowsKept ==
  ASSUME NEW e \in Drains, drain'[e] = drain[e], Subject(e)' = Subject(e)
  PROVE  Knows(e)
  BY DEF Knows, At

LEMMA OthersKnow ==
  ASSUME NEW d \in Drains, UNCHANGED about,
         \A e \in Drains \ {d} : drain'[e] = drain[e]
  PROVE  \A e \in Drains \ {d} : Knows(e) /\ Subject(e)' = Subject(e)
  BY KnowsKept DEF Subject

LEMMA QuietOnce ==
  ASSUME HandsInv, Once, faults \subseteq {"noPush"}, NEW d \in Drains,
         \/ Load(d) \/ StartEmail(d) \/ StartPush(d)
         \/ \E dev \in Devices : PushGone(d, dev) \/ PushFailed(d, dev)
         \/ Settle(d) \/ ReleaseForRetry(d) \/ Interrupted(d)
  PROVE  Once'
<1> DEFINE Same == /\ UNCHANGED <<about, emails, pushes>>
                   /\ \A m \in Notes, k \in Channels :
                        AlreadySent(m, k)' <=> AlreadySent(m, k)
                   /\ \A e \in Drains \ {d} : drain'[e] = drain[e]
<1>1. CASE Load(d)
  <2>1. /\ At(d, "next") /\ UNCHANGED <<about, delivery, emails, pushes>>
        /\ \A e \in Drains \ {d} : drain'[e] = drain[e]
    BY <1>1, LoadShape DEF rows, queue
  <2> QED BY <2>1, OnceKept, OthersKnow DEF AlreadySent, Knows, At
<1>2. CASE StartEmail(d)
  <2>1. At(d, "email") /\ Same
    BY <1>2, StartEmailShape DEF Moved, rows, queue
  <2> QED BY <2>1, OnceKept, OthersKnow DEF Knows, At
<1>3. CASE StartPush(d)
  <2>1. At(d, "push") /\ Same
    BY <1>3, StartPushShape DEF Moved, rows, queue
  <2> QED BY <2>1, OnceKept, OthersKnow DEF Knows, At
<1>4. ASSUME NEW dev \in Devices, PushGone(d, dev) \/ PushFailed(d, dev)
      PROVE  Once'
  <2>1. /\ At(d, "pushing") /\ Moved(d, "pushing")
        /\ drain'[d].todo = drain[d].todo \ {dev} /\ drain'[d].hit = drain[d].hit
        /\ UNCHANGED <<rows, sent>>
    BY <1>4, PushMissedShape
  <2>2. UNCHANGED <<about, delivery, emails, pushes>>
        /\ \A e \in Drains \ {d} : drain'[e] = drain[e]
    BY <2>1 DEF Moved, rows, queue, sent
  <2>3. Subject(d)' = Subject(d)
    BY <2>1, <2>2, MovedSubject
  <2>4. Knows(d)
    BY <2>1, <2>3 DEF Knows, At, Moved
  <2> QED BY <2>2, <2>4, OnceKept, OthersKnow DEF AlreadySent
<1>5. CASE Settle(d) \/ ReleaseForRetry(d) \/ Interrupted(d)
  <2>1. At(d, "finish") /\ Empties(d) /\ UNCHANGED <<queue, sent>>
    BY <1>5, SettleShape, ReleaseShape
  <2>2. UNCHANGED <<about, delivery, emails, pushes>>
        /\ \A e \in Drains \ {d} : drain'[e] = drain[e]
    BY <2>1 DEF Empties, queue, sent
  <2> QED BY <2>1, <2>2, OnceKept, OthersKnow DEF AlreadySent, Knows, At
<1> QED BY <1>1, <1>2, <1>3, <1>4, <1>5

LEMMA MailOnce ==
  ASSUME HandsInv, Hold, Reminding, Sole, Once, faults \subseteq {"noPush"},
         NEW d \in Drains,
         EmailAccepted(d) \/ EmailFailed(d) \/ EmailSent(d) \/ EmailUnrecorded(d)
  PROVE  Once'
<1>1. PICK n \in Notes :
        /\ Turn(d, n) /\ UNCHANGED <<rows, pushes, given>>
        /\ \/ /\ At(d, "sending") /\ Moved(d, "accepted") /\ UNCHANGED delivery
              /\ emails' = [emails EXCEPT ![n] = @ + 1]
           \/ /\ At(d, "sending") /\ Moved(d, "push") /\ UNCHANGED emails
              /\ SetDelivery(n, "email", "failed")
           \/ /\ At(d, "accepted") /\ Moved(d, "push") /\ UNCHANGED emails
              /\ SetDelivery(n, "email", "sent")
  BY EmailAcceptedShape, EmailFailedShape, EmailSentShape, EmailUnrecordedShape DEF person
<1>2. /\ UNCHANGED <<about, faults>> /\ Subject(d) = {n} /\ n \in Subject(d)
      /\ \A e \in Drains \ {d} : drain'[e] = drain[e]
  BY <1>1 DEF rows, queue, given, Turn, Moved
<1>3. \A e \in Drains \ {d} : Knows(e) /\ Subject(e)' = Subject(e)
  BY <1>2, OthersKnow
<1>4. CASE /\ At(d, "sending") /\ Moved(d, "push") /\ UNCHANGED emails
           /\ SetDelivery(n, "email", "failed")
  <2>1. emails[n] = 0
    BY <1>2, <1>4, NotTaken
  <2>2. \A m \in Notes, k \in Channels :
          m # n \/ k # "email" => (AlreadySent(m, k)' <=> AlreadySent(m, k))
    BY <1>4, SetDeliveryShape DEF HandsInv, Channels, Status
  <2>3. Knows(d)
    BY <1>4 DEF Knows, At
  <2>4. ASSUME NEW m \in Notes
        PROVE  /\ emails'[m] <= 1
               /\ emails'[m] = 1 =>
                    \/ AlreadySent(m, "email")'
                    \/ \E e \in Drains : m \in Subject(e)' /\ At(e, "accepted")'
    <3>1. CASE m = n
      BY <1>4, <2>1, <3>1
    <3>2. CASE m # n
      BY <1>3, <1>4, <2>2, <2>3, <3>2 DEF Once, Knows, Channels
    <3> QED BY <3>1, <3>2
  <2>5. ASSUME NEW m \in Notes, NEW dev \in Devices
        PROVE  /\ pushes'[m][dev] <= 1
               /\ pushes'[m][dev] = 1 =>
                    \/ AlreadySent(m, "push")'
                    \/ \E e \in Drains : /\ m \in Subject(e)' /\ At(e, "pushing")'
                                         /\ drain'[e].hit /\ dev \notin drain'[e].todo
    BY <1>1, <1>3, <2>2, <2>3 DEF Once, Knows, Channels
  <2> QED BY <2>4, <2>5 DEF Once
<1>5. CASE /\ At(d, "accepted") /\ Moved(d, "push") /\ UNCHANGED emails
           /\ SetDelivery(n, "email", "sent")
  <2>1. AlreadySent(n, "email")'
    BY <1>5, SetDeliveryShape DEF HandsInv, Channels, Status
  <2>2. \A m \in Notes, k \in Channels :
          m # n \/ k # "email" => (AlreadySent(m, k)' <=> AlreadySent(m, k))
    BY <1>5, SetDeliveryShape DEF HandsInv, Channels, Status
  <2>3. ASSUME NEW m \in Notes
        PROVE  /\ emails'[m] <= 1
               /\ emails'[m] = 1 =>
                    \/ AlreadySent(m, "email")'
                    \/ \E e \in Drains : m \in Subject(e)' /\ At(e, "accepted")'
    <3>1. CASE m = n
      BY <1>5, <2>1, <3>1 DEF Once
    <3>2. CASE m # n
      BY <1>2, <1>3, <1>5, <2>2, <3>2 DEF Once, Knows, Channels
    <3> QED BY <3>1, <3>2
  <2>4. ASSUME NEW m \in Notes, NEW dev \in Devices
        PROVE  /\ pushes'[m][dev] <= 1
               /\ pushes'[m][dev] = 1 =>
                    \/ AlreadySent(m, "push")'
                    \/ \E e \in Drains : /\ m \in Subject(e)' /\ At(e, "pushing")'
                                         /\ drain'[e].hit /\ dev \notin drain'[e].todo
    BY <1>1, <1>3, <1>5, <2>2 DEF Once, Knows, Channels, At
  <2> QED BY <2>3, <2>4 DEF Once
<1>6. CASE /\ At(d, "sending") /\ Moved(d, "accepted") /\ UNCHANGED delivery
           /\ emails' = [emails EXCEPT ![n] = @ + 1]
  <2>1. emails[n] = 0
    BY <1>2, <1>6, NotTaken
  <2>2. \A m \in Notes : emails'[m] = IF m = n THEN 1 ELSE emails[m]
    BY <1>6, <2>1 DEF HandsInv, TypeOK
  <2>3. \A m \in Notes, k \in Channels : AlreadySent(m, k)' <=> AlreadySent(m, k)
    BY <1>6 DEF AlreadySent
  <2>4. At(d, "accepted")' /\ Subject(d)' = {n}
    BY <1>2, <1>6, MovedSubject DEF Moved, At
  <2>5. ASSUME NEW m \in Notes
        PROVE  /\ emails'[m] <= 1
               /\ emails'[m] = 1 =>
                    \/ AlreadySent(m, "email")'
                    \/ \E e \in Drains : m \in Subject(e)' /\ At(e, "accepted")'
    <3>1. CASE m = n
      BY <2>2, <2>4, <3>1
    <3>2. CASE m # n
      BY <1>3, <1>6, <2>2, <2>3, <3>2 DEF Once, Knows, Channels, At
    <3> QED BY <3>1, <3>2
  <2>6. ASSUME NEW m \in Notes, NEW dev \in Devices
        PROVE  /\ pushes'[m][dev] <= 1
               /\ pushes'[m][dev] = 1 =>
                    \/ AlreadySent(m, "push")'
                    \/ \E e \in Drains : /\ m \in Subject(e)' /\ At(e, "pushing")'
                                         /\ drain'[e].hit /\ dev \notin drain'[e].todo
    BY <1>1, <1>3, <1>6, <2>3 DEF Once, Knows, Channels, At
  <2> QED BY <2>5, <2>6 DEF Once
<1> QED BY <1>1, <1>4, <1>5, <1>6

LEMMA PushTakenOnce ==
  ASSUME HandsInv, Hold, Reminding, Sole, Once, faults \subseteq {"noPush"},
         NEW d \in Drains, NEW dev \in Devices, PushTaken(d, dev)
  PROVE  Once'
<1>1. PICK n \in Notes :
           /\ Turn(d, n) /\ At(d, "pushing") /\ Moved(d, "pushing")
           /\ dev \in drain[d].todo /\ drain'[d].todo = drain[d].todo \ {dev}
           /\ drain'[d].hit
           /\ pushes' = [pushes EXCEPT ![n][dev] = @ + 1]
           /\ UNCHANGED <<rows, recorded, delivery, emails, excused, person>>
  BY PushTakenShape
<1>2. /\ about' = about /\ Subject(d) = {n} /\ n \in Subject(d)
      /\ \A e \in Drains \ {d} : drain'[e] = drain[e]
  BY <1>1 DEF rows, queue, Turn, Moved
<1>3. Subject(d)' = {n}
  BY <1>1, <1>2, MovedSubject
<1>4. \A e \in Drains : Knows(e)
  <2>1. Knows(d)
    BY <1>1, <1>2, <1>3 DEF Knows, At, Moved
  <2> QED BY <1>2, <2>1, OthersKnow
<1>5. pushes[n][dev] = 0
  BY <1>1, <1>2, NotTaken
<1>6. \A m \in Notes, v \in Devices :
        pushes'[m][v] = IF m = n /\ v = dev THEN 1 ELSE pushes[m][v]
  BY <1>1, <1>5 DEF HandsInv, TypeOK
<1>7. \A m \in Notes, k \in Channels : AlreadySent(m, k)' <=> AlreadySent(m, k)
  BY <1>1 DEF AlreadySent
<1>8. ASSUME NEW m \in Notes
      PROVE  /\ emails'[m] <= 1
             /\ emails'[m] = 1 =>
                  \/ AlreadySent(m, "email")'
                  \/ \E e \in Drains : m \in Subject(e)' /\ At(e, "accepted")'
  BY <1>1, <1>4, <1>7 DEF Once, Knows, Channels
<1>9. ASSUME NEW m \in Notes, NEW v \in Devices
      PROVE  /\ pushes'[m][v] <= 1
             /\ pushes'[m][v] = 1 =>
                  \/ AlreadySent(m, "push")'
                  \/ \E e \in Drains : /\ m \in Subject(e)' /\ At(e, "pushing")'
                                       /\ drain'[e].hit /\ v \notin drain'[e].todo
  <2>1. CASE m = n /\ v = dev
    <3>1. At(d, "pushing")' /\ m \in Subject(d)' /\ drain'[d].hit /\ v \notin drain'[d].todo
      BY <1>1, <1>3, <2>1 DEF At, Moved
    <3> QED BY <1>6, <2>1, <3>1
  <2>2. CASE ~(m = n /\ v = dev)
    <3>1. pushes'[m][v] = pushes[m][v]
      BY <1>6, <2>2
    <3> SUFFICES ASSUME pushes[m][v] = 1, ~AlreadySent(m, "push")
                 PROVE  \E e \in Drains : /\ m \in Subject(e)' /\ At(e, "pushing")'
                                          /\ drain'[e].hit /\ v \notin drain'[e].todo
      BY <1>7, <3>1 DEF Once, Channels
    <3>2. PICK e \in Drains : /\ m \in Subject(e) /\ At(e, "pushing")
                              /\ drain[e].hit /\ v \notin drain[e].todo
      BY DEF Once
    <3> QED BY <1>4, <3>2 DEF Knows
  <2> QED BY <2>1, <2>2
<1> QED BY <1>8, <1>9 DEF Once

LEMMA FinishPushOnce ==
  ASSUME HandsInv, Hold, Reminding, Sole, Once, faults \subseteq {"noPush"},
         NEW d \in Drains, FinishPush(d)
  PROVE  Once'
<1>1. PICK n \in Notes, st \in Status :
           /\ Turn(d, n) /\ At(d, "pushing") /\ Moved(d, "finish")
           /\ SetDelivery(n, "push", st) /\ (drain[d].hit => st = "sent")
           /\ UNCHANGED <<rows, recorded, emails, pushes, person>>
  BY FinishPushShape DEF Status
<1>2. /\ about' = about /\ Subject(d) = {n} /\ n \in Subject(d)
      /\ \A e \in Drains \ {d} : drain'[e] = drain[e]
  BY <1>1 DEF rows, queue, Turn, Moved
<1>3. \A e \in Drains \ {d} : Knows(e)
  BY <1>2, OthersKnow
<1>4. /\ AlreadySent(n, "push")' <=> st = "sent"
      /\ \A m \in Notes, k \in Channels :
           m # n \/ k # "push" => (AlreadySent(m, k)' <=> AlreadySent(m, k))
  BY <1>1, SetDeliveryShape DEF HandsInv, Channels
<1>5. ASSUME NEW m \in Notes
      PROVE  /\ emails'[m] <= 1
             /\ emails'[m] = 1 =>
                  \/ AlreadySent(m, "email")'
                  \/ \E e \in Drains : m \in Subject(e)' /\ At(e, "accepted")'
  BY <1>1, <1>3, <1>4 DEF Once, Knows, Channels, At
<1>6. ASSUME NEW m \in Notes, NEW v \in Devices
      PROVE  /\ pushes'[m][v] <= 1
             /\ pushes'[m][v] = 1 =>
                  \/ AlreadySent(m, "push")'
                  \/ \E e \in Drains : /\ m \in Subject(e)' /\ At(e, "pushing")'
                                       /\ drain'[e].hit /\ v \notin drain'[e].todo
  <2>1. CASE m = n /\ drain[d].hit
    BY <1>1, <1>4, <2>1 DEF Once
  <2>2. CASE m = n /\ ~drain[d].hit
    <3>1. pushes[n][v] = 0
      BY <1>1, <1>2, <2>2, NotTaken
    <3> QED BY <1>1, <2>2, <3>1
  <2>3. CASE m # n
    <3>1. m \notin Subject(d)
      BY <1>2, <2>3
    <3> SUFFICES ASSUME pushes[m][v] = 1, ~AlreadySent(m, "push")
                 PROVE  \E e \in Drains : /\ m \in Subject(e)' /\ At(e, "pushing")'
                                          /\ drain'[e].hit /\ v \notin drain'[e].todo
      BY <1>1, <1>4, <2>3 DEF Once, Channels
    <3>2. PICK e \in Drains : /\ m \in Subject(e) /\ At(e, "pushing")
                              /\ drain[e].hit /\ v \notin drain[e].todo
      BY DEF Once
    <3> QED BY <1>3, <3>1, <3>2 DEF Knows
  <2> QED BY <2>1, <2>2, <2>3
<1> QED BY <1>5, <1>6 DEF Once

LEMMA NextOnce ==
  ASSUME HandsInv, Hold, Reminding, Sole, Once, [Next]_vars
  PROVE  Once'
<1> SUFFICES ASSUME faults \subseteq {"noPush"} PROVE Once'
  BY NextGiven DEF Once, given
<1>1. CASE \E d \in Drains : Work(d)
  BY <1>1, QuietOnce, MailOnce, PushTakenOnce, FinishPushOnce DEF Work
<1>2. CASE ~\E d \in Drains : Work(d)
  <2>1. /\ UNCHANGED <<delivery, emails, pushes>>
        /\ \A d \in Drains :
             \/ drain'[d] = drain[d] /\ Subject(d)' = Subject(d)
             \/ Empties(d) /\ At(d, "idle")
    BY <1>2, OthersSent
  <2>2. ASSUME NEW d \in Drains PROVE Knows(d)
    BY <2>1, KnowsKept DEF Knows, At
  <2> QED BY <2>1, <2>2, OnceKept DEF AlreadySent
<1> QED BY <1>1, <1>2

-----------------------------------------------------------------------------
(* The theorems.                                                           *)

\* Whatever fails, and however many servers, drains and devices there are: the
\* tables and the drains' states are typed, a drain holds one recorded row at
\* a time, keeps it from the other drains unless it is slow, and what is on
\* record as sent or settled was taken by somebody.
THEOREM OutboxAlways == Spec => []OutboxInv
<1>1. Init => OutboxInv
  <2> SUFFICES ASSUME Init PROVE OutboxInv
    OBVIOUS
  <2>1. Sole
    BY IdleType, NoSubject DEF Init, Sole
  <2>2. Once
    BY DEF Init, Once
  <2> QED BY <2>1, <2>2, InitHands, InitHoldReminding, InitDelivery DEF OutboxInv
<1>2. OutboxInv /\ [Next]_vars => OutboxInv'
  BY NextHands, NextHold, NextReminding, NextDelivery, NextSole, NextOnce DEF OutboxInv
<1> QED BY <1>1, <1>2, PTL DEF Spec

\* Several workers never process the same row twice: no two drains hold one.
THEOREM RowsAlwaysHeldOnce == Spec => []RowsHeldOnce
<1>1. OutboxInv => RowsHeldOnce
  BY DEF OutboxInv, HandsInv, Hold, RowsHeldOnce, OneDrainPerRow
<1> QED BY <1>1, OutboxAlways, PTL

\* Retry, never discard: what is processed reached the person on every channel
\* left on, whatever crashed, failed or was overtaken.
THEOREM ProcessedIsAlwaysDelivered == Spec => []ProcessedIsDelivered
<1>1. OutboxInv => ProcessedIsDelivered
  BY DEF OutboxInv, DeliveryInv
<1> QED BY <1>1, OutboxAlways, PTL

\* A note is queued once by one server, what succeeded is sent once, and a
\* success on record stays there.
THEOREM NobodyEverToldTwice == Spec => NobodyToldTwice
<1>1. OutboxInv => NothingTwice
  BY DEF OutboxInv, Once, NothingTwice
<1>2. OutboxInv => RemindedOnce
  <2> SUFFICES ASSUME OutboxInv, "overlap" \notin faults, NEW n \in Notes
               PROVE  Cardinality(RowsOf(n)) <= 1
    BY DEF RemindedOnce
  <2>1. CASE RowsOf(n) = {}
    BY <2>1, FS_EmptySet
  <2>2. CASE RowsOf(n) # {}
    <3>1. PICK r \in RowsOf(n) : TRUE
      BY <2>2
    <3>2. RowsOf(n) = {r}
      BY <3>1 DEF RowsOf, OutboxInv, Reminding, OneRowPerNote
    <3>3. Cardinality({r}) = 1
      BY FS_Singleton
    <3> QED BY <3>2, <3>3
  <2> QED BY <2>1, <2>2
<1>3. OutboxInv /\ [Next]_vars =>
        [\A n \in Notes, c \in Channels :
           {"slow", "overlap"} \cap faults = {} /\ delivery[n][c] = "sent"
             => delivery'[n][c] = "sent"]_vars
  BY SentStaysStep DEF OutboxInv, AlreadySent
<1> QED BY <1>1, <1>2, <1>3, OutboxAlways, PTL DEF Spec, NobodyToldTwice, SentStays

=============================================================================
