------------------------------ MODULE ClientProofs ------------------------------
(* What holds of Client for any users, windows, people and channels, for any  *)
(* number of versions, sockets, subscriptions, texts and calls: the browser,  *)
(* the page and the server agree on notifications, a new version reaches      *)
(* every window, a copy is called a copy, one socket at most is open, a text  *)
(* is neither lost nor sent twice, and what is shown of calls and of a        *)
(* conversation is so.                                                        *)
EXTENDS Client, FiniteSetTheorems, SequenceTheorems, WellFoundedInduction, TLAPS

-----------------------------------------------------------------------------
(* Notifications.                                                          *)

\* What is under way is about the subscription the browser has, until the
\* browser's half of turning it off is done.
ChangeTyped ==
  /\ change \in [at : {"none", "on", "tell", "off"}, half : 1..2, endpoint : 0..endpoints]
  /\ rows \subseteq [endpoint : 1..endpoints, of : Users]

HalfOff == change.at = "off" /\ change.half = 2

ChangeOfSubscription ==
  /\ change.at = "tell" \/ (change.at = "off" /\ change.half = 1) =>
       change.endpoint = subscription /\ subscription # 0
  /\ HalfOff => subscription = 0

\* The server has one row of an endpoint.
RowsApart == \A r, q \in rows : r.endpoint = q.endpoint => r = q

\* RowHasSubscription, through a change.
RowsFollow ==
  \A r \in rows : \/ r.endpoint = subscription \/ r.endpoint \in lost
                  \/ HalfOff /\ r.endpoint = change.endpoint

\* SubscribedIsKnown, whatever the page says.
KnownOrUntold ==
  subscription # 0 /\ change.at # "tell" =>
    Live(subscription) \/ subscription \in untold \cup refused

PushInv ==
  /\ PushTypeOK /\ ChangeTyped /\ ChangeOfSubscription
  /\ RowsApart /\ RowsFollow /\ KnownOrUntold

LEMMA PushInvInit == PushInit => PushInv
BY PushDeviceAssumption
   DEF PushInit, PushInv, PushTypeOK, ChangeTyped, ChangeOfSubscription, RowsApart,
       RowsFollow, KnownOrUntold, HalfOff, NoChange

LEMMA PushInvStep == PushInv /\ PushStep => PushInv'
<1> SUFFICES ASSUME PushInv, PushStep PROVE PushInv'
  OBVIOUS
<1> USE PushDeviceAssumption
<1> USE DEF PushInv, PushTypeOK, ChangeTyped, ChangeOfSubscription, RowsApart, RowsFollow,
            KnownOrUntold, HalfOff, NoChange, Live
<1>1. CASE LookState
  BY <1>1 DEF LookState
<1>2. CASE PressOn
  BY <1>2 DEF PressOn
<1>3. CASE Subscribe
  <2> DEFINE e == IF subscription # 0 THEN subscription ELSE endpoints + 1
  <2>0. /\ e <= MaxEndpoints /\ subscription' = e
        /\ endpoints' = (IF e > endpoints THEN e ELSE endpoints)
        /\ change' = [at |-> "tell", half |-> 1, endpoint |-> e]
        /\ UNCHANGED <<user, rows, says, lost, untold, refused>>
    BY <1>3, Zenon DEF Subscribe
  <2>1. e \in 1..MaxEndpoints
    BY <2>0
  <2>2. endpoints' \in 0..MaxEndpoints /\ endpoints <= endpoints' /\ e <= endpoints'
    BY <2>0
  <2> HIDE DEF e
  <2>3. PushTypeOK' /\ ChangeTyped'
    BY <2>0, <2>1, <2>2
  <2>4. ChangeOfSubscription' /\ RowsApart' /\ KnownOrUntold'
    BY <2>0, <2>1
  <2>5. RowsFollow'
    <3>1. \A r \in rows : r.endpoint = e \/ r.endpoint \in lost
      BY <1>3 DEF e, Subscribe
    <3> QED BY <2>0, <3>1
  <2> QED BY <2>3, <2>4, <2>5
<1>4. CASE PermissionRefused
  BY <1>4 DEF PermissionRefused
<1>5. CASE ServerTold
  <2>1. /\ change.endpoint = subscription /\ subscription \in 1..endpoints
        /\ rows' = {r \in rows : r.endpoint # subscription}
                    \cup {[endpoint |-> subscription, of |-> user]}
        /\ untold' = untold \ {subscription}
        /\ change' = [at |-> "none", half |-> 1, endpoint |-> 0] /\ says' = "subscribed"
        /\ UNCHANGED <<user, subscription, endpoints, lost, refused>>
    BY <1>5 DEF ServerTold, ToldOf, Row
  <2>2. PushTypeOK' /\ ChangeTyped'
    BY <2>1
  <2>3. ChangeOfSubscription' /\ RowsApart'
    BY <2>1
  <2>k. KnownOrUntold'
    <3>1. [endpoint |-> subscription, of |-> user] \in rows'
      BY <2>1
    <3> QED BY <2>1, <3>1
  <2>4. RowsFollow'
    <3>1. \A r \in rows : r.endpoint = subscription \/ r.endpoint \in lost
      BY <1>5 DEF ServerTold
    <3> QED BY <2>1, <3>1
  <2> QED BY <2>2, <2>3, <2>k, <2>4
<1>6. CASE TellFails
  BY <1>6 DEF TellFails
<1>7. CASE PressOff
  BY <1>7 DEF PressOff
<1>8. CASE Unsubscribe
  BY <1>8 DEF Unsubscribe, Half, HalvesOff, NextHalf, OffSays
<1>9. CASE ServerRevokes
  BY <1>9 DEF ServerRevokes, Half, HalvesOff, NextHalf, OffSays, Row
<1>10. CASE OffFails
  BY <1>10 DEF OffFails, Half, HalvesOff
<1>11. CASE Expire
  BY <1>11 DEF Expire
<1>12. ASSUME NEW r \in rows, PushIsGone(r) PROVE PushInv'
  BY <1>12 DEF PushIsGone
<1>13. ASSUME NEW r \in rows, PushIsRefused(r) PROVE PushInv'
  BY <1>13 DEF PushIsRefused
<1>14. ASSUME NEW u \in Users, SignInAs(u) PROVE PushInv'
  BY <1>14 DEF SignInAs
<1> QED
  BY <1>1, <1>2, <1>3, <1>4, <1>5, <1>6, <1>7, <1>8, <1>9, <1>10, <1>11, <1>12, <1>13,
     <1>14 DEF PushStep

LEMMA PushInvKept == PushInv /\ UNCHANGED pushVars => PushInv'
BY DEF PushInv, PushTypeOK, ChangeTyped, ChangeOfSubscription, RowsApart, RowsFollow,
       KnownOrUntold, HalfOff, Live, pushVars

\* Every other focus leaves the subscription alone.
LEMMA PushMoves == [Next]_vars => PushStep \/ UNCHANGED pushVars
BY DEF Next, vars

\* The inductive invariant behind the next theorem: what is under way is about
\* the subscription the browser has, and the server has one row of it.
THEOREM PushAlways == Spec => []PushInv
<1>1. Init => PushInv
  BY PushInvInit DEF Init
<1>2. PushInv /\ [Next]_vars => PushInv'
  BY PushMoves, PushInvStep, PushInvKept
<1> QED BY <1>1, <1>2, PTL DEF Spec

\* enablePush and disablePush are two halves each, and either may fail: the
\* browser, the page and the server still agree on whether this device is
\* notified, unless the half that failed was the server's.
THEOREM PushAlwaysAgrees == Spec => []PushAgrees
<1>1. PushInv => PushAgrees
  BY DEF PushInv, PushAgrees, RowHasSubscription, SubscribedIsKnown, RowsFollow,
         KnownOrUntold, HalfOff
<1> QED BY <1>1, PushAlways, PTL

-----------------------------------------------------------------------------
(* New versions.                                                           *)

\* Workers come in the order of their versions.
WorkersInOrder ==
  /\ script \in Workers /\ claiming \in BOOLEAN
  /\ installing \in MaybeWorker /\ waiting \in MaybeWorker /\ active \in MaybeWorker
  /\ skips \subseteq Workers /\ superseded \subseteq Workers
  /\ active <= script /\ waiting <= script /\ installing <= script
  /\ waiting # NoWorker => active < waiting
  /\ installing # NoWorker => active < installing /\ waiting < installing
  /\ claiming => active # NoWorker

\* One page, under waiting worker w and active worker a, which claims if c, with
\* SKIP_WAITING on its way to S and with R replaced.  It is never ahead of the
\* active worker.  It asks for a takeover when it is open, and listens for it;
\* the takeover it hears of next is the one it asked for, or a later one, and is
\* under way: asked of the waiting worker, taken over, or claiming.
PageHolds(p, w, a, c, S, R) ==
  /\ p.controller <= a
  /\ p.asking => p.listening
  /\ p.goal # NoWorker =>
       /\ p.at = "open" /\ p.listening
       /\ p.goal <= w \/ p.goal <= a
       /\ ~p.hasty /\ (p.took # NoWorker \/ c) => p.goal <= a
       /\ \/ p.goal = w /\ p.goal \in S
          \/ p.goal \in R \/ p.took # NoWorker
          \/ c /\ p.controller = NoWorker
  /\ w # NoWorker /\ p.at = "open" => p.told \/ p.deaf
  /\ a = NoWorker /\ p.told => p.early
  /\ p.sought # NoWorker => p.controller >= p.sought

PagesHold ==
  /\ window \in [Windows -> Page]
  /\ \A t \in Windows : PageHolds(window[t], waiting, active, claiming, skips, superseded)

UpdateInv == WorkersInOrder /\ PagesHold

-----------------------------------------------------------------------------
(* What becomes of a page.                                                 *)

\* A page that is loaded, or closed, asks for nothing.
LEMMA LoadedHolds ==
  ASSUME NEW w \in MaybeWorker, NEW a \in MaybeWorker, NEW c \in BOOLEAN, NEW S, NEW R,
         NEW by \in MaybeWorker, NEW sought \in MaybeWorker, by <= a, sought <= by
  PROVE  /\ LoadedPage(by, sought) \in Page
         /\ PageHolds(LoadedPage(by, sought), w, a, c, S, R)
BY AppUpdateAssumption
   DEF LoadedPage, NoPage, Page, PageHolds, MaybeWorker, Workers, NoWorker

LEMMA ClosedHolds ==
  ASSUME NEW w \in MaybeWorker, NEW a \in MaybeWorker, NEW c \in BOOLEAN, NEW S, NEW R
  PROVE  NoPage \in Page /\ PageHolds(NoPage, w, a, c, S, R)
BY AppUpdateAssumption
   DEF NoPage, Page, PageHolds, MaybeWorker, Workers, NoWorker

\* More may be on its way to workers, and the version served may be newer.
LEMMA StillHolds ==
  ASSUME NEW p \in Page, NEW w \in MaybeWorker, NEW a \in MaybeWorker, NEW c \in BOOLEAN,
         NEW S, NEW R, NEW T, PageHolds(p, w, a, c, S, R), S \subseteq T
  PROVE  PageHolds(p, w, a, c, T, R)
BY DEF PageHolds

\* updatefound
LEMMA WatchingHolds ==
  ASSUME NEW p \in Page, NEW w \in MaybeWorker, NEW a \in MaybeWorker, NEW c \in BOOLEAN,
         NEW S, NEW R, PageHolds(p, w, a, c, S, R), NEW x \in MaybeWorker
  PROVE  LET q == [p EXCEPT !.watching = x]
         IN q \in Page /\ PageHolds(q, w, a, c, S, R)
BY DEF Page, PageHolds, NoWorker

\* statechange: the page is told of the worker that waits now, or is deaf to it.
Announced(p, q) ==
  /\ q.at = p.at /\ q.controller = p.controller /\ q.listening = p.listening
  /\ q.asking = p.asking /\ q.took = p.took /\ q.goal = p.goal /\ q.sought = p.sought
  /\ q.early = p.early /\ q.hasty = p.hasty
  /\ q.told \/ q.deaf
  /\ q.told => p.told \/ p.controller # NoWorker

LEMMA AnnouncedHolds ==
  ASSUME NEW p \in Page, NEW w \in MaybeWorker, NEW a \in MaybeWorker, NEW c \in BOOLEAN,
         NEW S, NEW R, PageHolds(p, w, a, c, S, R), NEW x \in MaybeWorker, w < x, a < x,
         NEW q \in Page, Announced(p, q)
  PROVE  PageHolds(q, x, a, c, S, R \cup ({w} \ {NoWorker}))
BY AppUpdateAssumption DEF Announced, PageHolds, MaybeWorker, Workers, NoWorker, Page

LEMMA ReplacedHolds ==
  ASSUME NEW p \in Page, NEW w \in MaybeWorker, NEW a \in MaybeWorker, NEW c \in BOOLEAN,
         NEW S, NEW R, PageHolds(p, w, a, c, S, R), NEW x \in MaybeWorker, p.at # "open"
  PROVE  PageHolds(p, x, a, c, S, R \cup ({w} \ {NoWorker}))
BY DEF PageHolds

\* The pages of the active worker are handed to the next, the others wait for
\* it to claim them.
LEMMA TakenHolds ==
  ASSUME NEW p \in Page, NEW w \in Workers, NEW a \in MaybeWorker, NEW c \in BOOLEAN,
         NEW S, NEW R, PageHolds(p, w, a, c, S, R), a < w, NEW T
  PROVE  LET q == [p EXCEPT !.controller = w, !.took = w]
         IN /\ q \in Page /\ PageHolds(q, NoWorker, w, TRUE, T, R)
            /\ p.controller = NoWorker => PageHolds(p, NoWorker, w, TRUE, T, R)
<1> DEFINE q == [p EXCEPT !.controller = w, !.took = w]
<1>1. q \in Page
  BY DEF Page, MaybeWorker, Workers, NoWorker
<1>2. /\ q.at = p.at /\ q.controller = w /\ q.watching = p.watching
      /\ q.told = p.told /\ q.listening = p.listening /\ q.asking = p.asking
      /\ q.took = w /\ q.goal = p.goal /\ q.sought = p.sought
      /\ q.deaf = p.deaf /\ q.early = p.early /\ q.hasty = p.hasty
  BY DEF Page
<1> HIDE DEF q
<1>3. PageHolds(q, NoWorker, w, TRUE, T, R)
  BY <1>1, <1>2, AppUpdateAssumption DEF PageHolds, MaybeWorker, Workers, NoWorker, Page
<1>4. p.controller = NoWorker => PageHolds(p, NoWorker, w, TRUE, T, R)
  BY AppUpdateAssumption DEF PageHolds, MaybeWorker, Workers, NoWorker, Page
<1> QED BY <1>1, <1>3, <1>4 DEF q

\* A message to a worker that no longer waits is in vain, and nobody counts on it.
LEMMA SkippedHolds ==
  ASSUME NEW p \in Page, NEW w \in MaybeWorker, NEW a \in MaybeWorker, NEW c \in BOOLEAN,
         NEW S, NEW R, PageHolds(p, w, a, c, S, R), NEW x, x # w
  PROVE  PageHolds(p, w, a, c, S \ {x}, R)
BY DEF PageHolds

\* clients.claim()
LEMMA ClaimedHolds ==
  ASSUME NEW p \in Page, NEW w \in MaybeWorker, NEW a \in Workers, NEW S, NEW R,
         PageHolds(p, w, a, TRUE, S, R)
  PROVE  LET q == [p EXCEPT !.controller = a, !.took = a]
         IN /\ q \in Page
            /\ p.controller = NoWorker => PageHolds(q, w, a, FALSE, S, R)
            /\ p.controller # NoWorker \/ p.at = "closed" => PageHolds(p, w, a, FALSE, S, R)
<1> DEFINE q == [p EXCEPT !.controller = a, !.took = a]
<1>1. q \in Page
  BY DEF Page, MaybeWorker, Workers, NoWorker
<1>2. /\ q.at = p.at /\ q.controller = a /\ q.watching = p.watching
      /\ q.told = p.told /\ q.listening = p.listening /\ q.asking = p.asking
      /\ q.took = a /\ q.goal = p.goal /\ q.sought = p.sought
      /\ q.deaf = p.deaf /\ q.early = p.early /\ q.hasty = p.hasty
  BY DEF Page
<1> HIDE DEF q
<1>3. p.controller = NoWorker => PageHolds(q, w, a, FALSE, S, R)
  BY <1>1, <1>2, AppUpdateAssumption DEF PageHolds, MaybeWorker, Workers, NoWorker, Page
<1>4. p.controller # NoWorker \/ p.at = "closed" => PageHolds(p, w, a, FALSE, S, R)
  BY AppUpdateAssumption DEF PageHolds, MaybeWorker, Workers, NoWorker, Page
<1> QED BY <1>1, <1>3, <1>4 DEF q

\* register() has resolved.
Registered(p, q, w, a) ==
  /\ p.at = "loading" /\ q.at = "open" /\ q.sought = NoWorker
  /\ q.controller = p.controller /\ q.listening = p.listening /\ q.asking = p.asking
  /\ q.took = p.took /\ q.goal = p.goal /\ q.hasty = p.hasty
  /\ q.told <=> w # NoWorker
  /\ q.early <=> w # NoWorker /\ a = NoWorker

LEMMA RegisteredHolds ==
  ASSUME NEW p \in Page, NEW w \in MaybeWorker, NEW a \in MaybeWorker, NEW c \in BOOLEAN,
         NEW S, NEW R, PageHolds(p, w, a, c, S, R), NEW q \in Page, Registered(p, q, w, a)
  PROVE  PageHolds(q, w, a, c, S, R)
BY AppUpdateAssumption DEF Registered, PageHolds, MaybeWorker, Workers, NoWorker, Page

\* The button.
LEMMA PressedHolds ==
  ASSUME NEW p \in Page, NEW w \in MaybeWorker, NEW a \in MaybeWorker, NEW c \in BOOLEAN,
         NEW S, NEW R, PageHolds(p, w, a, c, S, R)
  PROVE  LET q == [p EXCEPT !.listening = TRUE, !.asking = TRUE]
         IN q \in Page /\ PageHolds(q, w, a, c, S, R)
BY DEF Page, PageHolds, NoWorker

\* The waiting worker is asked; an earlier takeover that is not over is noted.
LEMMA AskedHolds ==
  ASSUME NEW p \in Page, NEW w \in Workers, NEW a \in MaybeWorker, NEW c \in BOOLEAN,
         NEW S, NEW R, PageHolds(p, w, a, c, S, R), p.at = "open", p.listening
  PROVE  LET q == [p EXCEPT !.asking = FALSE, !.goal = w,
                            !.hasty = c \/ p.took # NoWorker]
         IN q \in Page /\ PageHolds(q, w, a, c, S \cup {w}, R)
<1> DEFINE q == [p EXCEPT !.asking = FALSE, !.goal = w, !.hasty = c \/ p.took # NoWorker]
<1>1. q \in Page
  BY DEF Page, MaybeWorker, Workers, NoWorker
<1>2. /\ q.at = p.at /\ q.controller = p.controller /\ q.watching = p.watching
      /\ q.told = p.told /\ q.listening = p.listening /\ q.asking = FALSE
      /\ q.took = p.took /\ q.goal = w /\ q.sought = p.sought
      /\ q.deaf = p.deaf /\ q.early = p.early /\ q.hasty = (c \/ p.took # NoWorker)
  BY DEF Page
<1> HIDE DEF q
<1>3. PageHolds(q, w, a, c, S \cup {w}, R)
  BY <1>1, <1>2, AppUpdateAssumption DEF PageHolds, MaybeWorker, Workers, NoWorker, Page
<1> QED BY <1>1, <1>3 DEF q

\* controllerchange, in a page that does not listen.
LEMMA HeardHolds ==
  ASSUME NEW p \in Page, NEW w \in MaybeWorker, NEW a \in MaybeWorker, NEW c \in BOOLEAN,
         NEW S, NEW R, PageHolds(p, w, a, c, S, R), ~p.listening
  PROVE  LET q == [p EXCEPT !.took = NoWorker]
         IN q \in Page /\ PageHolds(q, w, a, c, S, R)
BY AppUpdateAssumption DEF Page, PageHolds, MaybeWorker, Workers, NoWorker

-----------------------------------------------------------------------------
(* Every step of a new version.                                            *)

LEMMA UpdateInvInit == UpdateInit => UpdateInv
<1> SUFFICES ASSUME UpdateInit PROVE WorkersInOrder /\ PagesHold
  BY DEF UpdateInv
<1>1. WorkersInOrder
  <2>1. 1 \in Workers /\ NoWorker \in MaybeWorker
    BY AppUpdateAssumption DEF Workers, MaybeWorker
  <2>2. /\ script = 1 /\ installing = NoWorker /\ waiting = NoWorker /\ active = NoWorker
        /\ claiming = FALSE /\ skips = {} /\ superseded = {}
    BY DEF UpdateInit
  <2>3. /\ script \in Workers /\ claiming \in BOOLEAN
        /\ installing \in MaybeWorker /\ waiting \in MaybeWorker /\ active \in MaybeWorker
        /\ skips \subseteq Workers /\ superseded \subseteq Workers
    BY <2>1, <2>2
  <2> QED BY <2>2, <2>3 DEF WorkersInOrder, NoWorker
<1>2. PagesHold
  BY <1>1, ClosedHolds DEF UpdateInit, WorkersInOrder, PagesHold
<1> QED BY <1>1, <1>2

LEMMA UpdateInvStep == UpdateInv /\ UpdateStep => UpdateInv'
<1> SUFFICES ASSUME WorkersInOrder, PagesHold, UpdateStep PROVE WorkersInOrder' /\ PagesHold'
  BY DEF UpdateInv
<1> USE AppUpdateAssumption DEF Workers3
<1>p. /\ window \in [Windows -> Page]
      /\ \A t \in Windows : window[t] \in Page
      /\ \A t \in Windows : PageHolds(window[t], waiting, active, claiming, skips, superseded)
  BY DEF PagesHold
<1>w. /\ waiting \in MaybeWorker /\ active \in MaybeWorker /\ installing \in MaybeWorker
      /\ NoWorker \in MaybeWorker /\ claiming \in BOOLEAN
      /\ active >= NoWorker /\ active <= active /\ NoWorker <= NoWorker
  BY DEF WorkersInOrder, MaybeWorker, Workers, NoWorker
<1>1. CASE NewScript
  <2>1. WorkersInOrder'
    BY <1>1 DEF NewScript, WorkersInOrder, Workers, MaybeWorker, NoWorker
  <2>2. PagesHold'
    BY <1>1 DEF NewScript, PagesHold
  <2> QED BY <2>1, <2>2
<1>2. CASE FindUpdate
  <2>1. WorkersInOrder'
    BY <1>2 DEF FindUpdate, WorkersInOrder, Workers, MaybeWorker, NoWorker
  <2>2. PagesHold'
    <3>1. script \in MaybeWorker
      BY DEF WorkersInOrder, MaybeWorker
    <3>2. \A t \in Windows : LET q == [window[t] EXCEPT !.watching = script] IN
            q \in Page /\ PageHolds(q, waiting, active, claiming, skips, superseded)
      BY <1>p, <1>w, <3>1, WatchingHolds
    <3> QED BY <1>2, <1>p, <3>2 DEF FindUpdate, PagesHold
  <2> QED BY <2>1, <2>2
<1>3. CASE Installed
  <2>1. WorkersInOrder'
    <3>1. /\ installing # NoWorker /\ waiting' = installing /\ installing' = NoWorker
          /\ superseded' = superseded \cup ({waiting} \ {NoWorker})
          /\ UNCHANGED <<script, active, claiming, skips>>
      BY <1>3 DEF Installed
    <3>2. superseded' \subseteq Workers
      BY <3>1 DEF WorkersInOrder, MaybeWorker
    <3>3. active \in Nat /\ waiting \in Nat /\ installing \in Nat /\ script \in Nat
      BY DEF WorkersInOrder, MaybeWorker, Workers, NoWorker
    <3> QED BY <1>w, <3>1, <3>2, <3>3 DEF WorkersInOrder, NoWorker
  <2>2. PagesHold'
    <3>1. waiting < installing /\ active < installing
      BY <1>3 DEF Installed, WorkersInOrder
    <3> DEFINE q(t) == [window[t] EXCEPT !.watching = NoWorker, !.told = @ \/ Tell(t),
                                        !.deaf = @ \/ ~Tell(t)]
    <3>2. ASSUME NEW t \in Windows PROVE q(t) \in Page /\ Announced(window[t], q(t))
      <4>1. q(t) \in Page
        BY <1>p, <1>w DEF Page
      <4>2. Announced(window[t], q(t))
        BY <1>p DEF Page, Announced, Tell
      <4> QED BY <4>1, <4>2
    <3> HIDE DEF q
    <3> DEFINE W == superseded \cup ({waiting} \ {NoWorker})
    <3>3. \A t \in Windows : PageHolds(q(t), installing, active, claiming, skips, W)
      BY <1>p, <1>w, <3>1, <3>2, AnnouncedHolds
    <3>4. \A t \in Windows : ~IsOpen(t) =>
            PageHolds(window[t], installing, active, claiming, skips, W)
      BY <1>p, <1>w, ReplacedHolds DEF IsOpen
    <3> HIDE DEF W
    <3>6. /\ waiting' = installing /\ active' = active /\ claiming' = claiming
          /\ skips' = skips /\ superseded' = W
      BY <1>3 DEF Installed, W
    <3>5. window' = [t \in Windows |-> IF ~IsOpen(t) THEN window[t] ELSE q(t)]
      BY <1>3 DEF Installed, q
    <3> QED BY <1>p, <3>2, <3>3, <3>4, <3>5, <3>6 DEF PagesHold
  <2> QED BY <2>1, <2>2
<1>4. ASSUME waiting \in Workers, TakeOver, skips' \subseteq skips,
             \A t \in Windows : PageHolds(window[t], waiting, active, claiming, skips, superseded),
             UNCHANGED <<script, installing, superseded>>
      PROVE  WorkersInOrder' /\ PagesHold'
  <2>1. WorkersInOrder'
    <3>1. /\ active' = waiting /\ waiting' = NoWorker /\ claiming' = TRUE
          /\ skips' \subseteq skips /\ UNCHANGED <<script, installing, superseded>>
      BY <1>4 DEF TakeOver
    <3>2. skips' \subseteq Workers /\ claiming' \in BOOLEAN
      BY <3>1 DEF WorkersInOrder
    <3>3. /\ active \in Nat /\ waiting \in Nat /\ installing \in Nat /\ script \in Nat
          /\ waiting # NoWorker
      BY <1>4 DEF WorkersInOrder, MaybeWorker, Workers, NoWorker
    <3> QED BY <1>w, <3>1, <3>2, <3>3 DEF WorkersInOrder, NoWorker
  <2>2. PagesHold'
    <3>1. active < waiting
      BY <1>4 DEF WorkersInOrder, Workers, NoWorker
    <3>2. \A t \in Windows :
            LET q == [window[t] EXCEPT !.controller = waiting, !.took = waiting] IN
            /\ q \in Page /\ PageHolds(q, NoWorker, waiting, TRUE, skips', superseded)
            /\ window[t].controller = NoWorker =>
                 PageHolds(window[t], NoWorker, waiting, TRUE, skips', superseded)
      BY <1>p, <1>w, <1>4, <3>1, TakenHolds
    <3> QED BY <1>4, <1>p, <3>2 DEF TakeOver, PagesHold
  <2> QED BY <2>1, <2>2
<1>5. CASE Activate
  <2>1. waiting \in Workers
    BY <1>5 DEF Activate, WorkersInOrder, MaybeWorker
  <2> QED BY <1>4, <1>5, <1>p, <2>1 DEF Activate
<1>6. ASSUME NEW w \in skips, SkipWaiting(w) PROVE WorkersInOrder' /\ PagesHold'
  <2>1. CASE w = waiting
    <3>1. waiting \in Workers
      BY <2>1 DEF WorkersInOrder
    <3>2. TakeOver /\ skips' \subseteq skips /\ UNCHANGED <<script, installing, superseded>>
      BY <1>6, <2>1 DEF SkipWaiting
    <3> QED BY <1>4, <1>p, <3>1, <3>2
  <2>2. CASE w # waiting
    <3>1. skips' = skips \ {w}
          /\ UNCHANGED <<script, installing, active, waiting, claiming, window, superseded>>
      BY <1>6, <2>2 DEF SkipWaiting
    <3>2. \A t \in Windows :
            PageHolds(window[t], waiting, active, claiming, skips \ {w}, superseded)
      BY <1>p, <1>w, <2>2, SkippedHolds
    <3> QED BY <3>1, <3>2, <1>p DEF PagesHold, WorkersInOrder
  <2> QED BY <2>1, <2>2
<1>7. CASE ClaimClients
  <2>1. WorkersInOrder'
    BY <1>7 DEF ClaimClients, WorkersInOrder
  <2>2. PagesHold'
    <3>1. active \in Workers /\ claiming = TRUE
      BY <1>7 DEF ClaimClients, WorkersInOrder, MaybeWorker
    <3>2. \A t \in Windows : LET q == [window[t] EXCEPT !.controller = active, !.took = active] IN
            /\ q \in Page
            /\ window[t].controller = NoWorker =>
                 PageHolds(q, waiting, active, FALSE, skips, superseded)
            /\ window[t].controller # NoWorker \/ window[t].at = "closed" =>
                 PageHolds(window[t], waiting, active, FALSE, skips, superseded)
      BY <1>p, <1>w, <3>1, ClaimedHolds
    <3> QED BY <1>7, <1>p, <3>2 DEF ClaimClients, Claims, PagesHold
  <2> QED BY <2>1, <2>2
<1>8. ASSUME NEW t \in Windows, LoadWindow(t) PROVE WorkersInOrder' /\ PagesHold'
  <2>1. PICK c \in {active, NoWorker} : ShowPage(t, LoadedPage(c, NoWorker))
    BY <1>8 DEF LoadWindow
  <2>2. c \in MaybeWorker /\ c <= active /\ NoWorker <= c
    BY <1>w DEF WorkersInOrder, MaybeWorker, Workers, NoWorker
  <2>3. /\ LoadedPage(c, NoWorker) \in Page
        /\ PageHolds(LoadedPage(c, NoWorker), waiting, active, claiming, skips, superseded)
    BY <1>w, <2>2, LoadedHolds
  <2> QED BY <1>8, <1>p, <2>1, <2>3 DEF LoadWindow, ShowPage, PagesHold, WorkersInOrder
<1>9. ASSUME NEW t \in Windows, CloseWindow(t) PROVE WorkersInOrder' /\ PagesHold'
  <2>1. NoPage \in Page /\ PageHolds(NoPage, waiting, active, claiming, skips, superseded)
    BY <1>w, ClosedHolds
  <2> QED BY <1>9, <1>p, <2>1 DEF CloseWindow, ShowPage, PagesHold, WorkersInOrder
<1>10. ASSUME NEW t \in Windows, RegisterWorker(t) PROVE WorkersInOrder' /\ PagesHold'
  <2> DEFINE first == installing = NoWorker /\ waiting = NoWorker /\ active = NoWorker
             x == IF first THEN script ELSE NoWorker
             early == waiting # NoWorker /\ active = NoWorker
             q == [window[t] EXCEPT !.at = "open", !.told = AlreadyWaiting, !.sought = NoWorker,
                            !.watching = x, !.deaf = installing # NoWorker, !.early = early]
  <2>1. /\ window[t].at = "loading" /\ installing' = (IF first THEN script ELSE installing)
        /\ ShowPage(t, q)
        /\ UNCHANGED <<script, waiting, active, claiming, skips, superseded>>
    BY <1>10, Zenon DEF RegisterWorker
  <2>2. x \in MaybeWorker
    BY DEF WorkersInOrder, MaybeWorker
  <2>3. q \in Page /\ PageHolds(q, waiting, active, claiming, skips, superseded)
    <3>1. q \in Page
      <4>1. (installing # NoWorker) \in BOOLEAN /\ AlreadyWaiting \in BOOLEAN /\ early \in BOOLEAN
        BY DEF AlreadyWaiting
      <4> HIDE DEF x, early, AlreadyWaiting
      <4> QED BY <1>p, <1>w, <2>2, <4>1 DEF Page
    <3>2. Registered(window[t], q, waiting, active)
      BY <1>p, <2>1 DEF Page, Registered, AlreadyWaiting
    <3> HIDE DEF q
    <3> QED BY <1>p, <1>w, <3>1, <3>2, RegisteredHolds
  <2> HIDE DEF q, x
  <2>4. WorkersInOrder'
    BY <2>1 DEF WorkersInOrder, MaybeWorker, Workers, NoWorker
  <2>5. PagesHold'
    BY <1>p, <2>1, <2>3 DEF PagesHold, ShowPage
  <2> QED BY <2>4, <2>5
<1>11. ASSUME NEW t \in Windows, PressUpdate(t) PROVE WorkersInOrder' /\ PagesHold'
  <2> DEFINE q == [window[t] EXCEPT !.listening = TRUE, !.asking = TRUE]
  <2>1. q \in Page /\ PageHolds(q, waiting, active, claiming, skips, superseded)
    BY <1>p, <1>w, PressedHolds
  <2>2. ShowPage(t, q)
    BY <1>11 DEF PressUpdate
  <2> HIDE DEF q
  <2> QED BY <1>11, <1>p, <2>1, <2>2 DEF PressUpdate, ShowPage, PagesHold, WorkersInOrder
<1>12. ASSUME NEW t \in Windows, AskToActivate(t) PROVE WorkersInOrder' /\ PagesHold'
  <2>1. CASE waiting # NoWorker
    <3> DEFINE q == [window[t] EXCEPT !.asking = FALSE, !.goal = waiting,
                              !.hasty = claiming \/ window[t].took # NoWorker]
    <3>1. /\ window[t].at = "open" /\ window[t].asking /\ ShowPage(t, q)
          /\ skips' = skips \cup {waiting}
          /\ UNCHANGED <<script, installing, waiting, active, claiming, superseded>>
      BY <1>12, <2>1 DEF AskToActivate, IsOpen
    <3>2. window[t].listening /\ waiting \in Workers
      BY <1>p, <2>1, <3>1 DEF PageHolds, WorkersInOrder, MaybeWorker
    <3>3. q \in Page /\ PageHolds(q, waiting, active, claiming, skips', superseded)
      <4>1. /\ window[t] \in Page
            /\ PageHolds(window[t], waiting, active, claiming, skips, superseded)
        BY <1>p
      <4>2. PICK p \in Page : p = window[t]
        BY <4>1
      <4>3. LET r == [p EXCEPT !.asking = FALSE, !.goal = waiting,
                               !.hasty = claiming \/ p.took # NoWorker]
            IN r \in Page /\ PageHolds(r, waiting, active, claiming, skips \cup {waiting}, superseded)
        BY <1>w, <3>1, <3>2, <4>1, <4>2, AskedHolds
      <4> QED BY <3>1, <4>2, <4>3
    <3>4. \A u \in Windows : PageHolds(window[u], waiting, active, claiming, skips', superseded)
      BY <1>p, <1>w, <3>1, StillHolds
    <3> HIDE DEF q
    <3> QED BY <1>p, <3>1, <3>2, <3>3, <3>4 DEF ShowPage, PagesHold, WorkersInOrder
  <2>2. CASE waiting = NoWorker
    <3>1. /\ LoadedPage(active, NoWorker) \in Page
          /\ PageHolds(LoadedPage(active, NoWorker), waiting, active, claiming, skips, superseded)
      BY <1>w, LoadedHolds
    <3> QED BY <1>12, <1>p, <2>2, <3>1 DEF AskToActivate, ShowPage, PagesHold, WorkersInOrder
  <2> QED BY <2>1, <2>2
<1>13. ASSUME NEW t \in Windows, HearOfTakeover(t) PROVE WorkersInOrder' /\ PagesHold'
  <2>1. CASE window[t].listening
    <3> DEFINE goal == IF window[t].hasty THEN NoWorker ELSE window[t].goal
    <3>1. ShowPage(t, LoadedPage(active, goal))
      BY <1>13, <2>1 DEF HearOfTakeover
    <3>2. goal \in MaybeWorker /\ goal <= active
      BY <1>13, <1>p, <1>w DEF HearOfTakeover, PageHolds, Page
    <3>3. /\ LoadedPage(active, goal) \in Page
          /\ PageHolds(LoadedPage(active, goal), waiting, active, claiming, skips, superseded)
      BY <1>w, <3>2, LoadedHolds
    <3> HIDE DEF goal
    <3> QED BY <1>13, <1>p, <3>1, <3>3 DEF HearOfTakeover, ShowPage, PagesHold, WorkersInOrder
  <2>2. CASE ~window[t].listening
    <3> DEFINE q == [window[t] EXCEPT !.took = NoWorker]
    <3>1. ShowPage(t, q)
      BY <1>13, <2>2 DEF HearOfTakeover
    <3>2. q \in Page /\ PageHolds(q, waiting, active, claiming, skips, superseded)
      BY <1>p, <1>w, <2>2, HeardHolds
    <3> HIDE DEF q
    <3> QED BY <1>13, <1>p, <3>1, <3>2 DEF HearOfTakeover, ShowPage, PagesHold, WorkersInOrder
  <2> QED BY <2>1, <2>2
<1> QED
  BY <1>1, <1>2, <1>3, <1>5, <1>6, <1>7, <1>8, <1>9, <1>10, <1>11, <1>12, <1>13
     DEF UpdateStep

LEMMA UpdateInvKept == UpdateInv /\ UNCHANGED updateVars => UpdateInv'
BY DEF UpdateInv, WorkersInOrder, PagesHold, updateVars, Workers3

\* Every other focus leaves the workers and the windows alone.
LEMMA UpdateMoves == [Next]_vars => UpdateStep \/ UNCHANGED updateVars
BY DEF Next, vars

\* The inductive invariant behind the next theorem: workers come in the order of
\* their versions, and what a page asked for is waiting, taking over or replaced.
THEOREM UpdatesAlways == Spec => []UpdateInv
<1>1. Init => UpdateInv
  BY UpdateInvInit DEF Init
<1>2. UpdateInv /\ [Next]_vars => UpdateInv'
  BY UpdateMoves, UpdateInvStep, UpdateInvKept
<1> QED BY <1>1, <1>2, PTL DEF Spec

\* usePwa and sw.js: a version that is ready is announced in every window that
\* could hear of it and to no newcomer, and pressing the button ends in a page
\* of the new version, whichever windows press and however takeovers overlap.
THEOREM UpdatesAlwaysReach == Spec => []UpdatesReach
<1>1. UpdateInv => UpdatesReach
  <2> SUFFICES ASSUME UpdateInv PROVE UpdatesReach
    OBVIOUS
  <2>1. UpdateTypeOK
    BY DEF UpdateInv, WorkersInOrder, PagesHold, UpdateTypeOK
  <2>2. WaitingIsAnnounced /\ NewcomerNotTold /\ ReloadedByNew
    BY DEF UpdateInv, PagesHold, PageHolds, WaitingIsAnnounced, NewcomerNotTold,
           ReloadedByNew, IsOpen
  <2>3. PressIsAnswered
    BY DEF UpdateInv, PagesHold, PageHolds, PressIsAnswered
  <2> QED BY <2>1, <2>2, <2>3 DEF UpdatesReach
<1> QED BY <1>1, UpdatesAlways, PTL

-----------------------------------------------------------------------------
(* Copies.                                                                 *)

Answers == People \cup {NoCopy}

\* A copy comes with an answer.
Gets ==
  {e \in [at : {"none", "sent", "answered", "refused", "back", "failed", "waiting"},
          answer : Answers, copied : BOOLEAN, current : BOOLEAN, via : BOOLEAN, again : BOOLEAN,
          left : BOOLEAN] :
     e.copied => e.at = "back"}

ReadsTyped ==
  /\ get \in [1..2 -> Gets]
  /\ screen \in [data : Answers, copied : BOOLEAN, status : {"pending", "success", "error"}]
  /\ screen.copied => screen.status # "pending"
  /\ controlled \in BOOLEAN /\ denied \in BOOLEAN /\ late \in BOOLEAN

\* The bundles of the page that is kept are there, or are on their way with the
\* page itself; while the worker is installed they are those of the build.
ShellHeld ==
  /\ build \in 1..MaxBuilds
  /\ load \in [build : 0..MaxBuilds, at : {"closed", "started", "blank", "html"}]
  /\ worker = "assets" /\ ~unlucky => shell = build
  /\ worker = "active" /\ ~unlucky =>
       shell \in assets \/ (load.at = "html" /\ load.build = shell)

\* The announcements and the shell are kept apart: the invariant has a half for
\* each, and a step of one leaves the other's half.
ReadsHalf ==
  /\ cookie \in People \cup {Nobody} /\ copy \in Answers /\ label \in BOOLEAN
  /\ online \in BOOLEAN /\ heard \in BOOLEAN /\ crossed \in BOOLEAN /\ forgetting \in BOOLEAN
  /\ ReadsTyped
  /\ LabelTellsTruth /\ CopyKeepsBar /\ SignOutForgets

ShellHalf ==
  /\ shell \in 0..MaxBuilds \cup {NoCopy} /\ assets \subseteq 1..MaxBuilds
  /\ worker \in {"none", "shell", "assets", "active"} /\ up \in BOOLEAN /\ unlucky \in BOOLEAN
  /\ ShellHeld

CopyInv == ReadsHalf /\ ShellHalf

LEMMA CopyInvInit == WorkerInit => CopyInv
<1> SUFFICES ASSUME WorkerInit PROVE ReadsHalf /\ ShellHalf
  BY DEF CopyInv
<1>1. ReadsHalf
  BY DEF WorkerInit, ReadsInit, ReadsHalf, ReadsTyped, Gets, Answers, LabelTellsTruth, Labelled,
         CopyKeepsBar, SignOutForgets, NoGet, EmptyScreen
<1>2. ShellHalf
  <2>1. /\ up = TRUE /\ build = 1 /\ worker = "none" /\ shell = NoCopy /\ assets = {}
        /\ load = [build |-> 0, at |-> "closed"] /\ unlucky = FALSE
    BY DEF WorkerInit, ShellInit, NoLoad
  <2>2. build \in 1..MaxBuilds /\ 0 \in 0..MaxBuilds
    BY <2>1, ServiceWorkerAssumption
  <2> QED BY <2>1, <2>2 DEF ShellHalf, ShellHeld
<1> QED BY <1>1, <1>2

LEMMA SaysWhether ==
  ASSUME NEW x, NEW a, NEW S, x = (a \in S) PROVE x \in BOOLEAN /\ (a \in S => x)
<1>1. (a \in S) \in BOOLEAN
  OBVIOUS
<1>2. a \in S => x
  BY Zenon
<1> DEFINE there == a \in S
<1>3. there \in BOOLEAN /\ x = there
  BY <1>1
<1> HIDE DEF there
<1> QED BY <1>2, <1>3

LEMMA ReadsStepHolds == ReadsHalf /\ ReadsStep => ReadsHalf'
<1> SUFFICES ASSUME ReadsHalf, ReadsStep PROVE ReadsHalf'
  OBVIOUS
<1> USE ServiceWorkerAssumption
<1> USE DEF ReadsHalf, ReadsTyped, LabelTellsTruth, Labelled, CopyKeepsBar, SignOutForgets, Answers,
            banner
<1>0. /\ NoGet \in Gets /\ Sent \in Gets /\ Waiting \in Gets /\ [Sent EXCEPT !.again = TRUE] \in Gets
      /\ \A g \in 1..2 : get[g] \in Gets /\ GivenUp(get[g]) \in Gets /\ Left(get[g]) \in Gets
  <2>1. NoGet \in Gets
    BY DEF Gets, NoGet
  <2>2. /\ Sent = [at |-> "sent", answer |-> NoCopy, copied |-> FALSE, current |-> TRUE,
                   via |-> controlled, again |-> FALSE, left |-> FALSE]
        /\ Waiting = [at |-> "waiting", answer |-> NoCopy, copied |-> FALSE, current |-> TRUE,
                      via |-> FALSE, again |-> TRUE, left |-> FALSE]
    <3> DEFINE none == [at |-> "none", answer |-> NoCopy, copied |-> FALSE, current |-> FALSE,
                        via |-> FALSE, again |-> FALSE, left |-> FALSE]
    <3>1. Sent = [none EXCEPT !.at = "sent", !.current = TRUE, !.via = controlled]
      BY DEF Sent, NoGet
    <3>2. Waiting = [none EXCEPT !.at = "waiting", !.current = TRUE, !.again = TRUE]
      BY DEF Waiting, NoGet
    <3> QED BY <3>1, <3>2
  <2>3. Sent \in Gets /\ Waiting \in Gets /\ [Sent EXCEPT !.again = TRUE] \in Gets
    BY <2>2 DEF Gets
  <2>4. ASSUME NEW g \in 1..2
        PROVE  get[g] \in Gets /\ GivenUp(get[g]) \in Gets /\ Left(get[g]) \in Gets
    <3>1. get[g] \in Gets
      OBVIOUS
    <3>2. GivenUp(get[g]) \in Gets
      BY <3>1 DEF Gets, GivenUp
    <3> QED BY <3>1, <3>2 DEF Gets, Left
  <2> QED BY <2>1, <2>3, <2>4
\* A request moves, and nothing else does.
<1>1. CASE /\ get' \in [1..2 -> Gets]
           /\ UNCHANGED <<banner, cookie, controlled, copy, screen, label, forgetting, crossed, out, late>>
  BY <1>1
<1>2. CASE CookieEnds
  BY <1>2 DEF CookieEnds
<1>3. CASE PressSignOut
  BY <1>3 DEF PressSignOut
<1>4. CASE WorkerForgets
  BY <1>4 DEF WorkerForgets
<1>5. ASSUME NEW p \in People, SignIn(p) PROVE ReadsHalf'
  BY <1>5 DEF SignIn
<1>6. ASSUME NEW answered \in BOOLEAN, SignOutEnds(answered) PROVE ReadsHalf'
  <2>1. get' \in [1..2 -> Gets]
    <3>1. PICK old \in 1..2 :
            get' = [g \in 1..2 |-> IF g = 2 /\ get[old].at \in {"sent", "answered"}
                                   THEN Left(get[old]) ELSE NoGet]
      BY <1>6 DEF SignOutEnds
    <3> QED BY <1>0, <3>1
  <2> QED BY <1>6, <2>1 DEF SignOutEnds, Forgets, EmptyScreen
<1>7. CASE OtherReached
  BY <1>7 DEF OtherReached
<1>8. CASE Ask
  BY <1>0, <1>1, <1>8 DEF Ask
<1>9. CASE AskAgain
  BY <1>0, <1>1, <1>9 DEF AskAgain
<1>10. ASSUME NEW g \in 1..2, ServerAnswers(g) PROVE ReadsHalf'
  <2> DEFINE q == IF cookie = Nobody THEN [get[g] EXCEPT !.at = "refused"]
                  ELSE [get[g] EXCEPT !.at = "answered", !.answer = cookie]
  <2>1. q \in Gets
    <3>1. get[g] \in Gets /\ get[g].at = "sent"
      BY <1>0, <1>10 DEF ServerAnswers
    <3> QED BY <3>1 DEF Gets
  <2>2. get' = [get EXCEPT ![g] = q]
    BY <1>10 DEF ServerAnswers
  <2> HIDE DEF q
  <2> QED BY <1>1, <1>10, <2>1, <2>2 DEF ServerAnswers
<1>11. ASSUME NEW g \in 1..2, ServerErrs(g) PROVE ReadsHalf'
  BY <1>0, <1>1, <1>11 DEF ServerErrs, Gets
<1>12. ASSUME NEW g \in 1..2, WorkerStores(g) PROVE ReadsHalf'
  <2>1. get' \in [1..2 -> Gets] /\ get[g].answer \in Answers
    BY <1>0, <1>12 DEF WorkerStores, Gets
  <2>2. get[g].via \in BOOLEAN /\ (get[g].answer \in out) \in BOOLEAN
    BY <1>0 DEF Gets
  <2>3. CASE get[g].via
    <3> DEFINE a == get[g].answer
    <3>1. late' = (a \in out) /\ copy' = a
      BY <1>12, <2>3 DEF WorkerStores
    <3>2. late' \in BOOLEAN /\ (copy' \in out => late')
      BY <3>1, SaysWhether
    <3>3. UNCHANGED <<banner, cookie, controlled, screen, label, forgetting, crossed, out>>
      BY <1>12 DEF WorkerStores
    <3>4. copy' \in Answers
      BY <2>1, <3>1
    <3> QED BY <2>1, <3>2, <3>3, <3>4
  <2>4. CASE ~get[g].via
    BY <1>12, <2>1, <2>4 DEF WorkerStores
  <2> QED BY <2>2, <2>3, <2>4
<1>13. ASSUME NEW g \in 1..2, WorkerFallsBack(g) PROVE ReadsHalf'
  <2> DEFINE q == IF get[g].via /\ copy # NoCopy
                  THEN [get[g] EXCEPT !.at = "back", !.answer = copy, !.copied = TRUE]
                  ELSE [get[g] EXCEPT !.at = "failed"]
  <2>1. q \in Gets
    <3>1. get[g] \in Gets /\ get[g].at = "sent"
      BY <1>0, <1>13 DEF WorkerFallsBack
    <3> QED BY <3>1 DEF Gets
  <2>2. get' = [get EXCEPT ![g] = q]
    BY <1>13 DEF WorkerFallsBack
  <2> HIDE DEF q
  <2> QED BY <1>1, <1>13, <2>1, <2>2 DEF WorkerFallsBack
\* What the page takes settles the query, fails it once or twice, or is of a request
\* that was given up on.
<1>14. ASSUME NEW g \in 1..2, PageTakes(g) PROVE ReadsHalf'
  <2> DEFINE e == get[g]
  <2>1. /\ e \in Gets /\ get' \in [1..2 -> Gets]
        /\ UNCHANGED <<cookie, controlled, copy, forgetting, out, late>>
        /\ e.at \in {"back", "refused", "failed"}
    BY <1>0, <1>14 DEF PageTakes
  <2>2. CASE ~e.current
    BY <1>14, <2>1, <2>2 DEF PageTakes, LabelOf, Reached, Gets
  <2>3. CASE e.current /\ e.at = "back"
    BY <1>14, <2>1, <2>3 DEF PageTakes, LabelOf, Reached, Gets
  <2>4. CASE e.current /\ e.at # "back" /\ e.again
    BY <1>14, <2>1, <2>4 DEF PageTakes, LabelOf, Reached, Gets
  <2>5. CASE e.current /\ e.at # "back" /\ ~e.again
    BY <1>14, <2>1, <2>5 DEF PageTakes, LabelOf, Reached, Gets
  <2> QED BY <2>2, <2>3, <2>4, <2>5
<1>15. ASSUME NEW g \in 1..2, NobodyTakes(g) PROVE ReadsHalf'
  BY <1>0, <1>1, <1>15 DEF NobodyTakes
<1> QED
  BY <1>2, <1>3, <1>4, <1>5, <1>6, <1>7, <1>8, <1>9, <1>10, <1>11, <1>12, <1>13, <1>14, <1>15
     DEF ReadsStep

LEMMA ShellStepHolds == ShellHalf /\ ShellStep => ShellHalf'
<1> SUFFICES ASSUME ShellHalf, ShellStep PROVE ShellHalf'
  OBVIOUS
<1> USE ServiceWorkerAssumption
<1> USE DEF ShellHalf, ShellHeld, NoLoad
<1>1. CASE Network
  BY <1>1 DEF Network
<1>2. CASE Deploy
  <2>1. build' \in 1..MaxBuilds
    BY <1>2 DEF Deploy
  <2> QED BY <1>2, <2>1 DEF Deploy
<1>3. CASE Register
  BY <1>3 DEF Register
<1>4. CASE InstallShell
  <2>1. shell' \in 0..MaxBuilds \cup {NoCopy}
    BY <1>4 DEF InstallShell
  <2> QED BY <1>4, <2>1 DEF InstallShell
<1>5. CASE InstallAssets
  BY <1>5 DEF InstallAssets, Precached
<1>6. CASE Navigate
  BY <1>6 DEF Navigate
<1>7. CASE LoadAssets
  BY <1>7 DEF LoadAssets
<1> QED BY <1>1, <1>2, <1>3, <1>4, <1>5, <1>6, <1>7 DEF ShellStep

LEMMA CopyInvKept ==
  /\ ReadsHalf /\ UNCHANGED readVars => ReadsHalf'
  /\ ShellHalf /\ UNCHANGED shellVars => ShellHalf'
BY DEF ReadsHalf, ReadsTyped, LabelTellsTruth, Labelled, CopyKeepsBar, SignOutForgets, Answers,
       ShellHalf, ShellHeld, readVars, banner, shellVars

\* A read leaves the shell alone, a step of the shell leaves the reads alone, and
\* every other focus leaves both.
LEMMA CopyMoves ==
  [Next]_vars => \/ ReadsStep /\ UNCHANGED shellVars
                 \/ ShellStep /\ UNCHANGED readVars
                 \/ UNCHANGED workerVars
<1>1. ReadsStep => UNCHANGED shellVars
  BY DEF ReadsStep, CookieEnds, PressSignOut, WorkerForgets, SignIn, SignOutEnds, OtherReached,
         Ask, AskAgain, ServerAnswers, ServerErrs, WorkerStores, WorkerFallsBack, PageTakes,
         NobodyTakes
<1>2. ShellStep => UNCHANGED readVars
  BY DEF ShellStep, Network, Deploy, Register, InstallShell, InstallAssets, Navigate, LoadAssets
<1>3. [Next]_vars => ReadsStep \/ ShellStep \/ UNCHANGED workerVars
  BY DEF Next, vars, CopyStep
<1> QED BY <1>1, <1>2, <1>3

\* The inductive invariant behind the next theorem: what is kept and shown of the
\* announcements, and that a shell is kept with its bundles.
THEOREM CopiesAlways == Spec => []CopyInv
<1>1. Init => CopyInv
  BY CopyInvInit DEF Init
<1>2. CopyInv /\ [Next]_vars => CopyInv'
  BY CopyMoves, ReadsStepHolds, ShellStepHolds, CopyInvKept DEF CopyInv, workerVars
<1> QED BY <1>1, <1>2, PTL DEF Spec

\* sw.js and api.ts: a copy is labelled and leaves the bar that says there is no
\* network, goes with whoever signs out, and the page that is kept starts
\* without the network, for any people and any number of builds and sign-outs.
THEOREM CopiesAlwaysHold == Spec => []CopiesHold
<1>1. CopyInv => CopiesHold
  <2> SUFFICES ASSUME CopyInv PROVE CopiesHold
    OBVIOUS
  <2>1. WorkerTypeOK
    BY DEF CopyInv, ReadsHalf, ReadsTyped, Gets, ShellHalf, WorkerTypeOK, Answers
  <2>2. StartsOffline
    BY DEF CopyInv, ShellHalf, ShellHeld, StartsOffline
  <2> QED BY <2>1, <2>2 DEF CopyInv, ReadsHalf, CopiesHold
<1> QED BY <1>1, CopiesAlways, PTL

-----------------------------------------------------------------------------
(* Sockets.                                                                *)

\* Any sequence, whatever it is of.
IsSequence(q) == q \in Seq({q[i] : i \in DOMAIN q})

\* A socket, whatever came over it.
IsSocket(x) ==
  /\ x = [run |-> x.run, client |-> x.client, server |-> x.server, up |-> x.up,
          wire |-> x.wire, early |-> x.early]
  /\ x.run \in Nat /\ x.up \in BOOLEAN /\ x.early \in BOOLEAN
  /\ x.client \in {"connecting", "open", "closing", "closed", "refused"}
  /\ x.server \in {"none", "lookup", "hub", "gone"}

\* The socket in use is of the run that is mounted, and there is one; a socket
\* that is being closed was closed by its own run.
SocketsOfRun ==
  \A s \in DOMAIN sock :
    /\ sock[s].run \in 1..run
    /\ Using(s) => sock[s].run = run /\ mounted
    /\ sock[s].client = "closing" => ClosedByUs(sock[s].run)
    /\ sock[s].server = "hub" /\ ~sock[s].up => sock[s].early

OneUsed == \A s, t \in DOMAIN sock : Using(s) /\ Using(t) => s = t

NoneUsed == \A s \in DOMAIN sock : ~Using(s)

\* A retry is of the run that is mounted, and comes after its socket has gone.
RetryOfRun == timer \subseteq {run} /\ (timer # {} => mounted /\ NoneUsed)

\* A run whose session was refused has nothing left.
RefusedIsOver ==
  \A t \in DOMAIN sock :
    sock[t].client = "refused" /\ sock[t].run = run /\ mounted => timer = {} /\ NoneUsed

SocketInv ==
  /\ run \in 0..MaxRuns /\ mounted \in BOOLEAN /\ session \in BOOLEAN
  /\ mounted => run >= 1
  /\ IsSequence(sock) /\ \A s \in DOMAIN sock : IsSocket(sock[s])
  /\ SocketsOfRun /\ OneUsed /\ RetryOfRun /\ RefusedIsOver

LEMMA SameLength ==
  ASSUME NEW q, IsSequence(q), NEW f, f = [i \in DOMAIN q |-> f[i]]
  PROVE  IsSequence(f) /\ DOMAIN f = DOMAIN q
<1>1. Len(q) \in Nat /\ DOMAIN q = 1..Len(q)
  BY DEF IsSequence
<1>2. DOMAIN f = DOMAIN q
  OBVIOUS
<1>3. f \in [1..Len(q) -> {f[i] : i \in DOMAIN f}]
  BY <1>1, <1>2
<1> QED BY <1>1, <1>2, <1>3 DEF IsSequence

LEMMA OneLonger ==
  ASSUME NEW q, IsSequence(q), NEW x
  PROVE  /\ IsSequence(Append(q, x))
         /\ DOMAIN Append(q, x) = DOMAIN q \cup {Len(q) + 1}
         /\ Len(q) + 1 \notin DOMAIN q
         /\ Append(q, x)[Len(q) + 1] = x
         /\ \A i \in DOMAIN q : Append(q, x)[i] = q[i]
<1> DEFINE T == {q[i] : i \in DOMAIN q} \cup {x}
<1>1. q \in Seq(T) /\ x \in T
  BY DEF IsSequence
<1> HIDE DEF T
<1>2. /\ Len(q) \in Nat /\ DOMAIN q = 1..Len(q)
      /\ DOMAIN Append(q, x) = 1..(Len(q) + 1)
      /\ Append(q, x)[Len(q) + 1] = x
      /\ \A i \in 1..Len(q) : Append(q, x)[i] = q[i]
      /\ Append(q, x) \in Seq(T) /\ Len(Append(q, x)) = Len(q) + 1
  BY <1>1
<1>3. Append(q, x) = [i \in 1..(Len(q) + 1) |-> Append(q, x)[i]]
  <2> DEFINE a == Append(q, x)
  <2>1. a \in Seq(T) /\ Len(a) = Len(q) + 1
    BY <1>2
  <2> HIDE DEF a
  <2>2. a \in [1..(Len(q) + 1) -> T]
    BY <2>1, LenProperties
  <2>3. a = [i \in 1..(Len(q) + 1) |-> a[i]]
    BY <2>2
  <2> QED BY <2>3 DEF a
<1>4. IsSequence(Append(q, x))
  <2> DEFINE a == Append(q, x)
  <2>1. Len(q) + 1 \in Nat /\ DOMAIN a = 1..(Len(q) + 1) /\ a = [i \in 1..(Len(q) + 1) |-> a[i]]
    BY <1>2, <1>3
  <2> HIDE DEF a
  <2>2. a \in [1..(Len(q) + 1) -> {a[i] : i \in DOMAIN a}]
    BY <2>1
  <2>3. IsSequence(a)
    BY <2>1, <2>2 DEF IsSequence
  <2> QED BY <2>3 DEF a
<1> QED BY <1>2, <1>4

LEMMA SocketInvInit == SocketInit => SocketInv
<1> SUFFICES ASSUME SocketInit PROVE SocketInv
  OBVIOUS
<1>1. /\ run = 0 /\ mounted = FALSE /\ timer = {} /\ session = TRUE
      /\ sock = << >> /\ DOMAIN sock = {}
  BY DEF SocketInit
<1>2. IsSequence(sock)
  BY <1>1 DEF IsSequence
<1>3. 0 \in 0..MaxRuns
  BY RealtimeAssumption
<1> QED
  BY <1>1, <1>2, <1>3
     DEF SocketInv, SocketsOfRun, OneUsed, RetryOfRun, RefusedIsOver, NoneUsed

\* One socket changes, or each by itself; none comes or goes.
InPlace ==
  /\ sock' = [s \in DOMAIN sock |-> sock'[s]]
  /\ \A s \in DOMAIN sock : IsSocket(sock'[s]) /\ sock'[s].run = sock[s].run

CleanNext ==
  \A s \in DOMAIN sock : sock'[s].server = "hub" /\ ~sock'[s].up => sock'[s].early

\* What the server's end does, and what comes over the wire, is nothing to the
\* browser's runs; nor is it that a socket has opened.
FarEnd ==
  /\ InPlace /\ CleanNext
  /\ UNCHANGED <<run, mounted, timer>> /\ session' \in BOOLEAN
  /\ \A s \in DOMAIN sock :
       \/ sock'[s].client = sock[s].client
       \/ sock[s].client = "connecting" /\ sock'[s].client = "open"

LEMMA FarEndHolds == SocketInv /\ FarEnd => SocketInv' /\ DOMAIN sock' = DOMAIN sock
<1> SUFFICES ASSUME SocketInv, FarEnd PROVE SocketInv' /\ DOMAIN sock' = DOMAIN sock
  OBVIOUS
<1>1. IsSequence(sock)' /\ DOMAIN sock' = DOMAIN sock
  <2>1. IsSequence(sock) /\ sock' = [s \in DOMAIN sock |-> sock'[s]]
    BY DEF SocketInv, FarEnd, InPlace
  <2> QED BY <2>1, SameLength
<1>2. \A s \in DOMAIN sock : Using(s)' <=> Using(s)
  BY DEF FarEnd, Using
<1>3. SocketsOfRun'
  <2> SUFFICES ASSUME NEW s \in DOMAIN sock
               PROVE  /\ (sock[s].run \in 1..run)'
                      /\ (Using(s) => sock[s].run = run /\ mounted)'
                      /\ (sock[s].client = "closing" => ClosedByUs(sock[s].run))'
                      /\ (sock[s].server = "hub" /\ ~sock[s].up => sock[s].early)'
    BY <1>1 DEF SocketsOfRun
  <2>1. sock'[s].run = sock[s].run /\ UNCHANGED <<run, mounted>>
    BY DEF FarEnd, InPlace
  <2>2. sock'[s].client = "closing" => sock[s].client = "closing"
    BY DEF FarEnd
  <2> QED BY <1>2, <2>1, <2>2 DEF FarEnd, CleanNext, SocketInv, SocketsOfRun, ClosedByUs
<1>4. OneUsed' /\ (NoneUsed => NoneUsed')
  BY <1>1, <1>2 DEF SocketInv, OneUsed, NoneUsed
<1>5. RetryOfRun'
  BY <1>4 DEF SocketInv, RetryOfRun, FarEnd
<1>6. RefusedIsOver'
  <2>1. \A s \in DOMAIN sock : sock'[s].client = "refused" => sock[s].client = "refused"
    BY DEF FarEnd
  <2> QED BY <1>1, <1>4, <2>1 DEF SocketInv, RefusedIsOver, FarEnd, InPlace
<1> QED BY <1>1, <1>3, <1>4, <1>5, <1>6 DEF SocketInv, FarEnd, InPlace

\* No socket that is new is of a run whose session was refused.
NewOnesAllowed ==
  \A s \in DOMAIN sock' \ DOMAIN sock : \A t \in DOMAIN sock :
    sock[t].client = "refused" => sock'[s].run # sock[t].run

SocketChange ==
  \/ SocketStep \/ \E s \in DOMAIN sock : ClientOpens(s)
  \/ \E e : Publish(e) \/ \E s \in DOMAIN sock : Receive(s, e)

LEMMA GoneIsSocket ==
  ASSUME NEW y, IsSocket(y), NEW x, x = [y EXCEPT !.server = "gone", !.up = FALSE]
  PROVE  IsSocket(x) /\ x.run = y.run /\ x.client = y.client /\ x.server = "gone"
BY DEF IsSocket

LEMMA ClosingIsSocket ==
  ASSUME NEW y, IsSocket(y), NEW x, x = [y EXCEPT !.client = "closing", !.wire = <<>>]
  PROVE  /\ IsSocket(x) /\ x.run = y.run /\ x.client = "closing"
         /\ x.server = y.server /\ x.up = y.up /\ x.early = y.early
BY DEF IsSocket

LEMMA SocketInvStep == SocketInv /\ SocketChange => SocketInv' /\ NewOnesAllowed
<1> SUFFICES ASSUME SocketInv, SocketChange PROVE SocketInv' /\ NewOnesAllowed
  OBVIOUS
<1> USE RealtimeAssumption
<1>f. FarEnd => SocketInv' /\ NewOnesAllowed
  BY FarEndHolds DEF NewOnesAllowed
<1>i. /\ \A s \in DOMAIN sock : IsSocket(sock[s]) /\ sock[s].run \in Nat
      /\ sock = [s \in DOMAIN sock |-> sock[s]]
  BY DEF SocketInv, IsSequence, IsSocket
<1>c. \A s \in DOMAIN sock : sock[s].server = "hub" /\ ~sock[s].up => sock[s].early
  BY DEF SocketInv, SocketsOfRun
<1>1. ASSUME NEW s \in DOMAIN sock, ServerAccepts(s) PROVE FarEnd
  <2>1. /\ sock' = [i \in DOMAIN sock |-> sock'[i]]
        /\ \A i \in DOMAIN sock : i # s => sock'[i] = sock[i]
        /\ sock'[s] = [sock[s] EXCEPT !.server = "lookup", !.up = TRUE]
    BY <1>1 DEF ServerAccepts
  <2>2. IsSocket(sock'[s]) /\ sock'[s].run = sock[s].run /\ sock'[s].client = sock[s].client
        /\ sock'[s].server = "lookup"
    BY <1>i, <2>1 DEF IsSocket
  <2> QED BY <1>1, <1>i, <1>c, <2>1, <2>2 DEF FarEnd, InPlace, CleanNext, ServerAccepts, SocketInv
<1>2. ASSUME NEW s \in DOMAIN sock, ClientOpens(s) PROVE FarEnd
  <2>1. /\ sock' = [i \in DOMAIN sock |-> sock'[i]]
        /\ \A i \in DOMAIN sock : i # s => sock'[i] = sock[i]
        /\ sock'[s] = [sock[s] EXCEPT !.client = "open"]
        /\ sock[s].client = "connecting"
    BY <1>2 DEF ClientOpens
  <2>2. /\ IsSocket(sock'[s]) /\ sock'[s].run = sock[s].run /\ sock'[s].client = "open"
        /\ sock'[s].server = sock[s].server /\ sock'[s].up = sock[s].up
        /\ sock'[s].early = sock[s].early
    BY <1>i, <2>1 DEF IsSocket
  <2> QED BY <1>2, <1>i, <1>c, <2>1, <2>2 DEF FarEnd, InPlace, CleanNext, ClientOpens, SocketInv
<1>3. ASSUME NEW s \in DOMAIN sock, LookupAnswers(s) PROVE FarEnd
  <2>1. CASE session
    <3>1. /\ sock' = [i \in DOMAIN sock |-> sock'[i]]
          /\ \A i \in DOMAIN sock : i # s => sock'[i] = sock[i]
          /\ sock'[s] = [sock[s] EXCEPT !.server = "hub", !.early = ~sock[s].up]
      BY <1>3, <2>1 DEF LookupAnswers
    <3>2. /\ IsSocket(sock'[s]) /\ sock'[s].run = sock[s].run
          /\ sock'[s].client = sock[s].client /\ (~sock'[s].up => sock'[s].early)
      BY <1>i, <3>1 DEF IsSocket
    <3> QED BY <1>3, <1>i, <1>c, <3>1, <3>2 DEF FarEnd, InPlace, CleanNext, LookupAnswers, SocketInv
  <2>2. CASE ~session
    <3> DEFINE w == IF sock[s].client \in {"connecting", "open"}
                    THEN Append(sock[s].wire, Refusal) ELSE sock[s].wire
    <3>1. /\ sock' = [i \in DOMAIN sock |-> sock'[i]]
          /\ \A i \in DOMAIN sock : i # s => sock'[i] = sock[i]
          /\ sock'[s] = [sock[s] EXCEPT !.server = "gone", !.up = FALSE, !.wire = w]
      BY <1>3, <2>2, <1>i DEF LookupAnswers, IsSocket
    <3> HIDE DEF w
    <3>2. /\ IsSocket(sock'[s]) /\ sock'[s].run = sock[s].run
          /\ sock'[s].client = sock[s].client /\ sock'[s].server = "gone"
      BY <1>i, <3>1 DEF IsSocket
    <3> QED BY <1>3, <1>i, <1>c, <3>1, <3>2 DEF FarEnd, InPlace, CleanNext, LookupAnswers, SocketInv
  <2> QED BY <2>1, <2>2
<1>4. ASSUME NEW s \in DOMAIN sock, ServerCloses(s) PROVE FarEnd
  <2>1. /\ sock' = [i \in DOMAIN sock |-> sock'[i]]
        /\ \A i \in DOMAIN sock : i # s => sock'[i] = sock[i]
        /\ sock'[s] = [sock[s] EXCEPT !.up = FALSE, !.server = AfterClose(s)]
    BY <1>4 DEF ServerCloses
  <2>2. /\ AfterClose(s) \in {"none", "lookup", "gone"}
    BY <1>i DEF AfterClose, IsSocket
  <2> HIDE DEF AfterClose
  <2>3. IsSocket(sock'[s]) /\ sock'[s].run = sock[s].run /\ sock'[s].client = sock[s].client
        /\ sock'[s].server # "hub"
    BY <1>i, <2>1, <2>2 DEF IsSocket
  <2> QED BY <1>4, <1>i, <1>c, <2>1, <2>3 DEF FarEnd, InPlace, CleanNext, ServerCloses, SocketInv
<1>5. CASE ServerRestarts
  <2>1. sock' = [s \in DOMAIN sock |-> IF sock[s].server \in {"lookup", "hub"}
                   THEN [sock[s] EXCEPT !.server = "gone", !.up = FALSE] ELSE sock[s]]
    BY <1>5 DEF ServerRestarts
  <2>2. ASSUME NEW s \in DOMAIN sock
        PROVE  /\ IsSocket(sock'[s]) /\ sock'[s].run = sock[s].run
               /\ sock'[s].client = sock[s].client
               /\ sock'[s].server = "hub" /\ ~sock'[s].up => sock'[s].early
    <3> DEFINE x == [sock[s] EXCEPT !.server = "gone", !.up = FALSE]
    <3>1. IsSocket(x) /\ x.run = sock[s].run /\ x.client = sock[s].client /\ x.server = "gone"
      BY <1>i, GoneIsSocket
    <3>2. sock'[s] = x \/ sock'[s] = sock[s]
      BY <2>1
    <3> HIDE DEF x
    <3> QED BY <1>i, <1>c, <3>1, <3>2
  <2>3. sock' = [s \in DOMAIN sock |-> sock'[s]] /\ UNCHANGED <<run, mounted, timer, session>>
    BY <1>5, <2>1 DEF ServerRestarts
  <2>4. InPlace /\ CleanNext
    BY <2>2, <2>3 DEF InPlace, CleanNext
  <2>5. session' \in BOOLEAN
    BY <2>3 DEF SocketInv
  <2> QED BY <1>f, <2>2, <2>3, <2>4, <2>5 DEF FarEnd
<1>6. CASE SessionEnds
  <2>1. session' \in BOOLEAN /\ sock' = sock /\ UNCHANGED <<run, mounted, timer>>
    BY <1>6 DEF SessionEnds
  <2>2. InPlace /\ CleanNext
    BY <1>i, <1>c, <2>1 DEF InPlace, CleanNext
  <2> QED BY <1>f, <2>1, <2>2 DEF FarEnd
<1>7. ASSUME NEW e, Publish(e) PROVE FarEnd
  <2>1. sock' = [s \in DOMAIN sock |-> IF sock[s].server = "hub" /\ sock[s].up /\ Using(s)
                   THEN [sock[s] EXCEPT !.wire = Append(@, e)] ELSE sock[s]]
    BY <1>7 DEF Publish
  <2>2. ASSUME NEW s \in DOMAIN sock
        PROVE  /\ IsSocket(sock'[s]) /\ sock'[s].run = sock[s].run
               /\ sock'[s].client = sock[s].client
               /\ sock'[s].server = "hub" /\ ~sock'[s].up => sock'[s].early
    <3> DEFINE w == Append(sock[s].wire, e)
               x == [sock[s] EXCEPT !.wire = w]
    <3>1. sock'[s] = x \/ sock'[s] = sock[s]
      BY <1>i, <2>1 DEF IsSocket
    <3> HIDE DEF w
    <3>2. /\ IsSocket(x) /\ x.run = sock[s].run /\ x.client = sock[s].client
          /\ x.server = sock[s].server /\ x.up = sock[s].up /\ x.early = sock[s].early
      BY <1>i DEF IsSocket
    <3> HIDE DEF x
    <3> QED BY <1>i, <1>c, <3>1, <3>2
  <2>3. sock' = [s \in DOMAIN sock |-> sock'[s]] /\ UNCHANGED <<run, mounted, timer, session>>
    BY <1>7, <2>1 DEF Publish
  <2> QED BY <2>2, <2>3 DEF FarEnd, InPlace, CleanNext, SocketInv
<1>8. ASSUME NEW e, NEW s \in DOMAIN sock, Receive(s, e) PROVE FarEnd
  <2>1. /\ sock' = [i \in DOMAIN sock |-> sock'[i]]
        /\ \A i \in DOMAIN sock : i # s => sock'[i] = sock[i]
        /\ sock'[s] = [sock[s] EXCEPT !.wire = Tail(@)]
    BY <1>8 DEF Receive
  <2>2. /\ IsSocket(sock'[s]) /\ sock'[s].run = sock[s].run /\ sock'[s].client = sock[s].client
        /\ sock'[s].server = sock[s].server /\ sock'[s].up = sock[s].up
        /\ sock'[s].early = sock[s].early
    BY <1>i, <2>1 DEF IsSocket
  <2> QED BY <1>8, <1>i, <1>c, <2>1, <2>2 DEF FarEnd, InPlace, CleanNext, Receive, SocketInv
<1>o. ASSUME NEW r \in 1..run', sock' = Opened(r), run' \in Nat, run <= run',
             \A t \in DOMAIN sock : sock[t].client = "refused" => sock[t].run # r
      PROVE  /\ IsSequence(sock)' /\ \A s \in DOMAIN sock' : IsSocket(sock'[s])
             /\ DOMAIN sock' = DOMAIN sock \cup {Len(sock) + 1} /\ Len(sock) + 1 \notin DOMAIN sock
             /\ sock'[Len(sock) + 1] = New(r)
             /\ \A s \in DOMAIN sock : sock'[s] = sock[s]
             /\ NewOnesAllowed
  <2>1. IsSequence(sock) /\ sock' = Append(sock, New(r))
    BY <1>o DEF SocketInv, Opened
  <2>2. /\ IsSequence(sock') /\ DOMAIN sock' = DOMAIN sock \cup {Len(sock) + 1}
        /\ Len(sock) + 1 \notin DOMAIN sock
        /\ sock'[Len(sock) + 1] = New(r)
        /\ \A s \in DOMAIN sock : sock'[s] = sock[s]
    BY <2>1, OneLonger
  <2>3. IsSocket(New(r)) /\ New(r).run = r
    BY <1>o DEF New, IsSocket
  <2> QED BY <1>i, <1>o, <2>2, <2>3 DEF NewOnesAllowed
<1>9. CASE Mount
  <2>1. /\ ~mounted /\ run < MaxRuns /\ run' = run + 1 /\ mounted' = TRUE
        /\ sock' = Opened(run + 1) /\ UNCHANGED <<timer, session>>
    BY <1>9 DEF Mount
  <2>2. /\ run \in Nat /\ run' \in 0..MaxRuns /\ run' >= 1 /\ timer = {} /\ NoneUsed
        /\ \A t \in DOMAIN sock : sock[t].run <= run /\ sock[t].run \in Nat
    BY <2>1 DEF SocketInv, RetryOfRun, SocketsOfRun, NoneUsed
  <2> DEFINE n == Len(sock) + 1
  <2>3. /\ IsSequence(sock)' /\ \A s \in DOMAIN sock' : IsSocket(sock'[s])
        /\ DOMAIN sock' = DOMAIN sock \cup {n} /\ n \notin DOMAIN sock
        /\ sock'[n] = New(run + 1) /\ \A s \in DOMAIN sock : sock'[s] = sock[s]
        /\ NewOnesAllowed
    <3>1. /\ run + 1 \in 1..run' /\ sock' = Opened(run + 1) /\ run' \in Nat /\ run <= run'
          /\ \A t \in DOMAIN sock : sock[t].client = "refused" => sock[t].run # run + 1
      BY <2>1, <2>2
    <3> QED BY <3>1, <1>o
  <2>4. /\ sock'[n].run = run + 1 /\ sock'[n].client = "connecting" /\ sock'[n].server = "none"
    BY <2>3 DEF New
  <2> HIDE DEF n
  <2>5. \A s \in DOMAIN sock : ~Using(s)'
    BY <2>2, <2>3 DEF NoneUsed, Using
  <2>6. SocketsOfRun'
    BY <2>1, <2>2, <2>3, <2>4, <2>5 DEF SocketsOfRun, SocketInv, ClosedByUs
  <2>7. OneUsed' /\ RetryOfRun'
    BY <2>1, <2>2, <2>3, <2>5 DEF OneUsed, RetryOfRun
  <2>8. RefusedIsOver'
    BY <2>1, <2>2, <2>3, <2>4 DEF RefusedIsOver
  <2> QED BY <2>1, <2>2, <2>3, <2>6, <2>7, <2>8 DEF SocketInv
<1>10. CASE Unmount
  <2>1. /\ mounted /\ mounted' = FALSE /\ timer' = timer \ {run} /\ UNCHANGED <<run, session>>
        /\ sock' = [s \in DOMAIN sock |-> IF sock[s].run = run /\ Using(s)
                      THEN [sock[s] EXCEPT !.client = "closing", !.wire = <<>>] ELSE sock[s]]
    BY <1>10 DEF Unmount
  <2>2. timer' = {}
    BY <2>1 DEF SocketInv, RetryOfRun
  <2>3. ASSUME NEW s \in DOMAIN sock
        PROVE  /\ IsSocket(sock'[s]) /\ sock'[s].run = sock[s].run
               /\ ~Using(s)'
               /\ sock'[s].server = "hub" /\ ~sock'[s].up => sock'[s].early
    <3> DEFINE x == [sock[s] EXCEPT !.client = "closing", !.wire = <<>>]
    <3>1. /\ IsSocket(x) /\ x.run = sock[s].run /\ x.client = "closing"
          /\ x.server = sock[s].server /\ x.up = sock[s].up /\ x.early = sock[s].early
      BY <1>i, ClosingIsSocket
    <3>2. sock'[s] = x \/ (sock'[s] = sock[s] /\ ~Using(s))
      BY <2>1 DEF SocketInv, SocketsOfRun
    <3> HIDE DEF x
    <3> QED BY <1>i, <1>c, <3>1, <3>2 DEF Using
  <2>4. IsSequence(sock)' /\ DOMAIN sock' = DOMAIN sock
    <3>1. IsSequence(sock) /\ sock' = [s \in DOMAIN sock |-> sock'[s]]
      BY <2>1 DEF SocketInv
    <3> QED BY <3>1, SameLength
  <2>5. SocketsOfRun'
    BY <2>1, <2>3, <2>4 DEF SocketInv, SocketsOfRun, ClosedByUs
  <2>6. OneUsed' /\ RetryOfRun' /\ RefusedIsOver'
    BY <2>1, <2>2, <2>3, <2>4 DEF OneUsed, RetryOfRun, RefusedIsOver
  <2> QED BY <2>1, <2>3, <2>4, <2>5, <2>6 DEF SocketInv, NewOnesAllowed
<1>11. ASSUME NEW r \in timer, TimerFires(r) PROVE SocketInv' /\ NewOnesAllowed
  <2>1. /\ r = run /\ mounted /\ NoneUsed /\ run \in Nat /\ run >= 1 /\ ~ClosedByUs(r)
    BY DEF SocketInv, RetryOfRun, ClosedByUs
  <2>2. timer' = {} /\ sock' = Opened(run) /\ UNCHANGED <<run, mounted, session>>
    BY <1>11, <2>1 DEF TimerFires, SocketInv, RetryOfRun
  <2>3. /\ \A t \in DOMAIN sock : sock[t].client = "refused" => sock[t].run # run
    BY <2>1 DEF SocketInv, RefusedIsOver
  <2> DEFINE n == Len(sock) + 1
  <2>4. /\ IsSequence(sock)' /\ \A s \in DOMAIN sock' : IsSocket(sock'[s])
        /\ DOMAIN sock' = DOMAIN sock \cup {n} /\ n \notin DOMAIN sock
        /\ sock'[n] = New(run) /\ \A s \in DOMAIN sock : sock'[s] = sock[s]
        /\ NewOnesAllowed
    <3>1. /\ run \in 1..run' /\ sock' = Opened(run) /\ run' \in Nat /\ run <= run'
          /\ \A t \in DOMAIN sock : sock[t].client = "refused" => sock[t].run # run
      BY <2>1, <2>2, <2>3
    <3> QED BY <3>1, <1>o
  <2>5. /\ sock'[n].run = run /\ sock'[n].client = "connecting" /\ sock'[n].server = "none"
    BY <2>4 DEF New
  <2> HIDE DEF n
  <2>6. \A s \in DOMAIN sock : ~Using(s)'
    BY <2>1, <2>4 DEF NoneUsed, Using
  <2>7. SocketsOfRun'
    BY <2>1, <2>2, <2>4, <2>5, <2>6 DEF SocketsOfRun, SocketInv, ClosedByUs
  <2>8. OneUsed' /\ RetryOfRun'
    BY <2>2, <2>4, <2>6 DEF OneUsed, RetryOfRun
  <2>9. RefusedIsOver'
    BY <2>2, <2>3, <2>4, <2>5 DEF RefusedIsOver
  <2> QED BY <2>1, <2>2, <2>4, <2>7, <2>8, <2>9 DEF SocketInv
<1>12. ASSUME NEW s \in DOMAIN sock, ClientCloses(s) PROVE SocketInv' /\ NewOnesAllowed
  <2>1. /\ sock' = [i \in DOMAIN sock |-> sock'[i]]
        /\ \A i \in DOMAIN sock : i # s => sock'[i] = sock[i]
        /\ sock'[s] = [sock[s] EXCEPT !.client = "closed", !.wire = <<>>]
        /\ timer' = Retry(s) /\ UNCHANGED <<run, mounted, session>>
        /\ sock[s].client \in {"connecting", "open", "closing"}
    BY <1>12 DEF ClientCloses
  <2>2. /\ IsSocket(sock'[s]) /\ sock'[s].run = sock[s].run /\ sock'[s].client = "closed"
        /\ sock'[s].server = sock[s].server /\ sock'[s].up = sock[s].up
        /\ sock'[s].early = sock[s].early
    BY <1>i, <2>1 DEF IsSocket
  <2>3. IsSequence(sock)' /\ DOMAIN sock' = DOMAIN sock
    BY <2>1, SameLength DEF SocketInv
  <2>4. /\ \A i \in DOMAIN sock : i # s => (Using(i)' <=> Using(i))
        /\ ~Using(s)'
    BY <2>1, <2>2 DEF Using
  <2>5. SocketsOfRun'
    BY <2>1, <2>2, <2>3, <2>4 DEF SocketInv, SocketsOfRun, ClosedByUs
  <2>6. OneUsed' /\ (NoneUsed => NoneUsed') /\ (Using(s) => NoneUsed')
    BY <2>3, <2>4 DEF SocketInv, OneUsed, NoneUsed
  <2>7. CASE Using(s) /\ ~ClosedByUs(sock[s].run)
    <3>1. sock[s].run = run /\ mounted
      BY <2>7 DEF SocketInv, SocketsOfRun
    <3>2. timer' \subseteq {run}
      BY <2>1, <2>7, <3>1 DEF Retry, SocketInv, RetryOfRun
    <3>3. \A t \in DOMAIN sock : ~(sock[t].client = "refused" /\ sock[t].run = run)
      BY <2>7, <3>1 DEF SocketInv, RefusedIsOver, NoneUsed
    <3>4. RefusedIsOver'
      BY <2>1, <2>2, <2>3, <3>3 DEF RefusedIsOver
    <3> QED BY <1>i, <2>1, <2>2, <2>3, <2>5, <2>6, <2>7, <3>1, <3>2, <3>4
            DEF SocketInv, RetryOfRun, NewOnesAllowed
  <2>8. CASE ~Using(s) \/ ClosedByUs(sock[s].run)
    <3>1. timer' = timer
      BY <2>1, <2>8 DEF Retry, Using, SocketInv, SocketsOfRun
    <3>2. RetryOfRun' /\ RefusedIsOver'
      BY <2>1, <2>2, <2>3, <2>6, <3>1 DEF SocketInv, RetryOfRun, RefusedIsOver
    <3> QED BY <1>i, <2>1, <2>2, <2>3, <2>5, <2>6, <3>2 DEF SocketInv, NewOnesAllowed
  <2> QED BY <2>7, <2>8
<1>13. ASSUME NEW s \in DOMAIN sock, ClientRefused(s) PROVE SocketInv' /\ NewOnesAllowed
  <2>1. /\ sock' = [i \in DOMAIN sock |-> sock'[i]]
        /\ \A i \in DOMAIN sock : i # s => sock'[i] = sock[i]
        /\ sock'[s] = [sock[s] EXCEPT !.client = "refused", !.wire = <<>>]
        /\ timer' = timer /\ UNCHANGED <<run, mounted, session>>
        /\ sock[s].client = "open"
    BY <1>13 DEF ClientRefused, NoRetry
  <2>2. /\ IsSocket(sock'[s]) /\ sock'[s].run = sock[s].run /\ sock'[s].client = "refused"
        /\ sock'[s].server = sock[s].server /\ sock'[s].up = sock[s].up
        /\ sock'[s].early = sock[s].early
    BY <1>i, <2>1 DEF IsSocket
  <2>3. IsSequence(sock)' /\ DOMAIN sock' = DOMAIN sock
    BY <2>1, SameLength DEF SocketInv
  <2>4. /\ \A i \in DOMAIN sock : i # s => (Using(i)' <=> Using(i))
        /\ ~Using(s)' /\ Using(s)
    BY <2>1, <2>2 DEF Using
  <2>5. SocketsOfRun'
    BY <2>1, <2>2, <2>3, <2>4 DEF SocketInv, SocketsOfRun, ClosedByUs
  <2>6. OneUsed' /\ NoneUsed' /\ timer = {}
    BY <2>3, <2>4 DEF SocketInv, OneUsed, NoneUsed, RetryOfRun
  <2>7. RetryOfRun' /\ RefusedIsOver'
    BY <2>1, <2>6 DEF RetryOfRun, RefusedIsOver
  <2> QED BY <1>i, <2>1, <2>2, <2>3, <2>5, <2>6, <2>7 DEF SocketInv, NewOnesAllowed
<1> QED
  BY <1>f, <1>1, <1>2, <1>3, <1>4, <1>5, <1>6, <1>7, <1>8, <1>9, <1>10, <1>11, <1>12, <1>13
     DEF SocketChange, SocketStep

-----------------------------------------------------------------------------
(* What each focus does with the socket.                                   *)

LEMMA QueriesLeaveSocket == QueryStep \/ MarkStep \/ PageStep \/ Join \/ BoxStep => UNCHANGED socketVars
BY DEF QueryStep, AnswerLog, TakeLog, LogFails, ListFails, AnswerList, TakeList, MarkStep, SendMark,
       MarkAnswered, MarkLost, MarkUnheard, PageStep, OpenPage, ClosePage, Arrive, Join, BoxStep, Type,
       Submit, PostSucceeds, PostFails, PostCommits

LEMMA EventsUseSocket == EventStep => SocketChange \/ UNCHANGED socketVars
BY DEF EventStep, PublishMessage, MessageArrives, SocketChange

LEMMA OthersUseSocket == OthersStep => SocketChange \/ UNCHANGED socketVars
BY EventsUseSocket DEF OthersStep, OtherCommits

LEMMA CallsUseSocket == RingStep => SocketChange \/ UNCHANGED socketVars
BY DEF RingStep, OtherStarts, OpenConversation, OtherLeaves, StartArrives, EndArrives,
       PublishCall, AnswerPanel, TakePanel, Dismiss, SocketChange

LEMMA EntriesLeaveSocket ==
  EntryStep \/ PressStep \/ FramingChangesMeanwhile \/ (\E k \in CallIds : SweepEnds(k)) =>
    UNCHANGED socketVars
BY DEF EntryStep, PressStep, PressAnswer, PressGo, Press, TakeFraming, FrameRefused, PressLeave,
       ServerLeaves, LeaveSucceeds, LeaveFails, ServerJoins, ServerStarts, EntryDecides,
       EntrySettles, EntryFails, OtherJoins, FramingChangesMeanwhile, FramingChanges, SweepEnds

LEMMA ConnectingUsesSocket == Connecting \/ Losing => SocketChange
BY DEF Connecting, Losing, SocketChange, SocketStep

LEMMA SocketMoves == [Next]_vars => SocketChange \/ UNCHANGED socketVars
<1> SUFFICES ASSUME [Next]_vars PROVE SocketChange \/ UNCHANGED socketVars
  OBVIOUS
<1> USE QueriesLeaveSocket, EventsUseSocket, OthersUseSocket, CallsUseSocket,
        EntriesLeaveSocket, ConnectingUsesSocket
<1>1. CASE SocketsStep
  BY <1>1 DEF SocketsStep, SocketChange
<1>2. CASE DeliveryStep
  BY <1>2 DEF DeliveryStep, SocketChange
<1>3. CASE ReadingStep
  BY <1>3 DEF ReadingStep, SocketChange, OthersStep
<1>4. CASE WritingStep
  BY <1>4 DEF WritingStep, SocketChange
<1>5. CASE RingingStep
  BY <1>5 DEF RingingStep, SocketChange
<1>6. CASE EnteringStep
  BY <1>6 DEF EnteringStep, SocketChange
<1>7. \/ SocketsStep \/ DeliveryStep \/ ReadingStep \/ WritingStep \/ RingingStep
      \/ EnteringStep \/ UNCHANGED socketVars
  BY DEF Next, vars
<1> QED BY <1>1, <1>2, <1>3, <1>4, <1>5, <1>6, <1>7

LEMMA SocketInvKept == SocketInv /\ UNCHANGED socketVars => SocketInv' /\ NewOnesAllowed
BY DEF SocketInv, IsSequence, SocketsOfRun, OneUsed, RetryOfRun, RefusedIsOver, NoneUsed, Using,
       ClosedByUs, NewOnesAllowed, socketVars

\* The inductive invariant behind the next theorem: the socket in use is of the
\* run that is mounted, and a retry only comes when it has gone.
THEOREM SocketsAlways == Spec => []SocketInv /\ [][NewOnesAllowed]_socketVars
<1>1. Init => SocketInv
  BY SocketInvInit DEF Init
<1>2. SocketInv /\ [Next]_vars => SocketInv' /\ [NewOnesAllowed]_socketVars
  BY SocketMoves, SocketInvStep, SocketInvKept
<1> QED BY <1>1, <1>2, PTL DEF Spec

\* useRealtime and the hub: through any interleaving of runs of the effect, close
\* events, retries and restarts of the server one socket at most is open, the
\* hub holds none it knows to be closed but for one that closed during the
\* lookup, and a run whose session was refused opens no other.
THEOREM SocketsAlwaysHold == Spec => SocketsHold
<1>1. SocketInv => SocketTypeOK /\ OneSocket /\ RegistryClean
  <2> SUFFICES ASSUME SocketInv PROVE SocketTypeOK /\ OneSocket /\ RegistryClean
    OBVIOUS
  <2>1. SocketTypeOK
    BY DEF SocketInv, SocketTypeOK, SocketsOfRun, RetryOfRun, IsSocket
  <2>2. OneSocket
    <3> DEFINE U == {s \in DOMAIN sock : Using(s)}
    <3>1. CASE U = {}
      <4>1. Cardinality(U) = 0
        BY <3>1, FS_EmptySet
      <4> QED BY <4>1 DEF OneSocket
    <3>2. CASE U # {}
      <4>1. PICK s \in U : U = {s}
        BY <3>2 DEF SocketInv, OneUsed
      <4>2. Cardinality(U) = 1
        BY <4>1, FS_Singleton
      <4> QED BY <4>2 DEF OneSocket
    <3> QED BY <3>1, <3>2
  <2>3. RegistryClean
    BY DEF SocketInv, SocketsOfRun, RegistryClean
  <2> QED BY <2>1, <2>2, <2>3
<1>2. NewOnesAllowed <=> \A s \in DOMAIN sock' \ DOMAIN sock : \A t \in DOMAIN sock :
        sock[t].client = "refused" => sock'[s].run # sock[t].run
  BY DEF NewOnesAllowed
<1> QED BY <1>1, <1>2, SocketsAlways, PTL DEF SocketsHold, RefusedStaysAway

-----------------------------------------------------------------------------
(* Writing.                                                                *)

IsPost(p) ==
  /\ p = [n |-> p.n, text |-> p.text, id |-> p.id]
  /\ p.text \in 1..box.typed /\ p.id \in Nat

BoxTyped ==
  /\ box \in [text : Nat, typed : Nat] /\ box.text \in {0, box.typed}
  /\ \A p \in posts : IsPost(p)
  /\ fate \in [wiped : SUBSET Nat, overlapped : SUBSET Nat, again : SUBSET Nat,
               said : SUBSET (1..box.typed), twice : SUBSET Nat]

\* What is in the box is what is being sent, or was typed over it; and a box that
\* was cleared with the last text still on its way was cleared by that text.
BoxFollowsPosts ==
  \A p \in posts :
    /\ p.id # 0 => p.text \in fate.said
    /\ box.text \in {0, p.text} \cup fate.overlapped
    /\ box.text = 0 /\ box.typed = p.text => p.text \in fate.said \cup fate.overlapped

\* A text that was said and can be sent once more is one that is known to be
\* submitted again.
SaidOnceMore ==
  /\ \A p \in posts : p.id = 0 /\ p.text \in fate.said => p.text \in fate.again
  /\ \A p, q \in posts : p.text = q.text /\ p # q => p.text \in fate.again
  /\ box.text \in fate.said \ fate.again =>
       \E p \in posts : p.id # 0 /\ p.text = box.text

WritingInv == BoxTyped /\ BoxFollowsPosts /\ SaidOnceMore /\ WritingHolds

LEMMA WritingInvInit == ConversationInit => WritingInv
BY DEF ConversationInit, WritingInv, BoxTyped, IsPost, BoxFollowsPosts, SaidOnceMore, WritingHolds,
       WipedOnlyOverlapped, TwiceOnlyAgain

LEMMA WritingInvStep == WritingInv /\ BoxStep => WritingInv'
<1> SUFFICES ASSUME WritingInv, BoxStep PROVE WritingInv'
  OBVIOUS
<1> USE DEF WritingHolds, WipedOnlyOverlapped, TwiceOnlyAgain
<1>1. CASE Type
  <2>1. /\ box' = [text |-> box.typed + 1, typed |-> box.typed + 1] /\ posts' = posts
        /\ fate' = [fate EXCEPT !.overlapped =
                      IF posts = {} THEN @ ELSE @ \cup {box.typed + 1}]
    BY <1>1 DEF Type, WritingInv, BoxTyped
  <2>2. BoxTyped'
    BY <2>1 DEF WritingInv, BoxTyped, IsPost
  <2>3. BoxFollowsPosts' /\ SaidOnceMore' /\ WritingHolds'
    BY <2>1 DEF WritingInv, BoxTyped, IsPost, BoxFollowsPosts, SaidOnceMore
  <2> QED BY <2>2, <2>3 DEF WritingInv
<1>2. ASSUME NEW byKeys \in BOOLEAN, Submit(byKeys) PROVE WritingInv'
  <2> DEFINE new == [n |-> 1 + Cardinality(posts), text |-> box.text, id |-> 0]
  <2> HIDE DEF new
  <2>1. /\ box.text # 0 /\ box' = box /\ posts' = posts \cup {new}
        /\ (posts # {} => byKeys)
        /\ fate' = [fate EXCEPT !.again =
             IF byKeys /\ \E p \in posts : p.text = box.text THEN @ \cup {box.text} ELSE @]
    BY <1>2 DEF Submit, ButtonEnabled, BoxAfterSubmit, WritingInv, BoxTyped, new
  <2>2. new.text = box.text /\ new.id = 0 /\ IsPost(new)
    BY <2>1 DEF new, WritingInv, BoxTyped, IsPost
  <2>3. BoxTyped' /\ BoxFollowsPosts' /\ WritingHolds'
    BY <2>1, <2>2 DEF WritingInv, BoxTyped, IsPost, BoxFollowsPosts
  <2>4. SaidOnceMore'
    BY <2>1, <2>2 DEF WritingInv, BoxTyped, IsPost, BoxFollowsPosts, SaidOnceMore
  <2> QED BY <2>3, <2>4 DEF WritingInv
<1>3. ASSUME NEW p \in posts, PostSucceeds(p) PROVE WritingInv'
  <2>1. /\ p.id # 0 /\ posts' = posts \ {p}
        /\ box' = [text |-> 0, typed |-> box.typed]
        /\ fate' = [fate EXCEPT !.wiped =
             IF box.text \in fate.said \cup {0} THEN @ ELSE @ \cup {box.text}]
    BY <1>3 DEF PostSucceeds, WritingInv, BoxTyped
  <2>2. BoxTyped' /\ BoxFollowsPosts' /\ WritingHolds'
    BY <2>1 DEF WritingInv, BoxTyped, IsPost, BoxFollowsPosts
  <2>3. SaidOnceMore'
    BY <2>1 DEF WritingInv, BoxTyped, IsPost, BoxFollowsPosts, SaidOnceMore
  <2> QED BY <2>2, <2>3 DEF WritingInv
<1>4. ASSUME NEW p \in posts, PostFails(p) PROVE WritingInv'
  <2>1. /\ posts' = posts \ {p} /\ box' = box
        /\ fate' = [fate EXCEPT
             !.again = IF p.id # 0 THEN @ \cup {p.text} ELSE @,
             !.wiped = IF box.text = 0 /\ box.typed = p.text /\ p.text \notin fate.said
                       THEN @ \cup {p.text} ELSE @]
    BY <1>4 DEF PostFails
  <2>2. BoxTyped'
    <3>1. p.text \in Nat
      BY DEF WritingInv, BoxTyped, IsPost
    <3>2. fate' \in [wiped : SUBSET Nat, overlapped : SUBSET Nat, again : SUBSET Nat,
                     said : SUBSET (1..box.typed), twice : SUBSET Nat]
      BY <2>1, <3>1 DEF WritingInv, BoxTyped
    <3> QED BY <2>1, <3>2 DEF WritingInv, BoxTyped, IsPost
  <2>b. BoxFollowsPosts'
    BY <2>1 DEF WritingInv, BoxTyped, BoxFollowsPosts
  <2>w. WritingHolds'
    <3>1. fate'.overlapped = fate.overlapped /\ fate'.twice = fate.twice
          /\ fate.again \subseteq fate'.again
      BY <2>1 DEF WritingInv, BoxTyped
    <3>2. fate'.wiped \subseteq fate.wiped \cup fate.overlapped
      <4>1. /\ IsPost(p)
            /\ box.text = 0 /\ box.typed = p.text => p.text \in fate.said \cup fate.overlapped
        BY DEF WritingInv, BoxTyped, BoxFollowsPosts
      <4> QED BY <2>1, <4>1 DEF WritingInv, BoxTyped
    <3> QED BY <3>1, <3>2 DEF WritingInv
  <2>3. SaidOnceMore'
    BY <2>1 DEF WritingInv, BoxTyped, IsPost, BoxFollowsPosts, SaidOnceMore
  <2> QED BY <2>2, <2>b, <2>w, <2>3 DEF WritingInv
<1>5. ASSUME NEW p \in posts, NEW i \in Ids, PostCommits(p, i) PROVE WritingInv'
  <2> DEFINE sent == [p EXCEPT !.id = i]
  <2>1. /\ p.id = 0 /\ box' = box /\ posts' = (posts \ {p}) \cup {sent}
        /\ fate' = [fate EXCEPT !.said = @ \cup {p.text},
             !.twice = IF p.text \in fate.said THEN @ \cup {p.text} ELSE @]
    BY <1>5 DEF PostCommits
  <2>2. sent.text = p.text /\ sent.id # 0 /\ IsPost(sent)
    BY DEF Ids, WritingInv, BoxTyped, IsPost
  <2> HIDE DEF sent
  <2>3. BoxTyped' /\ BoxFollowsPosts' /\ WritingHolds'
    BY <2>1, <2>2 DEF WritingInv, BoxTyped, IsPost, BoxFollowsPosts, SaidOnceMore
  <2>4. SaidOnceMore'
    BY <2>1, <2>2 DEF WritingInv, BoxTyped, IsPost, BoxFollowsPosts, SaidOnceMore
  <2> QED BY <2>3, <2>4 DEF WritingInv
<1> QED BY <1>1, <1>2, <1>3, <1>4, <1>5 DEF BoxStep

LEMMA WritingInvKept == WritingInv /\ UNCHANGED boxVars => WritingInv'
BY DEF WritingInv, BoxTyped, IsPost, BoxFollowsPosts, SaidOnceMore, WritingHolds,
       WipedOnlyOverlapped, TwiceOnlyAgain, boxVars

\* Only the box and what is posted from it change the box.
LEMMA OthersLeaveBox ==
  QueryStep \/ OthersStep \/ PageStep \/ MarkStep \/ Join \/ ConversationReopens
    => UNCHANGED boxVars
BY DEF QueryStep, AnswerLog, TakeLog, LogFails, ListFails, AnswerList, TakeList,
       OthersStep, EventStep, PublishMessage, MessageArrives, OtherCommits,
       PageStep, OpenPage, ClosePage, Arrive, MarkStep, SendMark, MarkAnswered, MarkLost, MarkUnheard,
       Join, ConversationReopens

LEMMA WritingMoves == [Next]_vars => BoxStep \/ UNCHANGED boxVars
<1> SUFFICES ASSUME [Next]_vars PROVE BoxStep \/ UNCHANGED boxVars
  OBVIOUS
<1>1. UNCHANGED conversationVars => UNCHANGED boxVars
  BY DEF conversationVars, boxVars
<1>2. CASE UNCHANGED vars
  BY <1>1, <1>2 DEF vars
<1>3. CASE DeliveryStep \/ ReadingStep
  BY <1>1, <1>3, OthersLeaveBox DEF DeliveryStep, ReadingStep, OthersStep
<1>4. CASE WritingStep
  BY <1>1, <1>4, OthersLeaveBox DEF WritingStep, OthersStep
<1> QED BY <1>1, <1>2, <1>3, <1>4 DEF Next

\* The inductive invariant behind the next theorem: what is in the box follows from
\* what is on its way.
THEOREM WritingAlways == Spec => []WritingInv
<1>1. Init => WritingInv
  BY WritingInvInit DEF Init
<1>2. WritingInv /\ [Next]_vars => WritingInv'
  BY WritingMoves, WritingInvStep, WritingInvKept
<1> QED BY <1>1, <1>2, PTL DEF Spec

\* The composer: a text is neither lost from the box nor sent twice, however many
\* are typed and whichever answers are lost, unless it was typed or submitted
\* while another was on its way.
THEOREM WritingAlwaysHolds == Spec => []WritingHolds
<1>1. WritingInv => WritingHolds
  BY DEF WritingInv
<1> QED BY <1>1, WritingAlways, PTL

-----------------------------------------------------------------------------
(* Calls on the screen.                                                    *)

CallRecord == [channel : Channels, by : {"me", "other"}, live : BOOLEAN, swept : BOOLEAN,
               me : BOOLEAN, others : BOOLEAN]

KnownCalls == 0..Len(calls)

ServerShape ==
  /\ calls \in Seq(CallRecord) /\ Len(calls) <= MaxCalls /\ framing \in BOOLEAN
  /\ exists \subseteq Channels /\ \A k \in DOMAIN calls : calls[k].channel \in exists

ScreenShape ==
  /\ ring \in KnownCalls /\ panel \in KnownCalls
  /\ at \in Channels \cup {NoChannel} /\ listed \subseteq exists /\ expected \in BOOLEAN
  /\ panelQuery \in [at : {"idle", "asked", "answered"}, live : KnownCalls]
  /\ panel # 0 => calls[panel].channel = at
  /\ panelQuery.at = "answered" /\ panelQuery.live # 0 => calls[panelQuery.live].channel = at
  /\ ShownIsListed

\* An entry is into a conversation that exists; it has a window or was refused one,
\* unless a frame was expected, and once it is decided the window is not blank.
EntryHolds(x, known, there) ==
  /\ x \in [at : {"no", "asked", "answered", "entered"}, channel : Channels \cup {NoChannel},
            call : known, window : {"none", "blank", "refused"}, framed : BOOLEAN,
            embed : BOOLEAN]
  /\ x.at # "no" => x.channel \in there
  /\ x.at \in {"asked", "answered"} /\ ~x.framed => x.window # "none"
  /\ x.at \in {"no", "entered"} => x.window # "blank"

RoomShape ==
  /\ room \in [call : KnownCalls, embed : BOOLEAN]
  /\ leaving \in [call : KnownCalls, done : BOOLEAN]
  /\ entering = [h \in Hooks |-> entering[h]]
  /\ \A h \in Hooks : EntryHolds(entering[h], KnownCalls, exists)
  /\ tab \in {"here", "gone"} /\ unlisted \in BOOLEAN /\ TabKept

CallsShape == ServerShape /\ ScreenShape /\ RoomShape

\* The socket as the calls see it: open, and known to the server or to be.
Link(s) == sock[s].client = "open" /\ sock[s].server \in {"lookup", "hub"}
OnWire(s, e) == \E i \in DOMAIN sock[s].wire : sock[s].wire[i] = e

WiresHold ==
  \A s \in DOMAIN sock :
    /\ IsSequence(sock[s].wire)
    /\ ~Using(s) \/ sock[s].server \in {"none", "lookup"} => sock[s].wire = <<>>
    /\ Using(s) /\ sock[s].server \in {"lookup", "hub"} => sock[s].up

\* A call that ended and of which the browser should hear; whether it still will,
\* on any socket by which it is connected.
Over(k) == ~calls[k].live /\ ~calls[k].swept /\ k \notin deaf
Coming(k) == Ended(k) \in unrung \/ \A s \in DOMAIN sock : Link(s) => OnWire(s, Ended(k))

\* The end of a call is published after its start, or the browser is deaf to it,
\* and comes over the wire after it.
StartsFollowed ==
  \A k \in DOMAIN calls : Over(k) =>
    /\ Started(k) \in unrung => Ended(k) \in unrung
    /\ \A s \in DOMAIN sock : \A i \in DOMAIN sock[s].wire :
         sock[s].wire[i] = Started(k) =>
           \/ Ended(k) \in unrung \/ sock[s].server = "gone"
           \/ \E j \in DOMAIN sock[s].wire : j > i /\ sock[s].wire[j] = Ended(k)

RingFollowed == ring # 0 /\ Over(ring) => Coming(ring)

\* What the panel shows, and what it is about to show.
PanelFollowed ==
  /\ panelQuery.at = "idle" /\ panel # 0 /\ Over(panel) => Coming(panel)
  /\ panelQuery.at = "answered" /\ panelQuery.live # 0 /\ Over(panelQuery.live) =>
       Coming(panelQuery.live)

CallsFollowed == StartsFollowed /\ RingFollowed /\ PanelFollowed

CallsHold == CallsShape /\ WiresHold /\ CallsFollowed

OnCalls == focus \in {"ringing", "entering"}

CallInv == IF OnCalls THEN CallsHold ELSE CallInit

LEMMA CallsHoldInit ==
  ASSUME CallInit, SocketInit PROVE CallsHold
<1>1. calls = <<>> /\ DOMAIN calls = {} /\ Len(calls) = 0 /\ calls \in Seq(CallRecord)
  BY DEF CallInit
<1>2. sock = <<>> /\ DOMAIN sock = {}
  BY DEF SocketInit
<1> USE CallScreenAssumption
<1>3. ServerShape
  BY <1>1 DEF CallInit, ServerShape
<1>4. ScreenShape
  BY <1>1 DEF CallInit, ScreenShape, KnownCalls, NoPanelQuery, ShownIsListed
<1>5. RoomShape
  <2>1. \A h \in Hooks : EntryHolds(entering[h], KnownCalls, exists)
    BY <1>1 DEF CallInit, EntryHolds, KnownCalls, NotEntering
  <2>2. entering = [h \in Hooks |-> entering[h]]
    BY DEF CallInit
  <2>3. 0 \in KnownCalls /\ room = [call |-> 0, embed |-> FALSE]
        /\ leaving = [call |-> 0, done |-> FALSE] /\ tab = "here" /\ unlisted = FALSE
    BY <1>1 DEF CallInit, KnownCalls, NoRoom, NotLeaving
  <2>4. /\ room \in [call : KnownCalls, embed : BOOLEAN]
        /\ leaving \in [call : KnownCalls, done : BOOLEAN]
    BY <2>3
  <2> QED BY <2>1, <2>2, <2>3, <2>4 DEF RoomShape, TabKept
<1>6. WiresHold /\ StartsFollowed
  BY <1>1, <1>2 DEF WiresHold, StartsFollowed
<1>7. RingFollowed /\ PanelFollowed
  BY <1>1 DEF CallInit, RingFollowed, PanelFollowed, NoPanelQuery
<1> QED BY <1>3, <1>4, <1>5, <1>6, <1>7 DEF CallsHold, CallsShape, CallsFollowed

\* What the server has of calls: they grow in number, and stay where they are.
CallsLater ==
  /\ ServerShape' /\ Len(calls) <= Len(calls') /\ exists \subseteq exists'
  /\ \A k \in DOMAIN calls : calls'[k].channel = calls[k].channel

LEMMA CallsLaterSame ==
  ServerShape /\ UNCHANGED <<calls, exists>> /\ framing' \in BOOLEAN => CallsLater
<1> SUFFICES ASSUME ServerShape, UNCHANGED <<calls, exists>>, framing' \in BOOLEAN
             PROVE  CallsLater
  OBVIOUS
<1>1. Len(calls) \in Nat
  BY DEF ServerShape
<1> QED BY <1>1 DEF ServerShape, CallsLater

LEMMA KnownLater ==
  ASSUME ServerShape, CallsLater
  PROVE  /\ Len(calls) \in Nat /\ Len(calls') \in Nat
         /\ DOMAIN calls = 1..Len(calls) /\ DOMAIN calls' = 1..Len(calls')
         /\ KnownCalls \subseteq KnownCalls' /\ DOMAIN calls \subseteq DOMAIN calls'
         /\ \A k \in KnownCalls : k # 0 => k \in DOMAIN calls
BY DEF ServerShape, CallsLater, KnownCalls

LEMMA ScreenKept ==
  ASSUME ServerShape, CallsLater, ScreenShape, UNCHANGED screenVars, unlisted => unlisted'
  PROVE  ScreenShape'
<1>1. UNCHANGED <<ring, at, panel, panelQuery, listed, expected>>
  BY DEF screenVars
<1>2. KnownCalls \subseteq KnownCalls' /\ exists \subseteq exists'
  BY KnownLater DEF CallsLater
<1>3. \A k \in KnownCalls : k # 0 => calls'[k].channel = calls[k].channel
  BY KnownLater DEF CallsLater
<1>4. panelQuery.live \in KnownCalls /\ panel \in KnownCalls /\ ring \in KnownCalls
  BY DEF ScreenShape
<1>5. (panelQuery \in [at : {"idle", "asked", "answered"}, live : KnownCalls])'
  BY <1>1, <1>2 DEF ScreenShape
<1>6. (/\ panel # 0 => calls[panel].channel = at
       /\ panelQuery.at = "answered" /\ panelQuery.live # 0 =>
            calls[panelQuery.live].channel = at)'
  BY <1>1, <1>3, <1>4 DEF ScreenShape
<1>7. ShownIsListed'
  BY <1>1 DEF ScreenShape, ShownIsListed
<1> QED BY <1>1, <1>2, <1>4, <1>5, <1>6, <1>7 DEF ScreenShape

LEMMA EntryLater ==
  ASSUME NEW x, NEW K, NEW L, NEW X, NEW Y, EntryHolds(x, K, X), K \subseteq L, X \subseteq Y
  PROVE  EntryHolds(x, L, Y)
BY DEF EntryHolds

LEMMA RoomKept ==
  ASSUME ServerShape, CallsLater, RoomShape, UNCHANGED <<room, entering, leaving, tab>>,
         unlisted' \in BOOLEAN
  PROVE  RoomShape'
<1>1. KnownCalls \subseteq KnownCalls' /\ exists \subseteq exists'
  BY KnownLater DEF CallsLater
<1>2. \A h \in Hooks : EntryHolds(entering[h], KnownCalls', exists')
  BY <1>1, EntryLater DEF RoomShape
<1>3. /\ (room \in [call : KnownCalls, embed : BOOLEAN])'
      /\ (leaving \in [call : KnownCalls, done : BOOLEAN])'
  BY <1>1 DEF RoomShape
<1> QED BY <1>1, <1>2, <1>3 DEF RoomShape, TabKept

LEMMA LiveCallIsLive ==
  ASSUME ServerShape, NEW c
  PROVE  /\ LiveCall(c) \in KnownCalls
         /\ LiveCall(c) # 0 => /\ LiveCall(c) \in DOMAIN calls
                               /\ calls[LiveCall(c)].live /\ calls[LiveCall(c)].channel = c
<1>0. Len(calls) \in Nat /\ DOMAIN calls = 1..Len(calls)
  BY DEF ServerShape
<1>1. CASE LiveIn(c) = {}
  BY <1>0, <1>1 DEF LiveCall, KnownCalls
<1>2. CASE LiveIn(c) # {}
  <2>1. LiveCall(c) \in LiveIn(c)
    BY <1>2 DEF LiveCall
  <2> QED BY <1>0, <2>1 DEF LiveIn, KnownCalls, CallIds
<1> QED BY <1>1, <1>2

\* What the server does about calls: one that is over then was over, or its end is
\* still to be published; nothing waiting is lost, and no old start is new.
CallsGoOn ==
  /\ unrung \subseteq unrung' /\ UNCHANGED deaf
  /\ \A k \in DOMAIN calls : Started(k) \in unrung' => Started(k) \in unrung
  /\ \A k \in DOMAIN calls' : Over(k)' => (k \in DOMAIN calls /\ Over(k)) \/ Ended(k) \in unrung'

LEMMA CallAppears ==
  ASSUME ServerShape, NEW c \in Channels, NEW by \in {"me", "other"}, Len(calls) < MaxCalls,
         calls' = Append(calls, NewCall(c, by)), UNCHANGED <<framing, deaf>>,
         exists \subseteq exists', exists' \subseteq Channels, c \in exists',
         unrung' = unrung \cup {Started(Len(calls) + 1)}
  PROVE  CallsLater /\ CallsGoOn
<1> DEFINE x == NewCall(c, by)
<1>1. x \in CallRecord /\ x.channel = c /\ x.live
  BY DEF NewCall, CallRecord
<1> HIDE DEF x
<1>2. /\ Len(calls) \in Nat /\ DOMAIN calls = 1..Len(calls) /\ calls \in Seq(CallRecord)
  BY DEF ServerShape
<1>3. /\ calls' \in Seq(CallRecord) /\ Len(calls') = Len(calls) + 1
      /\ DOMAIN calls' = 1..(Len(calls) + 1)
      /\ calls'[Len(calls) + 1] = x
      /\ \A k \in DOMAIN calls : calls'[k] = calls[k]
  <2>1. calls' = Append(calls, x)
    BY DEF x
  <2> QED BY <1>1, <1>2, <2>1
<1>4. \A k \in DOMAIN calls' : k \in DOMAIN calls \/ k = Len(calls) + 1
  BY <1>2, <1>3
<1>5. CallsLater
  <2>1. \A k \in DOMAIN calls' : calls'[k].channel \in exists'
    BY <1>1, <1>3, <1>4 DEF ServerShape
  <2>2. Len(calls') <= MaxCalls /\ Len(calls) <= Len(calls')
    BY <1>2, <1>3, CallScreenAssumption
  <2> QED BY <1>3, <2>1, <2>2 DEF CallsLater, ServerShape
<1>6. \A k \in DOMAIN calls : k # Len(calls) + 1
  BY <1>2
<1>7. CallsGoOn
  BY <1>1, <1>3, <1>4, <1>6 DEF CallsGoOn, Over, Started, Event
<1> QED BY <1>5, <1>7

LEMMA CallChanges ==
  ASSUME ServerShape, NEW k \in DOMAIN calls, NEW x \in CallRecord,
         calls' = [calls EXCEPT ![k] = x], x.channel = calls[k].channel,
         UNCHANGED <<exists, framing, deaf>>,
         unrung' \in {unrung, unrung \cup {Ended(k)}},
         \/ x.live = calls[k].live /\ x.swept = calls[k].swept
         \/ x.live \/ x.swept \/ Ended(k) \in unrung'
  PROVE  CallsLater /\ CallsGoOn
<1>1. /\ Len(calls) \in Nat /\ DOMAIN calls = 1..Len(calls) /\ calls \in Seq(CallRecord)
  BY DEF ServerShape
<1>2. /\ calls' \in Seq(CallRecord) /\ Len(calls') = Len(calls) /\ DOMAIN calls' = DOMAIN calls
      /\ calls'[k] = x /\ \A j \in DOMAIN calls : j # k => calls'[j] = calls[j]
  BY <1>1
<1>3. CallsLater
  BY <1>1, <1>2 DEF CallsLater, ServerShape
<1>4. unrung \subseteq unrung' /\ \A j : Started(j) \in unrung' => Started(j) \in unrung
  BY DEF Started, Ended, Event
<1>5. \A j \in DOMAIN calls' : Over(j)' => Over(j) \/ Ended(j) \in unrung'
  BY <1>2 DEF Over
<1> QED BY <1>2, <1>3, <1>4, <1>5 DEF CallsGoOn

\* A step that leaves the server's calls alone.
LEMMA CallsStay ==
  ASSUME ServerShape, UNCHANGED <<calls, exists, unrung, deaf>>, framing' \in BOOLEAN
  PROVE  CallsLater /\ CallsGoOn
BY CallsLaterSame DEF CallsGoOn, Over

-----------------------------------------------------------------------------

\* A step whose socket stays as it is keeps what follows from it.
LEMMA FollowedLater ==
  ASSUME CallsGoOn, UNCHANGED sock
  PROVE  /\ StartsFollowed => StartsFollowed'
         /\ \A k \in DOMAIN calls' :
              Over(k)' => (k \in DOMAIN calls /\ Over(k)) \/ Coming(k)'
         /\ \A k : Coming(k) => Coming(k)'
<1>1. \A k : Coming(k) => Coming(k)'
  BY DEF CallsGoOn, Coming, Link, OnWire
<1>2. \A k : Ended(k) \in unrung' => Coming(k)'
  BY DEF Coming
<1>3. StartsFollowed => StartsFollowed'
  <2> SUFFICES ASSUME StartsFollowed, NEW k \in DOMAIN calls', Over(k)',
                      Ended(k) \notin unrung'
               PROVE  /\ Started(k) \notin unrung'
                      /\ \A s \in DOMAIN sock : \A i \in DOMAIN sock[s].wire :
                           sock[s].wire[i] = Started(k) =>
                             \/ sock[s].server = "gone"
                             \/ \E j \in DOMAIN sock[s].wire : j > i /\ sock[s].wire[j] = Ended(k)
    BY DEF StartsFollowed
  <2>1. k \in DOMAIN calls /\ Over(k) /\ Ended(k) \notin unrung
    BY DEF CallsGoOn
  <2> QED BY <2>1 DEF StartsFollowed, CallsGoOn
<1> QED BY <1>1, <1>2, <1>3 DEF CallsGoOn

\* What a step does to the panel: nothing, it asks, takes an answer, or is answered
\* with a call that is live.
PanelMoves ==
  \/ UNCHANGED <<panel, panelQuery>>
  \/ panelQuery'.at = "asked"
  \/ panelQuery.at = "answered" /\ panel' = panelQuery.live /\ panelQuery'.at = "idle"
  \/ /\ panelQuery'.at = "answered" /\ panelQuery'.live \in DOMAIN calls' \cup {0}
     /\ panelQuery'.live # 0 => ~Over(panelQuery.live)'

\* A step that leaves the socket alone.
Local ==
  CallsLater /\ CallsGoOn /\ UNCHANGED sock /\ ring' \in {ring, 0} /\ PanelMoves

LEMMA LocalFollowed ==
  ASSUME CallsShape, CallsFollowed, Local PROVE CallsFollowed'
<1>1. /\ StartsFollowed'
      /\ \A k \in DOMAIN calls' : Over(k)' => (k \in DOMAIN calls /\ Over(k)) \/ Coming(k)'
      /\ \A k : Coming(k) => Coming(k)'
  BY FollowedLater DEF Local, CallsFollowed
<1>2. /\ DOMAIN calls \subseteq DOMAIN calls'
      /\ \A k \in KnownCalls : k # 0 => k \in DOMAIN calls
  BY KnownLater DEF CallsShape, Local
<1>3. ring \in KnownCalls /\ panel \in KnownCalls /\ panelQuery.live \in KnownCalls
  BY DEF CallsShape, ScreenShape
<1>4. RingFollowed'
  BY <1>1, <1>2, <1>3 DEF Local, CallsFollowed, RingFollowed
<1>5. PanelFollowed'
  <2>1. CASE UNCHANGED <<panel, panelQuery>>
    BY <1>1, <1>2, <1>3, <2>1 DEF CallsFollowed, PanelFollowed
  <2>2. CASE panelQuery'.at = "asked"
    BY <2>2 DEF PanelFollowed
  <2>3. CASE panelQuery.at = "answered" /\ panel' = panelQuery.live /\ panelQuery'.at = "idle"
    BY <1>1, <1>2, <1>3, <2>3 DEF CallsFollowed, PanelFollowed
  <2>4. CASE /\ panelQuery'.at = "answered"
             /\ panelQuery'.live # 0 => ~Over(panelQuery.live)'
    BY <2>4 DEF PanelFollowed
  <2> QED BY <2>1, <2>2, <2>3, <2>4 DEF Local, PanelMoves
<1> QED BY <1>1, <1>4, <1>5 DEF CallsFollowed

\* The server and others.
ServerOnly ==
  \/ \E c \in Channels : OtherStarts(c)
  \/ \E k \in DOMAIN calls : OtherJoins(k) \/ OtherLeaves(k) \/ SweepEnds(k)
  \/ FramingChanges

LEMMA ServerMoves == CallsShape /\ ServerOnly => CallsShape' /\ Local
<1> SUFFICES ASSUME CallsShape, ServerOnly PROVE CallsShape' /\ Local
  OBVIOUS
<1>k. \A k \in DOMAIN calls : calls[k] \in CallRecord
  BY DEF CallsShape, ServerShape
<1>1. CallsLater /\ CallsGoOn
  <2>0. ServerShape
    BY DEF CallsShape
  <2>1. ASSUME NEW c \in Channels, OtherStarts(c) PROVE CallsLater /\ CallsGoOn
    <3>1. exists' \subseteq Channels
      BY <2>0, <2>1 DEF OtherStarts, ServerShape
    <3> QED BY <2>0, <2>1, <3>1, CallAppears DEF OtherStarts
  <2>2. ASSUME NEW k \in DOMAIN calls, OtherJoins(k) PROVE CallsLater /\ CallsGoOn
    <3> DEFINE x == [calls[k] EXCEPT !.others = TRUE]
    <3>1. /\ x \in CallRecord /\ x.channel = calls[k].channel
          /\ x.live = calls[k].live /\ x.swept = calls[k].swept
      BY <1>k DEF CallRecord
    <3>2. calls' = [calls EXCEPT ![k] = x] /\ UNCHANGED <<exists, framing, deaf, unrung>>
      BY <2>2 DEF OtherJoins
    <3> HIDE DEF x
    <3> QED BY <2>0, <3>1, <3>2, CallChanges
  <2>3. ASSUME NEW k \in DOMAIN calls, OtherLeaves(k) PROVE CallsLater /\ CallsGoOn
    <3> DEFINE x == [calls[k] EXCEPT !.others = FALSE, !.live = calls[k].me]
    <3>1. /\ x \in CallRecord /\ x.channel = calls[k].channel /\ x.live = calls[k].me
      BY <1>k DEF CallRecord
    <3>2. /\ calls' = [calls EXCEPT ![k] = x] /\ UNCHANGED <<exists, framing, deaf>>
          /\ unrung' = IF calls[k].me THEN unrung ELSE unrung \cup {Ended(k)}
      BY <2>3 DEF OtherLeaves
    <3> HIDE DEF x
    <3> QED BY <2>0, <3>1, <3>2, CallChanges
  <2>4. ASSUME NEW k \in DOMAIN calls, SweepEnds(k) PROVE CallsLater /\ CallsGoOn
    <3> DEFINE x == [calls[k] EXCEPT !.live = FALSE, !.swept = TRUE]
    <3>1. /\ x \in CallRecord /\ x.channel = calls[k].channel /\ x.swept
      BY <1>k DEF CallRecord
    <3>2. calls' = [calls EXCEPT ![k] = x] /\ UNCHANGED <<exists, framing, deaf, unrung>>
      BY <2>4 DEF SweepEnds
    <3> HIDE DEF x
    <3> QED BY <2>0, <3>1, <3>2, CallChanges
  <2>5. CASE FramingChanges
    BY <2>0, <2>5, CallsStay DEF FramingChanges, ServerShape
  <2> QED BY <2>1, <2>2, <2>3, <2>4, <2>5 DEF ServerOnly
<1>2. UNCHANGED <<socketVars, screenVars, roomVars>>
  BY DEF ServerOnly, OtherStarts, OtherJoins, OtherLeaves, SweepEnds, FramingChanges
<1>3. ScreenShape' /\ RoomShape'
  BY <1>1, <1>2, ScreenKept, RoomKept DEF CallsShape, RoomShape, roomVars
<1>4. Local
  BY <1>1, <1>2 DEF Local, PanelMoves, socketVars, screenVars
<1> QED BY <1>1, <1>3, <1>4 DEF CallsShape, CallsLater

\* The screen by itself.
ScreenOnly ==
  \/ \E c \in Channels : OpenConversation(c)
  \/ AnswerPanel \/ TakePanel \/ TakeFraming \/ Dismiss

LEMMA ScreenMoves == CallsShape /\ ScreenOnly => CallsShape' /\ Local
<1> SUFFICES ASSUME CallsShape, ScreenOnly PROVE CallsShape' /\ Local
  OBVIOUS
<1>1. UNCHANGED <<socketVars, callServerVars, roomVars, deaf>>
  BY DEF ScreenOnly, OpenConversation, AnswerPanel, TakePanel, TakeFraming, Dismiss
<1>2. UNCHANGED <<calls, exists, unrung, deaf, framing, sock, KnownCalls>>
  BY <1>1 DEF callServerVars, socketVars, KnownCalls
<1>3. UNCHANGED <<room, entering, leaving, tab, unlisted>>
  BY <1>1 DEF roomVars
<1>4. CallsLater /\ CallsGoOn
  BY <1>2, CallsStay DEF CallsShape, ServerShape
<1>5. RoomShape' /\ ServerShape'
  BY <1>2, <1>3, <1>4, RoomKept DEF CallsShape, RoomShape, CallsLater
<1>0. 0 \in KnownCalls
  BY DEF CallsShape, ServerShape, KnownCalls
<1>6. ScreenShape' /\ ring' \in {ring, 0} /\ PanelMoves
  <2> USE DEF CallsShape, ScreenShape, ShownIsListed, PanelMoves
  <2>1. ASSUME NEW c \in Channels, OpenConversation(c)
        PROVE  ScreenShape' /\ ring' \in {ring, 0} /\ PanelMoves
    BY <1>0, <1>2, <1>3, <2>1 DEF OpenConversation, Show, PanelAsked
  <2>2. CASE AnswerPanel
    <3> DEFINE k == LiveCall(at)
    <3>1. /\ k \in KnownCalls
          /\ k # 0 => k \in DOMAIN calls /\ calls[k].live /\ calls[k].channel = at
      BY LiveCallIsLive
    <3> HIDE DEF k
    <3>2. /\ panelQuery' = [at |-> "answered", live |-> k]
          /\ UNCHANGED <<ring, at, panel, listed, expected>>
      BY <2>2 DEF AnswerPanel, PanelAnswered, k
    <3>3. k # 0 => ~Over(panelQuery.live)'
      BY <1>2, <3>1, <3>2 DEF Over
    <3>4. panelQuery' \in [at : {"idle", "asked", "answered"}, live : KnownCalls]
      BY <3>1, <3>2
    <3> QED BY <1>2, <1>3, <3>1, <3>2, <3>3, <3>4
  <2>3. CASE TakePanel
    BY <1>0, <1>2, <1>3, <2>3 DEF TakePanel, NoPanelQuery
  <2>4. CASE TakeFraming
    BY <1>0, <1>2, <1>3, <2>4 DEF TakeFraming, ServerShape
  <2>5. CASE Dismiss
    BY <1>0, <1>2, <1>3, <2>5 DEF Dismiss
  <2> QED BY <2>1, <2>2, <2>3, <2>4, <2>5 DEF ScreenOnly
<1> QED BY <1>2, <1>4, <1>5, <1>6 DEF CallsShape, Local

LEMMA EntryReplaced ==
  ASSUME ServerShape, CallsLater, RoomShape, NEW h \in Hooks, NEW x,
         entering' = [entering EXCEPT ![h] = x], EntryHolds(x, KnownCalls', exists')
  PROVE  /\ entering' = [g \in Hooks |-> entering'[g]] /\ entering'[h] = x
         /\ \A g \in Hooks : EntryHolds(entering'[g], KnownCalls', exists')
<1>1. entering = [g \in Hooks |-> entering[g]]
  BY DEF RoomShape
<1>2. /\ entering' = [g \in Hooks |-> entering'[g]] /\ entering'[h] = x
      /\ \A g \in Hooks : g # h => entering'[g] = entering[g]
  BY <1>1
<1>3. \A g \in Hooks : EntryHolds(entering[g], KnownCalls', exists')
  BY KnownLater, EntryLater DEF RoomShape, CallsLater
<1> QED BY <1>2, <1>3

\* A step that leaves the server's calls alone and the tab where it is.
LEMMA RoomAfter ==
  ASSUME CallsShape, UNCHANGED <<callServerVars, deaf>>, tab' = "here" \/ TabKept',
         tab' \in {"here", "gone"}, unlisted' \in BOOLEAN,
         room' \in [call : KnownCalls, embed : BOOLEAN],
         leaving' \in [call : KnownCalls, done : BOOLEAN],
         \/ UNCHANGED entering
         \/ \E h \in Hooks : \E x : /\ entering' = [entering EXCEPT ![h] = x]
                                    /\ EntryHolds(x, KnownCalls, exists)
  PROVE  CallsLater /\ CallsGoOn /\ ServerShape' /\ RoomShape'
<1>1. UNCHANGED <<calls, exists, unrung, framing, deaf, KnownCalls>>
  BY DEF callServerVars, KnownCalls
<1>2. CallsLater /\ CallsGoOn
  BY <1>1, CallsStay DEF CallsShape, ServerShape
<1>3. TabKept'
  BY DEF TabKept
<1>4. /\ entering' = [g \in Hooks |-> entering'[g]]
      /\ \A g \in Hooks : EntryHolds(entering'[g], KnownCalls', exists')
  <2>1. CASE UNCHANGED entering
    BY <1>1, <2>1 DEF CallsShape, RoomShape
  <2>2. ASSUME NEW h \in Hooks, NEW x, entering' = [entering EXCEPT ![h] = x],
               EntryHolds(x, KnownCalls, exists)
        PROVE  /\ entering' = [g \in Hooks |-> entering'[g]]
               /\ \A g \in Hooks : EntryHolds(entering'[g], KnownCalls', exists')
    BY <1>1, <1>2, <2>2, EntryReplaced DEF CallsShape
  <2> QED BY <2>1, <2>2
<1> QED BY <1>1, <1>2, <1>3, <1>4 DEF RoomShape, CallsLater

LEMMA ScreenAfter ==
  ASSUME CallsShape, CallsLater, UNCHANGED screenVars, unlisted => unlisted', UNCHANGED socketVars
  PROVE  ScreenShape' /\ UNCHANGED sock /\ ring' \in {ring, 0} /\ PanelMoves
BY ScreenKept DEF CallsShape, screenVars, socketVars, PanelMoves

\* What is pressed.
LEMMA PressMoves == CallsShape /\ tab = "here" /\ PressStep => CallsShape' /\ Local
<1> SUFFICES ASSUME CallsShape, tab = "here", PressStep PROVE CallsShape' /\ Local
  OBVIOUS
<1>1. PICK h \in Hooks, c \in exists, k \in KnownCalls : Press(h, c, k) /\ c \in Channels
  <2>1. CASE PressAnswer
    <3>1. ring \in DOMAIN calls
      BY <2>1 DEF PressAnswer, CallsShape, ServerShape, ScreenShape, KnownCalls
    <3> QED BY <2>1, <3>1 DEF PressAnswer, Hooks, CallsShape, ServerShape, ScreenShape
  <2>2. CASE PressGo
    BY <2>2 DEF PressGo, Hooks, CallsShape, ServerShape, ScreenShape
  <2> QED BY <2>1, <2>2 DEF PressStep
<1>2. PICK w \in (IF expected THEN {"none"} ELSE {"blank", "refused"}) :
        entering' = [entering EXCEPT ![h] = [at |-> "asked", channel |-> c, call |-> k,
                       window |-> w, framed |-> expected, embed |-> FALSE]]
  BY <1>1 DEF Press
<1> DEFINE x == [at |-> "asked", channel |-> c, call |-> k, window |-> w,
                 framed |-> expected, embed |-> FALSE]
<1>3. EntryHolds(x, KnownCalls, exists)
  BY <1>1, <1>2 DEF EntryHolds, CallsShape, ScreenShape
<1>4. /\ UNCHANGED <<socketVars, callServerVars, screenVars, room, leaving, tab, deaf, unlisted>>
      /\ tab = "here"
  BY <1>1 DEF Press
<1>5. CallsLater /\ CallsGoOn /\ ServerShape' /\ RoomShape'
  <2>1. /\ room' \in [call : KnownCalls, embed : BOOLEAN] /\ unlisted' \in BOOLEAN
        /\ leaving' \in [call : KnownCalls, done : BOOLEAN] /\ tab' = "here"
    BY <1>4 DEF CallsShape, RoomShape
  <2>2. \E g \in Hooks : \E y : /\ entering' = [entering EXCEPT ![g] = y]
                                /\ EntryHolds(y, KnownCalls, exists)
    BY <1>2, <1>3
  <2> QED BY <1>4, <2>1, <2>2, RoomAfter
<1>6. ScreenShape' /\ UNCHANGED sock /\ ring' \in {ring, 0} /\ PanelMoves
  BY <1>4, <1>5, ScreenAfter
<1> QED BY <1>5, <1>6 DEF CallsShape, Local

\* What is joined or started, and left, at the server.
LEMMA TargetTyped ==
  ASSUME CallsShape, NEW h \in Hooks
  PROVE  /\ Target(entering[h]) \in KnownCalls
         /\ Target(entering[h]) # 0 => Target(entering[h]) \in DOMAIN calls
<1>1. entering[h].call \in KnownCalls
  BY DEF CallsShape, RoomShape, EntryHolds
<1>2. LiveCall(entering[h].channel) \in KnownCalls
  BY LiveCallIsLive DEF CallsShape
<1>3. Target(entering[h]) \in KnownCalls
  BY <1>1, <1>2 DEF Target
<1> QED BY <1>3 DEF CallsShape, ServerShape, KnownCalls

LEMMA JoinMoves ==
  ASSUME CallsShape, tab = "here", NEW h \in Hooks, ServerJoins(h) \/ ServerStarts(h)
  PROVE  CallsShape' /\ Local
<1> DEFINE e == entering[h]
<1>0. /\ EntryHolds(e, KnownCalls, exists) /\ e.at = "asked"
      /\ entering = [g \in Hooks |-> entering[g]]
      /\ ServerShape /\ framing \in BOOLEAN
  BY DEF CallsShape, RoomShape, ServerJoins, ServerStarts, ServerShape
<1>1. PICK k : /\ CallsLater /\ CallsGoOn /\ k \in KnownCalls'
               /\ entering' = [entering EXCEPT ![h] =
                    [e EXCEPT !.at = "answered", !.call = k, !.embed = framing]]
  <2>1. CASE ServerJoins(h)
    <3> DEFINE k == Target(e)
               x == [calls[k] EXCEPT !.me = TRUE]
    <3>1. k \in KnownCalls /\ k \in DOMAIN calls
      BY <2>1, TargetTyped DEF ServerJoins
    <3>2. /\ calls' = [calls EXCEPT ![k] = x] /\ UNCHANGED <<exists, framing, deaf, unrung>>
          /\ entering' = [entering EXCEPT ![h] =
                    [e EXCEPT !.at = "answered", !.call = k, !.embed = framing]]
      BY <1>0, <2>1 DEF ServerJoins
    <3> HIDE DEF k
    <3>3. /\ x \in CallRecord /\ x.channel = calls[k].channel
          /\ x.live = calls[k].live /\ x.swept = calls[k].swept
      <4>1. calls[k] \in CallRecord
        BY <3>1, <1>0 DEF ServerShape
      <4> QED BY <4>1 DEF CallRecord
    <3> HIDE DEF x
    <3>4. CallsLater /\ CallsGoOn
      BY <1>0, <3>1, <3>2, <3>3, CallChanges
    <3>5. k \in KnownCalls'
      BY <1>0, <3>1, <3>4, KnownLater
    <3> QED BY <3>2, <3>4, <3>5
  <2>2. CASE ServerStarts(h)
    <3> DEFINE k == Len(calls) + 1
    <3>1. e.channel \in exists /\ exists \subseteq Channels
      BY <1>0 DEF EntryHolds, ServerShape
    <3>2. /\ calls' = Append(calls, NewCall(e.channel, "me")) /\ Len(calls) < MaxCalls
          /\ UNCHANGED <<exists, framing, deaf>> /\ unrung' = unrung \cup {Started(k)}
          /\ entering' = [entering EXCEPT ![h] =
                    [e EXCEPT !.at = "answered", !.call = k, !.embed = framing]]
      BY <1>0, <2>2 DEF ServerStarts
    <3>3. CallsLater /\ CallsGoOn
      <4>1. /\ e.channel \in Channels /\ exists \subseteq exists' /\ exists' \subseteq Channels
            /\ e.channel \in exists'
        BY <3>1, <3>2
      <4> HIDE DEF e
      <4> QED BY <1>0, <3>2, <4>1, CallAppears
    <3>4. Len(calls') = Len(calls) + 1 /\ Len(calls) \in Nat
      BY <1>0, <3>2 DEF ServerShape
    <3>5. k \in KnownCalls'
      BY <3>4 DEF KnownCalls
    <3> QED BY <3>2, <3>3, <3>5
  <2> QED BY <2>1, <2>2
<1>2. UNCHANGED <<socketVars, screenVars, room, leaving, tab, unlisted>>
  BY DEF ServerJoins, ServerStarts
<1>3. /\ entering' = [g \in Hooks |-> entering'[g]]
      /\ \A g \in Hooks : EntryHolds(entering'[g], KnownCalls', exists')
  <2> DEFINE y == [e EXCEPT !.at = "answered", !.call = k, !.embed = framing]
  <2>1. EntryHolds(y, KnownCalls', exists')
    BY <1>0, <1>1 DEF EntryHolds, CallsLater
  <2> HIDE DEF y
  <2> QED BY <1>0, <1>1, <2>1, EntryReplaced DEF y, CallsShape
<1>4. RoomShape'
  <2>1. KnownCalls \subseteq KnownCalls'
    BY <1>0, <1>1, KnownLater
  <2>2. (room \in [call : KnownCalls, embed : BOOLEAN])'
        /\ (leaving \in [call : KnownCalls, done : BOOLEAN])'
    BY <1>2, <2>1 DEF CallsShape, RoomShape
  <2> QED BY <1>2, <1>3, <2>2 DEF CallsShape, RoomShape, TabKept
<1>5. ScreenShape' /\ UNCHANGED sock /\ ring' \in {ring, 0} /\ PanelMoves
  BY <1>1, <1>2, ScreenAfter
<1> QED BY <1>1, <1>4, <1>5 DEF CallsShape, Local, CallsLater

\* The answer, and what becomes of the window and the tab.
LEMMA DecideMoves ==
  ASSUME CallsShape, tab = "here", NEW h \in Hooks, EntryDecides(h)
  PROVE  CallsShape' /\ Local
<1> DEFINE e == entering[h]
           d == Decision(e.embed, e.window = "blank", e.framed)
           w == IF d = "window" THEN "none" ELSE ClosedIfBlank(e)
           x == [e EXCEPT !.at = "entered", !.window = w]
<1>0. /\ EntryHolds(e, KnownCalls, exists) /\ e.at = "answered" /\ h \in DOMAIN entering
  BY DEF CallsShape, RoomShape, EntryDecides
<1>1. /\ entering' = [entering EXCEPT ![h] = x]
      /\ room' = IF d \in {"frame", "link"} THEN [call |-> e.call, embed |-> e.embed] ELSE room
      /\ tab' = IF d = "navigate" THEN "gone" ELSE tab
      /\ panelQuery' = PanelReasked(e.channel)
      /\ UNCHANGED <<socketVars, callServerVars, ring, at, panel, listed, expected, leaving,
                     deaf, unlisted>>
  BY <1>0 DEF EntryDecides
<1>2. e.call \in KnownCalls /\ e.embed \in BOOLEAN
  BY <1>0 DEF EntryHolds
<1>3. d = "navigate" => w = "refused"
  BY <1>0 DEF EntryHolds, Decision, DecideEntry, ClosedIfBlank
<1>4. EntryHolds(x, KnownCalls, exists)
  <2>1. w \in {"none", "refused"}
    BY <1>0 DEF EntryHolds, ClosedIfBlank
  <2> HIDE DEF w
  <2> QED BY <1>0, <2>1 DEF EntryHolds
<1>5. tab' = "here" \/ TabKept'
  <2>1. entering'[h].window = w
    BY <1>0, <1>1 DEF EntryHolds
  <2> HIDE DEF w, d
  <2> QED BY <1>1, <1>3, <2>1 DEF TabKept
<1>6. /\ room' \in [call : KnownCalls, embed : BOOLEAN] /\ tab' \in {"here", "gone"}
      /\ leaving' \in [call : KnownCalls, done : BOOLEAN] /\ unlisted' \in BOOLEAN
  <2> HIDE DEF d
  <2> QED BY <1>1, <1>2 DEF CallsShape, RoomShape
<1> HIDE DEF x, d
<1>7. CallsLater /\ CallsGoOn /\ ServerShape' /\ RoomShape'
  BY <1>1, <1>4, <1>5, <1>6, RoomAfter
<1>8. ScreenShape' /\ ring' \in {ring, 0} /\ UNCHANGED sock /\ PanelMoves
  <2>1. UNCHANGED <<calls, exists, KnownCalls, sock>> /\ 0 \in KnownCalls
    BY <1>1 DEF callServerVars, socketVars, KnownCalls, CallsShape, ServerShape
  <2> QED BY <1>1, <2>1 DEF CallsShape, ScreenShape, ShownIsListed, PanelReasked, PanelAsked,
                            PanelMoves
<1> QED BY <1>7, <1>8 DEF CallsShape, Local

\* The end of an entry: the banner stops ringing and shows the conversation.
LEMMA SettledMoves ==
  ASSUME CallsShape, tab = "here", NEW h \in Hooks, EntrySettles(h) \/ EntryFails(h)
  PROVE  CallsShape' /\ Local
<1> DEFINE e == entering[h]
           x == [NotEntering EXCEPT !.window = "none"]
<1>0. /\ EntryHolds(e, KnownCalls, exists) /\ e.channel \in exists /\ exists \subseteq Channels
  <2>1. EntryHolds(e, KnownCalls, exists) /\ e.at # "no" /\ exists \subseteq Channels
    BY DEF CallsShape, RoomShape, ServerShape, EntrySettles, EntryFails
  <2> QED BY <2>1 DEF EntryHolds
<1>1. /\ entering' = [entering EXCEPT ![h] = x]
      /\ ring' \in {ring, 0}
      /\ \/ Show(e.channel) \/ UNCHANGED <<at, panel, panelQuery>>
      /\ \/ listed' = exists /\ UNCHANGED unlisted
         \/ listed' = listed /\ unlisted' = TRUE
      /\ UNCHANGED <<socketVars, callServerVars, expected, room, leaving, tab, deaf>>
  BY <1>0 DEF EntrySettles, EntryFails, Settled, EntryHolds, ListAfterEntry, ClosedIfBlank
<1>2. UNCHANGED <<calls, exists, KnownCalls, sock>> /\ 0 \in KnownCalls
  BY <1>1 DEF callServerVars, socketVars, KnownCalls, CallsShape, ServerShape
<1>3. EntryHolds(x, KnownCalls, exists)
  BY <1>2 DEF EntryHolds, NotEntering
<1> HIDE DEF x
<1>4. CallsLater /\ CallsGoOn /\ ServerShape' /\ RoomShape'
  <2>1. /\ room' \in [call : KnownCalls, embed : BOOLEAN] /\ tab' = "here"
        /\ leaving' \in [call : KnownCalls, done : BOOLEAN] /\ unlisted' \in BOOLEAN
    BY <1>1 DEF CallsShape, RoomShape
  <2> QED BY <1>1, <1>3, <2>1, RoomAfter
<1>5. ScreenShape' /\ PanelMoves
  BY <1>0, <1>1, <1>2
     DEF CallsShape, ScreenShape, ShownIsListed, Show, PanelAsked, PanelMoves
<1> QED BY <1>1, <1>2, <1>4, <1>5 DEF CallsShape, Local

\* The room, and leaving it.
LEMMA LeaveMoves ==
  ASSUME CallsShape, tab = "here",
         FrameRefused \/ PressLeave \/ LeaveSucceeds \/ LeaveFails
  PROVE  CallsShape' /\ Local
<1>1. /\ UNCHANGED <<socketVars, callServerVars, ring, at, panel, listed, expected,
                     entering, tab, deaf, unlisted>>
      /\ panelQuery' \in {panelQuery, PanelAsked}
  BY DEF FrameRefused, PressLeave, LeaveSucceeds, LeaveFails, screenVars, PanelReasked
<1>2. UNCHANGED <<calls, exists, KnownCalls, sock>> /\ 0 \in KnownCalls
  BY <1>1 DEF callServerVars, socketVars, KnownCalls, CallsShape, ServerShape
<1>3. /\ room' \in [call : KnownCalls, embed : BOOLEAN]
      /\ leaving' \in [call : KnownCalls, done : BOOLEAN]
  <2>1. /\ room \in [call : KnownCalls, embed : BOOLEAN] /\ panel \in KnownCalls
        /\ leaving \in [call : KnownCalls, done : BOOLEAN]
    BY DEF CallsShape, RoomShape, ScreenShape
  <2>2. \/ UNCHANGED room \/ room' = [room EXCEPT !.embed = FALSE]
        \/ room' = [call |-> 0, embed |-> FALSE]
    BY DEF FrameRefused, PressLeave, LeaveSucceeds, LeaveFails, NoRoom
  <2>3. \/ UNCHANGED leaving \/ leaving' = [call |-> panel, done |-> FALSE]
        \/ leaving' = [call |-> 0, done |-> FALSE]
    BY DEF FrameRefused, PressLeave, LeaveSucceeds, LeaveFails, NotLeaving
  <2>4. room' \in [call : KnownCalls, embed : BOOLEAN]
    <3>1. [call |-> 0, embed |-> FALSE] \in [call : KnownCalls, embed : BOOLEAN]
      BY <1>2
    <3>2. [room EXCEPT !.embed = FALSE] \in [call : KnownCalls, embed : BOOLEAN]
      BY <2>1
    <3> QED BY <2>1, <2>2, <3>1, <3>2, Zenon
  <2>5. leaving' \in [call : KnownCalls, done : BOOLEAN]
    <3>1. [call |-> 0, done |-> FALSE] \in [call : KnownCalls, done : BOOLEAN]
      BY <1>2
    <3>2. [call |-> panel, done |-> FALSE] \in [call : KnownCalls, done : BOOLEAN]
      BY <2>1
    <3> QED BY <2>1, <2>3, <3>1, <3>2, Zenon
  <2> QED BY <2>4, <2>5
<1>4. CallsLater /\ CallsGoOn /\ ServerShape' /\ RoomShape'
  <2>1. tab' = "here" /\ unlisted' \in BOOLEAN
    BY <1>1 DEF CallsShape, RoomShape
  <2> QED BY <1>1, <1>3, <2>1, RoomAfter
<1>5. ScreenShape' /\ PanelMoves
  BY <1>1, <1>2 DEF CallsShape, ScreenShape, ShownIsListed, PanelAsked, PanelMoves
<1> QED BY <1>1, <1>2, <1>4, <1>5 DEF CallsShape, Local

LEMMA ServerLeavesMoves ==
  ASSUME CallsShape, tab = "here", ServerLeaves
  PROVE  CallsShape' /\ Local
<1> DEFINE k == leaving.call
           x == [calls[k] EXCEPT !.me = FALSE, !.live = calls[k].live /\ calls[k].others]
<1>0. ServerShape /\ k \in KnownCalls /\ k \in DOMAIN calls
  BY DEF CallsShape, ServerLeaves, RoomShape, ServerShape, KnownCalls
<1>1. calls[k] \in CallRecord /\ calls[k].live \in BOOLEAN /\ calls[k].others \in BOOLEAN
  <2>1. calls[k] \in CallRecord
    BY <1>0 DEF ServerShape
  <2> QED BY <2>1 DEF CallRecord
<1>2. /\ calls' = [calls EXCEPT ![k] = x] /\ UNCHANGED <<exists, framing, deaf>>
      /\ unrung' = (IF calls[k].others THEN unrung ELSE unrung \cup {Ended(k)})
      /\ leaving' = [leaving EXCEPT !.done = TRUE]
      /\ UNCHANGED <<socketVars, screenVars, room, entering, tab, unlisted>>
  BY DEF ServerLeaves
<1>3. /\ x \in CallRecord /\ x.channel = calls[k].channel
      /\ x.live = (calls[k].live /\ calls[k].others) /\ x.swept = calls[k].swept
  BY <1>1 DEF CallRecord
<1>4. CallsLater /\ CallsGoOn
  <2>1. calls[k].others => x.live = calls[k].live
    BY <1>1, <1>3
  <2>2. ~calls[k].others => Ended(k) \in unrung'
    BY <1>2
  <2>3. unrung' \in {unrung, unrung \cup {Ended(k)}}
    BY <1>2
  <2> HIDE DEF x, k
  <2> QED BY <1>0, <1>2, <1>3, <2>1, <2>2, <2>3, CallChanges
<1>5. RoomShape'
  <2>1. KnownCalls \subseteq KnownCalls' /\ exists' = exists
    BY <1>0, <1>2, <1>4, KnownLater
  <2>2. (room \in [call : KnownCalls, embed : BOOLEAN])'
        /\ (leaving \in [call : KnownCalls, done : BOOLEAN])'
    BY <1>2, <2>1 DEF CallsShape, RoomShape
  <2>3. \A g \in Hooks : EntryHolds(entering[g], KnownCalls', exists')
    BY <2>1, EntryLater DEF CallsShape, RoomShape
  <2> QED BY <1>2, <2>2, <2>3 DEF CallsShape, RoomShape, TabKept
<1>6. ScreenShape' /\ UNCHANGED sock /\ ring' \in {ring, 0} /\ PanelMoves
  BY <1>2, <1>4, ScreenAfter
<1> QED BY <1>4, <1>5, <1>6 DEF CallsShape, Local, CallsLater

-----------------------------------------------------------------------------
(* What comes over the socket.                                             *)

\* The socket opens, closes, is accepted or looked up: nothing is sent of calls.
QuietSocket ==
  /\ DOMAIN sock \subseteq DOMAIN sock'
  /\ \A s \in DOMAIN sock' \ DOMAIN sock : sock'[s].client = "connecting" /\ sock'[s].wire = <<>>
  /\ \A s \in DOMAIN sock :
       /\ sock'[s].wire \in {<<>>, sock[s].wire, Append(sock[s].wire, Refusal)}
       /\ Link(s)' => Link(s) /\ sock'[s].wire = sock[s].wire
       /\ sock[s].server = "gone" => sock'[s].server = "gone"

LEMMA WireGrows ==
  ASSUME NEW q, IsSequence(q), NEW e
  PROVE  /\ IsSequence(Append(q, e)) /\ DOMAIN q \subseteq DOMAIN Append(q, e)
         /\ \A i \in DOMAIN q : Append(q, e)[i] = q[i]
         /\ \A i \in DOMAIN Append(q, e) : i \in DOMAIN q \/ Append(q, e)[i] = e
         /\ \E i \in DOMAIN Append(q, e) :
              /\ Append(q, e)[i] = e /\ \A j \in DOMAIN q : j < i
<1>1. Len(q) \in Nat /\ DOMAIN q = 1..Len(q)
  BY DEF IsSequence
<1>2. /\ IsSequence(Append(q, e))
      /\ DOMAIN Append(q, e) = DOMAIN q \cup {Len(q) + 1}
      /\ Append(q, e)[Len(q) + 1] = e
      /\ \A i \in DOMAIN q : Append(q, e)[i] = q[i]
  BY OneLonger
<1>3. \A j \in DOMAIN q : j < Len(q) + 1
  BY <1>1
<1> QED BY <1>2, <1>3

LEMMA WireSameOrGrows ==
  ASSUME NEW q, IsSequence(q), NEW e, NEW r \in {q, Append(q, e)}
  PROVE  /\ IsSequence(r) /\ DOMAIN q \subseteq DOMAIN r
         /\ \A i \in DOMAIN q : r[i] = q[i]
         /\ \A i \in DOMAIN r : i \in DOMAIN q \/ r[i] = e
<1>1. CASE r = q
  BY <1>1
<1>2. CASE r = Append(q, e)
  BY <1>2, WireGrows
<1> QED BY <1>1, <1>2

LEMMA IndexedIsSequence ==
  ASSUME NEW n \in Nat, NEW a, DOMAIN a = 1..n, a = [i \in 1..n |-> a[i]]
  PROVE  IsSequence(a)
<1>1. a \in [1..n -> {a[i] : i \in DOMAIN a}]
  OBVIOUS
<1> QED BY <1>1 DEF IsSequence

\* The first event is taken off the wire.
LEMMA WireShrinks ==
  ASSUME NEW q, IsSequence(q), q # <<>>
  PROVE  /\ IsSequence(Tail(q)) /\ Head(q) = q[1] /\ 1 \in DOMAIN q
         /\ DOMAIN q \subseteq Nat /\ DOMAIN Tail(q) \subseteq Nat
         /\ \A i \in DOMAIN q : i # 1 => /\ i - 1 \in DOMAIN Tail(q) /\ Tail(q)[i - 1] = q[i]
         /\ \A i \in DOMAIN Tail(q) : i + 1 \in DOMAIN q /\ q[i + 1] = Tail(q)[i]
<1> DEFINE S == {q[i] : i \in DOMAIN q}
<1>1. q \in Seq(S) /\ Len(q) \in Nat /\ DOMAIN q = 1..Len(q)
  BY DEF IsSequence
<1>2. Len(q) # 0
  BY <1>1
<1> HIDE DEF S
<1>3. /\ Tail(q) \in Seq(S) /\ Len(Tail(q)) = Len(q) - 1 /\ Head(q) = q[1]
      /\ \A i \in 1..(Len(q) - 1) : Tail(q)[i] = q[i + 1]
  BY <1>1, <1>2
<1>4. DOMAIN Tail(q) = 1..(Len(q) - 1)
  BY <1>3
<1>5. IsSequence(Tail(q))
  <2> DEFINE a == Tail(q)
             n == Len(q) - 1
  <2>1. a \in Seq(S) /\ Len(a) = n /\ n \in Nat
    BY <1>1, <1>2, <1>3
  <2> HIDE DEF a, n
  <2>2. a \in [1..n -> S]
    BY <2>1, LenProperties
  <2>3. n \in Nat /\ DOMAIN a = 1..n /\ a = [i \in 1..n |-> a[i]]
    BY <2>1, <2>2
  <2> QED BY <2>3, IndexedIsSequence DEF a
<1> QED BY <1>1, <1>2, <1>3, <1>4, <1>5

\* What is published comes over every socket that is in the hub, after the rest.
LEMMA Published ==
  ASSUME SocketInv, WiresHold, NEW e, Publish(e)
  PROVE  /\ WiresHold' /\ DOMAIN sock' = DOMAIN sock
         /\ \A s \in DOMAIN sock :
              /\ Link(s)' <=> Link(s)
              /\ sock'[s].server = sock[s].server
              /\ DOMAIN sock[s].wire \subseteq DOMAIN sock'[s].wire
              /\ \A i \in DOMAIN sock[s].wire : sock'[s].wire[i] = sock[s].wire[i]
              /\ \A i \in DOMAIN sock'[s].wire :
                   i \in DOMAIN sock[s].wire \/ sock'[s].wire[i] = e
              /\ sock[s].server = "hub" /\ Using(s) =>
                   \E i \in DOMAIN sock'[s].wire :
                     sock'[s].wire[i] = e /\ \A j \in DOMAIN sock[s].wire : j < i
<1>1. /\ DOMAIN sock' = DOMAIN sock
      /\ \A s \in DOMAIN sock :
           /\ sock'[s].client = sock[s].client /\ sock'[s].server = sock[s].server
           /\ sock'[s].up = sock[s].up
           /\ sock'[s].wire = IF sock[s].server = "hub" /\ sock[s].up /\ Using(s)
                              THEN Append(sock[s].wire, e) ELSE sock[s].wire
  <2>1. \A s \in DOMAIN sock : IsSocket(sock[s])
    BY DEF SocketInv
  <2>2. DOMAIN sock' = DOMAIN sock
    BY DEF Publish
  <2>3. ASSUME NEW s \in DOMAIN sock
        PROVE  /\ sock'[s].client = sock[s].client /\ sock'[s].server = sock[s].server
               /\ sock'[s].up = sock[s].up
               /\ sock'[s].wire = IF sock[s].server = "hub" /\ sock[s].up /\ Using(s)
                                  THEN Append(sock[s].wire, e) ELSE sock[s].wire
    <3>1. sock'[s] = IF sock[s].server = "hub" /\ sock[s].up /\ Using(s)
                     THEN [sock[s] EXCEPT !.wire = Append(sock[s].wire, e)] ELSE sock[s]
      BY DEF Publish
    <3> QED BY <2>1, <3>1 DEF IsSocket
  <2> QED BY <2>2, <2>3
<1>2. \A s \in DOMAIN sock : /\ Using(s)' <=> Using(s)
                             /\ Link(s)' <=> Link(s)
  BY <1>1 DEF Using, Link
<1>3. ASSUME NEW s \in DOMAIN sock
      PROVE  /\ IsSequence(sock'[s].wire) /\ DOMAIN sock[s].wire \subseteq DOMAIN sock'[s].wire
             /\ \A i \in DOMAIN sock[s].wire : sock'[s].wire[i] = sock[s].wire[i]
             /\ \A i \in DOMAIN sock'[s].wire :
                  i \in DOMAIN sock[s].wire \/ sock'[s].wire[i] = e
  <2> DEFINE q == sock[s].wire
             r == sock'[s].wire
  <2>1. IsSequence(q) /\ r \in {q, Append(q, e)}
    BY <1>1 DEF WiresHold
  <2> HIDE DEF q, r
  <2>2. /\ IsSequence(r) /\ DOMAIN q \subseteq DOMAIN r
        /\ \A i \in DOMAIN q : r[i] = q[i]
        /\ \A i \in DOMAIN r : i \in DOMAIN q \/ r[i] = e
    BY <2>1, WireSameOrGrows
  <2> QED BY <2>2 DEF q, r
<1>4. WiresHold'
  BY <1>1, <1>2, <1>3 DEF WiresHold
<1>5. ASSUME NEW s \in DOMAIN sock, sock[s].server = "hub" /\ Using(s)
      PROVE  \E i \in DOMAIN sock'[s].wire :
               sock'[s].wire[i] = e /\ \A j \in DOMAIN sock[s].wire : j < i
  <2>1. IsSequence(sock[s].wire) /\ sock'[s].wire = Append(sock[s].wire, e)
    BY <1>1, <1>5 DEF WiresHold
  <2> QED BY <2>1, WireGrows
<1> QED BY <1>1, <1>2, <1>3, <1>4, <1>5

\* What is heard is the first on the wire, and leaves the rest as it was.
LEMMA Received ==
  ASSUME SocketInv, WiresHold, NEW s \in DOMAIN sock, NEW e, Receive(s, e)
  PROVE  /\ WiresHold' /\ DOMAIN sock' = DOMAIN sock
         /\ \A t \in DOMAIN sock : /\ t # s => sock'[t] = sock[t]
                                   /\ Link(t)' <=> Link(t)
                                   /\ sock'[t].server = sock[t].server
         /\ sock[s].client = "open" /\ 1 \in DOMAIN sock[s].wire /\ sock[s].wire[1] = e
         /\ DOMAIN sock[s].wire \subseteq Nat /\ DOMAIN sock'[s].wire \subseteq Nat
         /\ \A i \in DOMAIN sock[s].wire : i # 1 =>
              i - 1 \in DOMAIN sock'[s].wire /\ sock'[s].wire[i - 1] = sock[s].wire[i]
         /\ \A i \in DOMAIN sock'[s].wire :
              i + 1 \in DOMAIN sock[s].wire /\ sock[s].wire[i + 1] = sock'[s].wire[i]
<1> DEFINE q == sock[s].wire
           r == sock'[s].wire
<1>0. /\ sock[s].client = "open" /\ q # <<>> /\ Head(q) = e
      /\ DOMAIN sock' = DOMAIN sock /\ sock'[s] = [sock[s] EXCEPT !.wire = Tail(q)]
      /\ \A t \in DOMAIN sock : t # s => sock'[t] = sock[t]
  BY DEF Receive, SocketInv, IsSequence
<1>1. /\ r = Tail(q) /\ sock'[s].client = "open" /\ sock'[s].server = sock[s].server
      /\ sock'[s].up = sock[s].up
  BY <1>0 DEF SocketInv, IsSocket
<1>2. IsSequence(q)
  BY DEF WiresHold
<1>3. /\ IsSequence(r) /\ q[1] = e /\ 1 \in DOMAIN q
      /\ DOMAIN q \subseteq Nat /\ DOMAIN r \subseteq Nat
      /\ \A i \in DOMAIN q : i # 1 => /\ i - 1 \in DOMAIN r /\ r[i - 1] = q[i]
      /\ \A i \in DOMAIN r : i + 1 \in DOMAIN q /\ q[i + 1] = r[i]
  <2> HIDE DEF q, r
  <2> QED BY <1>0, <1>1, <1>2, WireShrinks
<1>4. \A t \in DOMAIN sock : /\ Using(t)' <=> Using(t)
                             /\ Link(t)' <=> Link(t)
                             /\ sock'[t].server = sock[t].server
  BY <1>0, <1>1 DEF Using, Link
<1>5. WiresHold'
  <2>1. Using(s) /\ sock[s].server \notin {"none", "lookup"}
    BY <1>0 DEF WiresHold
  <2>2. Using(s)' /\ sock'[s].server \notin {"none", "lookup"}
    BY <1>1, <1>4, <2>1
  <2>3. Using(s)' /\ sock'[s].server \in {"lookup", "hub"} => sock'[s].up
    BY <1>1, <1>4 DEF WiresHold
  <2>4. ASSUME NEW t \in DOMAIN sock', t # s
        PROVE  /\ IsSequence(sock'[t].wire)
               /\ ~Using(t)' \/ sock'[t].server \in {"none", "lookup"} => sock'[t].wire = <<>>
               /\ Using(t)' /\ sock'[t].server \in {"lookup", "hub"} => sock'[t].up
    BY <1>0, <1>4, <2>4 DEF WiresHold
  <2> QED BY <1>3, <2>2, <2>3, <2>4 DEF WiresHold
<1> HIDE DEF q, r
<1>6. /\ \A t \in DOMAIN sock : /\ t # s => sock'[t] = sock[t]
                                /\ Link(t)' <=> Link(t)
                                /\ sock'[t].server = sock[t].server
      /\ DOMAIN sock' = DOMAIN sock /\ sock[s].client = "open"
  BY <1>0, <1>4
<1> QED BY <1>3, <1>5, <1>6 DEF q, r

LEMMA QuietFollowed ==
  ASSUME WiresHold, CallsFollowed, QuietSocket, UNCHANGED callVars
  PROVE  CallsFollowed'
<1>1. UNCHANGED <<calls, unrung, deaf, ring, panel, panelQuery>>
  BY DEF callVars, callServerVars, screenVars
<1>2. \A k : /\ Over(k)' <=> Over(k)
             /\ Ended(k) \in unrung' <=> Ended(k) \in unrung
             /\ Started(k) \in unrung' <=> Started(k) \in unrung
  BY <1>1 DEF Over, Started, Ended, Event
<1>3. \A s \in DOMAIN sock' : Link(s)' => s \in DOMAIN sock /\ Link(s) /\ sock'[s].wire = sock[s].wire
  BY DEF QuietSocket, Link
<1>4. \A k : Coming(k) => Coming(k)'
  BY <1>1, <1>3 DEF Coming, OnWire
<1>5. StartsFollowed'
  <2> SUFFICES ASSUME NEW k \in DOMAIN calls', Over(k)', Ended(k) \notin unrung'
               PROVE  /\ Started(k) \notin unrung'
                      /\ \A s \in DOMAIN sock' : \A i \in DOMAIN sock'[s].wire :
                           sock'[s].wire[i] = Started(k) =>
                             \/ sock'[s].server = "gone"
                             \/ \E j \in DOMAIN sock'[s].wire : j > i /\ sock'[s].wire[j] = Ended(k)
    BY DEF StartsFollowed
  <2>1. k \in DOMAIN calls /\ Over(k) /\ Ended(k) \notin unrung /\ Started(k) \notin unrung
    BY <1>1, <1>2 DEF CallsFollowed, StartsFollowed
  <2>2. Started(k) \notin unrung'
    BY <1>2, <2>1
  <2>3. ASSUME NEW s \in DOMAIN sock', NEW i \in DOMAIN sock'[s].wire, sock'[s].wire[i] = Started(k)
        PROVE  \/ sock'[s].server = "gone"
               \/ \E j \in DOMAIN sock'[s].wire : j > i /\ sock'[s].wire[j] = Ended(k)
    <3> DEFINE q == sock[s].wire
               r == sock'[s].wire
    <3>1. r # <<>>
      BY <2>3
    <3>2. s \in DOMAIN sock
      BY <3>1 DEF QuietSocket
    <3>3. IsSequence(q) /\ r \in {q, Append(q, Refusal)}
      BY <3>1, <3>2 DEF QuietSocket, WiresHold
    <3>4. /\ DOMAIN q \subseteq DOMAIN r /\ \A j \in DOMAIN q : r[j] = q[j]
          /\ \A j \in DOMAIN r : j \in DOMAIN q \/ r[j] = Refusal
      <4> HIDE DEF q, r
      <4> QED BY <3>3, WireSameOrGrows
    <3>5. i \in DOMAIN q /\ q[i] = Started(k)
      BY <2>3, <3>4 DEF Refusal, Started, Event
    <3>6. \/ sock[s].server = "gone" \/ \E j \in DOMAIN q : j > i /\ q[j] = Ended(k)
      BY <2>1, <3>2, <3>5 DEF CallsFollowed, StartsFollowed
    <3> QED BY <3>2, <3>4, <3>6 DEF QuietSocket
  <2> QED BY <2>2, <2>3
<1>6. RingFollowed' /\ PanelFollowed'
  BY <1>1, <1>2, <1>4 DEF CallsFollowed, RingFollowed, PanelFollowed
<1> QED BY <1>5, <1>6 DEF CallsFollowed

\* One socket changes and the others stay.
OneChanges(s) ==
  /\ DOMAIN sock' = DOMAIN sock
  /\ \A t \in DOMAIN sock : t # s => sock'[t] = sock[t]

LEMMA OneQuiet ==
  ASSUME WiresHold, NEW s \in DOMAIN sock, OneChanges(s),
         sock'[s].wire \in {<<>>, sock[s].wire, Append(sock[s].wire, Refusal)},
         Link(s)' => Link(s) /\ sock'[s].wire = sock[s].wire,
         sock[s].server = "gone" => sock'[s].server = "gone",
         ~Using(s)' \/ sock'[s].server \in {"none", "lookup"} => sock'[s].wire = <<>>,
         Using(s)' /\ sock'[s].server \in {"lookup", "hub"} => sock'[s].up
  PROVE  QuietSocket /\ WiresHold'
<1>1. QuietSocket
  BY DEF QuietSocket, OneChanges, Link
<1>2. IsSequence(sock'[s].wire)
  <2>1. IsSequence(<<>>)
    BY DEF IsSequence
  <2>2. IsSequence(sock[s].wire) /\ IsSequence(Append(sock[s].wire, Refusal))
    BY WireGrows DEF WiresHold
  <2> QED BY <2>1, <2>2
<1>3. WiresHold'
  BY <1>2 DEF WiresHold, OneChanges, Using
<1> QED BY <1>1, <1>3

LEMMA NewQuiet ==
  ASSUME SocketInv, WiresHold, NEW r, sock' = Opened(r)
  PROVE  QuietSocket /\ WiresHold'
<1>1. /\ DOMAIN sock' = DOMAIN sock \cup {Len(sock) + 1} /\ Len(sock) + 1 \notin DOMAIN sock
      /\ sock'[Len(sock) + 1] = New(r) /\ \A t \in DOMAIN sock : sock'[t] = sock[t]
  BY OneLonger DEF Opened, SocketInv
<1>2. /\ New(r).client = "connecting" /\ New(r).wire = <<>> /\ New(r).server = "none"
      /\ IsSequence(<<>>)
  BY DEF New, IsSequence
<1>3. QuietSocket
  BY <1>1, <1>2 DEF QuietSocket, Link
<1>4. WiresHold'
  BY <1>1, <1>2 DEF WiresHold, Using
<1> QED BY <1>3, <1>4

LEMMA SocketQuiet ==
  ASSUME SocketInv, WiresHold, Connecting \/ Losing
  PROVE  QuietSocket /\ WiresHold'
<1>i. /\ \A s \in DOMAIN sock : IsSocket(sock[s])
      /\ sock = [s \in DOMAIN sock |-> sock[s]]
  BY DEF SocketInv, IsSequence
<1>1. CASE Mount
  BY <1>1, NewQuiet DEF Mount
<1>2. ASSUME NEW r \in timer, TimerFires(r) PROVE QuietSocket /\ WiresHold'
  <2>1. CASE sock' = sock
    <3>1. QuietSocket
      BY <2>1 DEF QuietSocket, Link
    <3>2. WiresHold'
      BY <2>1 DEF WiresHold, Using
    <3> QED BY <3>1, <3>2
  <2> QED BY <1>2, <2>1, NewQuiet DEF TimerFires
<1>3. ASSUME NEW s \in DOMAIN sock, ServerAccepts(s) PROVE QuietSocket /\ WiresHold'
  <2>0. /\ OneChanges(s) /\ sock'[s] = [sock[s] EXCEPT !.server = "lookup", !.up = TRUE]
        /\ sock[s].server = "none" /\ sock[s].client = "connecting"
    BY <1>3 DEF ServerAccepts, Is, OneChanges
  <2>1. /\ sock'[s].wire = sock[s].wire /\ sock'[s].client = sock[s].client
        /\ sock'[s].server = "lookup" /\ sock'[s].up = TRUE
    BY <1>i, <2>0 DEF IsSocket
  <2>2. ~Link(s)'
    BY <2>0, <2>1 DEF Link
  <2>3. sock[s].wire = <<>>
    BY <2>0 DEF WiresHold
  <2> QED BY <2>0, <2>1, <2>2, <2>3, OneQuiet DEF Using
<1>4. ASSUME NEW s \in DOMAIN sock, LookupAnswers(s) PROVE QuietSocket /\ WiresHold'
  <2>1. CASE session
    <3>0. /\ OneChanges(s) /\ sock'[s] = [sock[s] EXCEPT !.server = "hub", !.early = ~sock[s].up]
          /\ sock[s].server = "lookup"
      BY <1>4, <2>1 DEF LookupAnswers, OneChanges
    <3>1. /\ sock'[s].wire = sock[s].wire /\ sock'[s].client = sock[s].client
          /\ sock'[s].server = "hub" /\ sock'[s].up = sock[s].up
      BY <1>i, <3>0 DEF IsSocket
    <3>2. Link(s)' => Link(s)
      BY <3>0, <3>1 DEF Link
    <3>3. sock[s].wire = <<>> /\ (Using(s)' => sock'[s].up)
      BY <3>0, <3>1 DEF WiresHold, Using
    <3> QED BY <3>0, <3>1, <3>2, <3>3, OneQuiet
  <2>2. CASE ~session
    <3> DEFINE w == IF sock[s].client \in {"connecting", "open"}
                    THEN Append(sock[s].wire, Refusal) ELSE sock[s].wire
    <3>0. /\ OneChanges(s) /\ sock[s].server = "lookup"
          /\ sock'[s] = [sock[s] EXCEPT !.server = "gone", !.up = FALSE, !.wire = w]
      BY <1>4, <2>2 DEF LookupAnswers, OneChanges
    <3> HIDE DEF w
    <3>1. /\ sock'[s].client = sock[s].client /\ sock'[s].server = "gone" /\ sock'[s].wire = w
      BY <1>i, <3>0 DEF IsSocket
    <3>2. ~Link(s)' /\ sock[s].wire = <<>>
      BY <3>0, <3>1 DEF Link, WiresHold
    <3>3. ~Using(s)' => sock'[s].wire = <<>>
      BY <3>1, <3>2 DEF Using, w
    <3>4. w \in {<<>>, sock[s].wire, Append(sock[s].wire, Refusal)}
      BY DEF w
    <3> QED BY <3>0, <3>1, <3>2, <3>3, <3>4, OneQuiet
  <2> QED BY <2>1, <2>2
<1>5. ASSUME NEW s \in DOMAIN sock, ServerCloses(s) PROVE QuietSocket /\ WiresHold'
  <2>0. /\ OneChanges(s) /\ sock[s].client \in {"closing", "closed"}
        /\ sock'[s] = [sock[s] EXCEPT !.up = FALSE, !.server = AfterClose(s)]
    BY <1>5 DEF ServerCloses, OneChanges
  <2>1. /\ sock'[s].wire = sock[s].wire /\ sock'[s].client = sock[s].client
        /\ sock'[s].server \in {"gone", sock[s].server}
    BY <1>i, <2>0 DEF IsSocket, AfterClose
  <2>2. ~Link(s)' /\ ~Using(s)' /\ ~Using(s)
    BY <2>0, <2>1 DEF Link, Using
  <2>3. sock[s].wire = <<>>
    BY <2>2 DEF WiresHold
  <2> QED BY <2>0, <2>1, <2>2, <2>3, OneQuiet
<1>6. ASSUME NEW s \in DOMAIN sock, ClientCloses(s) PROVE QuietSocket /\ WiresHold'
  <2>0. OneChanges(s) /\ sock'[s] = [sock[s] EXCEPT !.client = "closed", !.wire = <<>>]
    BY <1>6 DEF ClientCloses, OneChanges
  <2>1. /\ sock'[s].wire = <<>> /\ sock'[s].client = "closed"
        /\ sock'[s].server = sock[s].server
    BY <1>i, <2>0 DEF IsSocket
  <2>2. ~Link(s)' /\ ~Using(s)'
    BY <2>1 DEF Link, Using
  <2> QED BY <2>0, <2>1, <2>2, OneQuiet
<1> QED BY <1>1, <1>2, <1>3, <1>4, <1>5, <1>6 DEF Connecting, Losing

\* What the screen does about what it hears of calls.
LEMMA HeardShape ==
  ASSUME CallsShape, UNCHANGED <<callServerVars, at, panel, expected, roomVars>>,
         listed' \in {listed, exists}, ring' \in KnownCalls,
         panelQuery' \in {panelQuery, PanelAsked}
  PROVE  CallsShape'
<1>1. UNCHANGED <<calls, exists, framing, KnownCalls, room, entering, leaving, tab, unlisted>>
      /\ 0 \in KnownCalls
  BY DEF callServerVars, roomVars, KnownCalls, CallsShape, ServerShape
<1>2. CallsLater
  BY <1>1, CallsLaterSame DEF CallsShape, ServerShape
<1>3. RoomShape'
  BY <1>1, <1>2, RoomKept DEF CallsShape, RoomShape
<1>4. ScreenShape'
  BY <1>1 DEF CallsShape, ScreenShape, ShownIsListed, PanelAsked
<1> QED BY <1>2, <1>3, <1>4 DEF CallsShape, CallsLater

LEMMA OpensHolds ==
  ASSUME SocketInv, CallsHold, NEW s \in DOMAIN sock, ClientOpens(s), CallsReopen
  PROVE  CallsHold'
<1>1. CallsShape'
  <2>1. ring \in KnownCalls
    BY DEF CallsHold, CallsShape, ScreenShape
  <2> QED BY <2>1, HeardShape DEF CallsHold, CallsReopen, PanelReasked
<1>2. /\ DOMAIN sock' = DOMAIN sock
      /\ \A t \in DOMAIN sock : /\ sock'[t].wire = sock[t].wire /\ sock'[t].server = sock[t].server
                                /\ sock'[t].up = sock[t].up /\ (Using(t)' <=> Using(t))
  <2>1. /\ \A t \in DOMAIN sock : IsSocket(sock[t])
        /\ sock = [t \in DOMAIN sock |-> sock[t]]
    BY DEF SocketInv, IsSequence
  <2>2. /\ DOMAIN sock' = DOMAIN sock /\ sock'[s] = [sock[s] EXCEPT !.client = "open"]
        /\ sock[s].client = "connecting"
        /\ \A t \in DOMAIN sock : t # s => sock'[t] = sock[t]
    BY DEF ClientOpens
  <2>3. /\ sock'[s].wire = sock[s].wire /\ sock'[s].server = sock[s].server
        /\ sock'[s].up = sock[s].up /\ sock'[s].client = "open"
    BY <2>1, <2>2 DEF IsSocket
  <2> QED BY <2>2, <2>3 DEF Using
<1>3. WiresHold'
  BY <1>2 DEF CallsHold, WiresHold
<1>4. /\ UNCHANGED <<calls, unrung, ring>> /\ deaf \subseteq deaf'
      /\ ring # 0 /\ ~calls[ring].live => ring \in deaf'
      /\ panelQuery'.at = "asked"
  BY DEF CallsReopen, callServerVars, PanelReasked, PanelAsked
<1>5. \A k : Over(k)' => Over(k)
  BY <1>4 DEF Over
<1>6. StartsFollowed'
  BY <1>2, <1>4, <1>5 DEF CallsHold, CallsFollowed, StartsFollowed, Started, Ended, Event
<1>7. RingFollowed' /\ PanelFollowed'
  BY <1>4 DEF RingFollowed, PanelFollowed, Over
<1> QED BY <1>1, <1>3, <1>6, <1>7 DEF CallsHold, CallsFollowed

LEMMA PublishHolds ==
  ASSUME SocketInv, CallsHold, NEW e, PublishCall(e)
  PROVE  CallsHold'
<1>1. /\ UNCHANGED <<calls, exists, framing, screenVars, roomVars>>
      /\ unrung' = unrung \ {e} /\ Publish(e) /\ deaf \subseteq deaf'
  BY DEF PublishCall
<1>2. CallsShape'
  <2>1. CallsLater
    BY <1>1, CallsLaterSame DEF CallsHold, CallsShape, ServerShape
  <2> QED BY <1>1, <2>1, ScreenKept, RoomKept
          DEF CallsHold, CallsShape, CallsLater, RoomShape, roomVars
<1>3. /\ WiresHold' /\ DOMAIN sock' = DOMAIN sock
      /\ \A s \in DOMAIN sock :
           /\ Link(s)' <=> Link(s)
           /\ sock'[s].server = sock[s].server
  BY <1>1, Published DEF CallsHold
<1>4. ASSUME NEW s \in DOMAIN sock
      PROVE  /\ DOMAIN sock[s].wire \subseteq DOMAIN sock'[s].wire
             /\ \A i \in DOMAIN sock[s].wire : sock'[s].wire[i] = sock[s].wire[i]
             /\ \A i \in DOMAIN sock'[s].wire :
                  i \in DOMAIN sock[s].wire \/ sock'[s].wire[i] = e
             /\ sock[s].server = "hub" /\ Using(s) =>
                  \E i \in DOMAIN sock'[s].wire :
                    sock'[s].wire[i] = e /\ \A j \in DOMAIN sock[s].wire : j < i
  BY <1>1, Published DEF CallsHold
<1>5. \A s \in DOMAIN sock' : IsSequence(sock'[s].wire)
  BY <1>3 DEF WiresHold
<1>6. ASSUME NEW k, Over(k)' PROVE Over(k)
  BY <1>1, <1>6 DEF Over
<1>7. \A k : /\ Started(k) \in unrung' <=> Started(k) \in unrung /\ Started(k) # e
             /\ Ended(k) \in unrung' <=> Ended(k) \in unrung /\ Ended(k) # e
  <2>1. \A k : Started(k)' = Started(k) /\ Ended(k)' = Ended(k)
    BY DEF Started, Ended, Event
  <2> QED BY <1>1, <2>1
<1>8. ASSUME NEW k, Over(k)', Ended(k) = e
       PROVE  Started(k) \notin unrung /\ ~OpenNotInHub
  BY <1>8 DEF PublishCall, Over, Ended, Started, Event
<1>9. ASSUME NEW k, Over(k)', Coming(k) PROVE Coming(k)'
  <2>1. CASE Ended(k) \in unrung /\ Ended(k) # e
    BY <1>7, <2>1 DEF Coming
  <2>2. CASE Ended(k) = e
    <3>1. ASSUME NEW s \in DOMAIN sock, Link(s) PROVE OnWire(s, Ended(k))'
      <4>1. sock[s].server = "hub"
        BY <1>8, <1>9, <2>2, <3>1 DEF OpenNotInHub, Is, Link
      <4>2. Using(s) /\ sock[s].up
        BY <3>1, <4>1 DEF Link, Using, CallsHold, WiresHold
      <4> QED BY <1>4, <2>2, <4>1, <4>2 DEF OnWire, Ended, Event
    <3> QED BY <1>3, <3>1 DEF Coming
  <2>3. CASE \A s \in DOMAIN sock : Link(s) => OnWire(s, Ended(k))
    <3>1. \A s \in DOMAIN sock : Link(s) => OnWire(s, Ended(k))'
      BY <1>4, <2>3 DEF OnWire, Ended, Event
    <3> QED BY <1>3, <3>1 DEF Coming
  <2> QED BY <1>9, <2>1, <2>2, <2>3 DEF Coming
<1>10. RingFollowed' /\ PanelFollowed'
  BY <1>1, <1>6, <1>9 DEF CallsHold, CallsFollowed, RingFollowed, PanelFollowed, screenVars
<1>11. StartsFollowed'
  <2> SUFFICES ASSUME NEW k \in DOMAIN calls', Over(k)'
               PROVE  /\ Started(k) \in unrung' => Ended(k) \in unrung'
                      /\ Ended(k) \notin unrung' =>
                           \A s \in DOMAIN sock' : \A i \in DOMAIN sock'[s].wire :
                             sock'[s].wire[i] = Started(k) =>
                               \/ sock'[s].server = "gone"
                               \/ \E j \in DOMAIN sock'[s].wire :
                                    j > i /\ sock'[s].wire[j] = Ended(k)
    BY DEF StartsFollowed, Started, Ended, Event
  <2>0. Over(k) /\ k \in DOMAIN calls
    BY <1>1, <1>6
  <2>1. Started(k) \in unrung => Ended(k) \in unrung
    BY <2>0 DEF CallsHold, CallsFollowed, StartsFollowed
  <2>2. Started(k) \in unrung' => Ended(k) \in unrung'
    BY <1>7, <1>8, <2>1
  <2>3. ASSUME Ended(k) \notin unrung', NEW s \in DOMAIN sock,
               NEW i \in DOMAIN sock'[s].wire, sock'[s].wire[i] = Started(k),
               sock[s].server # "gone"
        PROVE  \E j \in DOMAIN sock'[s].wire : j > i /\ sock'[s].wire[j] = Ended(k)
    <3>1. CASE Ended(k) = e
      <4>1. i \in DOMAIN sock[s].wire
        BY <1>4, <2>3, <3>1 DEF Started, Ended, Event
      <4>2. sock[s].wire # <<>>
        BY <4>1
      <4>3. sock[s].server = "hub" /\ Using(s) /\ sock[s].up
        <5>1. Using(s) /\ sock[s].server \notin {"none", "lookup"}
          BY <4>2 DEF CallsHold, WiresHold
        <5>2. sock[s].server \in {"none", "lookup", "hub", "gone"}
          BY DEF SocketInv, IsSocket
        <5> QED BY <2>3, <5>1, <5>2 DEF CallsHold, WiresHold
      <4>4. PICK j \in DOMAIN sock'[s].wire :
              sock'[s].wire[j] = e /\ \A m \in DOMAIN sock[s].wire : m < j
        BY <1>4, <4>3
      <4>5. i < j
        BY <4>1, <4>4
      <4>6. i \in Nat /\ j \in Nat
        <5> DEFINE r == sock'[s].wire
        <5>1. IsSequence(r)
          BY <1>3, <1>5, <2>3
        <5>2. i \in DOMAIN r /\ j \in DOMAIN r
          BY <2>3, <4>4
        <5> HIDE DEF r
        <5> QED BY <5>1, <5>2 DEF IsSequence
      <4> QED BY <3>1, <4>4, <4>5, <4>6
    <3>2. CASE Ended(k) # e
      <4>1. Ended(k) \notin unrung
        BY <1>7, <2>3, <3>2
      <4>2. Started(k) # e
        BY <1>1, <2>1, <4>1 DEF PublishCall
      <4>3. i \in DOMAIN sock[s].wire /\ sock[s].wire[i] = Started(k)
        BY <1>4, <2>3, <4>2
      <4>4. PICK j \in DOMAIN sock[s].wire : j > i /\ sock[s].wire[j] = Ended(k)
        BY <2>0, <2>3, <4>1, <4>3 DEF CallsHold, CallsFollowed, StartsFollowed
      <4> QED BY <1>4, <4>4
    <3> QED BY <3>1, <3>2
  <2> QED BY <1>3, <2>2, <2>3
<1> QED BY <1>2, <1>3, <1>10, <1>11 DEF CallsHold, CallsFollowed

\* What is heard leaves the rest of the wire as it was, and an end that is not
\* what was heard still comes; the end of a call whose start was heard comes.
LEMMA EventTaken ==
  ASSUME SocketInv, CallsHold, NEW s \in DOMAIN sock, NEW e, Receive(s, e),
         UNCHANGED <<calls, unrung, deaf>>
  PROVE  /\ WiresHold' /\ StartsFollowed' /\ \A k : Over(k)' <=> Over(k)
         /\ \A k : Coming(k) /\ Ended(k) # e => Coming(k)'
         /\ \A k \in DOMAIN calls : Over(k) /\ e = Started(k) => Coming(k)'
<1> DEFINE q == sock[s].wire
           r == sock'[s].wire
<1>1. /\ WiresHold' /\ DOMAIN sock' = DOMAIN sock
      /\ \A t \in DOMAIN sock : /\ t # s => sock'[t] = sock[t]
                                /\ Link(t)' <=> Link(t)
                                /\ sock'[t].server = sock[t].server
      /\ sock[s].client = "open"
  BY Received DEF CallsHold
<1>2. /\ q[1] = e /\ 1 \in DOMAIN q
      /\ DOMAIN q \subseteq Nat /\ DOMAIN r \subseteq Nat
      /\ \A i \in DOMAIN q : i # 1 => /\ i - 1 \in DOMAIN r /\ r[i - 1] = q[i]
      /\ \A i \in DOMAIN r : i + 1 \in DOMAIN q /\ q[i + 1] = r[i]
  BY Received DEF CallsHold
<1>3. \A k : /\ Over(k)' <=> Over(k)
             /\ Ended(k)' = Ended(k) /\ Started(k)' = Started(k)
             /\ Ended(k) \in unrung' <=> Ended(k) \in unrung
             /\ Started(k) \in unrung' <=> Started(k) \in unrung
  BY DEF Over, Started, Ended, Event
<1>4. ASSUME NEW t \in DOMAIN sock, NEW x, x # e, OnWire(t, x) PROVE OnWire(t, x)'
  <2>1. CASE t = s
    <3>1. PICK i \in DOMAIN q : q[i] = x
      BY <1>4, <2>1 DEF OnWire
    <3>2. i - 1 \in DOMAIN r /\ r[i - 1] = x
      BY <1>2, <1>4, <3>1
    <3> QED BY <2>1, <3>2 DEF OnWire
  <2>2. CASE t # s
    BY <1>1, <1>4, <2>2 DEF OnWire
  <2> QED BY <2>1, <2>2
<1>5. ASSUME NEW k, Coming(k), Ended(k) # e PROVE Coming(k)'
  <2>1. CASE Ended(k) \in unrung
    BY <1>3, <2>1 DEF Coming
  <2>2. CASE \A t \in DOMAIN sock : Link(t) => OnWire(t, Ended(k))
    <3>1. \A t \in DOMAIN sock' : Link(t)' => OnWire(t, Ended(k))'
      BY <1>1, <1>3, <1>4, <1>5, <2>2
    <3> QED BY <3>1 DEF Coming
  <2> QED BY <1>5, <2>1, <2>2 DEF Coming
<1>6. ASSUME NEW k \in DOMAIN calls, Over(k), e = Started(k) PROVE Coming(k)'
  <2>1. CASE Ended(k) \in unrung
    BY <1>3, <2>1 DEF Coming
  <2>2. CASE sock[s].server = "gone" \/ \E j \in DOMAIN q : j > 1 /\ q[j] = Ended(k)
    <3>1. \A t \in DOMAIN sock : Link(t) => t = s
      BY <1>1 DEF Link, Using, SocketInv, OneUsed
    <3>2. Link(s) => OnWire(s, Ended(k))'
      <4>1. ASSUME NEW j \in DOMAIN q, j > 1, q[j] = Ended(k) PROVE OnWire(s, Ended(k))'
        <5>1. j # 1
          BY <4>1
        <5> QED BY <1>2, <1>3, <4>1, <5>1 DEF OnWire
      <4> QED BY <2>2, <4>1 DEF Link
    <3>3. \A t \in DOMAIN sock' : Link(t)' => OnWire(t, Ended(k))'
      BY <1>1, <3>1, <3>2
    <3> QED BY <3>3 DEF Coming
  <2> QED BY <1>2, <1>6, <2>1, <2>2 DEF CallsHold, CallsFollowed, StartsFollowed
<1>7. StartsFollowed'
  <2> SUFFICES ASSUME NEW k \in DOMAIN calls, Over(k), Ended(k) \notin unrung
               PROVE  /\ Started(k) \notin unrung
                      /\ \A t \in DOMAIN sock' : \A i \in DOMAIN sock'[t].wire :
                           sock'[t].wire[i] = Started(k) =>
                             \/ sock'[t].server = "gone"
                             \/ \E j \in DOMAIN sock'[t].wire : j > i /\ sock'[t].wire[j] = Ended(k)
    BY <1>3 DEF StartsFollowed
  <2>1. /\ Started(k) \notin unrung
        /\ \A t \in DOMAIN sock : \A i \in DOMAIN sock[t].wire :
             sock[t].wire[i] = Started(k) =>
               \/ sock[t].server = "gone"
               \/ \E j \in DOMAIN sock[t].wire : j > i /\ sock[t].wire[j] = Ended(k)
    BY DEF CallsHold, CallsFollowed, StartsFollowed
  <2>2. ASSUME NEW i \in DOMAIN r, r[i] = Started(k)
        PROVE  sock[s].server = "gone" \/ \E j \in DOMAIN r : j > i /\ r[j] = Ended(k)
    <3>0. i + 1 \in DOMAIN q /\ q[i + 1] = Started(k) /\ i \in Nat
      BY <1>2, <2>2
    <3>1. \/ sock[s].server = "gone"
          \/ \E j \in DOMAIN q : j > i + 1 /\ q[j] = Ended(k)
      BY <2>1, <3>0
    <3>2. ASSUME NEW j \in DOMAIN q, j > i + 1, q[j] = Ended(k)
          PROVE  \E m \in DOMAIN r : m > i /\ r[m] = Ended(k)
      <4>1. j \in Nat /\ j # 1 /\ j - 1 > i
        BY <1>2, <3>0, <3>2
      <4> QED BY <1>2, <3>2, <4>1
    <3> QED BY <3>1, <3>2
  <2>3. \A t \in DOMAIN sock' : t = s \/ sock'[t] = sock[t]
    BY <1>1
  <2>4. ASSUME NEW t \in DOMAIN sock', NEW i \in DOMAIN sock'[t].wire,
               sock'[t].wire[i] = Started(k)
        PROVE  \/ sock'[t].server = "gone"
               \/ \E j \in DOMAIN sock'[t].wire : j > i /\ sock'[t].wire[j] = Ended(k)
    <3>1. CASE t = s
      BY <1>1, <2>2, <2>4, <3>1
    <3>2. CASE t # s
      BY <1>1, <2>1, <2>3, <2>4, <3>2
    <3> QED BY <3>1, <3>2
  <2> QED BY <2>1, <2>4
<1> QED BY <1>1, <1>3, <1>5, <1>6, <1>7

LEMMA ArrivesHolds ==
  ASSUME SocketInv, CallsHold, NEW s \in DOMAIN sock, NEW k \in DOMAIN calls,
         StartArrives(s, k) \/ EndArrives(s, k)
  PROVE  CallsHold'
<1>0. /\ UNCHANGED <<callServerVars, at, panel, listed, expected, roomVars, deaf>>
      /\ panelQuery' = PanelReasked(calls[k].channel)
      /\ \/ Receive(s, Started(k)) /\ ring' \in {ring, k}
         \/ Receive(s, Ended(k)) /\ ring' = RingAfterEnd(k)
  BY DEF StartArrives, EndArrives, PanelAfterEnd
<1>1. /\ ring' \in {0, ring, k} /\ panelQuery' \in {panelQuery, PanelAsked}
      /\ UNCHANGED <<calls, unrung, deaf, panel>>
  BY <1>0 DEF RingAfterEnd, PanelReasked, callServerVars
<1>2. CallsShape'
  <2>1. 0 \in KnownCalls /\ ring \in KnownCalls /\ k \in KnownCalls
    BY DEF CallsHold, CallsShape, ServerShape, ScreenShape, KnownCalls
  <2> QED BY <1>0, <1>1, <2>1, HeardShape DEF CallsHold
<1>3. /\ \A j \in KnownCalls : j # 0 => j \in DOMAIN calls
      /\ ring \in KnownCalls /\ panel \in KnownCalls /\ panelQuery.live \in KnownCalls
      /\ panel # 0 => calls[panel].channel = at
      /\ panelQuery.at = "answered" /\ panelQuery.live # 0 =>
           calls[panelQuery.live].channel = at
  BY DEF CallsHold, CallsShape, ServerShape, ScreenShape, KnownCalls
<1>4. /\ RingFollowed /\ PanelFollowed
      /\ \A j : Ended(j) # Started(k) /\ (Ended(j) = Ended(k) => j = k)
  BY DEF CallsHold, CallsFollowed, Ended, Started, Event
<1>5. /\ WiresHold' /\ StartsFollowed' /\ \A j : Over(j)' <=> Over(j)
      /\ \/ /\ Receive(s, Started(k)) /\ ring' \in {ring, k}
            /\ \A j : Coming(j) => Coming(j)'
            /\ Over(k) => Coming(k)'
         \/ /\ ring' = RingAfterEnd(k)
            /\ \A j : Coming(j) /\ j # k => Coming(j)'
  <2>1. CASE Receive(s, Started(k)) /\ ring' \in {ring, k}
    BY <1>1, <1>4, <2>1, EventTaken
  <2>2. CASE Receive(s, Ended(k)) /\ ring' = RingAfterEnd(k)
    BY <1>1, <1>4, <2>2, EventTaken
  <2> QED BY <1>0, <2>1, <2>2
<1>6. RingFollowed'
  BY <1>3, <1>4, <1>5 DEF RingFollowed, RingAfterEnd
<1>7. PanelFollowed'
  <2>1. CASE panelQuery'.at = "asked"
    BY <2>1 DEF PanelFollowed
  <2>2. CASE panelQuery' = panelQuery /\ at # calls[k].channel
    <3>1. /\ panel # k
          /\ panelQuery.at = "answered" /\ panelQuery.live # 0 => panelQuery.live # k
      <4>1. k # 0
        BY DEF CallsHold, CallsShape, ServerShape
      <4> QED BY <1>3, <2>2, <4>1
    <3> QED BY <1>1, <1>4, <1>5, <2>2, <3>1 DEF PanelFollowed
  <2> QED BY <1>0, <2>1, <2>2 DEF PanelReasked, PanelAsked
<1> QED BY <1>2, <1>5, <1>6, <1>7 DEF CallsHold, CallsFollowed

-----------------------------------------------------------------------------

\* A step that leaves the socket alone, whatever it does, and what it keeps.
LEMMA LocalHolds ==
  ASSUME CallsHold, CallsShape', Local PROVE CallsHold'
<1>1. WiresHold'
  BY DEF Local, CallsHold, WiresHold, Using
<1>2. CallsFollowed'
  BY LocalFollowed DEF CallsHold
<1> QED BY <1>1, <1>2 DEF CallsHold

LEMMA QuietHolds ==
  ASSUME SocketInv, CallsHold, Connecting \/ Losing, UNCHANGED callVars
  PROVE  CallsHold'
<1>1. QuietSocket /\ WiresHold'
  BY SocketQuiet DEF CallsHold
<1>2. CallsFollowed'
  BY <1>1, QuietFollowed DEF CallsHold
<1>3. CallsShape'
  <2>1. /\ UNCHANGED <<callServerVars, at, panel, expected, roomVars, listed, panelQuery, ring>>
        /\ ring \in KnownCalls
    BY DEF callVars, screenVars, CallsHold, CallsShape, ScreenShape
  <2> QED BY <2>1, HeardShape DEF CallsHold
<1> QED BY <1>1, <1>2, <1>3 DEF CallsHold

\* What rings and what the panel shows.
LEMMA RingHolds ==
  ASSUME SocketInv, CallsHold, RingStep \/ \E k \in CallIds : SweepEnds(k)
  PROVE  CallsHold'
<1>0. CallsShape
  BY DEF CallsHold
<1>1. CASE ServerOnly
  BY <1>0, <1>1, ServerMoves, LocalHolds
<1>2. CASE ScreenOnly
  BY <1>0, <1>2, ScreenMoves, LocalHolds
<1>3. ASSUME NEW e, PublishCall(e) PROVE CallsHold'
  BY <1>3, PublishHolds
<1>4. ASSUME NEW k \in CallIds, NEW s \in DOMAIN sock, StartArrives(s, k) \/ EndArrives(s, k)
      PROVE  CallsHold'
  BY <1>4, ArrivesHolds DEF CallIds
<1> QED BY <1>1, <1>2, <1>3, <1>4 DEF RingStep, ServerOnly, ScreenOnly, CallIds

\* Going in and leaving.
LEMMA EntryStepHolds ==
  ASSUME CallsHold, tab = "here", EntryStep \/ FramingChanges \/ PressStep
  PROVE  CallsHold'
<1>0. CallsShape
  BY DEF CallsHold
<1>1. CASE ServerOnly
  BY <1>0, <1>1, ServerMoves, LocalHolds
<1>2. CASE ScreenOnly
  BY <1>0, <1>2, ScreenMoves, LocalHolds
<1>3. CASE PressStep
  BY <1>0, <1>3, PressMoves, LocalHolds
<1>4. CASE FrameRefused \/ PressLeave \/ LeaveSucceeds \/ LeaveFails
  BY <1>0, <1>4, LeaveMoves, LocalHolds
<1>5. CASE ServerLeaves
  BY <1>0, <1>5, ServerLeavesMoves, LocalHolds
<1>6. ASSUME NEW h \in Hooks, ServerJoins(h) \/ ServerStarts(h) PROVE CallsHold'
  BY <1>0, <1>6, JoinMoves, LocalHolds
<1>7. ASSUME NEW h \in Hooks, EntryDecides(h) PROVE CallsHold'
  BY <1>0, <1>7, DecideMoves, LocalHolds
<1>8. ASSUME NEW h \in Hooks, EntrySettles(h) \/ EntryFails(h) PROVE CallsHold'
  BY <1>0, <1>8, SettledMoves, LocalHolds
<1> QED BY <1>1, <1>2, <1>3, <1>4, <1>5, <1>6, <1>7, <1>8
        DEF EntryStep, ServerOnly, ScreenOnly, CallIds

LEMMA CallsHoldStep ==
  ASSUME SocketInv, CallsHold, RingingStep \/ EnteringStep
  PROVE  CallsHold'
<1>1. CASE (Connecting \/ Losing) /\ UNCHANGED callVars
  BY <1>1, QuietHolds
<1>2. ASSUME NEW s \in DOMAIN sock, ClientOpens(s), CallsReopen PROVE CallsHold'
  BY <1>2, OpensHolds
<1>3. CASE RingStep \/ \E k \in CallIds : SweepEnds(k)
  BY <1>3, RingHolds
<1>4. CASE tab = "here" /\ (EntryStep \/ FramingChanges \/ PressStep)
  BY <1>4, EntryStepHolds
<1> QED BY <1>1, <1>2, <1>3, <1>4 DEF RingingStep, EnteringStep, FramingChangesMeanwhile

LEMMA CallsHoldKept ==
  ASSUME CallsHold, UNCHANGED <<socketVars, callVars>> PROVE CallsHold'
<1>1. /\ UNCHANGED <<callServerVars, screenVars, roomVars, deaf, sock, calls, exists, unrung, framing>>
      /\ UNCHANGED <<ring, panel, panelQuery, at, expected, listed>>
  BY DEF callVars, callServerVars, socketVars, screenVars
<1>2. CallsShape'
  <2>1. ring \in KnownCalls
    BY DEF CallsHold, CallsShape, ScreenShape
  <2> QED BY <1>1, <2>1, HeardShape DEF CallsHold
<1>3. Local
  <2>1. CallsLater /\ CallsGoOn
    BY <1>1, CallsStay DEF CallsHold, CallsShape, ServerShape
  <2> QED BY <1>1, <2>1 DEF Local, PanelMoves
<1> QED BY <1>2, <1>3, LocalHolds

\* Calls move in two of the parts alone.
LEMMA CallMoves ==
  [Next]_vars => /\ UNCHANGED focus
                 /\ IF OnCalls THEN RingingStep \/ EnteringStep \/ UNCHANGED <<socketVars, callVars>>
                               ELSE UNCHANGED callVars
<1> SUFFICES ASSUME [Next]_vars
             PROVE  /\ UNCHANGED focus
                    /\ OnCalls => RingingStep \/ EnteringStep \/ UNCHANGED <<socketVars, callVars>>
                    /\ ~OnCalls => UNCHANGED callVars
  OBVIOUS
<1>1. CASE UNCHANGED vars
  BY <1>1 DEF vars
<1>2. CASE Next
  BY <1>2 DEF Next, About, OnCalls
<1> QED BY <1>1, <1>2

\* The invariant of the calls on the screen, in the parts that look at them: the
\* end of a call follows its start, in the server and over the wire, and for as
\* long as what is shown of a call that is over would have to be taken back, its
\* end is still to be published or comes over every connection there is.
THEOREM CallsOnScreen == Spec => []CallInv
<1>1. Init => CallInv
  BY CallsHoldInit DEF Init, CallInv
<1>2. SocketInv /\ CallInv /\ [Next]_vars => CallInv'
  <2> SUFFICES ASSUME SocketInv, CallInv, [Next]_vars PROVE CallInv'
    OBVIOUS
  <2>1. CASE OnCalls
    <3>1. CallsHold'
      BY <2>1, CallMoves, CallsHoldStep, CallsHoldKept DEF CallInv
    <3> QED BY <2>1, <3>1, CallMoves DEF CallInv, OnCalls
  <2>2. CASE ~OnCalls
    <3>1. UNCHANGED <<callVars, focus>>
      BY <2>2, CallMoves
    <3>2. CallInit'
      BY <2>2, <3>1 DEF CallInv, CallInit, callVars, callServerVars, screenVars, roomVars
    <3> QED BY <2>2, <3>1, <3>2 DEF CallInv, OnCalls
  <2> QED BY <2>1, <2>2
<1> QED BY <1>1, <1>2, SocketsAlways, PTL DEF Spec

\* With nothing on its way, a call whose end was to be heard has been heard of.
LEMMA NothingComes ==
  ASSUME CallsQuiet, NEW k, Coming(k) PROVE FALSE
<1>1. unrung = {} /\ \E s \in DOMAIN sock : Link(s) /\ sock[s].wire = <<>>
  BY DEF CallsQuiet, Connected, Link, Is
<1> QED BY <1>1 DEF Coming, OnWire

\* The call banner and panel, useEnterCall and decideEntry: however events come out
\* of order, are lost with the socket, and windows are refused, a ring or a room
\* that is on the screen with nothing on its way is of a call that is running, no
\* blank window is left behind, the tab goes to a room only after a window was
\* refused, and the conversation that is shown is in the list.
THEOREM CallsAlwaysShown == Spec => []CallsShown
<1>1. CallsHold => CallsShown
  <2> SUFFICES ASSUME CallsHold PROVE CallsShown
    OBVIOUS
  <2>0. ServerShape /\ ScreenShape /\ RoomShape /\ RingFollowed /\ PanelFollowed
    BY DEF CallsHold, CallsShape, CallsFollowed
  <2>1. CallTypeOK
    BY <2>0 DEF CallTypeOK, ServerShape, ScreenShape, RoomShape, KnownCalls, EntryHolds
  <2>2. NoBlankWindow /\ TabKept /\ ShownIsListed
    BY <2>0 DEF NoBlankWindow, RoomShape, EntryHolds, ScreenShape
  <2>3. RoomIsRunning
    BY <2>0, NothingComes DEF RoomIsRunning, RoomShown, PanelFollowed, Over, CallsQuiet
  <2>4. RingIsRunning
    BY <2>0, NothingComes DEF RingIsRunning, RingFollowed, Over
  <2> QED BY <2>1, <2>2, <2>3, <2>4 DEF CallsShown
<1>2. CallInit => CallsShown
  <2> SUFFICES ASSUME CallInit PROVE CallsShown
    OBVIOUS
  <2>1. Len(calls) = 0
    BY DEF CallInit
  <2>2. CallTypeOK
    BY <2>1, CallScreenAssumption
       DEF CallInit, CallTypeOK, NoRoom, NotLeaving, NotEntering
  <2>3. NoBlankWindow /\ TabKept /\ ShownIsListed
    BY DEF CallInit, NoBlankWindow, TabKept, ShownIsListed, NotEntering
  <2>4. RoomIsRunning /\ RingIsRunning
    BY DEF CallInit, RoomIsRunning, RingIsRunning, RoomShown, NoRoom
  <2> QED BY <2>2, <2>3, <2>4 DEF CallsShown
<1>3. CallInv => CallsShown
  BY <1>1, <1>2 DEF CallInv
<1> QED BY <1>3, CallsOnScreen, PTL

-----------------------------------------------------------------------------
(* The conversation on the screen.                                         *)

\* A log is of messages that were committed, S, each of them once.
IsLog(q, S) ==
  /\ IsSequence(q) /\ ToSet(q) \subseteq S /\ q # NoData
  /\ \A j, k \in DOMAIN q : q[j] = q[k] => j = k

\* What the server said of the channel, which stays true of what it held then: of
\* the messages in S those in M are one's own.
IsItem(x, S, M, joined) ==
  /\ x.member \in BOOLEAN /\ x.seen \subseteq S /\ x.position \in Nat
  /\ x.unread = Cardinality(IF x.member THEN {i \in x.seen \ M : i > x.position} ELSE {})
  /\ x.member => joined
  /\ x # NoData

ChannelShape ==
  /\ Committed \subseteq Ids /\ mine \subseteq Committed /\ unsent \subseteq Committed
  /\ IsSequence(committed) /\ position \in 0..MaxMessages /\ member \in BOOLEAN
  /\ \A s \in DOMAIN sock : \A k \in DOMAIN sock[s].wire :
       \A i : sock[s].wire[k] = Event("message", i) => i \in Committed

LogShape ==
  /\ log = NoData \/ IsLog(log, Committed)
  /\ logQuery.at \in {"idle", "asked", "answered"}
  /\ logQuery.at = "answered" => IsLog(logQuery.answer, Committed)

ListShape ==
  /\ list = NoData \/ IsItem(list, Committed, mine, member)
  /\ listQuery.at \in {"idle", "asked", "answered"} /\ uncounted \in BOOLEAN
  /\ listQuery.at = "answered" => IsItem(listQuery.answer, Committed, mine, member)

\* A position on its way was read by a member who had been told so, as was what is
\* in the box written by one.
PageShape ==
  /\ page = [open |-> page.open, visits |-> page.visits, arrival |-> page.arrival,
             marked |-> page.marked, stale |-> page.stale]
  /\ page.open \in BOOLEAN /\ page.stale \in BOOLEAN /\ page.marked \in Nat
  /\ page.open => ~page.stale
  /\ page.arrival = NoData \/ IsItem(page.arrival, Committed, mine, member)
  /\ marks \subseteq Ids /\ unmarked \in BOOLEAN
  /\ marks # {} => member
  /\ marks # {} => list # NoData
  /\ posts # {} \/ box.text # 0 => list # NoData
  /\ box.text \in 0..MaxTexts /\ box.typed \in 0..MaxTexts
  /\ \A p \in posts : p.id # 0 => p.id \in Committed

TalkShape == ChannelShape /\ LogShape /\ ListShape /\ PageShape

\* A message comes over every connection there is.
MessageComing(i) == \A s \in DOMAIN sock : Link(s) => OnWire(s, Event("message", i))

\* A message that is published, and was not missed, is in the log, or is in what
\* will replace it, or comes, or will be asked for.
LogFollowed ==
  \A i \in Committed \ (unsent \cup missed) :
    log # NoData \/ logQuery.at = "answered" =>
      \/ log # NoData /\ (i \in ToSet(log) \/ page.stale)
      \/ logQuery.at = "asked"
      \/ logQuery.at = "answered" /\ i \in ToSet(logQuery.answer)
      \/ MessageComing(i)

\* Nothing that was missed, is to be published or comes would have the list asked
\* for again.
Silent == missed = {} /\ unsent = {} /\ \E s \in DOMAIN sock : Link(s) /\ sock[s].wire = <<>>

BadgeFollowed ==
  Silent /\ ~uncounted =>
            /\ listQuery.at = "idle" /\ list # NoData => list.unread = Cardinality(Unread)
            /\ listQuery.at = "answered" => listQuery.answer.unread = Cardinality(Unread)

MarkFollowed == unmarked \/ page.marked \in marks \/ position >= page.marked

TalkHolds == TalkShape /\ WiresHold /\ LogFollowed /\ BadgeFollowed /\ MarkFollowed

OnTalk == focus \in {"delivery", "reading", "writing"}

TalkInv == IF OnTalk THEN TalkHolds ELSE ConversationInit

LEMMA BelowIsLess ==
  ASSUME NEW S, IsFiniteSet(S), S \subseteq Nat, NEW i \in S
  PROVE  /\ Cardinality({j \in S : j < i}) \in 0..(Cardinality(S) - 1)
         /\ \A k \in S : k < i =>
              Cardinality({j \in S : j < k}) < Cardinality({j \in S : j < i})
<1> DEFINE B(x) == {j \in S : j < x}
<1>0. \A x : B(x) \subseteq S /\ IsFiniteSet(B(x)) /\ Cardinality(B(x)) \in Nat
             /\ Cardinality(B(x)) <= Cardinality(S)
  BY FS_Subset, FS_CardinalityType
<1>1. Cardinality(S) \in Nat
  BY FS_CardinalityType
<1>2. Cardinality(B(i)) # Cardinality(S)
  <2>1. B(i) # S
    <3>1. i \notin B(i)
      OBVIOUS
    <3> QED BY <3>1
  <2>2. B(i) \in SUBSET S
    OBVIOUS
  <2> HIDE DEF B
  <2> QED BY <2>1, <2>2, FS_Subset
<1>3. ASSUME NEW k \in S, k < i PROVE Cardinality(B(k)) < Cardinality(B(i))
  <2>0. k \in Nat /\ i \in Nat /\ \A j \in S : j \in Nat
    OBVIOUS
  <2>1. k \notin B(k) /\ B(k) \cup {k} \in SUBSET B(i)
    <3>1. k \notin B(k)
      BY <2>0
    <3>2. \A j \in S : j < k => j < i
      BY <1>3, <2>0
    <3> QED BY <1>3, <3>1, <3>2
  <2>2. Cardinality(B(k) \cup {k}) = Cardinality(B(k)) + 1 /\ Cardinality(B(k) \cup {k}) <= Cardinality(B(i))
    <3> HIDE DEF B
    <3> QED BY <1>0, <2>1, FS_AddElement, FS_Subset
  <2> HIDE DEF B
  <2> QED BY <1>0, <2>2
<1>4. Cardinality(B(i)) \in 0..(Cardinality(S) - 1)
  <2> HIDE DEF B
  <2> QED BY <1>0, <1>1, <1>2
<1> QED BY <1>3, <1>4

\* listMessages, and the page turned round: each message of the channel, once.
LEMMA ByIdIsLog ==
  ASSUME NEW S, IsFiniteSet(S), S \subseteq Nat
  PROVE  /\ IsSequence(ById(S)) /\ ToSet(ById(S)) = S
         /\ \A j, k \in DOMAIN ById(S) : ById(S)[j] = ById(S)[k] => j = k
<1> DEFINE n == Cardinality(S)
           rank(i) == Cardinality({j \in S : j < i})
           r == [i \in S |-> rank(i) + 1]
           a == ById(S)
<1>1. n \in Nat
  BY FS_CardinalityType
<1>2. \A i \in S : rank(i) \in 0..(n - 1) /\ \A k \in S : k < i => rank(k) < rank(i)
  BY BelowIsLess
<1>3. DOMAIN a = 1..n /\ \A k \in 1..n : a[k] = CHOOSE i \in S : rank(i) = k - 1
  BY DEF ById
<1>4. a = [k \in 1..n |-> a[k]]
  <2> DEFINE f(k) == CHOOSE i \in S : rank(i) = k - 1
  <2>1. a = [k \in 1..n |-> f(k)]
    BY DEF ById
  <2> HIDE DEF a, f, n
  <2> QED BY <2>1
<1> HIDE DEF rank, n, a
<1>5. r \in [S -> 1..n]
  BY <1>1, <1>2
<1>6. \A i, j \in S : r[i] = r[j] => i = j
  <2> SUFFICES ASSUME NEW i \in S, NEW j \in S, r[i] = r[j] PROVE i = j
    OBVIOUS
  <2>1. rank(i) = rank(j)
    BY <1>1, <1>2
  <2>2. ~(i < j) /\ ~(j < i)
    BY <1>1, <1>2, <2>1
  <2> QED BY <2>2
<1>7. r \in Injection(S, 1..n)
  BY <1>5, <1>6 DEF Injection, IsInjective
<1>8. r \in Surjection(S, 1..n)
  <2>1. IsFiniteSet(1..n) /\ Cardinality(1..n) = n
    BY <1>1, FS_Interval
  <2> HIDE DEF r
  <2> QED BY <1>7, <2>1, FS_Injection DEF n
<1>9. ASSUME NEW k \in 1..n PROVE a[k] \in S /\ rank(a[k]) = k - 1
  <2>1. PICK i \in S : r[i] = k
    BY <1>8 DEF Surjection
  <2>2. rank(i) = k - 1
    BY <1>1, <1>2, <2>1
  <2> QED BY <1>3, <1>9, <2>2
<1>10. ASSUME NEW i \in S PROVE \E k \in 1..n : a[k] = i
  <2>1. r[i] \in 1..n /\ rank(i) = r[i] - 1
    BY <1>1, <1>2, <1>5, <1>10
  <2>2. a[r[i]] \in S /\ rank(a[r[i]]) = rank(i)
    BY <1>9, <2>1
  <2>3. a[r[i]] = i
    BY <1>6, <2>2
  <2> QED BY <2>1, <2>3
<1>11. IsSequence(a)
  BY <1>1, <1>3, <1>4, IndexedIsSequence
<1>12. ToSet(a) = S
  BY <1>3, <1>9, <1>10 DEF ToSet
<1>13. \A j, k \in DOMAIN a : a[j] = a[k] => j = k
  BY <1>3, <1>9
<1> QED BY <1>11, <1>12, <1>13 DEF a

LEMMA AppendedSet ==
  ASSUME NEW q, IsSequence(q), NEW i
  PROVE  IsSequence(Append(q, i)) /\ ToSet(Append(q, i)) = ToSet(q) \cup {i}
<1> DEFINE a == Append(q, i)
<1>1. /\ IsSequence(a) /\ DOMAIN a = DOMAIN q \cup {Len(q) + 1}
      /\ a[Len(q) + 1] = i /\ \A k \in DOMAIN q : a[k] = q[k]
  BY OneLonger
<1> HIDE DEF a
<1>2. ToSet(a) = ToSet(q) \cup {i}
  BY <1>1 DEF ToSet
<1> QED BY <1>1, <1>2 DEF a

\* No sequence of numbers is the missing one.
LEMMA LogIsData ==
  ASSUME NEW q, IsSequence(q), ToSet(q) \subseteq Nat PROVE q # NoData
<1>1. Len(q) \in Nat /\ q \in [1..Len(q) -> ToSet(q)]
  BY DEF IsSequence, ToSet
<1>2. q \in Seq(Nat)
  BY <1>1
<1> QED BY <1>2, ConversationAssumption

\* A message that is merged into a log.
LEMMA MergedLog ==
  ASSUME NEW S, S \subseteq Nat, NEW i \in S, log = NoData \/ IsLog(log, S)
  PROVE  \/ log = NoData /\ AppendMessage(i) = NoData
         \/ /\ log # NoData /\ IsLog(AppendMessage(i), S)
            /\ ToSet(AppendMessage(i)) = ToSet(log) \cup {i}
<1>1. CASE log = NoData
  BY <1>1 DEF AppendMessage
<1>2. CASE log # NoData /\ \E k \in DOMAIN log : log[k] = i
  BY <1>2 DEF AppendMessage, ToSet
<1>3. CASE log # NoData /\ \A k \in DOMAIN log : log[k] # i
  <2> DEFINE a == Append(log, i)
  <2>0. AppendMessage(i) = a
    BY <1>3 DEF AppendMessage
  <2>1. /\ IsSequence(a) /\ DOMAIN a = DOMAIN log \cup {Len(log) + 1} /\ Len(log) + 1 \notin DOMAIN log
        /\ a[Len(log) + 1] = i /\ \A k \in DOMAIN log : a[k] = log[k]
    BY <1>3, OneLonger DEF IsLog
  <2>2. ToSet(a) = ToSet(log) \cup {i}
    BY <1>3, AppendedSet DEF IsLog
  <2> HIDE DEF a
  <2>3. \A j, k \in DOMAIN a : a[j] = a[k] => j = k
    BY <1>3, <2>1 DEF IsLog
  <2>4. ToSet(a) \subseteq S
    BY <1>3, <2>2 DEF IsLog
  <2>5. a # NoData
    BY <2>1, <2>4, LogIsData
  <2> QED BY <1>3, <2>0, <2>1, <2>2, <2>3, <2>4, <2>5 DEF IsLog
<1> QED BY <1>1, <1>2, <1>3

\* As long as it is there once each, a log has as many messages as places.
LEMMA LogOnce ==
  ASSUME NEW q, IsSequence(q), \A j, k \in DOMAIN q : q[j] = q[k] => j = k
  PROVE  Cardinality(ToSet(q)) = Len(q)
<1>1. Len(q) \in Nat /\ DOMAIN q = 1..Len(q) /\ q = [k \in 1..Len(q) |-> q[k]]
  BY DEF IsSequence
<1>2. q \in [1..Len(q) -> ToSet(q)]
  BY <1>1 DEF ToSet
<1>3. q \in Bijection(1..Len(q), ToSet(q))
  BY <1>1, <1>2 DEF Bijection, Injection, IsInjective, Surjection, ToSet
<1>4. IsFiniteSet(1..Len(q)) /\ Cardinality(1..Len(q)) = Len(q)
  <2> DEFINE n == Len(q)
  <2>1. n \in Nat
    BY <1>1
  <2> HIDE DEF n
  <2>2. IsFiniteSet(1..n) /\ Cardinality(1..n) = n
    BY <2>1, FS_Interval
  <2> QED BY <2>2 DEF n
<1>5. ExistsBijection(1..Len(q), ToSet(q))
  BY <1>3 DEF ExistsBijection
<1> QED BY <1>4, <1>5, FS_Bijection

\* A set of numbers that is bounded has a greatest.
LEMMA MaxThere ==
  ASSUME NEW n \in Nat, NEW S, S \subseteq 0..n, S # {}
  PROVE  Max(S) \in S /\ \A j \in S : Max(S) >= j
<1> DEFINE U == {m \in Nat : \A j \in S : j <= m}
           R == OpToRel(<, Nat)
<1>0. n \in U
  OBVIOUS
<1>1. IsWellFoundedOn(R, Nat) /\ U \subseteq Nat /\ U # {}
  BY <1>0, NatLessThanWellFounded
<1> HIDE DEF R
<1>2. PICK m \in U : \A k \in U : ~(<<k, m>> \in R)
  BY <1>1, WFMin
<1>3. m \in S
  <2> SUFFICES ASSUME m \notin S PROVE FALSE
    OBVIOUS
  <2>1. m \in Nat /\ \A j \in S : j < m /\ j \in Nat
    OBVIOUS
  <2>2. PICK j \in S : TRUE
    OBVIOUS
  <2>3. m - 1 \in Nat /\ m - 1 < m
    BY <2>1, <2>2
  <2>4. \A i \in S : i <= m - 1
    BY <2>1, <2>3
  <2>5. m - 1 \in U /\ <<m - 1, m>> \in R
    BY <2>1, <2>3, <2>4 DEF R, OpToRel
  <2> QED BY <1>2, <2>5
<1>4. \A j \in S : m >= j
  BY <1>2
<1> QED BY <1>3, <1>4 DEF Max

\* What was committed, and who had written it, stays; nobody leaves.
ChannelLater ==
  Committed \subseteq Committed' /\ mine' \cap Committed = mine /\ (member => member')

LEMMA ItemLater ==
  ASSUME NEW x, NEW S, NEW M, NEW a, NEW T, NEW N, NEW b,
         IsItem(x, S, M, a), S \subseteq T, N \cap S = M, a => b
  PROVE  IsItem(x, T, N, b)
<1>1. x.seen \ N = x.seen \ M
  BY DEF IsItem
<1> QED BY <1>1 DEF IsItem

LEMMA LogLater ==
  ASSUME TalkShape, ChannelLater, Committed' \subseteq Nat,
         log' = log \/ \E i \in Committed' : log' = AppendMessage(i),
         logQuery' \in {logQuery, Asked, NoQuery}
  PROVE  LogShape'
<1>1. \A q : IsLog(q, Committed) => IsLog(q, Committed')
  BY DEF ChannelLater, IsLog
<1>2. log = NoData \/ IsLog(log, Committed')
  BY <1>1 DEF TalkShape, LogShape
<1>3. log' = NoData \/ IsLog(log', Committed')
  BY <1>2, MergedLog
<1>4. /\ logQuery'.at \in {"idle", "asked", "answered"}
      /\ logQuery'.at = "answered" => IsLog(logQuery'.answer, Committed')
  BY <1>1 DEF TalkShape, LogShape, Asked, NoQuery
<1> QED BY <1>3, <1>4 DEF LogShape

LEMMA ListLater ==
  ASSUME TalkShape, ChannelLater, list' = list, listQuery' \in {listQuery, Asked},
         uncounted' \in BOOLEAN
  PROVE  ListShape'
<1>1. \A x : IsItem(x, Committed, mine, member) => IsItem(x, Committed', mine', member')
  BY ItemLater DEF ChannelLater
<1> QED BY <1>1 DEF TalkShape, ListShape, Asked

LEMMA PageLater ==
  ASSUME TalkShape, ChannelLater, list' = list, unmarked' \in BOOLEAN,
         marks' \subseteq marks, UNCHANGED <<page, boxVars>>
  PROVE  PageShape'
<1>1. \A x : IsItem(x, Committed, mine, member) => IsItem(x, Committed', mine', member')
  BY ItemLater DEF ChannelLater
<1> QED BY <1>1 DEF TalkShape, PageShape, ChannelLater, boxVars

LEMMA ServerStays ==
  ASSUME ChannelShape, UNCHANGED serverVars
  PROVE  /\ ChannelLater /\ UNCHANGED <<Committed, Unread, committed, mine, unsent, position, member>>
         /\ Committed' \subseteq Nat
<1>1. UNCHANGED <<Committed, committed, mine, unsent, position, member>>
  BY DEF serverVars, Committed
<1>2. Committed \subseteq Nat
  BY ConversationAssumption DEF ChannelShape, Ids
<1> QED BY <1>1, <1>2 DEF ChannelLater, Unread, ChannelShape

\* A step that leaves the socket alone.
LEMMA SocketStays ==
  ASSUME WiresHold, UNCHANGED socketVars
  PROVE  /\ WiresHold' /\ UNCHANGED sock
         /\ \A s \in DOMAIN sock : Link(s)' <=> Link(s)
         /\ \A i : MessageComing(i)' <=> MessageComing(i)
<1>1. UNCHANGED sock
  BY DEF socketVars
<1> QED BY <1>1 DEF WiresHold, Using, Link, MessageComing, OnWire, Event

LEMMA WireIdsStay ==
  ASSUME ChannelShape, UNCHANGED sock, ChannelLater
  PROVE  (\A s \in DOMAIN sock : \A k \in DOMAIN sock[s].wire :
            \A i : sock[s].wire[k] = Event("message", i) => i \in Committed)'
BY DEF ChannelShape, ChannelLater, Event

\* What does not concern the log.
LEMMA LogStays ==
  ASSUME TalkHolds, UNCHANGED socketVars, UNCHANGED <<log, logQuery>>, page'.stale = page.stale,
         missed \subseteq missed', Committed' \ unsent' \subseteq Committed \ unsent
  PROVE  LogFollowed'
BY SocketStays DEF TalkHolds, LogFollowed

\* What does not concern the count.
LEMMA BadgeStays ==
  ASSUME TalkHolds, UNCHANGED socketVars, UNCHANGED <<list, listQuery, uncounted, Unread>>,
         missed \subseteq missed', unsent \subseteq unsent'
  PROVE  BadgeFollowed'
<1>1. Silent' => Silent
  BY SocketStays DEF TalkHolds, Silent
<1> QED BY <1>1 DEF TalkHolds, BadgeFollowed

LEMMA MarkStays ==
  ASSUME MarkFollowed, UNCHANGED <<page, marks, position, unmarked>>
  PROVE  MarkFollowed'
BY DEF MarkFollowed

-----------------------------------------------------------------------------

\* What the server answers is what it holds.
LEMMA LogAnswered ==
  ASSUME ChannelShape
  PROVE  IsLog(ById(Committed), Committed) /\ ToSet(ById(Committed)) = Committed
<1>1. IsFiniteSet(Committed) /\ Committed \subseteq Nat
  <2>1. IsFiniteSet(1..MaxMessages) /\ 1..MaxMessages \subseteq Nat
    BY ConversationAssumption, FS_Interval
  <2> QED BY <2>1, FS_Subset DEF ChannelShape, Ids
<1>2. /\ IsSequence(ById(Committed)) /\ ToSet(ById(Committed)) = Committed
      /\ \A j, k \in DOMAIN ById(Committed) : ById(Committed)[j] = ById(Committed)[k] => j = k
  BY <1>1, ByIdIsLog
<1>3. ById(Committed) # NoData
  BY <1>1, <1>2, LogIsData
<1> QED BY <1>2, <1>3 DEF IsLog

LEMMA ItemAnswered ==
  ASSUME ChannelShape
  PROVE  IsItem(ListItem, Committed, mine, member) /\ ListItem.unread = Cardinality(Unread)
<1>1. IsFiniteSet(Committed) /\ Committed \subseteq Nat /\ position \in Nat /\ member \in BOOLEAN
  <2>1. IsFiniteSet(1..MaxMessages) /\ 1..MaxMessages \subseteq Nat
    BY ConversationAssumption, FS_Interval
  <2>2. Committed \in SUBSET (1..MaxMessages) /\ position \in Nat /\ member \in BOOLEAN
    BY ConversationAssumption DEF ChannelShape, Ids
  <2>3. IsFiniteSet(Committed)
    BY <2>1, <2>2, FS_Subset
  <2> QED BY <2>1, <2>2, <2>3
<1>2. Cardinality(Unread) \in Nat
  <2>1. Unread \in SUBSET Committed
    BY DEF Unread
  <2> QED BY <1>1, <2>1, FS_Subset, FS_CardinalityType
<1>3. ListItem \in [unread : Nat, member : BOOLEAN, seen : SUBSET Nat, position : Nat]
  BY <1>1, <1>2 DEF ListItem
<1>4. ListItem # NoData
  BY <1>3, ConversationAssumption
<1>5. /\ ListItem.unread = Cardinality(Unread) /\ ListItem.member = member
      /\ ListItem.seen = Committed /\ ListItem.position = position
  BY DEF ListItem
<1> QED BY <1>1, <1>4, <1>5 DEF IsItem, Unread

\* The channel, when nothing is committed or published.
LEMMA ChannelStays ==
  ASSUME TalkShape, UNCHANGED <<serverVars, sock>> PROVE ChannelShape'
<1>1. /\ ChannelLater /\ UNCHANGED <<Committed, committed, mine, unsent, position, member>>
      /\ ChannelShape
  BY ServerStays DEF TalkShape
<1>2. (\A s \in DOMAIN sock : \A k \in DOMAIN sock[s].wire :
         \A i : sock[s].wire[k] = Event("message", i) => i \in Committed)'
  BY <1>1, WireIdsStay
<1> QED BY <1>1, <1>2 DEF ChannelShape

LEMMA QueryHolds ==
  ASSUME TalkHolds, QueryStep PROVE TalkHolds'
<1>0. UNCHANGED <<socketVars, sock, serverVars, pageVars, page, marks, boxVars, unmarked>>
  BY DEF QueryStep, AnswerLog, TakeLog, LogFails, ListFails, AnswerList, TakeList, pageVars, socketVars
<1>1. /\ ChannelLater /\ UNCHANGED <<Committed, Unread, committed, mine, unsent, position, member>>
      /\ TalkShape /\ ChannelShape /\ Committed' \subseteq Nat
  BY <1>0, ServerStays DEF TalkHolds, TalkShape
<1>2. WiresHold' /\ UNCHANGED sock /\ \A i : MessageComing(i)' <=> MessageComing(i)
  BY <1>0, SocketStays DEF TalkHolds
<1>3. ChannelShape'
  BY <1>0, <1>1, ChannelStays
<1>4. MarkFollowed'
  BY <1>0, <1>1, MarkStays DEF TalkHolds
<1>5. CASE UNCHANGED <<list, listQuery, uncounted>> /\ missed \subseteq missed' /\ LogShape' /\ LogFollowed'
  <2>1. ListShape'
    BY <1>1, <1>5, ListLater DEF TalkShape, ListShape
  <2>2. PageShape'
    BY <1>0, <1>1, <1>5, PageLater DEF TalkShape, PageShape
  <2>3. BadgeFollowed'
    BY <1>0, <1>1, <1>5, BadgeStays
  <2> QED BY <1>2, <1>3, <1>4, <1>5, <2>1, <2>2, <2>3 DEF TalkHolds, TalkShape
<1>6. CASE AnswerLog
  <2>1. /\ UNCHANGED <<list, listQuery, uncounted, log, missed>> /\ logQuery' = Answered(ById(Committed))
    BY <1>6 DEF AnswerLog, listVars
  <2>2. /\ IsLog(ById(Committed), Committed) /\ ToSet(ById(Committed)) = Committed
        /\ logQuery'.at = "answered" /\ logQuery'.answer = ById(Committed)
    BY <1>1, <2>1, LogAnswered DEF Answered
  <2>3. LogShape'
    BY <1>1, <2>1, <2>2 DEF TalkShape, LogShape
  <2>4. LogFollowed'
    BY <1>1, <2>2 DEF LogFollowed
  <2> QED BY <1>5, <2>1, <2>3, <2>4
<1>7. CASE TakeLog
  <2>1. /\ UNCHANGED <<list, listQuery, uncounted>> /\ logQuery' = NoQuery /\ log' = logQuery.answer
        /\ logQuery.at = "answered"
        /\ missed' = IF log = NoData THEN missed
                     ELSE missed \cup (ToSet(log) \ ToSet(logQuery.answer))
    BY <1>7 DEF TakeLog, listVars
  <2>2. logQuery'.at = "idle" /\ log' # NoData
    BY <1>1, <2>1 DEF NoQuery, TalkShape, LogShape, IsLog
  <2>3. LogShape'
    BY <1>1, <2>1, <2>2 DEF TalkShape, LogShape
  <2>4. LogFollowed'
    BY <1>0, <1>1, <1>2, <2>1, <2>2 DEF TalkHolds, LogFollowed
  <2> QED BY <1>5, <2>1, <2>3, <2>4
<1>8. CASE LogFails
  <2>1. /\ UNCHANGED <<list, listQuery, uncounted, log>> /\ logQuery' = NoQuery
        /\ missed' = IF log = NoData THEN missed ELSE missed \cup (Committed \ ToSet(log))
    BY <1>8 DEF LogFails, listVars
  <2>2. logQuery'.at = "idle"
    BY <2>1 DEF NoQuery
  <2>3. LogShape'
    BY <1>1, <2>1, LogLater
  <2>4. LogFollowed'
    BY <1>0, <1>1, <1>2, <2>1, <2>2 DEF TalkHolds, LogFollowed
  <2> QED BY <1>5, <2>1, <2>3, <2>4
<1>9. CASE UNCHANGED <<log, logQuery, missed>> /\ ListShape' /\ BadgeFollowed'
           /\ (list # NoData => list' # NoData)
  <2>1. LogShape'
    BY <1>1, <1>9, LogLater
  <2>2. PageShape'
    BY <1>0, <1>1, <1>9 DEF TalkShape, PageShape, boxVars
  <2>3. LogFollowed'
    BY <1>0, <1>1, <1>9, LogStays
  <2> QED BY <1>2, <1>3, <1>4, <1>9, <2>1, <2>2, <2>3 DEF TalkHolds, TalkShape
<1>10. CASE AnswerList
  <2>1. /\ UNCHANGED <<log, logQuery, missed, list>> /\ listQuery' = Answered(ListItem)
        /\ uncounted' = FALSE
    BY <1>10 DEF AnswerList, logVars
  <2>2. /\ IsItem(ListItem, Committed, mine, member) /\ ListItem.unread = Cardinality(Unread)
        /\ listQuery'.at = "answered" /\ listQuery'.answer = ListItem
    BY <1>1, <2>1, ItemAnswered DEF Answered
  <2>3. ListShape'
    BY <1>1, <2>1, <2>2 DEF TalkShape, ListShape
  <2>4. BadgeFollowed'
    BY <1>1, <2>2 DEF BadgeFollowed
  <2> QED BY <1>9, <2>1, <2>3, <2>4
<1>11. CASE TakeList
  <2>1. /\ UNCHANGED <<log, logQuery, missed>> /\ listQuery' = NoQuery
        /\ list' = listQuery.answer /\ listQuery.at = "answered" /\ UNCHANGED uncounted
    BY <1>11 DEF TakeList, logVars
  <2>2. /\ IsItem(list', Committed, mine, member) /\ list' # NoData /\ listQuery'.at = "idle"
    BY <1>1, <2>1 DEF TalkShape, ListShape, IsItem, NoQuery
  <2>3. ListShape'
    BY <1>1, <2>1, <2>2 DEF TalkShape, ListShape
  <2>4. Silent' => Silent
    BY <1>0, <1>1, <2>1, SocketStays DEF TalkHolds, Silent
  <2>5. BadgeFollowed'
    BY <1>1, <2>1, <2>2, <2>4 DEF TalkHolds, BadgeFollowed
  <2> QED BY <1>9, <2>1, <2>2, <2>3, <2>5
<1>12. CASE ListFails
  <2>1. /\ UNCHANGED <<log, logQuery, missed, list>> /\ listQuery' = NoQuery /\ uncounted' = TRUE
    BY <1>12 DEF ListFails, logVars
  <2>2. listQuery'.at = "idle"
    BY <2>1 DEF NoQuery
  <2>3. ListShape' /\ BadgeFollowed'
    BY <1>1, <2>1, <2>2 DEF TalkShape, ListShape, BadgeFollowed
  <2> QED BY <1>9, <2>1, <2>3
<1> QED BY <1>6, <1>7, <1>8, <1>10, <1>11, <1>12 DEF QueryStep

LEMMA PageStepHolds ==
  ASSUME TalkHolds, PageStep PROVE TalkHolds'
<1>0. UNCHANGED <<socketVars, sock, serverVars, list, uncounted, marks, boxVars, missed,
                  unmarked, log>>
  BY DEF PageStep, OpenPage, ClosePage, Arrive, listVars, logVars, socketVars
<1>1. /\ ChannelLater /\ UNCHANGED <<Committed, Unread, committed, mine, unsent, position, member>>
      /\ TalkShape /\ ChannelShape /\ Committed' \subseteq Nat
  BY <1>0, ServerStays DEF TalkHolds, TalkShape
<1>2. WiresHold' /\ UNCHANGED sock /\ \A i : MessageComing(i)' <=> MessageComing(i)
  BY <1>0, SocketStays DEF TalkHolds
<1>3. ChannelShape' /\ ListShape' /\ BadgeFollowed'
  <2>1. listQuery' \in {listQuery, Asked}
    BY DEF PageStep, OpenPage, ClosePage, Arrive, listVars
  <2>2. ChannelShape' /\ ListShape'
    BY <1>0, <1>1, <2>1, ChannelStays, ListLater DEF TalkShape, ListShape
  <2>3. CASE listQuery' = listQuery
    BY <1>0, <1>1, <2>2, <2>3, BadgeStays
  <2>4. CASE listQuery' = Asked
    BY <2>2, <2>4 DEF BadgeFollowed, Asked
  <2> QED BY <2>1, <2>2, <2>3, <2>4
<1>4. page = [open |-> page.open, visits |-> page.visits, arrival |-> page.arrival,
              marked |-> page.marked, stale |-> page.stale]
  BY <1>1 DEF TalkShape, PageShape
<1>5. CASE PageShape' /\ LogShape' /\ LogFollowed' /\ MarkFollowed'
  BY <1>2, <1>3, <1>5 DEF TalkHolds, TalkShape
<1>6. CASE OpenPage
  <2>1. /\ page' = [open |-> TRUE, visits |-> page.visits + 1, arrival |-> list, marked |-> 0,
                    stale |-> FALSE]
        /\ \/ logQuery' = Reasked(log, logQuery)
           \/ log # NoData /\ ~page.stale /\ UNCHANGED logQuery
    BY <1>6 DEF OpenPage
  <2>2. PageShape'
    <3>1. list = NoData \/ IsItem(list, Committed, mine, member)
      BY <1>1 DEF TalkShape, ListShape
    <3> QED BY <1>0, <1>1, <2>1, <3>1 DEF TalkShape, PageShape, boxVars
  <2>3. LogShape'
    BY <1>0, <1>1, <2>1, LogLater DEF Reasked
  <2>4. LogFollowed'
    <3>1. CASE logQuery'.at = "asked"
      BY <3>1 DEF LogFollowed
    <3>2. CASE logQuery' = logQuery /\ (log = NoData \/ ~page.stale)
      BY <1>0, <1>1, <1>2, <3>2 DEF TalkHolds, LogFollowed
    <3> QED BY <2>1, <3>1, <3>2 DEF Reasked, Asked
  <2>5. MarkFollowed'
    BY <1>1, <2>1, ConversationAssumption DEF MarkFollowed, ChannelShape
  <2> QED BY <1>5, <2>2, <2>3, <2>4, <2>5
<1>7. CASE ClosePage \/ Arrive
  <2>1. /\ UNCHANGED logQuery
        /\ \/ page' = [page EXCEPT !.open = FALSE, !.arrival = NoData]
           \/ page' = [page EXCEPT !.arrival = list]
    BY <1>7 DEF ClosePage, Arrive, logVars
  <2>2. /\ page' = [open |-> page'.open, visits |-> page'.visits, arrival |-> page'.arrival,
                    marked |-> page'.marked, stale |-> page'.stale]
        /\ page'.marked = page.marked /\ page'.stale = page.stale
        /\ page'.open \in {FALSE, page.open} /\ page'.arrival \in {NoData, list}
    BY <1>4, <2>1
  <2>3. PageShape'
    <3>1. list = NoData \/ IsItem(list, Committed, mine, member)
      BY <1>1 DEF TalkShape, ListShape
    <3> QED BY <1>0, <1>1, <2>2, <3>1 DEF TalkShape, PageShape, boxVars
  <2>4. LogShape' /\ LogFollowed'
    BY <1>0, <1>1, <2>1, <2>2, LogLater, LogStays
  <2>5. MarkFollowed'
    BY <1>0, <1>1, <2>2 DEF TalkHolds, MarkFollowed
  <2> QED BY <1>5, <2>3, <2>4, <2>5
<1> QED BY <1>6, <1>7 DEF PageStep

LEMMA NewestShown ==
  ASSUME ChannelShape, LogShape
  PROVE  Newest \in 0..MaxMessages /\ (Newest # 0 => log # NoData /\ Newest \in Committed)
<1>0. 0 \in 0..MaxMessages /\ Committed \subseteq 0..MaxMessages
  BY ConversationAssumption DEF ChannelShape, Ids
<1>1. CASE log = NoData \/ log = <<>>
  BY <1>0, <1>1 DEF Newest
<1>2. CASE log # NoData /\ log # <<>>
  <2>1. IsSequence(log) /\ ToSet(log) \subseteq Committed
    BY <1>2 DEF LogShape, IsLog
  <2>2. Len(log) \in Nat /\ Len(log) # 0 /\ DOMAIN log = 1..Len(log)
    BY <1>2, <2>1 DEF IsSequence
  <2>3. log[1] \in ToSet(log)
    BY <2>2 DEF ToSet
  <2>4. ToSet(log) \subseteq 0..MaxMessages /\ ToSet(log) # {}
    BY <1>0, <2>1, <2>3
  <2>5. Max(ToSet(log)) \in ToSet(log)
    BY <2>4, MaxThere, ConversationAssumption
  <2>6. Newest = Max(ToSet(log))
    BY <1>2 DEF Newest
  <2> QED BY <1>0, <1>2, <2>1, <2>5, <2>6
<1> QED BY <1>1, <1>2

LEMMA MarkHolds ==
  ASSUME TalkHolds, MarkStep \/ Join PROVE TalkHolds'
<1>0. UNCHANGED <<socketVars, sock, committed, mine, unsent, list, logVars, log, logQuery, boxVars, missed>>
  BY DEF MarkStep, SendMark, MarkAnswered, MarkLost, MarkUnheard, Join, listVars, logVars, socketVars, serverVars
<1>1. TalkShape /\ ChannelShape /\ LogShape /\ ListShape /\ PageShape
  BY DEF TalkHolds, TalkShape
<1>2. WiresHold' /\ UNCHANGED sock /\ \A i : MessageComing(i)' <=> MessageComing(i)
  BY <1>0, SocketStays DEF TalkHolds
<1>3. UNCHANGED Committed /\ Committed \subseteq Nat /\ Committed \subseteq Ids
  BY <1>0, <1>1, ConversationAssumption DEF Committed, ChannelShape, Ids
<1>4. CASE /\ ChannelLater /\ position' \in 0..MaxMessages /\ member' \in BOOLEAN
           /\ listQuery' \in {listQuery, Asked} /\ page'.stale = page.stale
           /\ uncounted' \in BOOLEAN /\ PageShape' /\ BadgeFollowed' /\ MarkFollowed'
  <2>1. ChannelShape'
    <3>1. (\A s \in DOMAIN sock : \A k \in DOMAIN sock[s].wire :
             \A i : sock[s].wire[k] = Event("message", i) => i \in Committed)'
      BY <1>0, <1>1, <1>4, WireIdsStay
    <3> QED BY <1>0, <1>1, <1>3, <1>4, <3>1 DEF ChannelShape
  <2>2. LogShape' /\ ListShape' /\ LogFollowed'
    BY <1>0, <1>1, <1>3, <1>4, LogLater, ListLater, LogStays
  <2> QED BY <1>2, <1>4, <2>1, <2>2 DEF TalkHolds, TalkShape
<1>5. \A i \in Ids : i \in 0..MaxMessages
  BY ConversationAssumption DEF Ids
<1>6. /\ position \in 0..MaxMessages /\ member \in BOOLEAN /\ mine \subseteq Committed
      /\ uncounted \in BOOLEAN
  BY <1>1 DEF ChannelShape, ListShape
<1>7. CASE SendMark
  <2>1. /\ UNCHANGED <<serverVars, listQuery, uncounted, position, member, unmarked>>
        /\ page' = [page EXCEPT !.marked = Newest] /\ marks' = marks \cup {Newest}
        /\ MayMark
    BY <1>7 DEF SendMark, listVars, serverVars
  <2>2. Newest \in Nat /\ Newest > page.marked /\ page.marked \in Nat /\ list # NoData /\ list.member
    BY <1>1, <2>1, NewestShown, ConversationAssumption DEF MayMark, PageShape
  <2>3. Newest \in Committed /\ member
    BY <1>1, <2>2, NewestShown DEF ListShape, IsItem
  <2>4. /\ page' = [open |-> page.open, visits |-> page.visits, arrival |-> page.arrival,
                    marked |-> Newest, stale |-> page.stale]
    BY <1>1, <2>1 DEF PageShape
  <2>5. PageShape'
    BY <1>0, <1>1, <1>3, <2>1, <2>2, <2>3, <2>4 DEF PageShape, boxVars
  <2>6. MarkFollowed'
    BY <2>1, <2>4 DEF MarkFollowed
  <2>7. ChannelLater /\ BadgeFollowed'
    BY <1>0, <1>1, <2>1, ServerStays, BadgeStays
  <2> QED BY <1>4, <1>6, <2>1, <2>4, <2>5, <2>6, <2>7
<1>8. ASSUME NEW i \in Ids, MarkLost(i) PROVE TalkHolds'
  <2>1. /\ UNCHANGED <<serverVars, listQuery, uncounted, position, member, page>>
        /\ marks' = marks \ {i} /\ unmarked' = TRUE
    BY <1>8 DEF MarkLost, listVars, serverVars
  <2>2. ChannelLater /\ BadgeFollowed'
    BY <1>0, <1>1, <2>1, ServerStays, BadgeStays
  <2>3. PageShape'
    BY <1>0, <1>1, <2>1, <2>2, PageLater
  <2>4. MarkFollowed'
    BY <2>1 DEF MarkFollowed
  <2> QED BY <1>4, <1>6, <2>1, <2>2, <2>3, <2>4
\* A mark that is recorded, whether the browser hears of it or not.
<1>9. ASSUME NEW i \in Ids, MarkAnswered(i) \/ MarkUnheard(i) PROVE TalkHolds'
  <2>1. /\ UNCHANGED <<member, page, unmarked>> /\ marks' = marks \ {i} /\ i \in marks
        /\ position' = (IF member /\ i > position THEN i ELSE position)
    BY <1>9 DEF MarkAnswered, MarkUnheard, PositionMarked
  <2>2. list # NoData /\ member
    BY <1>1, <2>1 DEF PageShape
  <2>3. /\ listQuery' \in {listQuery, Asked} /\ uncounted' \in BOOLEAN
        /\ listQuery'.at = "asked" \/ (UNCHANGED <<listQuery, position, uncounted>> \/ uncounted')
    <3>1. CASE MarkAnswered(i)
      BY <1>6, <2>2, <3>1 DEF MarkAnswered, ListReasked, Reasked, Asked
    <3>2. CASE MarkUnheard(i)
      <4> DEFINE farther == i > position
      <4>1. uncounted' = (uncounted \/ farther) /\ UNCHANGED listQuery
        BY <3>2 DEF MarkUnheard
      <4>2. CASE farther
        <5>1. uncounted'
          BY <4>1, <4>2, Zenon
        <5>2. uncounted' \in BOOLEAN
          BY <4>1, Zenon
        <5> QED BY <4>1, <5>1, <5>2
      <4>3. CASE ~farther
        <5>1. UNCHANGED position
          BY <2>1, <4>3
        <5>2. UNCHANGED uncounted
          <6>1. (uncounted \/ farther) = uncounted
            BY <1>6, <4>3, Zenon
          <6> HIDE DEF farther
          <6> QED BY <4>1, <6>1
        <5> QED BY <1>6, <4>1, <5>1, <5>2
      <4> HIDE DEF farther
      <4> QED BY <4>2, <4>3
    <3> QED BY <1>9, <3>1, <3>2
  <2>4. BadgeFollowed'
    <3>1. CASE listQuery'.at = "asked" \/ uncounted'
      BY <3>1 DEF BadgeFollowed
    <3>2. CASE UNCHANGED <<listQuery, position, uncounted>>
      <4>1. UNCHANGED Unread
        BY <1>0, <1>3, <2>1, <3>2 DEF Unread
      <4> QED BY <1>0, <3>2, <4>1, BadgeStays
    <3> QED BY <2>3, <3>1, <3>2
  <2>5. ChannelLater /\ position' \in 0..MaxMessages
    BY <1>0, <1>3, <1>5, <1>6, <2>1 DEF ChannelLater
  <2>6. PageShape'
    BY <1>0, <1>1, <1>9, <2>1, <2>5, PageLater DEF PageShape
  <2>7. MarkFollowed'
    <3>1. position \in Nat /\ i \in Nat /\ page.marked \in Nat
      BY <1>1, <1>5, <1>6, ConversationAssumption DEF PageShape
    <3>2. position' >= position /\ position' >= i /\ position' \in Nat
      BY <2>1, <2>2, <3>1
    <3> QED BY <2>1, <3>1, <3>2 DEF TalkHolds, MarkFollowed
  <2> QED BY <1>4, <1>6, <2>1, <2>3, <2>4, <2>5, <2>6, <2>7
<1>10. CASE Join
  <2>1. /\ UNCHANGED <<position, page, marks, unmarked, uncounted>> /\ member' = TRUE
        /\ listQuery' = ListReasked /\ list # NoData
    BY <1>10 DEF Join, pageVars
  <2>3. listQuery' = Asked /\ listQuery'.at = "asked"
    BY <2>1 DEF ListReasked, Reasked, Asked
  <2>4. BadgeFollowed'
    BY <2>3 DEF BadgeFollowed
  <2>5. ChannelLater
    BY <1>0, <1>3, <1>6, <2>1 DEF ChannelLater
  <2>6. PageShape'
    BY <1>0, <1>1, <2>1, <2>5, PageLater DEF PageShape
  <2>7. MarkFollowed'
    BY <2>1, MarkStays DEF TalkHolds
  <2> QED BY <1>4, <1>6, <2>1, <2>3, <2>4, <2>5, <2>6, <2>7
<1> QED BY <1>7, <1>8, <1>9, <1>10 DEF MarkStep

\* A message more, which is not published yet.
LEMMA CommittedLater ==
  ASSUME ChannelShape, NEW i \in Ids, i \notin Committed, committed' = Append(committed, i),
         mine' \in {mine, mine \cup {i}}, unsent' = unsent \cup {i}, UNCHANGED <<member, sock>>,
         position' \in 0..MaxMessages
  PROVE  /\ ChannelLater /\ ChannelShape' /\ Committed' = Committed \cup {i}
         /\ Committed' \subseteq Nat /\ unsent' # {}
         /\ Committed' \ unsent' \subseteq Committed \ unsent
<1>1. Committed' = Committed \cup {i} /\ IsSequence(committed)'
  BY AppendedSet DEF ChannelShape, Committed
<1>2. ChannelLater
  BY <1>1 DEF ChannelShape, ChannelLater
<1>3. (\A s \in DOMAIN sock : \A k \in DOMAIN sock[s].wire :
         \A j : sock[s].wire[k] = Event("message", j) => j \in Committed)'
  BY <1>2, WireIdsStay
<1>4. ChannelShape'
  BY <1>1, <1>3 DEF ChannelShape
<1>5. Committed' \subseteq Nat
  BY <1>1, ConversationAssumption DEF ChannelShape, Ids
<1> QED BY <1>1, <1>2, <1>4, <1>5

LEMMA CommitHolds ==
  ASSUME TalkHolds, NEW i \in Ids, OtherCommits(i) PROVE TalkHolds'
<1>0. /\ UNCHANGED <<socketVars, sock, mine, position, member, log, logQuery, list, listQuery,
                     uncounted, page, marks, boxVars, missed, unmarked>>
      /\ i \notin Committed /\ committed' = Append(committed, i) /\ unsent' = unsent \cup {i}
  BY DEF OtherCommits, logVars, listVars, pageVars, socketVars
<1>1. /\ ChannelLater /\ ChannelShape' /\ Committed' \subseteq Nat /\ unsent' # {}
      /\ Committed' \ unsent' \subseteq Committed \ unsent /\ TalkShape
  BY <1>0, CommittedLater DEF TalkHolds, TalkShape, ChannelShape
<1>2. WiresHold'
  BY <1>0, SocketStays DEF TalkHolds
<1>3. LogShape' /\ ListShape' /\ PageShape'
  BY <1>0, <1>1, LogLater, ListLater, PageLater DEF TalkShape, PageShape, ListShape
<1>4. LogFollowed'
  BY <1>0, <1>1, LogStays
<1>5. BadgeFollowed' /\ MarkFollowed'
  BY <1>0, <1>1, MarkStays DEF BadgeFollowed, Silent, TalkHolds
<1> QED BY <1>1, <1>2, <1>3, <1>4, <1>5 DEF TalkHolds, TalkShape

LEMMA BoxHolds ==
  ASSUME TalkHolds, WritingInv, BoxStep PROVE TalkHolds'
<1>0. UNCHANGED <<socketVars, sock, member, logQuery, list, uncounted, page, marks>>
  BY DEF BoxStep, Type, Submit, PostSucceeds, PostFails, PostCommits, listVars, logVars, socketVars,
         serverVars, pageVars
<1>1. TalkShape /\ ChannelShape /\ LogShape /\ ListShape /\ PageShape
  BY DEF TalkHolds, TalkShape
<1>2. WiresHold' /\ UNCHANGED sock /\ \A i : MessageComing(i)' <=> MessageComing(i)
  BY <1>0, SocketStays DEF TalkHolds
<1>3. /\ box \in [text : Nat, typed : Nat] /\ unmarked \in BOOLEAN
      /\ \A p \in posts : p = [n |-> p.n, text |-> p.text, id |-> p.id]
  BY <1>1 DEF WritingInv, BoxTyped, IsPost, PageShape
\* What is written or sent, or fails to be, is nothing to the log and the list.
<1>4. CASE /\ UNCHANGED <<serverVars, log, listQuery, unmarked, missed>>
           /\ box'.text \in 0..MaxTexts /\ box'.typed \in 0..MaxTexts
           /\ posts' # {} \/ box'.text # 0 => list # NoData
           /\ \A p \in posts' : p.id # 0 => p.id \in Committed
  <2>1. /\ ChannelLater /\ UNCHANGED <<Committed, Unread, committed, mine, unsent, position, member>>
        /\ Committed' \subseteq Nat
    BY <1>1, <1>4, ServerStays
  <2>2. PageShape'
    BY <1>0, <1>1, <1>4, <2>1 DEF PageShape
  <2>3. ChannelShape' /\ LogShape' /\ ListShape' /\ LogFollowed' /\ BadgeFollowed' /\ MarkFollowed'
    BY <1>0, <1>1, <1>4, <2>1, ChannelStays, LogLater, ListLater, LogStays, BadgeStays, MarkStays
       DEF TalkHolds, ListShape
  <2> QED BY <1>2, <2>2, <2>3 DEF TalkHolds, TalkShape
<1>5. CASE Type
  <2>1. /\ UNCHANGED <<serverVars, log, listQuery, unmarked, missed, posts>>
        /\ box' = [box EXCEPT !.text = box.typed + 1, !.typed = @ + 1]
        /\ box.typed < MaxTexts /\ list # NoData
    BY <1>5 DEF Type, logVars, listVars
  <2>2. box'.text \in 0..MaxTexts /\ box'.typed \in 0..MaxTexts
    BY <1>1, <1>3, <2>1, ConversationAssumption DEF PageShape
  <2> QED BY <1>1, <1>4, <2>1, <2>2 DEF PageShape
<1>6. ASSUME NEW byKeys \in BOOLEAN, Submit(byKeys) PROVE TalkHolds'
  <2>1. /\ UNCHANGED <<serverVars, log, listQuery, unmarked, missed, box>> /\ box.text # 0
        /\ posts' = posts \cup {[n |-> 1 + Cardinality(posts), text |-> box.text, id |-> 0]}
    BY <1>6 DEF Submit, BoxAfterSubmit, logVars, listVars
  <2>2. \A p \in posts' : p.id # 0 => p.id \in Committed
    BY <1>1, <2>1 DEF PageShape
  <2> QED BY <1>1, <1>4, <2>1, <2>2 DEF PageShape
<1>7. ASSUME NEW p \in posts, PostFails(p) PROVE TalkHolds'
  <2>1. /\ UNCHANGED <<serverVars, log, listQuery, unmarked, missed, box>> /\ posts' = posts \ {p}
    BY <1>7 DEF PostFails, logVars, listVars
  <2> QED BY <1>1, <1>4, <2>1 DEF PageShape
<1>8. ASSUME NEW p \in posts, PostSucceeds(p) PROVE TalkHolds'
  <2>1. /\ UNCHANGED <<serverVars, unmarked>> /\ posts' = posts \ {p} /\ p.id # 0
        /\ box' = [box EXCEPT !.text = 0] /\ log' = AppendMessage(p.id)
        /\ listQuery' = ListReasked /\ missed \subseteq missed'
    BY <1>8 DEF PostSucceeds
  <2>2. /\ ChannelLater /\ UNCHANGED <<Committed, Unread, committed, mine, unsent, position, member>>
        /\ Committed' \subseteq Nat
    BY <1>1, <2>1, ServerStays
  <2>3. p.id \in Committed /\ list # NoData
    BY <1>1, <2>1 DEF PageShape
  <2>4. listQuery' = Asked /\ listQuery'.at = "asked"
    BY <2>1, <2>3 DEF ListReasked, Reasked, Asked
  <2>5. box'.text = 0 /\ box'.typed = box.typed
    BY <1>3, <2>1
  <2>6. PageShape'
    BY <1>0, <1>1, <2>1, <2>2, <2>3, <2>5, ConversationAssumption DEF PageShape
  <2>7. ChannelShape' /\ LogShape' /\ ListShape'
    BY <1>0, <1>1, <2>1, <2>2, <2>3, <2>4, ChannelStays, LogLater, ListLater DEF ListShape
  <2>8. LogFollowed'
    <3>1. \/ log = NoData /\ log' = NoData
          \/ log # NoData /\ log' # NoData /\ ToSet(log) \subseteq ToSet(log')
      BY <1>1, <2>1, <2>2, <2>3, MergedLog DEF LogShape, IsLog
    <3> QED BY <1>0, <1>2, <2>1, <2>2, <3>1 DEF TalkHolds, LogFollowed
  <2>9. BadgeFollowed' /\ MarkFollowed'
    BY <1>0, <2>1, <2>2, <2>4, MarkStays DEF BadgeFollowed, TalkHolds
  <2> QED BY <1>2, <2>6, <2>7, <2>8, <2>9 DEF TalkHolds, TalkShape
<1>9. ASSUME NEW p \in posts, NEW i \in Ids, PostCommits(p, i) PROVE TalkHolds'
  <2>1. /\ UNCHANGED <<log, listQuery, missed, box>>
        /\ i \notin Committed /\ committed' = Append(committed, i) /\ unsent' = unsent \cup {i}
        /\ mine' = mine \cup {i} /\ position' = i /\ unmarked' = (unmarked \/ i < position)
        /\ posts' = (posts \ {p}) \cup {[p EXCEPT !.id = i]}
    BY <1>9 DEF PostCommits, logVars, listVars
  <2>2. /\ ChannelLater /\ ChannelShape' /\ Committed' = Committed \cup {i}
        /\ Committed' \subseteq Nat /\ unsent' # {}
        /\ Committed' \ unsent' \subseteq Committed \ unsent
    <3>1. position' \in 0..MaxMessages
      BY <2>1, ConversationAssumption DEF Ids
    <3> QED BY <1>0, <1>1, <2>1, <3>1, CommittedLater
  <2>3. LogShape' /\ ListShape'
    BY <1>0, <1>1, <2>1, <2>2, LogLater, ListLater DEF ListShape
  <2>4. PageShape'
    <3>1. \A q \in posts' : q.id # 0 => q.id \in Committed'
      <4>1. [p EXCEPT !.id = i].id = i
        BY <1>3
      <4> QED BY <1>1, <2>1, <2>2, <4>1 DEF PageShape
    <3>2. \A x : IsItem(x, Committed, mine, member) => IsItem(x, Committed', mine', member')
      BY <2>2, ItemLater DEF ChannelLater
    <3> QED BY <1>0, <1>1, <1>3, <2>1, <3>1, <3>2 DEF PageShape
  <2>5. LogFollowed' /\ BadgeFollowed'
    BY <1>0, <2>1, <2>2, LogStays DEF BadgeFollowed, Silent
  <2>6. MarkFollowed'
    <3>1. position \in Nat /\ i \in Nat /\ page.marked \in Nat
      BY <1>1, ConversationAssumption DEF PageShape, ChannelShape, Ids
    <3>2. unmarked' \/ position' >= position
      <4>1. i < position => unmarked'
        BY <2>1, Zenon
      <4>2. ~(i < position) => i >= position
        BY <3>1
      <4> QED BY <2>1, <4>1, <4>2
    <3>3. unmarked => unmarked'
      BY <1>3, <2>1
    <3> QED BY <1>0, <2>1, <3>1, <3>2, <3>3 DEF TalkHolds, MarkFollowed
  <2> QED BY <1>2, <2>2, <2>3, <2>4, <2>5, <2>6 DEF TalkHolds, TalkShape
<1> QED BY <1>5, <1>6, <1>7, <1>8, <1>9 DEF BoxStep

\* The hub publishes a message.
LEMMA PublishedHolds ==
  ASSUME SocketInv, TalkHolds, NEW i \in Ids, PublishMessage(i) PROVE TalkHolds'
<1>0. /\ UNCHANGED <<committed, mine, position, member, log, logQuery, list, listQuery, uncounted, page,
                     marks, boxVars, unmarked>>
      /\ i \in unsent /\ unsent' = unsent \ {i}
      /\ missed' = IF OpenNotInHub \/ ~member THEN missed \cup {i} ELSE missed
  BY DEF PublishMessage, logVars, listVars, pageVars
<1>1. TalkShape /\ ChannelShape /\ WiresHold
  BY DEF TalkHolds, TalkShape
<1>2. ChannelLater /\ UNCHANGED <<Committed, Unread>> /\ Committed' \subseteq Nat /\ i \in Committed
  <2>1. UNCHANGED <<Committed, Unread>>
    BY <1>0 DEF Committed, Unread
  <2>2. Committed \subseteq Nat
    BY <1>1, ConversationAssumption DEF ChannelShape, Ids
  <2> QED BY <1>0, <1>1, <2>1, <2>2 DEF ChannelShape, ChannelLater
<1>3. LogShape' /\ ListShape' /\ PageShape'
  BY <1>0, <1>1, <1>2, LogLater, ListLater, PageLater DEF TalkShape, PageShape, ListShape
<1>4. MarkFollowed'
  BY <1>0, MarkStays DEF TalkHolds
\* What has not come yet still comes, and this message comes or was missed.
<1>5. /\ WiresHold' /\ DOMAIN sock' = DOMAIN sock
      /\ \A s \in DOMAIN sock : \A k \in DOMAIN sock'[s].wire :
           \/ k \in DOMAIN sock[s].wire /\ sock'[s].wire[k] = sock[s].wire[k]
           \/ sock'[s].wire[k] = Event("message", i)
      /\ \A j : MessageComing(j) => MessageComing(j)'
      /\ i \in missed' \/ MessageComing(i)'
  <2>1. CASE member
    <3>0. Publish(Event("message", i))
      BY <2>1 DEF PublishMessage
    <3>1. /\ WiresHold' /\ DOMAIN sock' = DOMAIN sock
          /\ \A s \in DOMAIN sock :
               /\ Link(s)' <=> Link(s)
               /\ DOMAIN sock[s].wire \subseteq DOMAIN sock'[s].wire
               /\ \A k \in DOMAIN sock[s].wire : sock'[s].wire[k] = sock[s].wire[k]
               /\ \A k \in DOMAIN sock'[s].wire :
                    k \in DOMAIN sock[s].wire \/ sock'[s].wire[k] = Event("message", i)
               /\ sock[s].server = "hub" /\ Using(s) =>
                    \E k \in DOMAIN sock'[s].wire : sock'[s].wire[k] = Event("message", i)
      BY <1>1, <3>0, Published
    <3>2. ASSUME NEW j, MessageComing(j) PROVE MessageComing(j)'
      BY <3>1, <3>2 DEF MessageComing, OnWire, Event
    <3>3. ASSUME ~OpenNotInHub PROVE MessageComing(i)'
      <4>1. ASSUME NEW s \in DOMAIN sock, Link(s) PROVE OnWire(s, Event("message", i))'
        <5>1. sock[s].server = "hub" /\ Using(s)
          BY <3>3, <4>1 DEF OpenNotInHub, Is, Link, Using
        <5> QED BY <3>1, <5>1 DEF OnWire, Event
      <4> QED BY <3>1, <4>1 DEF MessageComing
    <3> QED BY <1>0, <3>1, <3>2, <3>3
  <2>2. CASE ~member
    <3>1. UNCHANGED socketVars
      BY <2>2 DEF PublishMessage
    <3> QED BY <1>0, <1>1, <2>2, <3>1, SocketStays
  <2> QED BY <2>1, <2>2
<1>6. ChannelShape'
  <2>1. (\A s \in DOMAIN sock : \A k \in DOMAIN sock[s].wire :
           \A j : sock[s].wire[k] = Event("message", j) => j \in Committed)'
    BY <1>1, <1>2, <1>5 DEF ChannelShape, Event
  <2> QED BY <1>0, <1>1, <1>2, <2>1 DEF ChannelShape
<1>7. LogFollowed'
  BY <1>0, <1>2, <1>5 DEF TalkHolds, LogFollowed
<1>8. BadgeFollowed'
  <2>1. ASSUME Silent' PROVE FALSE
    <3>1. PICK s \in DOMAIN sock' : Link(s)' /\ sock'[s].wire = <<>>
      BY <2>1 DEF Silent
    <3>2. MessageComing(i)'
      BY <1>5, <2>1 DEF Silent
    <3> QED BY <3>1, <3>2 DEF MessageComing, OnWire
  <2> QED BY <2>1 DEF BadgeFollowed
<1> QED BY <1>3, <1>4, <1>5, <1>6, <1>7, <1>8 DEF TalkHolds, TalkShape

\* The browser hears of a message.
LEMMA MessageHeard ==
  ASSUME SocketInv, TalkHolds, NEW s \in DOMAIN sock, NEW i \in Ids, MessageArrives(s, i)
  PROVE  TalkHolds'
<1> DEFINE e == Event("message", i)
<1>0. /\ UNCHANGED <<serverVars, logQuery, list, uncounted, page, marks, boxVars, unmarked>>
      /\ Receive(s, e) /\ log' = AppendMessage(i) /\ listQuery' = ListReasked
      /\ missed' = missed \cup Stale(log, logQuery, {i} \ ToSet(logQuery.answer))
                          \cup Stale(list, listQuery, {i})
  BY DEF MessageArrives, pageVars
<1>1. TalkShape /\ ChannelShape /\ WiresHold /\ LogShape /\ ListShape
  BY DEF TalkHolds, TalkShape
<1>2. /\ ChannelLater /\ UNCHANGED <<Committed, Unread, committed, mine, unsent, position, member>>
      /\ Committed' \subseteq Nat
  BY <1>0, <1>1, ServerStays
<1>3. /\ WiresHold' /\ DOMAIN sock' = DOMAIN sock
      /\ \A t \in DOMAIN sock : /\ t # s => sock'[t] = sock[t]
                                /\ Link(t)' <=> Link(t)
      /\ 1 \in DOMAIN sock[s].wire /\ sock[s].wire[1] = e
      /\ \A k \in DOMAIN sock[s].wire : k # 1 =>
           k - 1 \in DOMAIN sock'[s].wire /\ sock'[s].wire[k - 1] = sock[s].wire[k]
      /\ \A k \in DOMAIN sock'[s].wire :
           k + 1 \in DOMAIN sock[s].wire /\ sock[s].wire[k + 1] = sock'[s].wire[k]
  BY <1>0, <1>1, Received
<1>4. i \in Committed
  BY <1>1, <1>3 DEF ChannelShape
<1>5. /\ listQuery' \in {listQuery, Asked}
      /\ listQuery'.at = "asked" \/ i \in missed'
  <2>1. listQuery' = IF list = NoData /\ listQuery.at # "idle" THEN listQuery ELSE Asked
    BY <1>0 DEF ListReasked, Reasked
  <2>2. Asked.at = "asked" /\ listQuery.at \in {"idle", "asked", "answered"}
    BY <1>1 DEF Asked, ListShape
  <2>3. list = NoData /\ listQuery.at = "answered" => i \in missed'
    BY <1>0 DEF Stale
  <2> QED BY <2>1, <2>2, <2>3
<1>6. ChannelShape'
  <2>1. (\A t \in DOMAIN sock : \A k \in DOMAIN sock[t].wire :
           \A j : sock[t].wire[k] = Event("message", j) => j \in Committed)'
    <3>1. ASSUME NEW t \in DOMAIN sock, NEW k \in DOMAIN sock'[t].wire
          PROVE  \E m \in DOMAIN sock[t].wire : sock[t].wire[m] = sock'[t].wire[k]
      BY <1>3
    <3> QED BY <1>1, <1>2, <1>3, <3>1 DEF ChannelShape, Event
  <2> QED BY <1>1, <1>2, <2>1 DEF ChannelShape
<1>7. LogShape' /\ ListShape' /\ PageShape'
  BY <1>0, <1>1, <1>2, <1>4, <1>5, LogLater, ListLater, PageLater DEF TalkShape, PageShape, ListShape
<1>8. MarkFollowed'
  BY <1>0, <1>2, MarkStays DEF TalkHolds
<1>9. ASSUME NEW j, MessageComing(j), j # i PROVE MessageComing(j)'
  <2>1. ASSUME NEW t \in DOMAIN sock, OnWire(t, Event("message", j))
        PROVE  OnWire(t, Event("message", j))'
    <3>1. PICK k \in DOMAIN sock[t].wire : sock[t].wire[k] = Event("message", j)
      BY <2>1 DEF OnWire
    <3>2. Event("message", j) # e
      BY <1>9 DEF Event
    <3>3. CASE t = s
      <4>1. k # 1
        BY <1>3, <3>1, <3>2, <3>3
      <4> QED BY <1>3, <3>1, <3>3, <4>1 DEF OnWire, Event
    <3>4. CASE t # s
      BY <1>3, <3>1, <3>4 DEF OnWire, Event
    <3> QED BY <3>3, <3>4
  <2> QED BY <1>3, <1>9, <2>1 DEF MessageComing
<1>10. LogFollowed'
  <2>1. \/ log = NoData /\ log' = NoData
        \/ log # NoData /\ log' # NoData /\ ToSet(log') = ToSet(log) \cup {i}
    BY <1>0, <1>1, <1>2, <1>4, MergedLog DEF LogShape, IsLog
  <2>2. ASSUME log = NoData, logQuery.at = "answered" PROVE i \in missed' \cup ToSet(logQuery.answer)
    BY <1>0, <2>2 DEF Stale
  <2>3. missed \subseteq missed' /\ UNCHANGED <<page, logQuery>>
    BY <1>0
  <2> QED BY <1>2, <1>9, <2>1, <2>2, <2>3 DEF TalkHolds, LogFollowed
<1>11. BadgeFollowed'
  BY <1>0, <1>5 DEF BadgeFollowed, Silent
<1> QED BY <1>3, <1>6, <1>7, <1>8, <1>10, <1>11 DEF TalkHolds, TalkShape

\* The socket opens, closes, is accepted or looked up, and nothing else happens.
LEMMA SilentHolds ==
  ASSUME SocketInv, TalkHolds, Connecting \/ Losing, UNCHANGED conversationVars
  PROVE  TalkHolds'
<1>0. /\ UNCHANGED <<serverVars, committed, mine, unsent, position, member, log, logQuery, list,
                     listQuery, uncounted, page, marks, boxVars, missed, unmarked>>
      /\ TalkShape /\ ChannelShape /\ WiresHold
  BY DEF conversationVars, serverVars, logVars, listVars, pageVars, TalkHolds, TalkShape
<1>1. QuietSocket /\ WiresHold'
  BY <1>0, SocketQuiet
<1>2. /\ ChannelLater /\ UNCHANGED <<Committed, Unread, committed, mine, unsent, position, member>>
      /\ Committed' \subseteq Nat
  BY <1>0, ServerStays
<1>3. LogShape' /\ ListShape' /\ PageShape'
  BY <1>0, <1>2, LogLater, ListLater, PageLater DEF TalkShape, PageShape, ListShape
<1>4. \A s \in DOMAIN sock' : Link(s)' => s \in DOMAIN sock /\ Link(s) /\ sock'[s].wire = sock[s].wire
  BY <1>1 DEF QuietSocket, Link
<1>5. \A i : MessageComing(i) => MessageComing(i)'
  BY <1>4 DEF MessageComing, OnWire, Event
<1>6. Silent' => Silent
  BY <1>0, <1>4 DEF Silent
<1>7. ChannelShape'
  <2>1. ASSUME NEW s \in DOMAIN sock', NEW k \in DOMAIN sock'[s].wire,
               NEW i, sock'[s].wire[k] = Event("message", i)
        PROVE  i \in Committed
    <3> DEFINE q == sock[s].wire
               r == sock'[s].wire
    <3>1. r # <<>>
      BY <2>1
    <3>2. s \in DOMAIN sock
      BY <1>1, <3>1 DEF QuietSocket
    <3>3. IsSequence(q) /\ r \in {q, Append(q, Refusal)}
      BY <1>0, <1>1, <3>1, <3>2 DEF QuietSocket, WiresHold
    <3>4. /\ \A j \in DOMAIN q : r[j] = q[j]
          /\ \A j \in DOMAIN r : j \in DOMAIN q \/ r[j] = Refusal
      <4> HIDE DEF q, r
      <4> QED BY <3>3, WireSameOrGrows
    <3>5. k \in DOMAIN q /\ q[k] = Event("message", i)
      BY <2>1, <3>4 DEF Refusal, Event
    <3> QED BY <1>0, <3>2, <3>5 DEF ChannelShape
  <2> QED BY <1>0, <1>2, <2>1 DEF ChannelShape, Event
<1>8. LogFollowed'
  BY <1>0, <1>2, <1>5 DEF TalkHolds, LogFollowed
<1>9. BadgeFollowed' /\ MarkFollowed'
  BY <1>0, <1>2, <1>6, MarkStays DEF TalkHolds, BadgeFollowed
<1> QED BY <1>1, <1>3, <1>7, <1>8, <1>9 DEF TalkHolds, TalkShape

\* The browser has connected again, and asks.
LEMMA ReopenHolds ==
  ASSUME SocketInv, TalkHolds, NEW s \in DOMAIN sock, ClientOpens(s), ConversationReopens
  PROVE  TalkHolds'
<1>0. /\ UNCHANGED <<serverVars, log, list, uncounted, marks, boxVars, unmarked>>
      /\ logQuery' = LogReasked /\ listQuery' = ListReasked
      /\ page' = [page EXCEPT !.stale = ~page.open]
      /\ missed' = missed \cup Stale(log, logQuery, Committed) \cup Stale(list, listQuery, Committed)
  BY DEF ConversationReopens, LogReaskedOnOpen
<1>1. TalkShape /\ ChannelShape /\ WiresHold /\ LogShape /\ ListShape /\ PageShape
  BY DEF TalkHolds, TalkShape
<1>2. /\ ChannelLater /\ UNCHANGED <<Committed, Unread, committed, mine, unsent, position, member>>
      /\ Committed' \subseteq Nat
  BY <1>0, <1>1, ServerStays
<1>3. /\ DOMAIN sock' = DOMAIN sock
      /\ \A t \in DOMAIN sock : /\ sock'[t].wire = sock[t].wire /\ sock'[t].server = sock[t].server
                                /\ sock'[t].up = sock[t].up /\ (Using(t)' <=> Using(t))
  <2>1. /\ \A t \in DOMAIN sock : IsSocket(sock[t])
        /\ sock = [t \in DOMAIN sock |-> sock[t]]
    BY DEF SocketInv, IsSequence
  <2>2. /\ DOMAIN sock' = DOMAIN sock /\ sock'[s] = [sock[s] EXCEPT !.client = "open"]
        /\ sock[s].client = "connecting"
        /\ \A t \in DOMAIN sock : t # s => sock'[t] = sock[t]
    BY DEF ClientOpens
  <2>3. /\ sock'[s].wire = sock[s].wire /\ sock'[s].server = sock[s].server
        /\ sock'[s].up = sock[s].up /\ sock'[s].client = "open"
    BY <2>1, <2>2 DEF IsSocket
  <2> QED BY <2>2, <2>3 DEF Using
<1>4. WiresHold'
  BY <1>1, <1>3 DEF WiresHold
<1>5. ChannelShape'
  BY <1>1, <1>2, <1>3 DEF ChannelShape, Event
<1>6. /\ page'.open = page.open /\ page'.marked = page.marked /\ page'.arrival = page.arrival
      /\ page'.stale = ~page.open
      /\ page' = [open |-> page'.open, visits |-> page'.visits, arrival |-> page'.arrival,
                  marked |-> page'.marked, stale |-> page'.stale]
  BY <1>0, <1>1 DEF PageShape
<1>7. PageShape'
  BY <1>0, <1>1, <1>2, <1>6 DEF PageShape, boxVars
<1>8. LogShape' /\ ListShape'
  <2>1. logQuery' \in {logQuery, Asked} /\ listQuery' \in {listQuery, Asked}
    BY <1>0 DEF LogReasked, ListReasked, Reasked
  <2> QED BY <1>0, <1>1, <1>2, <2>1, LogLater, ListLater DEF ListShape
<1>9. MarkFollowed'
  BY <1>0, <1>2, <1>6 DEF TalkHolds, MarkFollowed
<1>10. LogFollowed'
  <2>1. CASE logQuery'.at = "asked"
    BY <2>1 DEF LogFollowed
  <2>2. CASE log # NoData /\ ~page.open
    BY <1>0, <1>6, <2>2 DEF LogFollowed
  <2>3. CASE log = NoData /\ logQuery.at = "answered"
    BY <1>0, <1>2, <2>3 DEF LogFollowed, Stale
  <2>4. CASE log = NoData /\ logQuery.at # "answered" /\ logQuery' = logQuery
    BY <1>0, <2>4 DEF LogFollowed
  <2> QED BY <1>0, <1>6, <2>1, <2>2, <2>3, <2>4 DEF LogReasked, Reasked, Asked
<1>11. BadgeFollowed'
  <2>1. CASE listQuery'.at = "asked"
    BY <2>1 DEF BadgeFollowed
  <2>2. CASE list = NoData /\ listQuery' = listQuery /\ listQuery.at = "answered"
    <3> SUFFICES ASSUME missed' = {} PROVE listQuery.answer.unread = Cardinality(Unread)
      BY <1>0, <1>2, <2>2 DEF BadgeFollowed, Silent
    <3>1. Committed = {}
      BY <1>0, <2>2 DEF Stale
    <3>2. Unread = {} /\ listQuery.answer.unread = Cardinality({})
      BY <1>1, <2>2, <3>1 DEF Unread, ListShape, IsItem
    <3> QED BY <3>2
  <2>3. CASE list = NoData /\ listQuery' = listQuery /\ listQuery.at # "answered"
    BY <1>0, <2>3 DEF BadgeFollowed
  <2> QED BY <1>0, <2>1, <2>2, <2>3 DEF ListReasked, Reasked, Asked
<1> QED BY <1>4, <1>5, <1>7, <1>8, <1>9, <1>10, <1>11 DEF TalkHolds, TalkShape

LEMMA EventHolds ==
  ASSUME SocketInv, TalkHolds, OthersStep PROVE TalkHolds'
BY PublishedHolds, MessageHeard, CommitHolds DEF OthersStep, EventStep

LEMMA TalkHoldsStep ==
  ASSUME SocketInv, WritingInv, TalkHolds, DeliveryStep \/ ReadingStep \/ WritingStep
  PROVE  TalkHolds'
<1>1. CASE (Connecting \/ Losing) /\ UNCHANGED conversationVars
  BY <1>1, SilentHolds
<1>2. ASSUME NEW s \in DOMAIN sock, ClientOpens(s), ConversationReopens PROVE TalkHolds'
  BY <1>2, ReopenHolds
<1>3. CASE QueryStep
  BY <1>3, QueryHolds
<1>4. CASE OthersStep
  BY <1>4, EventHolds
<1>5. CASE PageStep
  BY <1>5, PageStepHolds
<1>6. CASE MarkStep \/ Join
  BY <1>6, MarkHolds
<1>7. CASE BoxStep
  BY <1>7, BoxHolds
<1> QED BY <1>1, <1>2, <1>3, <1>4, <1>5, <1>6, <1>7
        DEF DeliveryStep, ReadingStep, WritingStep, OthersStep

LEMMA TalkHoldsKept ==
  ASSUME TalkHolds, UNCHANGED <<socketVars, conversationVars>> PROVE TalkHolds'
<1>0. /\ UNCHANGED <<serverVars, committed, mine, unsent, position, member, log, logQuery, list,
                     listQuery, uncounted, page, marks, boxVars, missed, unmarked, sock>>
      /\ TalkShape /\ ChannelShape
  BY DEF conversationVars, serverVars, logVars, listVars, pageVars, socketVars, TalkHolds, TalkShape
<1>2. /\ ChannelLater /\ UNCHANGED <<Committed, Unread, committed, mine, unsent, position, member>>
      /\ Committed' \subseteq Nat
  BY <1>0, ServerStays
<1>3. ChannelShape' /\ LogShape' /\ ListShape' /\ PageShape' /\ WiresHold'
  BY <1>0, <1>2, ChannelStays, LogLater, ListLater, PageLater, SocketStays
     DEF TalkHolds, TalkShape, PageShape, ListShape
<1>4. LogFollowed' /\ BadgeFollowed' /\ MarkFollowed'
  BY <1>0, <1>2, LogStays, BadgeStays, MarkStays DEF TalkHolds
<1> QED BY <1>3, <1>4 DEF TalkHolds, TalkShape

LEMMA TalkHoldsInit ==
  ASSUME ConversationInit, SocketInit PROVE TalkHolds
<1>1. /\ committed = <<>> /\ Committed = {} /\ IsSequence(committed) /\ 0 \in 0..MaxMessages
      /\ sock = <<>> /\ DOMAIN sock = {} /\ 0 \in 0..MaxTexts
  BY ConversationAssumption DEF ConversationInit, SocketInit, Committed, ToSet, IsSequence
<1>2. ChannelShape /\ WiresHold
  BY <1>1 DEF ConversationInit, ChannelShape, WiresHold
<1>3. LogShape /\ ListShape /\ PageShape
  BY <1>1 DEF ConversationInit, LogShape, ListShape, PageShape, NoQuery, Asked
<1>4. LogFollowed /\ BadgeFollowed /\ MarkFollowed
  BY <1>1 DEF ConversationInit, LogFollowed, BadgeFollowed, MarkFollowed, Asked, Silent
<1> QED BY <1>2, <1>3, <1>4 DEF TalkHolds, TalkShape

\* The conversation moves in three of the parts alone.
LEMMA TalkMoves ==
  [Next]_vars => /\ UNCHANGED focus
                 /\ IF OnTalk THEN \/ DeliveryStep \/ ReadingStep \/ WritingStep
                                   \/ UNCHANGED <<socketVars, conversationVars>>
                              ELSE UNCHANGED conversationVars
<1> SUFFICES ASSUME [Next]_vars
             PROVE  /\ UNCHANGED focus
                    /\ OnTalk => \/ DeliveryStep \/ ReadingStep \/ WritingStep
                                 \/ UNCHANGED <<socketVars, conversationVars>>
                    /\ ~OnTalk => UNCHANGED conversationVars
  OBVIOUS
<1>1. CASE UNCHANGED vars
  BY <1>1 DEF vars
<1>2. CASE Next
  BY <1>2 DEF Next, About, OnTalk
<1> QED BY <1>1, <1>2

\* The invariant of the conversation on the screen, in the parts that look at it: a
\* message that is not shown is asked for or comes over every connection there is,
\* a count that is not the server's will be asked for again, and a position that was
\* noted as sent is on its way, has arrived or is known to be lost.
THEOREM ConversationOnScreen == Spec => []TalkInv
<1>1. Init => TalkInv
  BY TalkHoldsInit DEF Init, TalkInv
<1>2. SocketInv /\ WritingInv /\ TalkInv /\ [Next]_vars => TalkInv'
  <2> SUFFICES ASSUME SocketInv, WritingInv, TalkInv, [Next]_vars PROVE TalkInv'
    OBVIOUS
  <2>1. CASE OnTalk
    <3>1. TalkHolds'
      BY <2>1, TalkMoves, TalkHoldsStep, TalkHoldsKept DEF TalkInv
    <3> QED BY <2>1, <3>1, TalkMoves DEF TalkInv, OnTalk
  <2>2. CASE ~OnTalk
    <3>1. UNCHANGED <<conversationVars, focus>>
      BY <2>2, TalkMoves
    <3>2. ConversationInit'
      BY <2>2, <3>1
         DEF TalkInv, ConversationInit, conversationVars, serverVars, logVars, listVars, pageVars, boxVars
    <3> QED BY <2>2, <3>1, <3>2 DEF TalkInv, OnTalk
  <2> QED BY <2>1, <2>2
<1> QED BY <1>1, <1>2, SocketsAlways, WritingAlways, PTL DEF Spec

-----------------------------------------------------------------------------

\* One set of two that is in the other and has as many is the other.
LEMMA SameMany ==
  ASSUME NEW A, NEW B, IsFiniteSet(A), IsFiniteSet(B), Cardinality(A) = Cardinality(B),
         A \subseteq B \/ B \subseteq A
  PROVE  A = B
BY FS_Subset

\* The line in a log that is in order: below it is what was counted.
LEMMA DividerAtPosition ==
  ASSUME LogShape, ChannelShape, page.arrival # NoData, log # NoData, InOrder,
         IsItem(page.arrival, Committed, mine, member), page.arrival.member,
         ToSet(log) = page.arrival.seen
  PROVE  {log[k] : k \in {j \in DOMAIN log : Divider # 0 /\ j >= Divider}} \ mine
           = {i \in ToSet(log) \ mine : i > page.arrival.position}
<1> DEFINE n == Len(log)
           p == page.arrival.position
           u == page.arrival.unread
           W == {i \in ToSet(log) \ mine : i > p}
           J(k) == {j \in k..n : log[j] \notin mine}
           V(k) == {log[j] : j \in J(k)}
<1>1. /\ n \in Nat /\ DOMAIN log = 1..n /\ ToSet(log) \subseteq Nat /\ p \in Nat
      /\ \A j \in 1..n : log[j] \in Nat
      /\ \A j, k \in 1..n : j < k => log[j] < log[k]
      /\ \A j, k \in 1..n : log[j] = log[k] => j = k
  <2>1. IsLog(log, Committed) /\ Committed \subseteq Nat
    BY ConversationAssumption DEF LogShape, ChannelShape, Ids
  <2>2. n \in Nat /\ DOMAIN log = 1..n
    BY <2>1 DEF IsLog, IsSequence
  <2>3. \A j \in 1..n : log[j] \in ToSet(log)
    BY <2>2 DEF ToSet
  <2> QED BY <2>1, <2>2, <2>3 DEF IsLog, IsItem, InOrder
<1>2. u = Cardinality(W)
  BY DEF IsItem
<1>3. IsFiniteSet(W) /\ W \subseteq Nat
  <2>1. IsFiniteSet(1..MaxMessages)
    BY ConversationAssumption, FS_Interval
  <2>2. W \in SUBSET (1..MaxMessages)
    BY DEF IsItem, ChannelShape, Ids
  <2>3. W \subseteq Nat
    BY <1>1
  <2> HIDE DEF W
  <2> QED BY <2>1, <2>2, <2>3, FS_Subset
<1>4. ASSUME NEW k \in 1..n
      PROVE  /\ V(k) = {i \in ToSet(log) \ mine : i >= log[k]}
             /\ IsFiniteSet(V(k)) /\ Cardinality(V(k)) = OthersFrom(k)
  <2>1. V(k) = {i \in ToSet(log) \ mine : i >= log[k]}
    <3>1. ASSUME NEW j \in 1..n PROVE log[j] >= log[k] <=> j >= k
      BY <1>1
    <3>2. \A j \in k..n : j \in 1..n
      BY <1>1
    <3> QED BY <1>1, <3>1, <3>2 DEF ToSet
  <2>2. IsFiniteSet(J(k)) /\ J(k) \subseteq 1..n
    <3>1. IsFiniteSet(k..n)
      BY <1>1, FS_Interval
    <3>2. J(k) \in SUBSET (k..n)
      OBVIOUS
    <3>3. J(k) \subseteq 1..n
      BY <1>1
    <3> HIDE DEF J
    <3> QED BY <3>1, <3>2, <3>3, FS_Subset
  <2>3. OthersFrom(k) = Cardinality(J(k))
    BY DEF OthersFrom
  <2> HIDE DEF J
  <2> DEFINE f == [j \in J(k) |-> log[j]]
  <2>4. f \in Bijection(J(k), V(k))
    BY <1>1, <2>2 DEF Bijection, Injection, IsInjective, Surjection
  <2>5. ExistsBijection(J(k), V(k))
    BY <2>4 DEF ExistsBijection
  <2> HIDE DEF V
  <2>6. IsFiniteSet(V(k)) /\ Cardinality(V(k)) = Cardinality(J(k))
    BY <2>2, <2>5, FS_Bijection
  <2> QED BY <2>1, <2>3, <2>6
<1> DEFINE line == {k \in DOMAIN log : log[k] \notin mine /\ OthersFrom(k) = u}
<1>5. Divider = IF line = {} THEN 0 ELSE CHOOSE k \in line : TRUE
  BY DEF Divider
<1>6. CASE line = {}
  <2>1. Divider = 0
    BY <1>5, <1>6
  <2>2. W = {}
    <3> SUFFICES ASSUME W # {} PROVE FALSE
      OBVIOUS
    <3>1. PICK m \in W : \A i \in W : m <= i
      <4> DEFINE R == OpToRel(<, Nat)
      <4>1. IsWellFoundedOn(R, Nat)
        BY NatLessThanWellFounded
      <4> HIDE DEF R, W
      <4>2. PICK m \in W : \A i \in W : ~(<<i, m>> \in R)
        BY <1>3, <4>1, WFMin
      <4>3. ASSUME NEW i \in W PROVE m <= i
        <5>1. i \in Nat /\ m \in Nat
          BY <1>3
        <5>2. <<i, m>> \in R <=> i < m
          BY <5>1 DEF R, OpToRel
        <5> QED BY <4>2, <5>1, <5>2
      <4> QED BY <4>3
    <3>2. PICK k \in 1..n : log[k] = m
      BY <1>1, <3>1 DEF ToSet
    <3>3. W = {i \in ToSet(log) \ mine : i >= log[k]}
      BY <1>1, <3>1, <3>2
    <3>4. OthersFrom(k) = u
      BY <1>2, <1>4, <3>3
    <3> QED BY <1>1, <1>6, <3>1, <3>2, <3>4
  <2> QED BY <2>1, <2>2
<1>7. CASE line # {}
  <2>1. Divider \in line
    BY <1>5, <1>7
  <2>2. PICK k \in 1..n : k = Divider /\ log[k] \notin mine /\ OthersFrom(k) = u
    BY <1>1, <2>1
  <2>3. {log[x] : x \in {j \in DOMAIN log : Divider # 0 /\ j >= Divider}} \ mine = V(k)
    <3>1. \A j \in 1..n : j >= k <=> j \in k..n
      BY <1>1
    <3> QED BY <1>1, <2>2, <3>1
  <2>4. V(k) \subseteq W \/ W \subseteq V(k)
    <3>1. V(k) = {i \in ToSet(log) \ mine : i >= log[k]} /\ log[k] \in Nat
      BY <1>1, <1>4
    <3>2. CASE log[k] > p
      BY <1>1, <3>1, <3>2
    <3>3. CASE ~(log[k] > p)
      BY <1>1, <3>1, <3>3
    <3> QED BY <3>2, <3>3
  <2>5. IsFiniteSet(V(k)) /\ Cardinality(V(k)) = Cardinality(W)
    BY <1>2, <1>4, <2>2
  <2> HIDE DEF V, W
  <2>6. V(k) = W
    BY <1>3, <2>4, <2>5, SameMany
  <2> QED BY <2>3, <2>6 DEF W
<1> QED BY <1>6, <1>7

\* ChannelPage and useRealtime against the message routes: however commits and
\* publications come out of order, answers are overtaken by events and events are
\* lost with the socket, a page with nothing under way shows each message once and
\* none is missing, its count and its read position are the server's, and in a log in
\* order the line is drawn where the person had got to, but for what a named race or
\* failure took.
THEOREM ConversationAlwaysShown == Spec => []ConversationShown
<1>1. TalkHolds => ConversationShown
  <2> SUFFICES ASSUME TalkHolds PROVE ConversationShown
    OBVIOUS
  <2>0. ChannelShape /\ LogShape /\ ListShape /\ PageShape
    BY DEF TalkHolds, TalkShape
  <2>1. ConversationTypeOK
    BY <2>0 DEF ConversationTypeOK, ChannelShape, LogShape, IsLog, ListShape, PageShape
  <2>2. ShownOnce
    <3>1. CASE log # NoData
      BY <2>0, <3>1, LogOnce DEF ShownOnce, LogShape, IsLog
    <3> QED BY <3>1 DEF ShownOnce
  <2>3. ASSUME Quiet PROVE \E s \in DOMAIN sock : Link(s) /\ sock[s].wire = <<>>
    BY <2>3 DEF Quiet, Connected, Is, Link
  <2>4. MissedOnlyRaced
    <3> SUFFICES ASSUME Quiet, NEW i \in Committed, i \notin missed PROVE i \in ToSet(log)
      BY DEF MissedOnlyRaced
    <3>1. ~MessageComing(i)
      BY <2>3 DEF MessageComing, OnWire
    <3>2. log # NoData /\ logQuery.at = "idle" /\ unsent = {} /\ ~page.stale
      BY <2>0 DEF Quiet, PageShape
    <3> QED BY <3>1, <3>2 DEF TalkHolds, LogFollowed
  <2>5. BadgeSettles
    BY <2>3 DEF BadgeSettles, Quiet, TalkHolds, BadgeFollowed, Silent
  <2>6. ShownIsRead
    <3> SUFFICES ASSUME Quiet, ~unmarked, ~MayMark PROVE position >= Newest
      BY DEF ShownIsRead
    <3>1. /\ Newest \in Nat /\ position \in Nat /\ page.marked \in Nat
      BY <2>0, NewestShown, ConversationAssumption DEF ChannelShape, PageShape
    <3>2. ~(Newest > page.marked)
      BY DEF Quiet, MayMark
    <3>3. position >= page.marked
      BY DEF Quiet, TalkHolds, MarkFollowed
    <3> QED BY <3>1, <3>2, <3>3
  <2>7. DividerWhereLeft
    BY <2>0, DividerAtPosition DEF DividerWhereLeft, PageShape
  <2> QED BY <2>1, <2>2, <2>4, <2>5, <2>6, <2>7 DEF ConversationShown
<1>2. ConversationInit => ConversationShown
  <2> SUFFICES ASSUME ConversationInit PROVE ConversationShown
    OBVIOUS
  <2>1. log = NoData /\ page.open = FALSE /\ Committed = {} /\ 0 \in 0..MaxMessages /\ 0 \in 0..MaxTexts
    BY ConversationAssumption DEF ConversationInit, Committed, ToSet
  <2>2. ConversationTypeOK
    BY <2>1 DEF ConversationInit, ConversationTypeOK, NoQuery, Asked
  <2> QED BY <2>1, <2>2 DEF ConversationShown, ShownOnce, MissedOnlyRaced, BadgeSettles, ShownIsRead,
                            DividerWhereLeft, Quiet
<1>3. TalkInv => ConversationShown
  BY <1>1, <1>2 DEF TalkInv
<1> QED BY <1>3, ConversationOnScreen, PTL

=============================================================================
