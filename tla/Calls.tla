--------------------------------- MODULE Calls ---------------------------------
(***************************************************************************)
(* Calls in one channel, and the provider they are held with: starting,    *)
(* joining and leaving a call, the sweep that ends abandoned ones, and the *)
(* frame origin that follows the default provider into a response header.  *)
(*                                                                         *)
(* Nothing in the code ends a membership or archives a channel, so the     *)
(* people are the members of the channel throughout.  A request is one     *)
(* action per snapshot or network call whose result is used later, and one *)
(* that commits.                                                           *)
(***************************************************************************)
EXTENDS Naturals, FiniteSets

CONSTANTS
  People,       \* members of the channel
  Providers,    \* call providers, in the order they may be created
  Origins,      \* embeddable providers: calls with them are framed
  Tx,           \* requests in progress at the same time
  MaxCalls,     \* bound: calls ever started in the channel
  NoOrigin      \* no frame origin in the header

ASSUME CallsAssumption ==
  /\ MaxCalls \in Nat /\ IsFiniteSet(Providers)
  /\ Origins \subseteq Providers /\ NoOrigin \notin Providers

VARIABLES
  started,      \* calls 1..started exist
  ended,        \* calls whose ended_at is set
  swept,        \* those of them that were ended as abandoned
  present,      \* participants whose left_at is NULL, per call
  known,        \* providers in the order they were created
  enabled,      \* providers that are not disabled
  default,      \* providers whose is_default is set
  header,       \* app.callFrameOrigin, the origin in frame-src
  tx,           \* local state of the requests
  crossed,      \* history: a leave overlapped a join or leave of its call
  outrun        \* history: two refreshes of the header were under way

calls     == <<started, ended, swept, present>>
providers == <<known, enabled, default>>
vars      == <<calls, providers, header, tx, crossed, outrun>>

-----------------------------------------------------------------------------

Calls == 1..started

\* "last" is what a leave counted: nobody else remains in the call.
Local == [op: {"idle", "start", "join", "leave", "refresh", "apply"},
          who: SUBSET People, call: 0..MaxCalls, last: BOOLEAN,
          origin: Origins \cup {NoOrigin}]

Idle == [op |-> "idle", who |-> {}, call |-> 0, last |-> FALSE, origin |-> NoOrigin]

TypeOK ==
  /\ started \in 0..MaxCalls /\ ended \subseteq Calls /\ swept \subseteq ended
  /\ present \in [1..MaxCalls -> SUBSET People]
  /\ \A c \in 1..MaxCalls \ Calls : present[c] = {}
  /\ known \in [Providers -> 0..Cardinality(Providers)]
  /\ enabled \subseteq Providers /\ default \subseteq enabled
  /\ header \in Origins \cup {NoOrigin}
  /\ tx \in [Tx -> Local] /\ crossed \in BOOLEAN /\ outrun \in BOOLEAN

Init ==
  /\ started = 0 /\ ended = {} /\ swept = {}
  /\ present = [c \in 1..MaxCalls |-> {}]
  /\ known = [p \in Providers |-> 0]
  /\ enabled = {} /\ default = {} /\ header = NoOrigin
  /\ tx = [t \in Tx |-> Idle]
  /\ crossed = FALSE /\ outrun = FALSE

Free(t) == tx[t].op = "idle"
In(t, op) == tx[t].op = op
Goto(t, local) == tx' = [tx EXCEPT ![t] = local]
Done(t) == Goto(t, Idle)

Live == Calls \ ended

-----------------------------------------------------------------------------
(* Providers and the header.                                               *)

\* ORDER BY is_default DESC, created_at LIMIT 1, disabled ones left out.
Preferred(p) ==
  /\ p \in enabled
  /\ \A q \in enabled \ {p} :
       \/ p \in default /\ q \notin default
       \/ (p \in default <=> q \in default) /\ known[p] < known[q]

\* The origin of the provider calls are held with, when it may be framed.
ChosenOrigin ==
  IF \E p \in Origins : Preferred(p) THEN CHOOSE p \in Origins : Preferred(p)
                                     ELSE NoOrigin

Refreshing(t) == In(t, "refresh") \/ In(t, "apply")

\* The handler goes on to refresh the header.
Refresh(t) ==
  /\ Goto(t, [Idle EXCEPT !.op = "refresh"])
  /\ outrun' = (outrun \/ \E s \in Tx : Refreshing(s))

\* Mutation: only an embeddable provider is thought to change the header.
RefreshIfEmbeddable(t, p) ==
  IF p \in Origins THEN Refresh(t) ELSE UNCHANGED <<tx, outrun>>

\* A provider that is not embeddable may narrow the header all the same.
RefreshAfterCreate(t, p) == Refresh(t)

\* A new default stands the previous one down; uq_call_provider_default
\* fails the insert of whoever comes second.
CreateProvider(t, p, isDefault) ==
  /\ Free(t)
  /\ known[p] = 0
  /\ known' = [known EXCEPT ![p] = 1 + Cardinality({q \in Providers : known[q] > 0})]
  /\ enabled' = enabled \cup {p}
  /\ default' = IF isDefault THEN {p} ELSE default
  /\ RefreshAfterCreate(t, p)
  /\ UNCHANGED <<calls, header, crossed>>

DisableProvider(t, p) ==
  /\ Free(t)
  /\ known[p] > 0
  /\ enabled' = enabled \ {p}
  /\ default' = default \ {p}
  /\ Refresh(t)
  /\ UNCHANGED <<calls, known, header, crossed>>

\* The query of the refresh returns.
ReadOrigin(t) ==
  /\ In(t, "refresh")
  /\ Goto(t, [Idle EXCEPT !.op = "apply", !.origin = ChosenOrigin])
  /\ UNCHANGED <<calls, providers, header, crossed, outrun>>

ApplyOrigin(t) ==
  /\ In(t, "apply")
  /\ header' = tx[t].origin
  /\ Done(t)
  /\ UNCHANGED <<calls, providers, crossed, outrun>>

\* The query fails: no origin, which means no embedding.
RefreshFails(t) ==
  /\ In(t, "refresh")
  /\ header' = NoOrigin
  /\ Done(t)
  /\ UNCHANGED <<calls, providers, crossed, outrun>>

\* A restart builds the header from the table before requests are served.
Restart ==
  /\ header' \in {ChosenOrigin, NoOrigin}
  /\ tx' = [t \in Tx |-> Idle]
  /\ outrun' = FALSE
  /\ UNCHANGED <<calls, providers, crossed>>

-----------------------------------------------------------------------------
(* Starting and joining.                                                   *)

\* No call is live, so the provider is asked, which takes time.
StartCheck(t, u) ==
  /\ Free(t)
  /\ Live = {} /\ enabled # {}
  /\ Goto(t, [Idle EXCEPT !.op = "start", !.who = {u}])
  /\ UNCHANGED <<calls, providers, header, crossed, outrun>>

\* Mutation: nothing keeps a second call out.
NoIndex == TRUE

\* uq_call_live_per_channel.
NoLiveCall == Live = {}

StartCommit(t) ==
  /\ In(t, "start")
  /\ NoLiveCall
  /\ started < MaxCalls
  /\ started' = started + 1
  /\ present' = [present EXCEPT ![started + 1] = tx[t].who]
  /\ Done(t)
  /\ UNCHANGED <<ended, swept, providers, header, crossed, outrun>>

\* Mutation: whether the call has ended is not asked.
NeverEnded(c) == TRUE

StillLive(c) == c \notin ended

\* A call somebody knows of, or the live one that a start came upon: ended_at
\* is read in the transaction that inserts the participant ...
JoinLoad(t, u, c) ==
  /\ Free(t)
  /\ c \in Calls /\ StillLive(c)
  /\ Goto(t, [Idle EXCEPT !.op = "join", !.who = {u}, !.call = c])
  /\ UNCHANGED <<calls, providers, header, crossed, outrun>>

\* Another request on the same call is under way, and one of the two leaves.
Overlaps(t) ==
  \E s \in Tx \ {t} : /\ tx[s].call = tx[t].call
                      /\ tx[s].op \in {"join", "leave"}
                      /\ In(s, "leave") \/ In(t, "leave")

\* The participant's row, held by a leave that has not committed.
RowLocked(u, c) == \E t \in Tx : In(t, "leave") /\ tx[t].call = c /\ tx[t].who = {u}

\* ... and nothing keeps the call from ending in between.
JoinCommit(t) ==
  LET c == tx[t].call IN
  /\ In(t, "join")
  /\ \A u \in tx[t].who : ~RowLocked(u, c)
  /\ present' = [present EXCEPT ![c] = @ \cup tx[t].who]
  /\ crossed' = (crossed \/ Overlaps(t))
  /\ Done(t)
  /\ UNCHANGED <<started, ended, swept, providers, header, outrun>>

-----------------------------------------------------------------------------
(* Leaving.                                                                *)

\* Mutation: whoever leaves is counted as well.
NobodyAtAll(u, c) == present[c] = {}

LastOut(u, c) == present[c] \ {u} = {}

\* The participant is marked, if present, and the remaining ones counted ...
LeaveCount(t, u, c) ==
  /\ Free(t)
  /\ c \in Calls
  /\ ~RowLocked(u, c)
  /\ Goto(t, [Idle EXCEPT !.op = "leave", !.who = {u} \cap present[c],
                          !.call = c, !.last = LastOut(u, c)])
  /\ UNCHANGED <<calls, providers, header, crossed, outrun>>

\* ... and the call ended if there were none, in one transaction.
LeaveCommit(t) ==
  LET c == tx[t].call IN
  /\ In(t, "leave")
  /\ present' = [present EXCEPT ![c] = @ \ tx[t].who]
  /\ ended' = IF tx[t].last THEN ended \cup {c} ELSE ended
  /\ crossed' = (crossed \/ Overlaps(t))
  /\ Done(t)
  /\ UNCHANGED <<started, swept, providers, header, outrun>>

\* Refused, a conflict, a provider that fails, a lost connection.
Rollback(t) ==
  /\ tx[t].op \in {"start", "join", "leave"}
  /\ Done(t)
  /\ UNCHANGED <<calls, providers, header, crossed, outrun>>

\* Twelve hours after it started, whoever is still marked as present; the
\* clock is left open.
Sweep(c) ==
  /\ c \in Live
  /\ ended' = ended \cup {c} /\ swept' = swept \cup {c}
  /\ UNCHANGED <<started, present, providers, header, tx, crossed, outrun>>

-----------------------------------------------------------------------------

Next ==
  \/ \E t \in Tx :
       \/ \E p \in Providers : \/ \E b \in BOOLEAN : CreateProvider(t, p, b)
                               \/ DisableProvider(t, p)
       \/ ReadOrigin(t) \/ ApplyOrigin(t) \/ RefreshFails(t)
       \/ \E u \in People : \/ StartCheck(t, u)
                            \/ \E c \in Calls : JoinLoad(t, u, c) \/ LeaveCount(t, u, c)
       \/ StartCommit(t) \/ JoinCommit(t) \/ LeaveCommit(t)
       \/ Rollback(t)
  \/ \E c \in Calls : Sweep(c)
  \/ Restart

Spec == Init /\ [][Next]_vars

-----------------------------------------------------------------------------
(* What must hold.                                                         *)

\* A channel holds at most one live call, whoever presses the button at the
\* same moment (uq_call_live_per_channel, after a check and a network call).
OneLiveCall == Cardinality(Live) <= 1

\* A call that ended because everybody left has nobody in it, unless a leave
\* overlapped a join or another leave: ended_at is asked before a participant is added.
EndedIsEmpty == crossed \/ \A c \in ended \ swept : present[c] = {}

\* The last person out ends the call, unless a leave overlapped a join
\* or another leave.
EmptyIsEnded == crossed \/ \A c \in Live : present[c] # {}

\* A channel holds at most one call, and a call is live exactly while somebody
\* is in it, as long as no leave overlapped a join or another leave.
CallsSound == TypeOK /\ OneLiveCall /\ EndedIsEmpty /\ EmptyIsEnded

\* With no refresh under way, the header names the origin of the provider a
\* call would be held with or none at all, unless two refreshes overlapped:
\* no origin is left in frame-src after its provider was stopped or replaced.
FrameOrigin ==
  \/ outrun
  \/ \E t \in Tx : Refreshing(t)
  \/ header \in {ChosenOrigin, NoOrigin}

=============================================================================
