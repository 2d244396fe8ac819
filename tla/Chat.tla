-------------------------------- MODULE Chat --------------------------------
(* Chat channels: creating and joining them, the one conversation of two     *)
(* people, sending, paging through history, and read positions.              *)
(*                                                                           *)
(* routes/chat.ts and services/chat.ts run every request in one READ         *)
(* COMMITTED transaction.  A message gets its id (uuidv7, ordered by time)   *)
(* when it is inserted and becomes visible when its transaction commits, so  *)
(* messages can become visible out of order.  Nothing in the code archives a *)
(* channel or ends a membership.  Replies, mentions and text are left out;   *)
(* files are in Attachments, open windows in Realtime and Conversation.      *)
EXTENDS Naturals, FiniteSets

CONSTANTS
  Users,
  Tx,           \* transactions that may be open at the same time
  Channels,     \* bound: rows of channels
  Names,        \* names a public or private channel may have
  MaxMessages,  \* bound: messages ever inserted
  PageSize      \* messages per page

ASSUME ChatAssumption == MaxMessages \in Nat /\ PageSize \in Nat \ {0}

VARIABLES
  enabled,      \* users.disabled_at IS NULL
  kind,         \* channels.kind, "free" while there is no such row
  name,         \* channels.name, in a set; conversations have none
  creator,      \* channels.created_by, in a set
  member,       \* channel_members, as pairs <<channel, person>>
  direct,       \* direct_conversations: pair of people |-> its channel, in a set
  clock,        \* the newest message id
  message,      \* messages by id, inserted ones included
  visible,      \* ids of committed messages
  pos,          \* channel_members.last_read_message_id, 0 when null
  tx,           \* local state of the open transactions
  walk,         \* one reader paging backwards through a channel
  answers,      \* history: conversations told to the people of a pair
  overlapped    \* history: channels in which two sends were open at once

rooms    == <<kind, name, creator, member, direct>>
messages == <<clock, message, visible, pos>>
history  == <<answers, overlapped>>
vars     == <<enabled, rooms, messages, tx, walk, history>>

Ids == 1..MaxMessages
Pairs == {p \in SUBSET Users : Cardinality(p) = 2}
Message == [channel: Channels, author: Users]

Ops == {"idle", "create", "open", "join", "send"}

\* user: who asks; channel: the row concerned; with: the people named in the
\* request; kind and name of a new channel; id of a new message.
Local == [op: Ops, step: {"begun", "linked"}, user: SUBSET Users,
          channel: SUBSET Channels, with: SUBSET Users,
          kind: {"public", "private", "direct"}, name: SUBSET Names,
          id: 0..MaxMessages]

Idle == [op |-> "idle", step |-> "begun", user |-> {}, channel |-> {},
         with |-> {}, kind |-> "direct", name |-> {}, id |-> 0]

\* before: nextBefore of the last page, 0 for the first request; due: what was
\* visible when the walk began; got: how often each message was returned.
NoWalk == [on |-> FALSE, done |-> FALSE, channel |-> {}, before |-> 0,
           due |-> {}, got |-> [m \in Ids |-> 0]]

TypeOK ==
  /\ enabled \subseteq Users
  /\ kind \in [Channels -> {"free", "public", "private", "direct"}]
  /\ name \in [Channels -> SUBSET Names]
  /\ creator \in [Channels -> SUBSET Users]
  /\ member \subseteq Channels \X Users
  /\ direct \in [Pairs -> SUBSET Channels]
  /\ clock \in 0..MaxMessages
  /\ message \in [1..clock -> Message]
  /\ visible \subseteq 1..clock
  /\ pos \in [Channels -> [Users -> visible \cup {0}]]
  /\ tx \in [Tx -> Local]
  /\ walk \in [on: BOOLEAN, done: BOOLEAN, channel: SUBSET Channels,
               before: 0..MaxMessages, due: SUBSET Ids, got: [Ids -> Nat]]
  /\ answers \in [Pairs -> SUBSET Channels]
  /\ overlapped \subseteq Channels

Init ==
  /\ enabled = Users
  /\ kind = [c \in Channels |-> "free"]
  /\ name = [c \in Channels |-> {}]
  /\ creator = [c \in Channels |-> {}]
  /\ member = {}
  /\ direct = [p \in Pairs |-> {}]
  /\ clock = 0
  /\ message = [m \in {} |-> {}]
  /\ visible = {}
  /\ pos = [c \in Channels |-> [u \in Users |-> 0]]
  /\ tx = [t \in Tx |-> Idle]
  /\ walk = NoWalk
  /\ answers = [p \in Pairs |-> {}]
  /\ overlapped = {}

-----------------------------------------------------------------------------
(* Transactions.                                                             *)

Free(t) == tx[t].op = "idle"
In(t, op, step) == tx[t].op = op /\ tx[t].step = step
Goto(t, local) == tx' = [tx EXCEPT ![t] = local]
Done(t) == Goto(t, Idle)

\* Rows that exist, and rows an open transaction has inserted.
Inserted == UNION {tx[t].channel : t \in {s \in Tx : tx[s].op \in {"create", "open"}}}
Unused(c) == kind[c] = "free" /\ c \notin Inserted

\* An error, a unique violation or a lost connection.
Rollback(t) ==
  /\ ~Free(t)
  /\ Done(t)
  /\ UNCHANGED <<enabled, rooms, messages, walk, history>>

\* An account is disabled (routes/users.ts); its sessions end with it, and its
\* requests that have begun go on.  Bound: only before the first message; later
\* it would only take requests away.
Disable(u) ==
  /\ u \in enabled /\ clock = 0
  /\ enabled' = enabled \ {u}
  /\ UNCHANGED <<rooms, messages, tx, walk, history>>

-----------------------------------------------------------------------------
(* Access.                                                                   *)

IsMember(u, c) == <<c, u>> \in member

CanRead(u, c) == kind[c] # "free" /\ (kind[c] = "public" \/ IsMember(u, c))

\* Mutation: whoever may read may post.
CanPostWithoutJoining(u, c) == CanRead(u, c)

CanPost(u, c) == CanRead(u, c) /\ IsMember(u, c)

-----------------------------------------------------------------------------
(* Channels.                                                                 *)

\* Mutation: no unique index on the name.
AnyName(n) == TRUE

\* uq_channel_name: an insert waits for another of the same name that is not
\* committed, and is refused when that or an earlier one is.
NameFree(n) ==
  /\ \A c \in Channels : n \notin name[c]
  /\ \A t \in Tx : tx[t].op = "create" => n \notin tx[t].name

CreateInsert(t, u, c, k, n, S) ==
  /\ Free(t) /\ u \in enabled /\ Unused(c) /\ NameFree(n)
  /\ Goto(t, [Idle EXCEPT !.op = "create", !.user = {u}, !.channel = {c},
                          !.with = S, !.kind = k, !.name = {n}])
  /\ UNCHANGED <<enabled, rooms, messages, walk, history>>

\* Mutation: only the people named become members.
OthersOnly(t) == tx[t].with \cap enabled

\* The creator is always a member; disabled people are left out.
FirstMembers(t) == (tx[t].user \cup tx[t].with) \cap enabled

CreateCommit(t) ==
  /\ In(t, "create", "begun")
  /\ \E c \in tx[t].channel :
       /\ kind' = [kind EXCEPT ![c] = tx[t].kind]
       /\ name' = [name EXCEPT ![c] = tx[t].name]
       /\ creator' = [creator EXCEPT ![c] = tx[t].user]
       /\ member' = member \cup ({c} \X FirstMembers(t))
  /\ Done(t)
  /\ UNCHANGED <<enabled, direct, messages, walk, history>>

\* Joining a public channel: membership is read first, and a second insert of
\* the same person violates uq_channel_member.
JoinLoad(t, u, c) ==
  /\ Free(t) /\ u \in enabled
  /\ kind[c] = "public" /\ ~IsMember(u, c)
  /\ Goto(t, [Idle EXCEPT !.op = "join", !.user = {u}, !.channel = {c}])
  /\ UNCHANGED <<enabled, rooms, messages, walk, history>>

JoinCommit(t) ==
  /\ In(t, "join", "begun")
  /\ (tx[t].channel \X tx[t].user) \cap member = {}
  /\ member' = member \cup (tx[t].channel \X tx[t].user)
  /\ Done(t)
  /\ UNCHANGED <<enabled, kind, name, creator, direct, messages, walk, history>>

-----------------------------------------------------------------------------
(* The conversation of two people.                                           *)

Told(p, C) == answers' = [answers EXCEPT ![p] = @ \cup C]

OpenExisting(u, v) ==
  /\ u \in enabled /\ v \in enabled /\ u # v
  /\ direct[{u, v}] # {}
  /\ Told({u, v}, direct[{u, v}])
  /\ UNCHANGED <<enabled, rooms, messages, tx, walk, overlapped>>

\* No conversation is there, and a row of channels is inserted for a new one.
OpenMissing(t, u, v, c) ==
  /\ Free(t) /\ u \in enabled /\ v \in enabled /\ u # v
  /\ direct[{u, v}] = {} /\ Unused(c)
  /\ Goto(t, [Idle EXCEPT !.op = "open", !.user = {u}, !.channel = {c},
                          !.with = {u, v}])
  /\ UNCHANGED <<enabled, rooms, messages, walk, history>>

\* Mutation: the pair is inserted without looking for another.
NeverHeld(p) == FALSE

\* uq_direct_pair: the insert waits for one of the same pair.
PairHeld(p) == \E t \in Tx : In(t, "open", "linked") /\ tx[t].with = p

OpenLink(t) ==
  /\ In(t, "open", "begun")
  /\ ~PairHeld(tx[t].with)
  /\ direct[tx[t].with] = {}
  /\ Goto(t, [tx[t] EXCEPT !.step = "linked"])
  /\ UNCHANGED <<enabled, rooms, messages, walk, history>>

\* ON CONFLICT DO NOTHING: the row of channels just made is deleted, and the
\* other conversation is the answer.
OpenConflict(t) ==
  /\ In(t, "open", "begun")
  /\ ~PairHeld(tx[t].with)
  /\ direct[tx[t].with] # {}
  /\ Told(tx[t].with, direct[tx[t].with])
  /\ Done(t)
  /\ UNCHANGED <<enabled, rooms, messages, walk, overlapped>>

OpenCommit(t) ==
  /\ In(t, "open", "linked")
  /\ \E c \in tx[t].channel :
       /\ kind' = [kind EXCEPT ![c] = "direct"]
       /\ creator' = [creator EXCEPT ![c] = tx[t].user]
  /\ direct' = [direct EXCEPT ![tx[t].with] = tx[t].channel]
  /\ member' = member \cup (tx[t].channel \X tx[t].with)
  /\ Told(tx[t].with, tx[t].channel)
  /\ Done(t)
  /\ UNCHANGED <<enabled, name, messages, walk, overlapped>>

-----------------------------------------------------------------------------
(* Sending.                                                                  *)

Sending(c) == {t \in Tx : tx[t].op = "send" /\ c \in tx[t].channel}

SendInsert(t, u, c) ==
  /\ Free(t) /\ u \in enabled /\ clock < MaxMessages
  /\ CanPost(u, c)
  /\ clock' = clock + 1
  /\ message' = [m \in 1..clock' |->
                   IF m = clock' THEN [channel |-> c, author |-> u] ELSE message[m]]
  /\ Goto(t, [Idle EXCEPT !.op = "send", !.user = {u}, !.channel = {c},
                          !.id = clock + 1])
  /\ overlapped' = IF Sending(c) # {} THEN overlapped \cup {c} ELSE overlapped
  /\ UNCHANGED <<enabled, rooms, visible, pos, walk, answers>>

\* The author's own position is the message just sent.
OwnPosition(t) == tx[t].id

\* The author's own position moves to the message, wherever it was; the row is
\* locked from that statement to the commit, with nothing in between.
SendCommit(t) ==
  /\ In(t, "send", "begun")
  /\ visible' = visible \cup {tx[t].id}
  /\ \E c \in tx[t].channel, u \in tx[t].user :
       pos' = [pos EXCEPT ![c][u] = OwnPosition(t)]
  /\ Done(t)
  /\ UNCHANGED <<enabled, rooms, clock, message, walk, history>>

-----------------------------------------------------------------------------
(* Reading.                                                                  *)

\* Mutation: messages count before they are committed.
InsertedHistory(c) == {m \in 1..clock : message[m].channel = c}

History(c) == {m \in visible : message[m].channel = c}

\* What the channel list counts for a person.
Unread(u, c) ==
  IF IsMember(u, c)
    THEN {m \in History(c) : message[m].author # u /\ m > pos[c][u]}
    ELSE {}

\* Mutation: any position a device reports is stored.
AnyPosition(u, c, m) == TRUE

Forward(u, c, m) == pos[c][u] < m

\* A device reports the newest message it shows.
MarkRead(u, c, m) ==
  /\ u \in enabled /\ IsMember(u, c)
  /\ m \in History(c)
  /\ Forward(u, c, m)
  /\ pos' = [pos EXCEPT ![c][u] = m]
  /\ UNCHANGED <<enabled, rooms, clock, message, visible, tx, walk, history>>

\* ORDER BY id DESC LIMIT n
Newest(S, n) == {m \in S : Cardinality({k \in S : k > m}) < n}
Oldest(S) == CHOOSE m \in S : \A k \in S : m <= k

Below(c, before) == {m \in History(c) : before = 0 \/ m < before}

\* One row more than a page is asked for, to know whether there is another.
HasMore(c, before) == Cardinality(Newest(Below(c, before), PageSize + 1)) > PageSize
Page(c, before) == Newest(Below(c, before), PageSize)

\* Mutation: the page goes on from the extra row instead of the oldest one shown.
NextFromExtra(c, before) == Oldest(Newest(Below(c, before), PageSize + 1))

\* The rows are reversed in place, so the first is the oldest.
NextBefore(c, before) == Oldest(Page(c, before))

\* An empty channel is a walk of one page, which shows nothing.
WalkBegin(u, c) ==
  /\ ~walk.on /\ u \in enabled /\ CanRead(u, c) /\ History(c) # {}
  /\ walk' = [NoWalk EXCEPT !.on = TRUE, !.channel = {c}, !.due = History(c)]
  /\ UNCHANGED <<enabled, rooms, messages, tx, history>>

WalkPage ==
  /\ walk.on /\ ~walk.done
  /\ \E c \in walk.channel :
       walk' = [walk EXCEPT
                  !.got = [m \in Ids |->
                             IF m \in Page(c, walk.before) THEN @[m] + 1 ELSE @[m]],
                  !.done = ~HasMore(c, walk.before),
                  !.before = IF HasMore(c, walk.before)
                               THEN NextBefore(c, walk.before) ELSE walk.before]
  /\ UNCHANGED <<enabled, rooms, messages, tx, history>>

WalkEnd ==
  /\ walk.done
  /\ walk' = NoWalk
  /\ UNCHANGED <<enabled, rooms, messages, tx, history>>

-----------------------------------------------------------------------------

Next ==
  \/ \E u \in Users : Disable(u)
  \/ \E t \in Tx :
       \/ Rollback(t)
       \/ CreateCommit(t) \/ JoinCommit(t)
       \/ OpenLink(t) \/ OpenConflict(t) \/ OpenCommit(t)
       \/ SendCommit(t)
       \/ \E u \in Users, c \in Channels :
            \/ JoinLoad(t, u, c) \/ SendInsert(t, u, c)
            \/ \E v \in Users : OpenMissing(t, u, v, c)
            \/ \E k \in {"public", "private"}, n \in Names, S \in SUBSET Users :
                 CreateInsert(t, u, c, k, n, S)
  \/ \E u, v \in Users : OpenExisting(u, v)
  \/ \E u \in Users, c \in Channels :
       WalkBegin(u, c) \/ \E m \in Ids : MarkRead(u, c, m)
  \/ WalkPage \/ WalkEnd

Spec == Init /\ [][Next]_vars

-----------------------------------------------------------------------------
(* What must hold.                                                           *)

\* Two people never end up with two conversations holding half the history
\* each, whoever opens it and however often: every answer is the one that is
\* stored, it has both as members, and no other conversation row is left over.
OneConversation ==
  /\ \A p \in Pairs :
       /\ Cardinality(direct[p]) <= 1
       /\ answers[p] \subseteq direct[p]
       /\ direct[p] \X p \subseteq member
  /\ \A c \in Channels :
       kind[c] = "direct" => \E p \in Pairs : direct[p] = {c}

\* Two live channels never share a name.
NamesUnique ==
  \A c, d \in Channels : c # d => name[c] \cap name[d] = {}

\* Whoever creates a channel can post in it, unless disabled meanwhile.
CreatorIsMember ==
  \A c \in Channels : \A u \in creator[c] \cap enabled : IsMember(u, c)

\* Every message was written by a member of its channel, the public ones
\* included.
OnlyMembersPost == \A m \in visible : IsMember(message[m].author, message[m].channel)

\* Channels stay what the people in them believe: one per pair and per name,
\* with its creator in it and nothing in it but what members wrote.
ChannelsSound ==
  /\ TypeOK
  /\ OneConversation /\ NamesUnique
  /\ CreatorIsMember /\ OnlyMembersPost

\* Paging back to the beginning shows every message that was there when it
\* began exactly once, and none twice, whatever is sent meanwhile.
WalkComplete ==
  /\ \A m \in Ids : walk.got[m] <= 1
  /\ walk.done => \A m \in walk.due : walk.got[m] = 1

\* A phone catching up does not undo what was read at a desktop: a position
\* goes back only by a message of one's own that others overtook.
BackOnlyBySending ==
  [][\A c \in Channels, u \in Users :
       pos'[c][u] < pos[c][u] =>
         /\ pos'[c][u] \in visible' \ visible
         /\ message'[pos'[c][u]].author = u]_vars

\* A message that appears is unread to every other member of the channel,
\* unless two messages to that channel were being sent at once.
NewIsUnread ==
  [][\A m \in visible' \ visible, c \in Channels, u \in Users :
       /\ message'[m].channel = c /\ message'[m].author # u
       /\ IsMember(u, c) /\ c \notin overlapped
       => m \in Unread(u, c)']_vars

\* A read position is where the person got to: nothing read becomes unread and
\* nothing new is taken for read, except through sends that overlap.
PositionsHold == BackOnlyBySending /\ NewIsUnread

=============================================================================
