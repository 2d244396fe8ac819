------------------------------ MODULE Conversation ------------------------------
(***************************************************************************)
(* One channel on one person's screen: the log the browser holds of it,    *)
(* the unread count and the line drawn from it, the read position sent     *)
(* back, and the box a message is written in, against a server where       *)
(* others write too.                                                       *)
(*                                                                         *)
(* A request is what the browser sends, what the server answers and what   *)
(* the browser does with the answer: up to three steps.  A query that has  *)
(* data is asked anew when it is invalidated, and the answer on its way is *)
(* dropped; one that has none yet waits for the answer on its way.         *)
(***************************************************************************)
EXTENDS Realtime, SequencesExt

CONSTANTS
  NoData,       \* nothing cached
  MaxMessages,  \* bound: messages of the channel
  MaxTexts,     \* bound: texts typed into the box
  MaxVisits     \* bound: times the page is opened

ASSUME ConversationAssumption ==
  /\ MaxMessages \in Nat /\ MaxTexts \in Nat /\ MaxVisits \in Nat
  /\ NoData \notin Seq(Nat)
  /\ NoData \notin [unread : Nat, member : BOOLEAN, seen : SUBSET Nat, position : Nat]

VARIABLES
  \* The server.
  committed,    \* messages in the order of their commits; ids are 1, 2, ...
  mine,         \* those this person wrote
  unsent,       \* committed, and not published yet
  position,     \* last_read_message_id, 0 for NULL
  member,       \* this person has joined the channel
  \* The browser.
  log,          \* the cached messages, or NoData
  logQuery,     \* the query for them that is under way
  list,         \* this channel in the cached channel list, or NoData
  listQuery,    \* the query for it that is under way
  page,         \* the page of the channel: visits, what was unread on arrival
  marks,        \* read positions on their way to the server
  box,          \* what is written, and how many texts were typed so far
  posts,        \* messages on their way to the server or back
  \* History.
  missed,       \* messages that a race or a failed query kept off the screen
  unmarked,     \* a read position was lost, or moved back by a late message
  uncounted,    \* the list was not asked for, or not told, since something that
                \* its count depends on
  fate          \* of texts: wiped from the box unsent, typed while another was
                \* being sent, submitted again before an answer, said, said twice

serverVars == <<committed, mine, unsent, position, member>>
logVars    == <<log, logQuery>>
listVars   == <<list, listQuery, uncounted>>
pageVars   == <<page, marks>>
boxVars    == <<box, posts, fate>>
conversationVars ==
  <<serverVars, logVars, listVars, pageVars, boxVars, missed, unmarked>>

-----------------------------------------------------------------------------

Ids == 1..MaxMessages
Committed == ToSet(committed)
NoQuery == [at |-> "idle", answer |-> NoData]
Asked == [at |-> "asked", answer |-> NoData]
Answered(x) == [at |-> "answered", answer |-> x]

\* What the channel list says: the count, the membership, and, for the
\* properties, what the server held when it said so.
Unread == IF member THEN {i \in Committed \ mine : i > position} ELSE {}
ListItem == [unread |-> Cardinality(Unread), member |-> member,
             seen |-> Committed, position |-> position]

ConversationTypeOK ==
  /\ Committed \subseteq Ids /\ mine \subseteq Committed /\ unsent \subseteq Committed
  /\ position \in 0..MaxMessages /\ member \in BOOLEAN
  /\ log = NoData \/ ToSet(log) \subseteq Committed
  /\ logQuery.at \in {"idle", "asked", "answered"}
  /\ listQuery.at \in {"idle", "asked", "answered"}
  /\ marks \subseteq Ids /\ box.text \in 0..MaxTexts

ConversationInit ==
  /\ committed = <<>> /\ mine = {} /\ unsent = {} /\ position = 0
  /\ member \in BOOLEAN
  /\ log = NoData /\ logQuery = NoQuery
  /\ list = NoData /\ listQuery = Asked
  /\ page = [open |-> FALSE, visits |-> 0, arrival |-> NoData, marked |-> 0,
             stale |-> FALSE]
  /\ marks = {}
  /\ box = [text |-> 0, typed |-> 0] /\ posts = {}
  /\ missed = {} /\ unmarked = FALSE /\ uncounted = FALSE
  /\ fate = [wiped |-> {}, overlapped |-> {}, again |-> {}, said |-> {}, twice |-> {}]

\* An invalidation of a query somebody watches.
Reasked(data, query) == IF data = NoData /\ query.at # "idle" THEN query ELSE Asked

\* Nobody watches the log while the page is closed: it is asked for again
\* when the page opens.
LogReasked == IF page.open THEN Reasked(log, logQuery) ELSE logQuery

\* Mutation: the channel list is not asked for again.
ListNotReasked == listQuery

\* The channel list is watched on every screen.
ListReasked == Reasked(list, listQuery)

\* The answer on its way is older than what the invalidation was about.
Stale(data, query, things) ==
  IF data = NoData /\ query.at = "answered" THEN things ELSE {}

-----------------------------------------------------------------------------
(* Queries.                                                                *)

\* ORDER BY id DESC, and the page turned round: ids ascend.
ById(S) ==
  [k \in 1..Cardinality(S) |-> CHOOSE i \in S : Cardinality({j \in S : j < i}) = k - 1]

AnswerLog ==
  /\ session
  /\ logQuery.at = "asked"
  /\ logQuery' = Answered(ById(Committed))
  /\ UNCHANGED <<socketVars, serverVars, log, listVars, pageVars, boxVars, missed, unmarked>>

\* The answer replaces what is cached, what was merged meanwhile included.
TakeLog ==
  /\ logQuery.at = "answered"
  /\ log' = logQuery.answer /\ logQuery' = NoQuery
  /\ missed' = IF log = NoData THEN missed
               ELSE missed \cup (ToSet(log) \ ToSet(logQuery.answer))
  /\ UNCHANGED <<socketVars, serverVars, listVars, pageVars, boxVars, unmarked>>

AnswerList ==
  /\ session
  /\ listQuery.at = "asked"
  /\ listQuery' = Answered(ListItem) /\ uncounted' = FALSE
  /\ UNCHANGED <<socketVars, serverVars, logVars, list, pageVars, boxVars, missed, unmarked>>

TakeList ==
  /\ listQuery.at = "answered"
  /\ list' = listQuery.answer /\ listQuery' = NoQuery
  /\ UNCHANGED <<socketVars, serverVars, logVars, pageVars, boxVars, missed, unmarked,
                 uncounted>>

\* Asked once more at once; after that, what is cached stays.
LogFails ==
  /\ logQuery.at = "asked"
  /\ logQuery' = NoQuery
  /\ missed' = IF log = NoData THEN missed ELSE missed \cup (Committed \ ToSet(log))
  /\ UNCHANGED <<socketVars, serverVars, log, listVars, pageVars, boxVars, unmarked>>

ListFails ==
  /\ listQuery.at = "asked"
  /\ listQuery' = NoQuery /\ uncounted' = TRUE
  /\ UNCHANGED <<socketVars, serverVars, logVars, list, pageVars, boxVars, missed, unmarked>>

-----------------------------------------------------------------------------
(* Others, and the hub.                                                    *)

\* Two requests of others may commit in an order that is not that of their ids.
OtherCommits(i) ==
  /\ i \notin Committed /\ i \in 1..(Len(committed) + 2)
  /\ committed' = Append(committed, i) /\ unsent' = unsent \cup {i}
  /\ UNCHANGED <<socketVars, mine, position, member, logVars, listVars, pageVars,
                 boxVars, missed, unmarked>>

\* Published after the commit, to those who are members by then.
PublishMessage(i) ==
  /\ i \in unsent
  /\ unsent' = unsent \ {i}
  /\ IF member THEN Publish(Event("message", i)) ELSE UNCHANGED socketVars
  /\ missed' = IF OpenNotInHub \/ ~member THEN missed \cup {i} ELSE missed
  /\ UNCHANGED <<committed, mine, position, member, logVars, listVars, pageVars,
                 boxVars, unmarked>>

\* Mutation: whatever arrives is appended.
AppendAnyway(i) == IF log = NoData THEN log ELSE Append(log, i)

\* Merged by id; nothing is merged into a log that is not loaded.
AppendMessage(i) ==
  IF log = NoData \/ (\E k \in DOMAIN log : log[k] = i) THEN log ELSE Append(log, i)

MessageArrives(s, i) ==
  /\ Receive(s, Event("message", i))
  /\ log' = AppendMessage(i)
  /\ listQuery' = ListReasked
  /\ missed' = missed \cup Stale(log, logQuery, {i} \ ToSet(logQuery.answer))
                      \cup Stale(list, listQuery, {i})
  /\ UNCHANGED <<serverVars, logQuery, list, pageVars, boxVars, unmarked, uncounted>>

\* Mutation: a reconnection refetches the channel list alone.
LogNotReasked == logQuery

LogReaskedOnOpen == LogReasked

\* Whatever happened while the socket was down is asked again.
ConversationReopens ==
  /\ logQuery' = LogReaskedOnOpen /\ listQuery' = ListReasked
  /\ page' = [page EXCEPT !.stale = ~page.open]
  /\ missed' = missed \cup Stale(log, logQuery, Committed)
                      \cup Stale(list, listQuery, Committed)
  /\ UNCHANGED <<serverVars, log, list, marks, boxVars, unmarked, uncounted>>

-----------------------------------------------------------------------------
(* The page.                                                               *)

\* What is not cached is asked for; what is, when it was invalidated or is
\* older than thirty seconds.
OpenPage ==
  /\ ~page.open /\ page.visits < MaxVisits
  /\ page' = [open |-> TRUE, visits |-> page.visits + 1, arrival |-> list, marked |-> 0,
              stale |-> FALSE]
  /\ \/ logQuery' = Reasked(log, logQuery)
     \/ log # NoData /\ ~page.stale /\ UNCHANGED logQuery
  /\ \/ listQuery.at = "idle" /\ listQuery' = Asked
     \/ (list # NoData \/ listQuery.at # "idle") /\ UNCHANGED listQuery
  /\ UNCHANGED <<socketVars, serverVars, log, list, marks, boxVars, missed, unmarked, uncounted>>

\* Remounted per channel: the draft goes with the page.
ClosePage ==
  /\ page.open /\ posts = {} /\ box.text = 0
  /\ page' = [page EXCEPT !.open = FALSE, !.arrival = NoData]
  /\ UNCHANGED <<socketVars, serverVars, logVars, listVars, marks, boxVars, missed, unmarked>>

\* The count is captured once, when the channel is first found in the list.
Arrive ==
  /\ page.open /\ page.arrival = NoData /\ list # NoData
  /\ page' = [page EXCEPT !.arrival = list]
  /\ UNCHANGED <<socketVars, serverVars, logVars, listVars, marks, boxVars, missed, unmarked>>

Newest == IF log = NoData \/ log = <<>> THEN 0 ELSE Max(ToSet(log))

\* Mutation: the position is noted before it is known whether it can be sent.
NotedTooSoon == page.open /\ Newest > page.marked

MayMark == page.open /\ list # NoData /\ list.member /\ Newest > page.marked

\* Sent once per newest message; noted as sent before it is.
SendMark ==
  /\ MayMark
  /\ page' = [page EXCEPT !.marked = Newest] /\ marks' = marks \cup {Newest}
  /\ UNCHANGED <<socketVars, serverVars, logVars, listVars, boxVars, missed, unmarked>>

\* The server does not move it backwards.
PositionMarked(i) == IF member /\ i > position THEN i ELSE position

\* Then the list is asked for again.
MarkAnswered(i) ==
  /\ session
  /\ i \in marks
  /\ marks' = marks \ {i} /\ position' = PositionMarked(i)
  /\ listQuery' = ListReasked
  /\ UNCHANGED <<socketVars, committed, mine, unsent, member, logVars, list, page,
                 boxVars, missed, unmarked, uncounted>>

\* Never sent again, until a newer message comes.
MarkLost(i) ==
  /\ i \in marks
  /\ marks' = marks \ {i} /\ unmarked' = TRUE
  /\ UNCHANGED <<socketVars, serverVars, logVars, listVars, page, boxVars, missed>>

\* Recorded, and the answer is lost: only a mark that succeeds has the list asked
\* for again.
MarkUnheard(i) ==
  /\ session
  /\ i \in marks
  /\ marks' = marks \ {i} /\ position' = PositionMarked(i)
  /\ uncounted' = (uncounted \/ i > position)
  /\ UNCHANGED <<socketVars, committed, mine, unsent, member, logVars, list, listQuery,
                 page, boxVars, missed, unmarked>>

\* The list is asked for again, the log is not.
Join ==
  /\ session /\ page.open /\ ~member /\ list # NoData /\ ~list.member
  /\ member' = TRUE
  /\ listQuery' = ListReasked
  /\ UNCHANGED <<socketVars, committed, mine, unsent, position, logVars, list, pageVars,
                 boxVars, missed, unmarked, uncounted>>

-----------------------------------------------------------------------------
(* The box.                                                                *)

Type ==
  /\ page.open /\ list # NoData /\ list.member
  /\ box.typed < MaxTexts
  /\ box' = [box EXCEPT !.text = box.typed + 1, !.typed = @ + 1]
  /\ fate' = IF posts = {} THEN fate
             ELSE [fate EXCEPT !.overlapped = @ \cup {box.typed + 1}]
  /\ UNCHANGED <<socketVars, serverVars, logVars, listVars, pageVars, posts, missed, unmarked>>

\* Mutation: the button stays enabled while a message is being sent.
ButtonAlways == TRUE

\* The button is disabled meanwhile; Ctrl+Enter asks nothing.
ButtonEnabled == posts = {}

\* Mutation: the box is cleared when the message is sent.
ClearedAtOnce == [box EXCEPT !.text = 0]

BoxAfterSubmit == box

Submit(byKeys) ==
  /\ box.text # 0 /\ Cardinality(posts) < 2
  /\ byKeys \/ ButtonEnabled
  /\ posts' = posts \cup {[n |-> 1 + Cardinality(posts), text |-> box.text, id |-> 0]}
  /\ box' = BoxAfterSubmit
  /\ fate' = IF byKeys /\ \E p \in posts : p.text = box.text
             THEN [fate EXCEPT !.again = @ \cup {box.text}] ELSE fate
  /\ UNCHANGED <<socketVars, serverVars, logVars, listVars, pageVars, missed, unmarked>>

\* The author's own position moves to their message, backwards too.
PostCommits(p, i) ==
  /\ p \in posts /\ p.id = 0 /\ member /\ session
  /\ i \notin Committed /\ i \in 1..(Len(committed) + 2)
  /\ committed' = Append(committed, i) /\ mine' = mine \cup {i}
  /\ unsent' = unsent \cup {i} /\ position' = i
  /\ unmarked' = (unmarked \/ i < position)
  /\ posts' = (posts \ {p}) \cup {[p EXCEPT !.id = i]}
  /\ fate' = [fate EXCEPT !.said = @ \cup {p.text},
                          !.twice = IF p.text \in fate.said THEN @ \cup {p.text} ELSE @]
  /\ UNCHANGED <<socketVars, member, logVars, listVars, pageVars, box, missed>>

\* The answer comes after the message was published.  The box is cleared,
\* whatever has been typed into it since.
PostSucceeds(p) ==
  /\ p \in posts /\ p.id # 0 /\ p.id \notin unsent
  /\ posts' = posts \ {p}
  /\ box' = [box EXCEPT !.text = 0]
  /\ fate' = IF box.text \in fate.said \cup {0} THEN fate
             ELSE [fate EXCEPT !.wiped = @ \cup {box.text}]
  /\ log' = AppendMessage(p.id) /\ listQuery' = ListReasked
  /\ missed' = missed \cup Stale(log, logQuery, {p.id} \ ToSet(logQuery.answer))
  /\ UNCHANGED <<socketVars, serverVars, logQuery, list, pageVars, unmarked, uncounted>>

\* Refused, or the answer was lost on its way.
PostFails(p) ==
  /\ p \in posts
  /\ posts' = posts \ {p}
  /\ fate' = [fate EXCEPT !.again = IF p.id # 0 THEN @ \cup {p.text} ELSE @,
                          !.wiped = IF /\ box.text = 0 /\ box.typed = p.text
                                       /\ p.text \notin fate.said
                                    THEN @ \cup {p.text} ELSE @]
  /\ UNCHANGED <<socketVars, serverVars, logVars, listVars, pageVars, box, missed, unmarked>>

-----------------------------------------------------------------------------

QueryStep == AnswerLog \/ TakeLog \/ LogFails \/ AnswerList \/ TakeList \/ ListFails

EventStep ==
  \E i \in Ids : PublishMessage(i) \/ \E s \in DOMAIN sock : MessageArrives(s, i)

OthersStep == EventStep \/ \E i \in Ids : OtherCommits(i)

PageStep == OpenPage \/ ClosePage \/ Arrive

MarkStep == SendMark \/ \E i \in Ids : MarkAnswered(i) \/ MarkLost(i) \/ MarkUnheard(i)

BoxStep ==
  \/ Type \/ \E byKeys \in BOOLEAN : Submit(byKeys)
  \/ \E p \in posts : \/ PostSucceeds(p) \/ PostFails(p)
                      \/ \E i \in Ids : PostCommits(p, i)

-----------------------------------------------------------------------------
(* What must hold.                                                         *)

\* Nothing is on its way, and the browser is connected.
Quiet ==
  /\ page.open /\ log # NoData /\ list # NoData /\ Connected
  /\ logQuery.at = "idle" /\ listQuery.at = "idle"
  /\ unsent = {} /\ marks = {} /\ posts = {} /\ page.arrival # NoData
  /\ member /\ list.member

\* A message is in the log once: its author is sent it as an answer and as an
\* event, and a refetch brings it a third time.
ShownOnce == log = NoData \/ Cardinality(ToSet(log)) = Len(log)

\* On a screen where nothing is under way every message is shown, unless it
\* was published before the hub knew the socket or the person had joined, or a
\* query that was answered before it came was merged over it or failed.
MissedOnlyRaced == Quiet => Committed \subseteq ToSet(log) \cup missed

\* The unread count of such a screen is the server's, unless a message was missed,
\* or, since the server last said the count, a query for it failed or a read
\* position was recorded whose answer was lost.
BadgeSettles == Quiet /\ missed = {} /\ ~uncounted => list.unread = Cardinality(Unread)

\* What such a screen shows has been read, as the server has it, unless a read
\* position was lost or a message of one's own moved it back.
ShownIsRead == Quiet /\ ~unmarked /\ ~MayMark => position >= Newest

\* Mutation: the message itself is not counted.
OthersAfter(k) == Cardinality({j \in (k + 1)..Len(log) : log[j] \notin mine})

OthersFrom(k) == Cardinality({j \in k..Len(log) : log[j] \notin mine})

\* firstUnreadId: where the line is drawn, or 0.
Divider ==
  IF page.arrival = NoData \/ log = NoData THEN 0
  ELSE LET at == {k \in DOMAIN log : log[k] \notin mine
                                   /\ OthersFrom(k) = page.arrival.unread}
       IN IF at = {} THEN 0 ELSE CHOOSE k \in at : TRUE

\* No message came after one with a greater id.
InOrder == \A j, k \in DOMAIN log : j < k => log[j] < log[k]

\* As long as the log is what the server held when it counted, and in order,
\* the line is drawn where the person had got to: above it is what they had
\* read or written, below it what they had not.
DividerWhereLeft ==
  /\ page.open /\ page.arrival # NoData /\ log # NoData /\ InOrder
  /\ page.arrival.member /\ ToSet(log) = page.arrival.seen
  => {log[k] : k \in {j \in DOMAIN log : Divider # 0 /\ j >= Divider}} \ mine
       = {i \in ToSet(log) \ mine : i > page.arrival.position}

\* A text leaves the box without being sent only if it was typed while another
\* was being sent: a refused or unanswered message stays to be sent again.
WipedOnlyOverlapped == fate.wiped \subseteq fate.overlapped

\* A text is sent twice only if it was submitted with the keys while it was
\* being sent, or again after its answer was lost.
TwiceOnlyAgain == fate.twice \subseteq fate.again

\* Once nothing is under way the screen agrees with the server: each message
\* once, none missing, the counts and the read position the same, and the line
\* where the person had got to; but for the races and lost answers each part names.
ConversationShown ==
  /\ ConversationTypeOK
  /\ ShownOnce /\ MissedOnlyRaced
  /\ BadgeSettles /\ ShownIsRead /\ DividerWhereLeft

\* What is typed is sent, once: it is neither lost from the box nor sent again,
\* unless it was typed or submitted while another was on its way.
WritingHolds == WipedOnlyOverlapped /\ TwiceOnlyAgain

=============================================================================
