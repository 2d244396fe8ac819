------------------------------- MODULE CallScreen -------------------------------
(***************************************************************************)
(* Calls as one person's browser shows them: the ring at the top of every  *)
(* screen, the panel of the conversation that is open, the room they are   *)
(* in, and going into a call from either, with a window that has to be     *)
(* opened before it is known whether one is needed.                        *)
(*                                                                         *)
(* Calls is the server; here it is what the browser can tell of it: one    *)
(* live call a channel, who is in it, and events that are published after  *)
(* the commit by the request that caused them, and so may come in another  *)
(* order than their commits.                                               *)
(***************************************************************************)
EXTENDS Realtime

CONSTANTS
  Channels,     \* channels of this person
  NoChannel,    \* no conversation is open
  MaxCalls      \* bound: calls ever started

ASSUME CallScreenAssumption == MaxCalls \in Nat /\ NoChannel \notin Channels

VARIABLES
  \* The server.
  exists,       \* channels that exist for this person
  calls,        \* the calls: where, by whom, live or not, who is in them
  unrung,       \* events of calls that are not published yet
  framing,      \* the provider may be framed
  \* The browser.
  ring,         \* the call that rings, 0 for none
  at,           \* the channel whose conversation is open
  panel,        \* its calls as last fetched: the live one, 0 for none
  panelQuery,   \* the query for them that is under way
  listed,       \* channels in the cached channel list
  expected,     \* the browser believes that a room will be framed
  room,         \* activeRoom: call and embed
  entering,     \* by hook: an entry under way
  leaving,      \* a leave request under way: its call, and if the server did it
  tab,          \* the tab still shows Atarimae
  \* History.
  deaf,         \* calls an event of which was not heard, or came out of order
  unlisted      \* an entry or the refetch of the channel list after it failed

callServerVars == <<exists, calls, unrung, framing>>
screenVars     == <<ring, at, panel, panelQuery, listed, expected>>
roomVars       == <<room, entering, leaving, tab, unlisted>>
callVars       == <<callServerVars, screenVars, roomVars, deaf>>

-----------------------------------------------------------------------------

\* The banner and the panel have a useEnterCall each.
Hooks == {"banner", "panel"}

CallIds == DOMAIN calls
LiveIn(c) == {k \in CallIds : calls[k].live /\ calls[k].channel = c}
LiveCall(c) == IF LiveIn(c) = {} THEN 0 ELSE CHOOSE k \in LiveIn(c) : TRUE

NotEntering == [at |-> "no", channel |-> NoChannel, call |-> 0, window |-> "none",
                framed |-> FALSE, embed |-> FALSE]
NotLeaving == [call |-> 0, done |-> FALSE]
NoRoom == [call |-> 0, embed |-> FALSE]
NoPanelQuery == [at |-> "idle", live |-> 0]
PanelAsked == [at |-> "asked", live |-> 0]
PanelAnswered == [at |-> "answered", live |-> LiveCall(at)]

CallTypeOK ==
  /\ Len(calls) <= MaxCalls /\ ring \in 0..Len(calls)
  /\ at \in Channels \cup {NoChannel} /\ listed \subseteq exists /\ exists \subseteq Channels
  /\ room.call \in 0..Len(calls) /\ leaving.call \in 0..Len(calls)
  /\ \A h \in Hooks : entering[h].at \in {"no", "asked", "answered", "entered"}
  /\ tab \in {"here", "gone"}

CallInit ==
  /\ calls = <<>> /\ unrung = {} /\ framing \in BOOLEAN
  /\ ring = 0 /\ at = NoChannel /\ panel = 0 /\ panelQuery = NoPanelQuery
  /\ listed \in SUBSET Channels /\ Cardinality(listed) = 1 /\ exists = listed
  /\ expected = framing
  /\ room = NoRoom /\ entering = [h \in Hooks |-> NotEntering]
  /\ leaving = NotLeaving /\ tab = "here" /\ deaf = {} /\ unlisted = FALSE

\* An invalidation of the calls of a channel whose conversation is open.
PanelReasked(c) == IF at = c THEN PanelAsked ELSE panelQuery

-----------------------------------------------------------------------------
(* The server, and others.                                                 *)

NewCall(c, by) == [channel |-> c, by |-> by, live |-> TRUE, swept |-> FALSE,
                   me |-> by = "me", others |-> by = "other"]

Started(k) == Event("call.started", k)
Ended(k) == Event("call.ended", k)

\* A call may be the first thing in a conversation that is new.
OtherStarts(c) ==
  /\ LiveIn(c) = {} /\ Len(calls) < MaxCalls
  /\ exists' = exists \cup {c}
  /\ calls' = Append(calls, NewCall(c, "other"))
  /\ unrung' = unrung \cup {Started(Len(calls) + 1)}
  /\ UNCHANGED <<socketVars, framing, screenVars, roomVars, deaf>>

OtherJoins(k) ==
  /\ calls[k].live /\ ~calls[k].others
  /\ calls' = [calls EXCEPT ![k].others = TRUE]
  /\ UNCHANGED <<socketVars, exists, unrung, framing, screenVars, roomVars, deaf>>

\* The last one out ends the call, and the rest are told.
OtherLeaves(k) ==
  /\ calls[k].live /\ calls[k].others
  /\ calls' = [calls EXCEPT ![k].others = FALSE, ![k].live = calls[k].me]
  /\ unrung' = IF calls[k].me THEN unrung ELSE unrung \cup {Ended(k)}
  /\ UNCHANGED <<socketVars, exists, framing, screenVars, roomVars, deaf>>

\* The sweep of abandoned calls tells nobody.
SweepEnds(k) ==
  /\ calls[k].live
  /\ calls' = [calls EXCEPT ![k].live = FALSE, ![k].swept = TRUE]
  /\ UNCHANGED <<socketVars, exists, unrung, framing, screenVars, roomVars, deaf>>

\* An administrator changes the default provider.
FramingChanges ==
  /\ framing' = ~framing
  /\ UNCHANGED <<socketVars, exists, calls, unrung, screenVars, roomVars, deaf>>

\* By the request that caused it; nothing keeps two of them in order.
PublishCall(e) ==
  /\ e \in unrung
  /\ unrung' = unrung \ {e}
  /\ Publish(e)
  /\ deaf' = IF OpenNotInHub \/ (e.type = "call.ended" /\ Started(e.id) \in unrung)
             THEN deaf \cup {e.id} ELSE deaf
  /\ UNCHANGED <<exists, calls, framing, screenVars, roomVars>>

-----------------------------------------------------------------------------
(* The ring and the panel.                                                 *)

\* One's own call does not ring.
StartArrives(s, k) ==
  /\ Receive(s, Started(k))
  /\ ring' = IF calls[k].by = "other" THEN k ELSE ring
  /\ panelQuery' = PanelReasked(calls[k].channel)
  /\ UNCHANGED <<callServerVars, at, panel, listed, expected, roomVars, deaf>>

\* Mutation: what has ended rings on.
RingKept(k) == ring

RingAfterEnd(k) == IF ring = k THEN 0 ELSE ring

\* Mutation: the panel is left as it is.
PanelKept(k) == panelQuery

PanelAfterEnd(k) == PanelReasked(calls[k].channel)

EndArrives(s, k) ==
  /\ Receive(s, Ended(k))
  /\ ring' = RingAfterEnd(k)
  /\ panelQuery' = PanelAfterEnd(k)
  /\ UNCHANGED <<callServerVars, at, panel, listed, expected, roomVars, deaf>>

\* Everything under "chat" is asked again; the ring is never fetched, so an
\* end that was published while the socket was down is not heard of.
CallsReopen ==
  /\ panelQuery' = PanelReasked(at)
  /\ listed' = exists
  /\ deaf' = deaf \cup (IF ring # 0 /\ ~calls[ring].live THEN {ring} ELSE {})
  /\ UNCHANGED <<callServerVars, ring, at, panel, expected, roomVars>>

AnswerPanel ==
  /\ panelQuery.at = "asked"
  /\ panelQuery' = PanelAnswered
  /\ UNCHANGED <<socketVars, callServerVars, ring, at, panel, listed, expected, roomVars,
                 deaf>>

TakePanel ==
  /\ panelQuery.at = "answered"
  /\ panel' = panelQuery.live /\ panelQuery' = NoPanelQuery
  /\ UNCHANGED <<socketVars, callServerVars, ring, at, listed, expected, roomVars, deaf>>

\* Five minutes old, or invalidated by the socket: whether rooms are framed.
TakeFraming ==
  /\ expected # framing
  /\ expected' = framing
  /\ UNCHANGED <<socketVars, callServerVars, ring, at, panel, panelQuery, listed,
                 roomVars, deaf>>

\* The panel of another conversation is another panel; what is cached of it
\* from an earlier visit is left out.
Show(c) == at' = c /\ panel' = 0 /\ panelQuery' = PanelAsked

\* From the list; with no entry of the panel under way, which would go on
\* without it.
OpenConversation(c) ==
  /\ c \in listed /\ at # c /\ entering["panel"].at = "no"
  /\ Show(c)
  /\ UNCHANGED <<socketVars, callServerVars, ring, listed, expected, roomVars, deaf>>

Dismiss ==
  /\ ring # 0 /\ tab = "here"
  /\ ring' = 0
  /\ UNCHANGED <<socketVars, callServerVars, at, panel, panelQuery, listed, expected,
                 roomVars, deaf>>

-----------------------------------------------------------------------------
(* Going into a call.                                                      *)

\* decideEntry
DecideEntry(embed, opened, framed) ==
  CASE embed  -> "frame"
    [] ~embed /\ opened -> "window"
    [] ~embed /\ ~opened /\ framed -> "link"
    [] OTHER -> "navigate"

\* Mutation: without a window the tab goes to the room.
NavigateAnyway(embed, opened, framed) ==
  IF embed THEN "frame" ELSE IF opened THEN "window" ELSE "navigate"

Decision(embed, opened, framed) == DecideEntry(embed, opened, framed)

\* The window is opened during the gesture, unless a frame is expected; a
\* popup blocker may refuse it.
Press(h, c, k) ==
  /\ tab = "here" /\ entering[h].at = "no"
  /\ \E w \in (IF expected THEN {"none"} ELSE {"blank", "refused"}) :
       entering' = [entering EXCEPT ![h] = [at |-> "asked", channel |-> c, call |-> k,
                      window |-> w, framed |-> expected, embed |-> FALSE]]
  /\ UNCHANGED <<socketVars, callServerVars, screenVars, room, leaving, tab, deaf, unlisted>>

\* The ring names the call; the panel the live call it knows of, or none: start.
PressAnswer == ring # 0 /\ Press("banner", calls[ring].channel, ring)
PressGo == at # NoChannel /\ at \in listed /\ Press("panel", at, panel)

\* What is joined: the call that was named, or else the live one there.
Target(e) == IF e.call # 0 THEN e.call ELSE LiveCall(e.channel)

ServerJoins(h) ==
  LET e == entering[h] IN
  /\ e.at = "asked" /\ Target(e) # 0 /\ calls[Target(e)].live
  /\ calls' = [calls EXCEPT ![Target(e)].me = TRUE]
  /\ entering' = [entering EXCEPT ![h].at = "answered", ![h].call = Target(e),
                                  ![h].embed = framing]
  /\ UNCHANGED <<socketVars, exists, unrung, framing, screenVars, room, leaving, tab,
                 deaf, unlisted>>

ServerStarts(h) ==
  LET e == entering[h] IN
  /\ e.at = "asked" /\ Target(e) = 0 /\ Len(calls) < MaxCalls
  /\ calls' = Append(calls, NewCall(e.channel, "me"))
  /\ unrung' = unrung \cup {Started(Len(calls) + 1)}
  /\ entering' = [entering EXCEPT ![h].at = "answered", ![h].call = Len(calls) + 1,
                                  ![h].embed = framing]
  /\ UNCHANGED <<socketVars, exists, framing, screenVars, room, leaving, tab, deaf,
                 unlisted>>

\* Mutation: the window that was not needed is left.
LeftBlank(e) == e.window

\* Nothing is put in it when the room is framed.
ClosedIfBlank(e) == IF e.window = "blank" THEN "none" ELSE e.window

\* The room is framed, put in the window, offered, or the tab goes to it; the
\* calls of the channel are asked for again.
EntryDecides(h) ==
  LET e == entering[h]
      d == Decision(e.embed, e.window = "blank", e.framed) IN
  /\ e.at = "answered" /\ (calls[e.call].by = "me" => Started(e.call) \notin unrung)
  /\ room' = IF d \in {"frame", "link"} THEN [call |-> e.call, embed |-> e.embed] ELSE room
  /\ entering' = [entering EXCEPT ![h].at = "entered",
                    ![h].window = IF d = "window" THEN "none" ELSE ClosedIfBlank(e)]
  /\ tab' = IF d = "navigate" THEN "gone" ELSE tab
  /\ panelQuery' = PanelReasked(e.channel)
  /\ UNCHANGED <<socketVars, callServerVars, ring, at, panel, listed, expected, leaving,
                 deaf, unlisted>>

\* Mutation: the channel list is left as it is.
ListKept == listed

ListAfterEntry == exists

\* The banner stops ringing, whatever rings by now, and shows the conversation.
Settled(h, c, window) ==
  /\ entering' = [entering EXCEPT ![h] = [NotEntering EXCEPT
                    !.window = IF window = "blank" THEN window ELSE "none"]]
  /\ ring' = IF h = "banner" THEN 0 ELSE ring
  /\ IF h = "banner" /\ at # c THEN Show(c) ELSE UNCHANGED <<at, panel, panelQuery>>

\* Both lists were asked again and waited for; a refetch may fail.
EntrySettles(h) ==
  /\ entering[h].at = "entered" /\ tab = "here"
  /\ \/ listed' = ListAfterEntry /\ UNCHANGED unlisted
     \/ listed' = listed /\ unlisted' = TRUE
  /\ Settled(h, entering[h].channel, entering[h].window)
  /\ UNCHANGED <<socketVars, callServerVars, expected, room, leaving, tab, deaf>>

\* Ended meanwhile, another call in the way, a provider that fails, no answer.
EntryFails(h) ==
  /\ entering[h].at \in {"asked", "answered"}
  /\ Settled(h, entering[h].channel, ClosedIfBlank(entering[h]))
  /\ unlisted' = TRUE
  /\ UNCHANGED <<socketVars, callServerVars, listed, expected, room, leaving, tab, deaf>>

\* The page still enforces the frame-src it was loaded with.
FrameRefused ==
  /\ room.embed /\ room.call # 0 /\ room.call = panel
  /\ room' = [room EXCEPT !.embed = FALSE]
  /\ UNCHANGED <<socketVars, callServerVars, screenVars, entering, leaving, tab, deaf, unlisted>>

-----------------------------------------------------------------------------
(* Leaving.                                                                *)

\* The panel offers it to somebody who is in the live call it knows of.
PressLeave ==
  /\ tab = "here" /\ leaving = NotLeaving /\ panel # 0 /\ calls[panel].me
  /\ leaving' = [call |-> panel, done |-> FALSE]
  /\ UNCHANGED <<socketVars, callServerVars, screenVars, room, entering, tab,
                 unlisted, deaf>>

\* With nobody left the rest are told, though it may have ended before.
ServerLeaves ==
  LET k == leaving.call IN
  /\ k # 0 /\ ~leaving.done
  /\ leaving' = [leaving EXCEPT !.done = TRUE]
  /\ calls' = [calls EXCEPT ![k].me = FALSE, ![k].live = @ /\ calls[k].others]
  /\ unrung' = IF calls[k].others THEN unrung ELSE unrung \cup {Ended(k)}
  /\ UNCHANGED <<socketVars, exists, framing, screenVars, room, entering, tab,
                 unlisted, deaf>>

\* Answered when the rest have been told.
LeaveSucceeds ==
  /\ leaving.done /\ Ended(leaving.call) \notin unrung
  /\ leaving' = NotLeaving /\ room' = NoRoom
  /\ panelQuery' = PanelReasked(calls[leaving.call].channel)
  /\ UNCHANGED <<socketVars, callServerVars, ring, at, panel, listed, expected,
                 entering, tab, unlisted, deaf>>

LeaveFails ==
  /\ leaving # NotLeaving
  /\ leaving' = NotLeaving
  /\ UNCHANGED <<socketVars, callServerVars, screenVars, room, entering, tab,
                 unlisted, deaf>>

-----------------------------------------------------------------------------

\* What rings and what the panel shows.
RingStep ==
  \/ \E c \in Channels : OtherStarts(c) \/ OpenConversation(c)
  \/ \E k \in CallIds : \/ OtherLeaves(k)
                        \/ \E s \in DOMAIN sock : StartArrives(s, k) \/ EndArrives(s, k)
  \/ \E e \in unrung : PublishCall(e)
  \/ AnswerPanel \/ TakePanel \/ Dismiss

\* Going in and leaving.
PressStep == PressAnswer \/ PressGo

EntryStep ==
  \/ TakeFraming \/ FrameRefused
  \/ PressLeave \/ ServerLeaves \/ LeaveSucceeds \/ LeaveFails
  \/ \E h \in Hooks : \/ ServerJoins(h) \/ ServerStarts(h) \/ EntryDecides(h)
                       \/ EntrySettles(h) \/ EntryFails(h)
  \/ \E k \in CallIds : OtherJoins(k)

-----------------------------------------------------------------------------
(* What must hold.                                                         *)

\* Nothing is on its way, and the browser is connected.
CallsQuiet ==
  /\ Connected /\ unrung = {} /\ panelQuery.at = "idle" /\ leaving = NotLeaving
  /\ \A h \in Hooks : entering[h].at = "no"

\* What the panel shows: the room of the live call of this conversation.
RoomShown == room.call # 0 /\ room.call = panel /\ calls[room.call].channel = at

\* No blank window is left behind when going into a call is over, whether it
\* failed, the room was framed after all, or a link was offered.
NoBlankWindow == \A h \in Hooks : entering[h].window = "blank" => entering[h].at # "no"

\* The tab leaves Atarimae only when a window was wanted and the browser would
\* not open one, however the answer about framing has changed meanwhile.
TabKept == tab = "gone" => \E h \in Hooks : entering[h].window = "refused"

\* With nothing on its way the room on the screen is of a call that is running,
\* unless the sweep ended it or its end was not heard.
RoomIsRunning ==
  CallsQuiet /\ RoomShown => \/ calls[room.call].live \/ calls[room.call].swept
                             \/ room.call \in deaf

\* With nothing on its way what rings is running, unless the sweep ended it,
\* its end came before its start, or it ended while the socket was down.
RingIsRunning ==
  CallsQuiet /\ ring # 0 => calls[ring].live \/ calls[ring].swept \/ ring \in deaf

\* The conversation that is shown is in the channel list, so that it has a
\* heading and a panel, though a call may be answered in one that is newer than
\* the list, unless the entry or the refetch of the list failed.
ShownIsListed == at \in listed \/ at = NoChannel \/ unlisted

\* What the screen shows of calls is so, and going into one leaves the browser
\* in order: rooms and rings are of running calls, no window or tab is left
\* blank or led away, and the conversation shown has a heading.
CallsShown ==
  /\ CallTypeOK
  /\ NoBlankWindow /\ TabKept /\ ShownIsListed
  /\ RoomIsRunning /\ RingIsRunning

=============================================================================
