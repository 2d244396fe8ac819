--------------------------------- MODULE Client ---------------------------------
(***************************************************************************)
(* One browser: its socket, what it shows of a conversation and of calls,  *)
(* the worker's copies and its new versions, and its push subscription.    *)
(*                                                                         *)
(* The socket is shared by the conversation and the calls; the rest share  *)
(* no state.  A behaviour looks at one part at a time, its focus, and the  *)
(* other parts stay as they are: the product of all of them is out of      *)
(* reach, and no property relates two of them but through the socket.      *)
(***************************************************************************)
EXTENDS Conversation, CallScreen, ServiceWorker, AppUpdate, PushDevice

CONSTANT Foci     \* what a behaviour may look at

VARIABLE focus

vars == <<socketVars, conversationVars, callVars, workerVars, updateVars, pushVars, focus>>

\* What a behaviour does not look at starts in one way; of channels, which are
\* alike, any one is the first.
Init ==
  /\ focus \in Foci
  /\ SocketInit /\ ConversationInit /\ CallInit /\ WorkerInit /\ UpdateInit /\ PushInit
  /\ focus = "reading" \/ member
  /\ framing
  /\ listed = {CHOOSE c \in Channels : TRUE}
  /\ focus = "copy" \/ cookie = Nobody
  /\ controlled
  /\ focus = "push" \/ user = CHOOSE u \in Users : TRUE

About(f) == focus = f /\ UNCHANGED focus

-----------------------------------------------------------------------------
(* The socket, as far as another focus needs it: it connects, and is lost  *)
(* once at most.                                                           *)

\* The retry fires once the server has noticed that the old one is gone.
Noticed == \A s \in DOMAIN sock : sock[s].client = "closed" => sock[s].server = "gone"

Connecting ==
  \/ Mount /\ run = 0
  \/ \E r \in timer : Noticed /\ TimerFires(r)
  \/ \E s \in DOMAIN sock : ServerAccepts(s) \/ LookupAnswers(s) \/ ServerCloses(s)

Losing == \E s \in DOMAIN sock : Len(sock) < 2 /\ Connected /\ ClientCloses(s)

Chatting == page.visits > 0 \/ committed # <<>>
Calling == calls # <<>>

\* Bound: calls in "entering".
OneCall == Len(calls') <= 1

\* In "entering" one goes in at one place at a time, and the provider changes
\* meanwhile.
NotEnteringYet == \A h \in Hooks : entering[h].at = "no"
FramingChangesMeanwhile ==
  /\ expected = framing /\ \E h \in Hooks : entering[h].at = "asked"
  /\ FramingChanges

-----------------------------------------------------------------------------

SocketsStep == SocketStep \/ \E s \in DOMAIN sock : ClientOpens(s)

\* The page is opened once, and a query for the channel list does not fail
\* ("reading" has that).
DeliveryStep ==
  \/ (Connecting \/ Losing) /\ UNCHANGED conversationVars
  \/ \E s \in DOMAIN sock : ClientOpens(s) /\ ConversationReopens
  \/ sock # <<>> /\ (QueryStep \/ OthersStep \/ PageStep) /\ page'.visits <= 1 /\ ~uncounted'

\* What others write is written before the page is opened again, it is left when
\* the channel list is known, a query for the log does not fail ("delivery" has
\* that), and one thing is lost at a time.
ReadingStep ==
  \/ Connecting /\ ~Chatting /\ UNCHANGED conversationVars
  \/ \E s \in DOMAIN sock : ClientOpens(s) /\ ConversationReopens
  \/ /\ Connected \/ Chatting
     /\ \/ QueryStep /\ ~LogFails
        \/ EventStep \/ (page.visits < 2 /\ \E i \in Ids : OtherCommits(i))
        \/ PageStep /\ (page.open => page'.open \/ listQuery.at = "idle")
        \/ MarkStep \/ Join
     /\ ~(unmarked' /\ uncounted')

\* The page is opened once, its queries are over before anything is written, and
\* nobody else writes: "delivery" and "reading" have what others write.
WritingStep ==
  \/ Connecting /\ ~Chatting /\ UNCHANGED conversationVars
  \/ \E s \in DOMAIN sock : ClientOpens(s) /\ ConversationReopens
  \/ /\ Connected \/ Chatting
     /\ \/ (QueryStep \/ PageStep) /\ box.typed = 0 /\ page'.visits <= 1
        \/ EventStep
        \/ BoxStep

RingingStep ==
  \/ (Connecting \/ Losing) /\ UNCHANGED callVars
  \/ \E s \in DOMAIN sock : ClientOpens(s) /\ CallsReopen
  \/ /\ Connected \/ Calling
     /\ RingStep \/ \E k \in CallIds : SweepEnds(k)

EnteringStep ==
  \/ Connecting /\ ~Calling /\ UNCHANGED callVars
  \/ \E s \in DOMAIN sock : ClientOpens(s) /\ CallsReopen
  \/ /\ tab = "here" /\ (Connected \/ Calling)
     /\ RingStep \/ EntryStep \/ FramingChangesMeanwhile \/ (NotEnteringYet /\ PressStep)
     /\ OneCall

\* A session ends of itself before the sign-out only: after it there is another page,
\* which is like the first.
CopyStep == ReadsStep /\ (CookieEnds => signOut.count = 0)

Next ==
  \/ About("sockets") /\ SocketsStep
       /\ UNCHANGED <<conversationVars, callVars, workerVars, updateVars, pushVars>>
  \/ About("delivery") /\ DeliveryStep /\ UNCHANGED <<callVars, workerVars, updateVars, pushVars>>
  \/ About("reading") /\ ReadingStep /\ UNCHANGED <<callVars, workerVars, updateVars, pushVars>>
  \/ About("writing") /\ WritingStep /\ UNCHANGED <<callVars, workerVars, updateVars, pushVars>>
  \/ About("ringing") /\ RingingStep /\ UNCHANGED <<conversationVars, workerVars, updateVars, pushVars>>
  \/ About("entering") /\ EnteringStep /\ UNCHANGED <<conversationVars, workerVars, updateVars, pushVars>>
  \/ About("copy") /\ CopyStep
       /\ UNCHANGED <<socketVars, conversationVars, callVars, updateVars, pushVars>>
  \/ About("shell") /\ ShellStep
       /\ UNCHANGED <<socketVars, conversationVars, callVars, updateVars, pushVars>>
  \/ About("updating") /\ UpdateStep
       /\ UNCHANGED <<socketVars, conversationVars, callVars, workerVars, pushVars>>
  \/ About("push") /\ PushStep
       /\ UNCHANGED <<socketVars, conversationVars, callVars, workerVars, updateVars>>

Spec == Init /\ [][Next]_vars

=============================================================================
