-------------------------------- MODULE Realtime --------------------------------
(***************************************************************************)
(* The socket of one browser, from both ends: the effect that opens and    *)
(* closes it, its reconnecting, and the registry of the server's hub.      *)
(* Conversation and CallScreen say what is sent over it and what the       *)
(* browser does with it.                                                   *)
(*                                                                         *)
(* A browser that is told a socket is gone and a server that is told so    *)
(* are two steps.  How long a retry waits is left open.                    *)
(***************************************************************************)
EXTENDS Naturals, Sequences, FiniteSets

CONSTANTS
  MaxSockets,   \* bound: sockets ever opened
  MaxRuns       \* bound: runs of the effect; StrictMode alone makes two

ASSUME RealtimeAssumption == MaxSockets \in Nat /\ MaxRuns \in Nat

VARIABLES
  run,          \* runs of the effect so far
  mounted,      \* the last of them has not been cleaned up
  timer,        \* runs whose retry timer is set
  sock,         \* the sockets, oldest first
  session       \* the session is good: not revoked, its user not disabled

socketVars == <<run, mounted, timer, sock, session>>

-----------------------------------------------------------------------------

\* early is history: the server's end had closed before it was registered.
New(r) == [run |-> r, client |-> "connecting", server |-> "none", up |-> FALSE,
           wire |-> <<>>, early |-> FALSE]

SocketTypeOK ==
  /\ run \in 0..MaxRuns /\ mounted \in BOOLEAN /\ timer \subseteq 1..run
  /\ session \in BOOLEAN
  /\ \A s \in DOMAIN sock :
       /\ sock[s].run \in 1..run
       /\ sock[s].client \in {"connecting", "open", "closing", "closed", "refused"}
       /\ sock[s].server \in {"none", "lookup", "hub", "gone"}

SocketInit ==
  run = 0 /\ mounted = FALSE /\ timer = {} /\ sock = <<>> /\ session = TRUE

\* What comes over the wire.
Event(type, id) == [type |-> type, id |-> id]
Refusal == Event("4401", 0)

Is(s, client, server) == sock[s].client = client /\ sock[s].server = server
Using(s) == sock[s].client \in {"connecting", "open"}

\* The socket the browser shows chat with has opened and is in the hub.
Connected ==
  \E s \in DOMAIN sock : Is(s, "open", "hub") /\ sock[s].up /\ sock[s].wire = <<>>

\* Mutation: one flag, cleared by the next run, as it once was.
ClosedBySharedFlag(r) == ~mounted

\* Each run of the effect has its own flag.
ClosedByUs(r) == r < run \/ ~mounted

\* connect() of run r.
Opened(r) == Append(sock, New(r))

Mount ==
  /\ ~mounted /\ run < MaxRuns /\ Len(sock) < MaxSockets
  /\ run' = run + 1 /\ mounted' = TRUE
  /\ sock' = Opened(run + 1)
  /\ UNCHANGED <<timer, session>>

\* The cleanup closes the socket the run holds; its close event comes later.
Unmount ==
  /\ mounted
  /\ mounted' = FALSE /\ timer' = timer \ {run}
  /\ sock' = [s \in DOMAIN sock |->
                IF sock[s].run = run /\ Using(s)
                THEN [sock[s] EXCEPT !.client = "closing", !.wire = <<>>] ELSE sock[s]]
  /\ UNCHANGED <<run, session>>

TimerFires(r) ==
  /\ r \in timer /\ Len(sock) < MaxSockets
  /\ timer' = timer \ {r}
  /\ sock' = IF ClosedByUs(r) THEN sock ELSE Opened(r)
  /\ UNCHANGED <<run, mounted, session>>

\* A close event schedules a reconnect, unless the run closed the socket itself.
Retry(s) == IF ClosedByUs(sock[s].run) THEN timer ELSE timer \cup {sock[s].run}

\* The close event, whatever closed the socket: a failure, a lost connection,
\* a server that stopped, or the cleanup.
ClientCloses(s) ==
  /\ sock[s].client \in {"connecting", "open", "closing"}
  /\ sock' = [sock EXCEPT ![s].client = "closed", ![s].wire = <<>>]
  /\ timer' = Retry(s)
  /\ UNCHANGED <<run, mounted, session>>

\* A session that was refused will be refused again.
NoRetry(s) == timer

\* The close event says the server refused the session.
ClientRefused(s) ==
  /\ sock[s].client = "open" /\ sock[s].wire # <<>> /\ Head(sock[s].wire) = Refusal
  /\ sock' = [sock EXCEPT ![s].client = "refused", ![s].wire = <<>>]
  /\ timer' = NoRetry(s)
  /\ UNCHANGED <<run, mounted, session>>

-----------------------------------------------------------------------------
(* The server's end.                                                       *)

\* The upgrade; the session lookup is awaited from here on.
ServerAccepts(s) ==
  /\ Is(s, "connecting", "none")
  /\ sock' = [sock EXCEPT ![s].server = "lookup", ![s].up = TRUE]
  /\ UNCHANGED <<run, mounted, timer, session>>

\* The browser learns of it; what it asks again is for the modules that use it.
ClientOpens(s) ==
  /\ sock[s].client = "connecting" /\ sock[s].server # "none"
  /\ sock' = [sock EXCEPT ![s].client = "open"]
  /\ UNCHANGED <<run, mounted, timer, session>>

\* The lookup answers: registered, even if the socket has closed by now, or
\* closed with 4401.
LookupAnswers(s) ==
  /\ sock[s].server = "lookup"
  /\ sock' = IF session
             THEN [sock EXCEPT ![s].server = "hub", ![s].early = ~sock[s].up]
             ELSE [sock EXCEPT ![s].server = "gone", ![s].up = FALSE,
                               ![s].wire = IF sock[s].client \in {"connecting", "open"}
                                           THEN Append(@, Refusal) ELSE @]
  /\ UNCHANGED <<run, mounted, timer, session>>

\* Mutation: nobody listens for the close of a socket.
StaysRegistered(s) == sock[s].server

AfterClose(s) == IF sock[s].server = "hub" THEN "gone" ELSE sock[s].server

\* The close or error handler removes the connection, once it is attached.
ServerCloses(s) ==
  /\ sock[s].client \in {"closing", "closed"} /\ sock[s].up
  /\ sock' = [sock EXCEPT ![s].up = FALSE, ![s].server = AfterClose(s)]
  /\ UNCHANGED <<run, mounted, timer, session>>

\* The registry is in memory.
ServerRestarts ==
  /\ \E s \in DOMAIN sock : sock[s].server \in {"lookup", "hub"}
  /\ sock' = [s \in DOMAIN sock |->
                IF sock[s].server \in {"lookup", "hub"}
                THEN [sock[s] EXCEPT !.server = "gone", !.up = FALSE] ELSE sock[s]]
  /\ UNCHANGED <<run, mounted, timer, session>>

\* Revoked elsewhere, or its user disabled; a registered socket stays.
SessionEnds ==
  /\ session
  /\ session' = FALSE
  /\ UNCHANGED <<run, mounted, timer, sock>>

\* publishToChannel: every registered connection of the person, if it is open.
Publish(event) ==
  /\ sock' = [s \in DOMAIN sock |->
                IF sock[s].server = "hub" /\ sock[s].up /\ Using(s)
                THEN [sock[s] EXCEPT !.wire = Append(@, event)] ELSE sock[s]]
  /\ UNCHANGED <<run, mounted, timer, session>>

\* Open for the browser, which has asked its questions again by now, and not
\* yet in the hub.
OpenNotInHub == \E s \in DOMAIN sock : Is(s, "open", "lookup")

\* The browser takes the next event off an open socket.
Receive(s, event) ==
  /\ sock[s].client = "open" /\ sock[s].wire # <<>>
  /\ Head(sock[s].wire) = event
  /\ sock' = [sock EXCEPT ![s].wire = Tail(@)]
  /\ UNCHANGED <<run, mounted, timer, session>>

\* Everything but ClientOpens and Receive, which change what is on screen.
SocketStep ==
  \/ Mount \/ Unmount \/ ServerRestarts \/ SessionEnds
  \/ \E r \in timer : TimerFires(r)
  \/ \E s \in DOMAIN sock :
       \/ ClientCloses(s) \/ ClientRefused(s)
       \/ ServerAccepts(s) \/ LookupAnswers(s) \/ ServerCloses(s)

-----------------------------------------------------------------------------
(* What must hold.                                                         *)

\* However the runs of the effect and the close events of their sockets
\* interleave, one socket at most is open or opening: none is leaked.
OneSocket == Cardinality({s \in DOMAIN sock : Using(s)}) <= 1

\* The hub holds no connection whose socket it knows to be closed, but for a
\* socket that closed while its session was being looked up: its handlers are
\* attached after that, and the entry stays until the server restarts.
RegistryClean ==
  \A s \in DOMAIN sock : sock[s].server = "hub" /\ ~sock[s].up => sock[s].early

\* A run whose session was refused never opens another socket.
RefusedStaysAway ==
  [][\A s \in DOMAIN sock' \ DOMAIN sock : \A t \in DOMAIN sock :
       sock[t].client = "refused" => sock'[s].run # sock[t].run]_socketVars

\* A browser has one connection and the server knows it: none is leaked on
\* either side, and a refused session does not come back.
SocketsHold == [](SocketTypeOK /\ OneSocket /\ RegistryClean) /\ RefusedStaysAway

=============================================================================
