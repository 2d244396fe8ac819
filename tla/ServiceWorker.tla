----------------------------- MODULE ServiceWorker -----------------------------
(***************************************************************************)
(* What a browser keeps for having no network: the copy of a person's      *)
(* announcements, which the worker writes and the page labels, and the     *)
(* shell the application starts from.                                      *)
(*                                                                         *)
(* The worker, the page and the server take a step each for a request.  A  *)
(* request the page has given up on still runs, and still changes the      *)
(* label, which is kept by path.  /auth/me and /setup/status are copied by *)
(* the same code and left out.                                             *)
(***************************************************************************)
EXTENDS Naturals

CONSTANTS
  People,       \* who use this browser, one after another
  Nobody,       \* nobody is signed in
  NoCopy,       \* nothing kept, nothing shown
  MaxSignOuts,  \* bound: sign-outs
  MaxBuilds     \* bound: builds ever deployed

ASSUME ServiceWorkerAssumption ==
  /\ MaxSignOuts \in Nat /\ MaxBuilds \in Nat \ {0}
  /\ Nobody \notin People

VARIABLES
  \* The announcements.
  cookie,       \* whose session the browser's cookie is of
  controlled,   \* this page is controlled by the worker
  copy,         \* READS: whose announcements are kept
  get,          \* the request of the page, and one it has given up on
  screen,       \* the query: its data, where they are from, its status
  label,        \* lastFetchedAt has an entry for the path
  online,       \* what the bar says: PwaState.online
  signOut,      \* the sign-out under way, and how many there were
  forgetting,   \* FORGET_READS is on its way to the worker
  \* The shell.
  up,           \* the server can be reached
  build,        \* what the server serves
  worker,       \* the life of the worker
  shell,        \* "/" in the cache: the build it names, 0 for an error page
  assets,       \* builds whose bundles are in the cache
  load,         \* a navigation: the build of the page, whether it has started
  \* History.
  heard,        \* the bar was told last by something else than what is on the
                \* screen, and that the server can be reached
  denied,       \* the server refused the query since the screen was set
  crossed,      \* a request that no longer counted changed the label since then
  out,          \* people who signed out and have not signed in since
  late,         \* the copy was written after its owner had signed out, or they
                \* signed out on a page that the worker did not control
  unlucky       \* the install or a load was cut short, or an error page kept

banner    == <<online, heard, denied>>
readVars  == <<cookie, controlled, copy, get, screen, label, banner, signOut,
               forgetting, crossed, out, late>>
shellVars == <<up, build, worker, shell, assets, load, unlucky>>
workerVars == <<readVars, shellVars>>

-----------------------------------------------------------------------------

NoGet == [at |-> "none", answer |-> NoCopy, copied |-> FALSE, current |-> FALSE,
          via |-> FALSE, again |-> FALSE, left |-> FALSE]
Sent == [NoGet EXCEPT !.at = "sent", !.current = TRUE, !.via = controlled]
GivenUp(e) == [e EXCEPT !.current = FALSE, !.again = FALSE]
Left(e) == [GivenUp(e) EXCEPT !.left = TRUE]
Waiting == [NoGet EXCEPT !.at = "waiting", !.current = TRUE, !.again = TRUE]
EmptyScreen == [data |-> NoCopy, copied |-> FALSE, status |-> "pending"]
NoLoad == [build |-> 0, at |-> "closed"]

WorkerTypeOK ==
  /\ cookie \in People \cup {Nobody}
  /\ copy \in People \cup {NoCopy} /\ {label, online} \subseteq BOOLEAN
  /\ \A g \in DOMAIN get :
       get[g].at \in {"none", "sent", "answered", "refused", "back", "failed", "waiting"}
  /\ screen.status \in {"pending", "success", "error"}
  /\ shell \in 0..MaxBuilds \cup {NoCopy} /\ assets \subseteq 1..MaxBuilds
  /\ worker \in {"none", "shell", "assets", "active"}

ReadsInit ==
  /\ cookie \in People \cup {Nobody} /\ controlled \in BOOLEAN /\ copy = NoCopy
  /\ get = [g \in 1..2 |-> NoGet] /\ screen = EmptyScreen /\ label = FALSE
  /\ online = TRUE /\ heard = FALSE /\ denied = FALSE
  /\ signOut = [at |-> "none", count |-> 0] /\ forgetting = FALSE
  /\ crossed = FALSE /\ out = {} /\ late = FALSE

ShellInit ==
  /\ up = TRUE /\ build = 1 /\ worker = "none" /\ shell = NoCopy /\ assets = {} /\ load = NoLoad
  /\ unlucky = FALSE

WorkerInit == ReadsInit /\ ShellInit

-----------------------------------------------------------------------------
(* Reading the announcements.                                              *)

\* The query runs: mounted, reconnected, or invalidated by an acknowledgement,
\* which gives up on the one that runs and on the one that waits to be sent again.
\* One that was given up on before may still be on its way.
Ask ==
  /\ signOut.at = "none"
  /\ get[1].at \in {"none", "waiting"} \/ (get[2].at = "none" /\ screen.data # NoCopy)
  /\ get' = [g \in 1..2 |->
               IF g = 1 THEN Sent
               ELSE IF get[1].at \in {"none", "waiting"} THEN get[2]
               ELSE GivenUp(get[1])]
  /\ UNCHANGED <<shellVars, banner, cookie, controlled, copy, screen, label, signOut,
                 forgetting, crossed, out, late>>

\* A second later, or when the browser says there is a network.
AskAgain ==
  /\ get[1].at = "waiting"
  /\ get' = [get EXCEPT ![1] = [Sent EXCEPT !.again = TRUE]]
  /\ UNCHANGED <<shellVars, banner, cookie, controlled, copy, screen, label, signOut,
                 forgetting, crossed, out, late>>

\* 401 for nobody; anything else may go wrong as well.
ServerAnswers(g) ==
  /\ get[g].at = "sent"
  /\ get' = [get EXCEPT ![g] =
               IF cookie = Nobody THEN [@ EXCEPT !.at = "refused"]
               ELSE [@ EXCEPT !.at = "answered", !.answer = cookie]]
  /\ UNCHANGED <<shellVars, banner, cookie, controlled, copy, screen, label, signOut,
                 forgetting, crossed, out, late>>

ServerErrs(g) ==
  /\ get[g].at = "sent"
  /\ get' = [get EXCEPT ![g].at = "refused"]
  /\ UNCHANGED <<shellVars, banner, cookie, controlled, copy, screen, label, signOut,
                 forgetting, crossed, out, late>>

\* readThrough: the answer is kept, with the time, before it is passed on.
WorkerStores(g) ==
  /\ get[g].at = "answered"
  /\ copy' = IF get[g].via THEN get[g].answer ELSE copy
  /\ get' = [get EXCEPT ![g].at = "back"]
  /\ late' = IF get[g].via THEN get[g].answer \in out ELSE late
  /\ UNCHANGED <<shellVars, banner, cookie, controlled, screen, label, signOut,
                 forgetting, crossed, out>>

\* The network fails: the copy, or nothing.
WorkerFallsBack(g) ==
  /\ get[g].at = "sent"
  /\ get' = [get EXCEPT ![g] =
               IF get[g].via /\ copy # NoCopy
               THEN [@ EXCEPT !.at = "back", !.answer = copy, !.copied = TRUE]
               ELSE [@ EXCEPT !.at = "failed"]]
  /\ UNCHANGED <<shellVars, banner, cookie, controlled, copy, screen, label, signOut,
                 forgetting, crossed, out, late>>

\* Mutation: the label of the last copy stays.
LabelStays(e) == e.copied \/ label

\* Set by a copy, deleted by a live answer, an error included.
LabelOf(e) == e.copied

\* Mutation: an answer is an answer.
AnyAnswer(e) == e.at # "failed"

\* reportReachable: a copy has a status, too, and is no evidence.
Reached(e) == e.at # "failed" /\ ~e.copied

\* request(): bar and label first, whether anybody waits for the answer or not.
\* A query that fails is sent once more; until then, and if that fails too, it
\* keeps its data.
PageTakes(g) ==
  LET e == get[g]
      Fails == e.current /\ e.at # "back"
      Settles == e.current /\ e.at = "back" IN
  /\ ~e.left /\ e.at \in {"back", "refused", "failed"}
  /\ label' = IF e.at = "failed" THEN label ELSE LabelOf(e)
  /\ screen' = CASE Settles -> [data |-> e.answer, copied |-> e.copied, status |-> "success"]
                 [] Fails /\ e.again -> [screen EXCEPT !.status = "error"]
                 [] OTHER -> screen
  /\ get' = [get EXCEPT ![g] = IF Fails /\ ~e.again THEN Waiting ELSE NoGet]
  /\ online' = Reached(e)
  /\ heard' = (~Settles /\ Reached(e))
  /\ denied' = (~Settles /\ (denied \/ (e.current /\ e.at = "refused")))
  /\ crossed' = (~e.current \/ (crossed /\ ~Settles))
  /\ UNCHANGED <<shellVars, cookie, controlled, copy, signOut, forgetting, out, late>>

\* The page that asked is gone.
NobodyTakes(g) ==
  /\ get[g].left /\ get[g].at \in {"back", "refused", "failed"}
  /\ get' = [get EXCEPT ![g] = NoGet]
  /\ UNCHANGED <<shellVars, banner, cookie, controlled, copy, screen, label, signOut,
                 forgetting, crossed, out, late>>

\* Another request, or the browser, says that there is a network.  It matters
\* while a copy is shown.
OtherReached ==
  /\ screen.copied
  /\ online' = TRUE /\ heard' = TRUE
  /\ UNCHANGED <<shellVars, cookie, controlled, copy, get, screen, label, denied, signOut,
                 forgetting, crossed, out, late>>

-----------------------------------------------------------------------------
(* Signing in and out.                                                     *)

\* invalidateQueries
SignIn(p) ==
  /\ cookie = Nobody /\ signOut.at = "none"
  /\ cookie' = p /\ out' = out \ {p} /\ late' = (late /\ copy # p)
  /\ UNCHANGED <<shellVars, banner, controlled, copy, get, screen, label, signOut,
                 forgetting, crossed>>

\* Revoked, expired, or the user disabled.
CookieEnds ==
  /\ cookie # Nobody
  /\ cookie' = Nobody
  /\ UNCHANGED <<shellVars, banner, controlled, copy, get, screen, label, signOut,
                 forgetting, crossed, out, late>>

PressSignOut ==
  /\ signOut.at = "none" /\ signOut.count < MaxSignOuts /\ screen.data # NoCopy
  /\ signOut' = [at |-> "sent", count |-> signOut.count + 1]
  /\ UNCHANGED <<shellVars, banner, cookie, controlled, copy, get, screen, label,
                 forgetting, crossed, out, late>>

\* Mutation: the copy goes when the server has said so.
ForgetIfAnswered(answered) == answered /\ controlled

\* forgetCachedReads, whatever became of the request: a message to the worker
\* that controls the page.
Forgets(answered) == controlled

\* The request is over; the page is loaded anew, and what the worker does for a
\* request of the old page goes on.  Bound: for one of them.
SignOutEnds(answered) ==
  /\ signOut.at = "sent"
  /\ cookie' = IF answered THEN Nobody ELSE cookie
  /\ forgetting' = (forgetting \/ Forgets(answered))
  /\ signOut' = [signOut EXCEPT !.at = "none"]
  /\ out' = out \cup {screen.data}
  /\ late' = (late \/ (~controlled /\ copy = screen.data))
  /\ screen' = EmptyScreen /\ label' = FALSE /\ crossed' = FALSE
  /\ online' = TRUE /\ heard' = FALSE /\ denied' = FALSE
  /\ controlled' \in BOOLEAN
  /\ \E old \in 1..2 :
       get' = [g \in 1..2 |-> IF g = 2 /\ get[old].at \in {"sent", "answered"}
                              THEN Left(get[old]) ELSE NoGet]
  /\ UNCHANGED <<shellVars, copy>>

WorkerForgets ==
  /\ forgetting
  /\ copy' = NoCopy /\ forgetting' = FALSE /\ late' = FALSE
  /\ UNCHANGED <<shellVars, banner, cookie, controlled, get, screen, label, signOut,
                 crossed, out>>

-----------------------------------------------------------------------------
(* The shell.                                                              *)

Network == up' = ~up /\ UNCHANGED <<readVars, build, worker, shell, assets, load, unlucky>>

Deploy ==
  /\ build < MaxBuilds /\ build' = build + 1
  /\ unlucky' = (unlucky \/ worker = "assets")
  /\ UNCHANGED <<up, readVars, worker, shell, assets, load>>

Register ==
  /\ worker = "none" /\ load.at = "started" /\ worker' = "shell"
  /\ UNCHANGED <<up, readVars, build, shell, assets, load, unlucky>>

\* A request that fails does not fail the install.
InstallShell ==
  /\ worker = "shell" /\ worker' = "assets"
  /\ shell' = IF up THEN build ELSE shell
  /\ unlucky' = (unlucky \/ ~up)
  /\ UNCHANGED <<up, readVars, build, assets, load>>

\* Mutation: what the page has fetched already is not fetched again.
NothingPrecached == assets

\* The bundles "/" names, which is asked for a second time.
Precached == IF up THEN assets \cup {build} ELSE assets

\* And there is nobody to wait for: the first worker activates and claims.
InstallAssets ==
  /\ worker = "assets" /\ worker' = "active"
  /\ assets' = Precached
  /\ unlucky' = (unlucky \/ ~up)
  /\ UNCHANGED <<up, readVars, build, shell, load>>

\* Network first; what came is kept without asking whether it is a page.
Navigate ==
  /\ load.at \in {"closed", "started", "blank"}
  /\ \/ /\ up /\ load' = [build |-> build, at |-> "html"]
        /\ shell' = IF worker = "active" THEN build ELSE shell
        /\ UNCHANGED unlucky
     \/ /\ up /\ load' = NoLoad
        /\ shell' = IF worker = "active" THEN 0 ELSE shell
        /\ unlucky' = (unlucky \/ worker = "active")
     \/ /\ ~up /\ worker = "active" /\ shell # NoCopy
        /\ load' = [build |-> shell, at |-> IF shell = 0 THEN "blank" ELSE "html"]
        /\ UNCHANGED <<shell, unlucky>>
  /\ UNCHANGED <<up, readVars, build, worker, assets>>

\* Cache first.  A build that is gone from the server has no bundles to give.
LoadAssets ==
  /\ load.at = "html"
  /\ LET found == worker = "active" /\ load.build \in assets
         fetched == up /\ load.build = build IN
     /\ load' = [load EXCEPT !.at = IF found \/ fetched THEN "started" ELSE "blank"]
     /\ assets' = IF fetched /\ worker = "active" THEN assets \cup {load.build} ELSE assets
     /\ unlucky' = (unlucky \/ ~(found \/ fetched))
  /\ UNCHANGED <<up, readVars, build, worker, shell>>

-----------------------------------------------------------------------------

ReadsStep ==
  \/ CookieEnds \/ PressSignOut \/ WorkerForgets
  \/ \E p \in People : SignIn(p)
  \/ \E answered \in BOOLEAN : SignOutEnds(answered)
  \/ OtherReached \/ Ask \/ AskAgain
  \/ \E g \in 1..2 : \/ ServerAnswers(g) \/ ServerErrs(g)
                     \/ WorkerStores(g) \/ WorkerFallsBack(g)
                     \/ PageTakes(g) \/ NobodyTakes(g)

ShellStep ==
  Network \/ Deploy \/ Register \/ InstallShell \/ InstallAssets \/ Navigate \/ LoadAssets

-----------------------------------------------------------------------------
(* What must hold.                                                         *)

\* The line that says when the list was fetched is shown while the query has
\* succeeded.
Labelled == screen.status = "success" /\ label

\* The line is there only over a copy, and over every copy until the server
\* refuses the query or the query has failed twice: from then on the copy stays,
\* and the line goes.  A request that had been given up on sets or clears it,
\* whatever is on the screen, until the next answer.
LabelTellsTruth ==
  ~crossed =>
    /\ Labelled => screen.copied
    /\ screen.copied => Labelled \/ denied \/ screen.status = "error"

\* Reading a copy does not take the bar away that says there is no network:
\* while a copy is on the screen the bar is there, unless something else has reached
\* the server since.
CopyKeepsBar == screen.copied /\ ~heard => ~online

\* Nothing of a person who signed out is kept, whether the server answered or
\* not, but for what the worker wrote for a request that was still on its way, and
\* for a page that it did not control.
SignOutForgets == copy # NoCopy /\ copy \in out /\ ~forgetting => late

\* Without the network the application starts, once the worker has it: the
\* bundles of the page that is kept are kept too, unless the network went or
\* a deploy came in the middle, or an error page took the place of the shell.
StartsOffline == worker = "active" /\ load.at # "html" /\ ~unlucky => shell \in assets

\* A copy is called a copy until a query fails, leaves the bar that says there is
\* no network, and goes with whoever signs out; and the pages that show it start
\* without the network.
CopiesHold ==
  /\ WorkerTypeOK
  /\ LabelTellsTruth /\ CopyKeepsBar /\ SignOutForgets /\ StartsOffline

=============================================================================
