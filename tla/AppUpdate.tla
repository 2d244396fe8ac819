------------------------------- MODULE AppUpdate -------------------------------
(***************************************************************************)
(* A new version of the service worker, in a browser with several windows:   *)
(* it is installed, waits, is announced, and takes over when the button is *)
(* pressed in one of them.                                                 *)
(*                                                                         *)
(* Workers are numbered by the version of sw.js they run.  The browser's   *)
(* part is external: it tells every page that holds the registration of an *)
(* installation, and every page whose controller changes.                  *)
(***************************************************************************)
EXTENDS Naturals

CONSTANTS
  Windows,         \* windows that show the application
  MaxScripts    \* bound: versions of sw.js ever served

ASSUME AppUpdateAssumption == MaxScripts \in Nat \ {0}

NoWorker == 0

VARIABLES
  script,       \* the version the server serves
  installing, waiting, active,  \* the registration's workers
  claiming,     \* the active worker's activate handler is still running
  skips,        \* workers to which SKIP_WAITING is on its way
  window,       \* the windows' pages
  superseded    \* history: workers that were replaced while they waited

updateVars == <<script, installing, waiting, active, claiming, skips, window, superseded>>

-----------------------------------------------------------------------------

Workers == 1..MaxScripts
MaybeWorker == Workers \cup {NoWorker}

\* controller: the worker in control; watching: the installation the page is
\* listening to; told: updateReady; listening, asking: applyUpdate has added
\* its listener, is waiting for getRegistration; took: the takeover it is yet
\* to hear of.  goal is the worker the page has asked to take over, and sought
\* the one for which the page is being reloaded.  History: deaf, the page was not
\* in a position to hear of an installation; early, it found the first worker
\* before it was activated; hasty, it asked for
\* a takeover before an earlier one was over.
Page == [at : {"closed", "loading", "open"}, controller : MaybeWorker,
         watching : MaybeWorker, told : BOOLEAN, listening : BOOLEAN, asking : BOOLEAN,
         took : MaybeWorker, goal : MaybeWorker, sought : MaybeWorker,
         deaf : BOOLEAN, early : BOOLEAN, hasty : BOOLEAN]

NoPage == [at |-> "closed", controller |-> NoWorker, watching |-> NoWorker, told |-> FALSE,
           listening |-> FALSE, asking |-> FALSE, took |-> NoWorker, goal |-> NoWorker,
           sought |-> NoWorker, deaf |-> FALSE, early |-> FALSE,
           hasty |-> FALSE]

UpdateTypeOK ==
  /\ script \in Workers /\ claiming \in BOOLEAN
  /\ {installing, waiting, active} \subseteq MaybeWorker
  /\ skips \subseteq Workers /\ superseded \subseteq Workers
  /\ window \in [Windows -> Page]

UpdateInit ==
  /\ script = 1 /\ installing = NoWorker /\ waiting = NoWorker /\ active = NoWorker
  /\ claiming = FALSE /\ skips = {} /\ superseded = {}
  /\ window = [t \in Windows |-> NoPage]

IsOpen(t) == window[t].at = "open"
ShowPage(t, page) == window' = [window EXCEPT ![t] = page]
Workers3 == <<installing, waiting, active>>

-----------------------------------------------------------------------------
(* The pages.                                                              *)

\* A navigation is controlled by the active worker, or by none after a forced
\* reload.  Nothing of the page before is left.
LoadedPage(controller, sought) ==
  [NoPage EXCEPT !.at = "loading", !.controller = controller, !.sought = sought]

LoadWindow(t) ==
  /\ \E c \in {active, NoWorker} : ShowPage(t, LoadedPage(c, NoWorker))
  /\ UNCHANGED <<script, Workers3, claiming, skips, superseded>>

CloseWindow(t) ==
  /\ window[t].at # "closed" /\ ShowPage(t, NoPage)
  /\ UNCHANGED <<script, Workers3, claiming, skips, superseded>>

\* Mutation: only an installation that is seen is announced.
WaitingUnseen == FALSE

\* Downloaded by an earlier visit.
AlreadyWaiting == waiting # NoWorker

\* register() has resolved: what waits is announced, and from now on the page
\* hears of installations.  Where there is no worker, it starts one.
RegisterWorker(t) ==
  LET first == installing = NoWorker /\ waiting = NoWorker /\ active = NoWorker IN
  /\ window[t].at = "loading"
  /\ installing' = IF first THEN script ELSE installing
  /\ ShowPage(t, [window[t] EXCEPT !.at = "open", !.told = AlreadyWaiting, !.sought = NoWorker,
                            !.watching = IF first THEN script ELSE NoWorker,
                            !.deaf = installing # NoWorker,
                            !.early = waiting # NoWorker /\ active = NoWorker])
  /\ UNCHANGED <<script, waiting, active, claiming, skips, superseded>>

\* The button: listen for the takeover, and look for the waiting worker ...
PressUpdate(t) ==
  /\ IsOpen(t) /\ window[t].told
  /\ ShowPage(t, [window[t] EXCEPT !.listening = TRUE, !.asking = TRUE])
  /\ UNCHANGED <<script, Workers3, claiming, skips, superseded>>

\* Mutation: the reload does not wait for the takeover.
AskAndReload(t) ==
  /\ IsOpen(t) /\ window[t].asking
  /\ ShowPage(t, LoadedPage(active, waiting))
  /\ skips' = skips \cup ({waiting} \ {NoWorker})
  /\ UNCHANGED <<script, Workers3, claiming, superseded>>

\* ... which is asked to activate.  Without one there is nothing to wait for.
AskToActivate(t) ==
  /\ IsOpen(t) /\ window[t].asking
  /\ IF waiting # NoWorker
       THEN /\ skips' = skips \cup {waiting}
            /\ ShowPage(t, [window[t] EXCEPT !.asking = FALSE, !.goal = waiting,
                                       !.hasty = claiming \/ window[t].took # NoWorker])
       ELSE ShowPage(t, LoadedPage(active, NoWorker)) /\ UNCHANGED skips
  /\ UNCHANGED <<script, Workers3, claiming, superseded>>

\* controllerchange: the first one reloads a page that listens.
HearOfTakeover(t) ==
  /\ IsOpen(t) /\ window[t].took # NoWorker
  /\ LET goal == IF window[t].hasty THEN NoWorker ELSE window[t].goal IN
       ShowPage(t, IF window[t].listening THEN LoadedPage(active, goal)
                   ELSE [window[t] EXCEPT !.took = NoWorker])
  /\ UNCHANGED <<script, Workers3, claiming, skips, superseded>>

-----------------------------------------------------------------------------
(* The workers.                                                            *)

NewScript ==
  /\ script < MaxScripts /\ script' = script + 1
  /\ UNCHANGED <<Workers3, claiming, skips, window, superseded>>

\* updatefound, in every page that holds the registration by now.
FindUpdate ==
  /\ \E t \in Windows : window[t].at # "closed"
  /\ installing = NoWorker /\ active # NoWorker /\ script \notin {waiting, active}
  /\ installing' = script
  /\ window' = [t \in Windows |-> IF IsOpen(t) THEN [window[t] EXCEPT !.watching = script]
                                  ELSE window[t]]
  /\ UNCHANGED <<script, waiting, active, claiming, skips, superseded>>

\* Mutation: whoever hears of an installation is told.
TellAll(t) == window[t].watching = installing

\* statechange: not to somebody who has just arrived.
Tell(t) == window[t].watching = installing /\ window[t].controller # NoWorker

\* No skipWaiting: the new worker waits, in the place of one that waited.
Installed ==
  /\ installing # NoWorker
  /\ waiting' = installing /\ installing' = NoWorker
  /\ superseded' = superseded \cup ({waiting} \ {NoWorker})
  /\ window' = [t \in Windows |->
               IF ~IsOpen(t) THEN window[t]
               ELSE [window[t] EXCEPT !.watching = NoWorker, !.told = @ \/ Tell(t),
                                   !.deaf = @ \/ ~Tell(t)]]
  /\ UNCHANGED <<script, active, claiming, skips>>

\* The pages of the active worker are handed to the next.
TakeOver ==
  /\ active' = waiting /\ waiting' = NoWorker /\ claiming' = TRUE
  /\ window' = [t \in Windows |-> IF window[t].controller = NoWorker THEN window[t]
                            ELSE [window[t] EXCEPT !.controller = waiting, !.took = waiting]]

\* No page is left that the active worker controls, or there was none.
Activate ==
  /\ waiting # NoWorker /\ \A t \in Windows : window[t].controller = NoWorker
  /\ TakeOver
  /\ UNCHANGED <<script, installing, skips, superseded>>

\* SKIP_WAITING; a worker that has been replaced is told in vain.
SkipWaiting(w) ==
  /\ w \in skips /\ skips' = skips \ {w}
  /\ IF w = waiting THEN TakeOver ELSE UNCHANGED <<active, waiting, claiming, window>>
  /\ UNCHANGED <<script, installing, superseded>>

\* Mutation: the activate handler does not claim.
ClaimsNobody(t) == FALSE

Claims(t) == window[t].at # "closed" /\ window[t].controller = NoWorker

\* clients.claim(): the pages that nobody controlled.
ClaimClients ==
  /\ claiming /\ claiming' = FALSE
  /\ window' = [t \in Windows |-> IF Claims(t)
                            THEN [window[t] EXCEPT !.controller = active, !.took = active]
                            ELSE window[t]]
  /\ UNCHANGED <<script, Workers3, skips, superseded>>

UpdateStep ==
  \/ NewScript \/ FindUpdate \/ Installed \/ Activate \/ ClaimClients
  \/ \E w \in skips : SkipWaiting(w)
  \/ \E t \in Windows : \/ LoadWindow(t) \/ CloseWindow(t) \/ RegisterWorker(t)
                     \/ PressUpdate(t) \/ AskToActivate(t) \/ HearOfTakeover(t)

-----------------------------------------------------------------------------
(* What must hold.                                                         *)

\* A new version that is ready is announced in every window, whenever it was
\* downloaded and whichever window noticed; but for a page that was loaded while
\* it was being installed, or was in nobody's control.
WaitingIsAnnounced ==
  waiting # NoWorker => \A t \in Windows : IsOpen(t) => window[t].told \/ window[t].deaf

\* Nobody is told of a new version while the first is being installed, but for
\* a page that looks in the moment before it is activated.
NewcomerNotTold == active = NoWorker => \A t \in Windows : window[t].told => window[t].early

\* The page that the button reloads is the new worker's, unless an
\* earlier takeover was under way, whose event reloads it as well.
ReloadedByNew ==
  \A t \in Windows : window[t].sought # NoWorker => window[t].controller >= window[t].sought

\* The button is not pressed in vain: as long as a page waits to be reloaded,
\* the takeover it waits for is on its way, unless its worker was replaced.
PressIsAnswered ==
  \A t \in Windows : IsOpen(t) /\ window[t].goal # NoWorker =>
    \/ window[t].asking \/ window[t].goal \in skips \cup superseded
    \/ window[t].took # NoWorker \/ claiming

\* A new version reaches every window by its own button: announced where there
\* is one and nowhere else, and pressing it ends in a page of the new version.
UpdatesReach ==
  /\ UpdateTypeOK
  /\ WaitingIsAnnounced /\ NewcomerNotTold
  /\ ReloadedByNew /\ PressIsAnswered

=============================================================================
