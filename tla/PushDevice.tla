------------------------------- MODULE PushDevice -------------------------------
(***************************************************************************)
(* Notifications of one browser: the subscription the browser has with its *)
(* push service, the row the server has of it, and what the page says,     *)
(* while people use the browser one after another.                         *)
(*                                                                         *)
(* Turning it on and off is two halves each, and any half may fail.        *)
(***************************************************************************)
EXTENDS Naturals, FiniteSets

CONSTANTS
  Users,          \* who use this browser, one after another
  MaxEndpoints    \* bound: subscriptions ever made

ASSUME PushDeviceAssumption == MaxEndpoints \in Nat /\ Users # {}

VARIABLES
  user,           \* who is signed in
  subscription,   \* the endpoint the browser has, 0 for none
  endpoints,      \* endpoints ever handed out
  rows,           \* push_subscriptions not revoked: endpoint and whose device
  change,         \* turning it on or off, under way
  says,           \* what the page says
  \* History.
  lost,           \* endpoints the browser no longer has, the server not told
  untold,         \* endpoints the server was not told of
  refused         \* endpoints whose pushes the push service refused this server

pushVars == <<user, subscription, endpoints, rows, change, says, lost, untold, refused>>

-----------------------------------------------------------------------------

NoChange == [at |-> "none", half |-> 1, endpoint |-> 0]

PushTypeOK ==
  /\ user \in Users /\ subscription \in 0..endpoints /\ endpoints \in 0..MaxEndpoints
  /\ \A r \in rows : r.endpoint \in 1..endpoints /\ r.of \in Users
  /\ change.at \in {"none", "on", "tell", "off"} /\ change.half \in 1..2
  /\ says \in {"pending", "available", "subscribed", "denied"}

PushInit ==
  /\ user \in Users /\ subscription = 0 /\ endpoints = 0 /\ rows = {}
  /\ change = NoChange /\ says = "pending" /\ lost = {} /\ untold = {}
  /\ refused = {}

Row(e) == [endpoint |-> e, of |-> user]
Live(e) == \E r \in rows : r.endpoint = e

\* stateFrom, for a browser that can and a server that has keys: what the
\* browser has decides, and the server is not asked.
LookState ==
  /\ says # "denied"
  /\ says' = IF subscription # 0 THEN "subscribed" ELSE "available"
  /\ UNCHANGED <<user, subscription, endpoints, rows, change, lost, untold, refused>>

PressOn ==
  /\ change.at = "none" /\ says = "available"
  /\ change' = [NoChange EXCEPT !.at = "on"]
  /\ UNCHANGED <<user, subscription, endpoints, rows, says, lost, untold, refused>>

\* The person is asked, then the push service, which has one endpoint for a
\* browser at a time.
Subscribe ==
  /\ change.at = "on"
  /\ LET e == IF subscription # 0 THEN subscription ELSE endpoints + 1 IN
     /\ e <= MaxEndpoints
     /\ subscription' = e /\ endpoints' = IF e > endpoints THEN e ELSE endpoints
     /\ change' = [NoChange EXCEPT !.at = "tell", !.endpoint = e]
  /\ UNCHANGED <<user, rows, says, lost, untold, refused>>

PermissionRefused ==
  /\ change.at = "on" /\ subscription = 0
  /\ change' = NoChange /\ says' = "denied"
  /\ UNCHANGED <<user, subscription, endpoints, rows, lost, untold, refused>>

\* ON CONFLICT (endpoint): the row moves to the device of who is signed in.
ToldOf(e) == {r \in rows : r.endpoint # e} \cup {Row(e)}

ServerTold ==
  /\ change.at = "tell"
  /\ rows' = ToldOf(change.endpoint) /\ untold' = untold \ {change.endpoint}
  /\ change' = NoChange /\ says' = "subscribed"
  /\ UNCHANGED <<user, subscription, endpoints, lost, refused>>

TellFails ==
  /\ change.at = "tell"
  /\ untold' = IF Live(change.endpoint) THEN untold ELSE untold \cup {change.endpoint}
  /\ change' = NoChange
  /\ UNCHANGED <<user, subscription, endpoints, rows, says, lost, refused>>

\* disablePush, if there is a subscription to drop.
PressOff ==
  /\ change.at = "none" /\ says = "subscribed"
  /\ IF subscription = 0 THEN says' = "available" /\ UNCHANGED change
     ELSE change' = [at |-> "off", half |-> 1, endpoint |-> subscription] /\ UNCHANGED says
  /\ UNCHANGED <<user, subscription, endpoints, rows, lost, untold, refused>>

\* Mutation: the server is told first.
ServerFirst == <<"server", "browser">>

\* Mutation: the server is never told.
ServerForgotten == <<"browser", "nothing">>

HalvesOff == <<"browser", "server">>

NextHalf == IF change.half = 1 THEN [change EXCEPT !.half = 2] ELSE NoChange
Half(h) == change.at = "off" /\ HalvesOff[change.half] = h
OffSays == IF change.half = 2 THEN "available" ELSE says

Unsubscribe ==
  /\ Half("browser")
  /\ subscription' = 0
  /\ change' = NextHalf /\ says' = OffSays
  /\ UNCHANGED <<user, endpoints, rows, lost, untold, refused>>

\* Scoped to the device of who is signed in: a row of another stays.
ServerRevokes ==
  /\ Half("server")
  /\ rows' = rows \ {Row(change.endpoint)}
  /\ lost' = IF Row(change.endpoint) \in rows THEN lost ELSE lost \cup {change.endpoint}
  /\ change' = NextHalf /\ says' = OffSays
  /\ UNCHANGED <<user, subscription, endpoints, untold, refused>>

\* Either half: what was not done yet is not done, and nothing is undone.
OffFails ==
  /\ change.at = "off"
  /\ lost' = IF Half("server") THEN lost \cup {change.endpoint} ELSE lost
  /\ change' = NoChange
  /\ UNCHANGED <<user, subscription, endpoints, rows, says, untold, refused>>

\* The browser or its push service lets a subscription go by itself.
Expire ==
  /\ subscription # 0 /\ change.at = "none"
  /\ lost' = lost \cup {subscription} /\ subscription' = 0
  /\ UNCHANGED <<user, endpoints, rows, change, says, untold, refused>>

\* A push is answered 404 or 410: nobody is there any more.
PushIsGone(r) ==
  /\ r \in rows /\ r.endpoint # subscription
  /\ rows' = rows \ {r}
  /\ UNCHANGED <<user, subscription, endpoints, change, says, lost, untold, refused>>

\* A push is answered 403: the subscription was made with another key of the
\* server, and the browser still has it.
PushIsRefused(r) ==
  /\ r \in rows
  /\ rows' = rows \ {r} /\ refused' = refused \cup {r.endpoint}
  /\ UNCHANGED <<user, subscription, endpoints, change, says, lost, untold>>

\* One person signs out and another in; the subscription is the browser's.
SignInAs(u) ==
  /\ u # user /\ change.at = "none"
  /\ user' = u /\ says' = "pending"
  /\ UNCHANGED <<subscription, endpoints, rows, change, lost, untold, refused>>

PushStep ==
  \/ LookState \/ PressOn \/ Subscribe \/ PermissionRefused \/ ServerTold \/ TellFails
  \/ PressOff \/ Unsubscribe \/ ServerRevokes \/ OffFails \/ Expire
  \/ \E r \in rows : PushIsGone(r) \/ PushIsRefused(r)
  \/ \E u \in Users : SignInAs(u)

-----------------------------------------------------------------------------
(* What must hold.                                                         *)

\* With nothing under way every row is of the browser's subscription, unless
\* the server was not told that it went: the second half of turning it off
\* failed or was asked by another person, or the browser let it go.
RowHasSubscription ==
  change.at = "none" => \A r \in rows : r.endpoint = subscription \/ r.endpoint \in lost

\* What the page calls on is known to the server, for this person or another,
\* unless the second half of turning it on failed or the push service refuses
\* the server: whatever half of turning it off fails, the page does not go on
\* promising what the server has dropped.
SubscribedIsKnown ==
  change.at = "none" /\ says = "subscribed" /\ subscription # 0 =>
    Live(subscription) \/ subscription \in untold \cup refused

\* The browser, the page and the server agree on whether this device is
\* notified, unless one half of a change failed.
PushAgrees == PushTypeOK /\ RowHasSubscription /\ SubscribedIsKnown

=============================================================================
