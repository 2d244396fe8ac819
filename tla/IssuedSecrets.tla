----------------------------- MODULE IssuedSecrets -----------------------------
(***************************************************************************)
(* Secrets the server keeps no copy of, issued from a page and shown once: *)
(* the tokens of a service account, in a panel that is taken down when it  *)
(* is closed, and the signing secrets of webhooks, in a form that is only  *)
(* folded.                                                                 *)
(*                                                                         *)
(* An answer finds the panel that asked, another one, or none; the list is *)
(* a query that is asked again on success only, and that an answer to      *)
(* nobody marks as out of date but does not stop.                          *)
(***************************************************************************)
EXTENDS Naturals, FiniteSets

CONSTANTS
  MaxSecrets,     \* bound: secrets asked for
  MaxMounts       \* bound: times the panel or the form is put up

ASSUME IssuedSecretsAssumption == MaxSecrets \in Nat /\ MaxMounts \in Nat

VARIABLES
  kind,           \* "token" or "webhook"
  view,           \* "away" from the page, "folded" or "open"
  mount,          \* how often it was put up
  issuing,        \* per secret, the request for it
  revoking,       \* per token, the request that revokes it
  live,           \* secrets the server accepts or signs with
  onScreen,       \* the secret shown in full, 0 for none
  listing,        \* the query of the list
  \* History.
  gone,           \* secrets taken off the screen
  unseen,         \* issued, the answer lost or to nobody
  unsure          \* changed while the page could not know

secretVars == <<kind, view, mount, issuing, revoking, live, onScreen, listing,
                gone, unseen, unsure>>
historyVars == <<gone, unseen, unsure>>

-----------------------------------------------------------------------------

SecretIds == 1..MaxSecrets
Requests == [at : {"no", "sent", "committed", "settling", "over"}, mount : 0..MaxMounts]
NotAskedFor == [at |-> "no", mount |-> 0]

SecretsTypeOK ==
  /\ kind \in {"token", "webhook"} /\ view \in {"away", "folded", "open"}
  /\ mount \in 0..MaxMounts /\ onScreen \in 0..MaxSecrets
  /\ issuing \in [SecretIds -> Requests] /\ revoking \in [SecretIds -> Requests]
  /\ live \subseteq SecretIds /\ listing.list \subseteq SecretIds
  /\ gone \cup unseen \cup unsure \subseteq SecretIds

\* stale: known to be out of date.  The list is of those that are live.
SecretsInit ==
  /\ kind \in {"token", "webhook"} /\ view = "away" /\ mount = 0
  /\ issuing = [s \in SecretIds |-> NotAskedFor] /\ revoking = issuing
  /\ live = {} /\ onScreen = 0 /\ gone = {} /\ unseen = {} /\ unsure = {}
  /\ listing = [at |-> "no", list |-> {}, answer |-> {}, stale |-> TRUE]

\* Whether the component that asked is still up, and whether any is.
Up == IF kind = "token" THEN view = "open" ELSE view # "away"
StillUp(request) == Up /\ request.mount = mount

OffScreen == {onScreen} \ {0}

-----------------------------------------------------------------------------
(* The panel.                                                              *)

\* A query that runs is joined, one that is fresh is not asked again.
ListingOnMount ==
  IF listing.at # "no" THEN {listing}
  ELSE {[listing EXCEPT !.at = "asked"]} \cup {l \in {listing} : ~l.stale}

PutUp == mount < MaxMounts /\ mount' = mount + 1 /\ listing' \in ListingOnMount

Return ==
  /\ view = "away" /\ view' = "folded"
  /\ \/ kind = "token" /\ UNCHANGED <<mount, listing>>
     \/ kind = "webhook" /\ PutUp
  /\ UNCHANGED <<kind, issuing, revoking, live, onScreen, historyVars>>

Unfold ==
  /\ view = "folded" /\ view' = "open"
  /\ \/ kind = "token" /\ PutUp
     \/ kind = "webhook" /\ UNCHANGED <<mount, listing>>
  /\ UNCHANGED <<kind, issuing, revoking, live, onScreen, historyVars>>

\* Mutation: the secret is kept where it survives the panel.
Kept == onScreen

ScreenAfterFold == IF kind = "token" THEN 0 ELSE onScreen

Fold ==
  /\ view = "open" /\ view' = "folded"
  /\ onScreen' = ScreenAfterFold
  /\ gone' = IF kind = "token" THEN gone \cup OffScreen ELSE gone
  /\ UNCHANGED <<kind, mount, issuing, revoking, live, listing, unseen, unsure>>

\* Bound: the form is not left the last time.
Leave ==
  /\ view # "away" /\ view' = "away" /\ (kind = "token" \/ mount < MaxMounts)
  /\ onScreen' = 0 /\ gone' = gone \cup OffScreen
  /\ UNCHANGED <<kind, mount, issuing, revoking, live, listing, unseen, unsure>>

\* "Copied."
DismissSecret ==
  /\ view = "open" /\ onScreen # 0
  /\ onScreen' = 0 /\ gone' = gone \cup OffScreen
  /\ UNCHANGED <<kind, view, mount, issuing, revoking, live, listing, unseen, unsure>>

-----------------------------------------------------------------------------
(* The list.                                                               *)

\* Mutation: what was changed is not asked for again.
NotAsked == listing

\* invalidateQueries: a list nobody looks at is only marked.
ListAskedAgain ==
  [listing EXCEPT !.at = IF Up THEN "asked" ELSE @, !.stale = TRUE]

ListAnswers ==
  /\ listing.at = "asked"
  /\ listing' = [listing EXCEPT !.at = "answered", !.answer = live]
  /\ UNCHANGED <<kind, view, mount, issuing, revoking, live, onScreen, historyVars>>

ListTaken ==
  /\ listing.at = "answered"
  /\ listing' = [listing EXCEPT !.at = "no", !.list = listing.answer, !.stale = FALSE]
  /\ UNCHANGED <<kind, view, mount, issuing, revoking, live, onScreen, historyVars>>

\* Who changed something while nobody looks and an older answer is on its way.
UnsureOf(s) == IF ~Up /\ listing.at # "no" THEN unsure \cup {s} ELSE unsure

-----------------------------------------------------------------------------
(* Issuing.                                                                *)

Busy(requests) ==
  \E s \in SecretIds : StillUp(requests[s]) /\ requests[s].at \notin {"no", "over"}

To(requests, s, at) == [requests EXCEPT ![s].at = at]

\* The button is disabled until the list has been asked again.
PressIssue(s) ==
  /\ view = "open" /\ ~Busy(issuing) /\ issuing[s].at = "no"
  /\ \A t \in 1..(s - 1) : issuing[t].at # "no"
  /\ issuing' = [issuing EXCEPT ![s] = [at |-> "sent", mount |-> mount]]
  /\ UNCHANGED <<kind, view, mount, revoking, live, onScreen, listing, historyVars>>

IssueCommits(s) ==
  /\ issuing[s].at = "sent"
  /\ issuing' = To(issuing, s, "committed") /\ live' = live \cup {s}
  /\ UNCHANGED <<kind, view, mount, revoking, onScreen, listing, historyVars>>

\* Mutation: the list is awaited before the secret is shown.
ShowsAtOnce(s) == listing.at = "no" /\ ~listing.stale

Shows(s) == StillUp(issuing[s])

\* A secret that was on the screen gives way.
IssueAnswered(s) ==
  /\ issuing[s].at = "committed"
  /\ issuing' = To(issuing, s, "settling") /\ listing' = ListAskedAgain
  /\ onScreen' = IF Shows(s) THEN s ELSE onScreen
  /\ gone' = IF Shows(s) THEN gone \cup OffScreen ELSE gone
  /\ unseen' = IF StillUp(issuing[s]) THEN unseen ELSE unseen \cup {s}
  /\ unsure' = UnsureOf(s)
  /\ UNCHANGED <<kind, view, mount, revoking, live>>

\* Refused, or the answer is lost: nothing is asked again.
IssueFails(s) ==
  /\ issuing[s].at \in {"sent", "committed"}
  /\ issuing' = To(issuing, s, "over")
  /\ unseen' = IF s \in live THEN unseen \cup {s} ELSE unseen
  /\ unsure' = IF s \in live THEN unsure \cup {s} ELSE unsure
  /\ UNCHANGED <<kind, view, mount, revoking, live, onScreen, listing, gone>>

Settling(requests, s) == requests[s].at = "settling" /\ (listing.at = "no" \/ ~Up)

IssueSettles(s) ==
  /\ Settling(issuing, s) /\ issuing' = To(issuing, s, "over")
  /\ UNCHANGED <<kind, view, mount, revoking, live, onScreen, listing, historyVars>>

-----------------------------------------------------------------------------
(* Revoking a token.                                                       *)

\* One request per token at a time: a second one changes nothing.
PressRevoke(s) ==
  /\ kind = "token" /\ view = "open" /\ s \in listing.list
  /\ ~Busy(revoking) /\ revoking[s].at \in {"no", "over"}
  /\ revoking' = [revoking EXCEPT ![s] = [at |-> "sent", mount |-> mount]]
  /\ UNCHANGED <<kind, view, mount, issuing, live, onScreen, listing, historyVars>>

RevokeCommits(s) ==
  /\ revoking[s].at = "sent"
  /\ revoking' = To(revoking, s, "committed") /\ live' = live \ {s}
  /\ UNCHANGED <<kind, view, mount, issuing, onScreen, listing, historyVars>>

RevokeAnswered(s) ==
  /\ revoking[s].at = "committed"
  /\ revoking' = To(revoking, s, "settling") /\ listing' = ListAskedAgain
  /\ unsure' = UnsureOf(s)
  /\ UNCHANGED <<kind, view, mount, issuing, live, onScreen, gone, unseen>>

\* The page does not say so.
RevokeFails(s) ==
  /\ revoking[s].at \in {"sent", "committed"}
  /\ revoking' = To(revoking, s, "over")
  /\ unsure' = IF s \in live THEN unsure ELSE unsure \cup {s}
  /\ UNCHANGED <<kind, view, mount, issuing, live, onScreen, listing, gone, unseen>>

RevokeSettles(s) ==
  /\ Settling(revoking, s) /\ revoking' = To(revoking, s, "over")
  /\ UNCHANGED <<kind, view, mount, issuing, live, onScreen, listing, historyVars>>

SecretsStep ==
  \/ Return \/ Unfold \/ Fold \/ Leave \/ DismissSecret \/ ListAnswers \/ ListTaken
  \/ \E s \in SecretIds :
       \/ PressIssue(s) \/ IssueCommits(s) \/ IssueAnswered(s) \/ IssueFails(s)
       \/ IssueSettles(s) \/ PressRevoke(s) \/ RevokeCommits(s) \/ RevokeAnswered(s)
       \/ RevokeFails(s) \/ RevokeSettles(s)

-----------------------------------------------------------------------------
(* What must hold.                                                         *)

\* A secret is never lost between the answer and the screen: one that is in
\* use was shown, unless its answer was lost or came to nobody.
LiveWasShown ==
  \A s \in live \ unseen :
    issuing[s].at \in {"settling", "over"} => s = onScreen \/ s \in gone

\* A secret that was copied, replaced by another, left behind with the page, or
\* closed with its panel is never shown again.
GoneForGood == view = "open" => onScreen \notin gone

\* When nothing is under way the list has every secret in use, to be revoked,
\* and none that is not, unless an answer was lost, or came while nobody looked
\* and an older list was on its way.
ListTellsLive ==
  (/\ Up /\ listing.at = "no"
   /\ \A s \in SecretIds : {issuing[s].at, revoking[s].at} \subseteq {"no", "over"})
    => \A s \in SecretIds \ unsure : s \in live <=> s \in listing.list

\* A secret is shown once and can be taken back: each in use was shown and is
\* listed, and none that was put away comes back.
SecretsTold == SecretsTypeOK /\ LiveWasShown /\ GoneForGood /\ ListTellsLive

=============================================================================
