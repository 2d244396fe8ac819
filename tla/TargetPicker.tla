------------------------------ MODULE TargetPicker ------------------------------
(***************************************************************************)
(* The page of one announcement, as an administrator uses it: choosing the *)
(* target groups one chip at a time, and publishing.                       *)
(*                                                                         *)
(* A chip sends the whole list, made from the list on the screen; saving,  *)
(* publishing and asking for the page are three requests that may all be   *)
(* under way at once.  Every group has a member, and nothing is archived.  *)
(***************************************************************************)
EXTENDS FiniteSetsExt

CONSTANT Chips      \* target groups: everybody, the units, named people

VARIABLES
  saved,        \* the target list at the server
  sentTo,       \* the list it was published to, {} before
  detail,       \* the page's query
  choice,       \* the save under way
  release,      \* the publish under way
  meddled       \* history: somebody else saved, or an answer was lost

pickerVars == <<saved, sentTo, detail, choice, release, meddled>>

-----------------------------------------------------------------------------

\* calm (history): there was nothing under way when the button was pressed.
\* saw: the list on the screen then.
AtRest == [at |-> "no", list |-> {}, chip |-> {}, calm |-> FALSE]
NotReleased == [at |-> "no", saw |-> {}, calm |-> FALSE]
FirstLoad == [at |-> "asked", list |-> {}, published |-> FALSE, answer |-> {},
          answerPublished |-> FALSE, error |-> FALSE]

PickerTypeOK ==
  /\ saved \subseteq Chips /\ sentTo \subseteq Chips /\ meddled \in BOOLEAN
  /\ detail.at \in {"no", "asked", "answered"} /\ detail.list \subseteq Chips
  /\ choice.at \in {"no", "sent", "committed"} /\ choice.list \subseteq Chips
  /\ release.at \in {"no", "sent", "committed"} /\ release.saw \subseteq Chips

PickerInit ==
  /\ saved \in SUBSET Chips /\ sentTo = {} /\ detail = FirstLoad
  /\ choice = AtRest /\ release = NotReleased /\ meddled = FALSE

-----------------------------------------------------------------------------
(* The query.                                                              *)

\* Mutation: what was saved is not asked for again.
NotRefreshed == detail

\* invalidateQueries, which gives up on a request that runs.
Refreshed == [detail EXCEPT !.at = "asked"]

DetailAsked ==
  /\ detail.at = "no" /\ detail' = Refreshed
  /\ UNCHANGED <<saved, sentTo, choice, release, meddled>>

DetailAnswers ==
  /\ detail.at = "asked"
  /\ detail' = [detail EXCEPT !.at = "answered", !.answer = saved,
                              !.answerPublished = sentTo # {}]
  /\ UNCHANGED <<saved, sentTo, choice, release, meddled>>

DetailTaken ==
  /\ detail.at = "answered"
  /\ detail' = [detail EXCEPT !.at = "no", !.list = detail.answer, !.error = FALSE,
                              !.published = detail.answerPublished]
  /\ UNCHANGED <<saved, sentTo, choice, release, meddled>>

\* The page is replaced by the error.
DetailFails ==
  /\ detail.at # "no"
  /\ detail' = [detail EXCEPT !.at = "no", !.error = TRUE]
  /\ UNCHANGED <<saved, sentTo, choice, release, meddled>>

-----------------------------------------------------------------------------
(* Choosing.                                                               *)

\* Mutation: the chips can be pressed while a save is under way.
AlwaysEnabled == TRUE

ChipsEnabled == choice.at = "no"

\* An empty list is refused by the page.
Toggle(c) ==
  LET next == SymDiff(detail.list, {c}) IN
  /\ ~detail.error /\ ChipsEnabled /\ next # {}
  /\ choice' = [at |-> "sent", list |-> next, chip |-> {c}, calm |-> detail.at = "no"]
  /\ release' = [release EXCEPT !.calm = FALSE]
  /\ UNCHANGED <<saved, sentTo, detail, meddled>>

\* A new version of the target list, published or not; who was asked already
\* stays so.
PutCommits ==
  /\ choice.at = "sent"
  /\ saved' = choice.list /\ choice' = [choice EXCEPT !.at = "committed"]
  /\ UNCHANGED <<sentTo, detail, release, meddled>>

PutAnswered ==
  /\ choice.at = "committed"
  /\ choice' = AtRest /\ detail' = Refreshed
  /\ UNCHANGED <<saved, sentTo, release, meddled>>

\* An error is shown and nothing is asked again, whether it was saved or not.
PutFails ==
  /\ choice.at # "no"
  /\ choice' = AtRest /\ meddled' = (meddled \/ choice.at = "committed")
  /\ UNCHANGED <<saved, sentTo, detail, release>>

OtherAdminSaves ==
  /\ saved' \in SUBSET Chips \ {{}} /\ meddled' = TRUE
  /\ UNCHANGED <<sentTo, detail, choice, release>>

-----------------------------------------------------------------------------
(* Publishing.                                                             *)

\* The button does not look at a save that is under way.
PressPublish ==
  /\ ~detail.error /\ ~detail.published /\ detail.list # {} /\ release.at = "no"
  /\ release' = [at |-> "sent", saw |-> detail.list,
                 calm |-> choice.at = "no" /\ detail.at = "no"]
  /\ UNCHANGED <<saved, sentTo, detail, choice, meddled>>

PublishCommits ==
  /\ release.at = "sent" /\ sentTo = {} /\ saved # {}
  /\ sentTo' = saved /\ release' = [release EXCEPT !.at = "committed"]
  /\ UNCHANGED <<saved, detail, choice, meddled>>

PublishAnswered ==
  /\ release.at = "committed"
  /\ release' = NotReleased /\ detail' = Refreshed
  /\ UNCHANGED <<saved, sentTo, choice, meddled>>

\* Published already, no target, or the answer is lost.
PublishFails ==
  /\ release.at # "no" /\ release' = NotReleased
  /\ UNCHANGED <<saved, sentTo, detail, choice, meddled>>

PickerStep ==
  \/ DetailAsked \/ DetailAnswers \/ DetailTaken \/ DetailFails
  \/ \E c \in Chips : Toggle(c)
  \/ PutCommits \/ PutAnswered \/ PutFails \/ OtherAdminSaves
  \/ PressPublish \/ PublishCommits \/ PublishAnswered \/ PublishFails

-----------------------------------------------------------------------------
(* What must hold.                                                         *)

\* When nothing is under way the chips show what is saved, as long as nobody
\* else saves and no answer is lost.
ChipsAreSaved ==
  detail.at = "no" /\ choice.at = "no" /\ ~detail.error /\ ~meddled
    => detail.list = saved

\* Pressing a chip adds or removes one group and no other, unless the page was
\* still being asked for when it was pressed: the list it is made from is then
\* the one before the last chip.
OneChipChanges ==
  [][saved' # saved /\ choice'.at = "committed" /\ choice.calm /\ ~meddled'
       => SymDiff(saved, saved') = choice.chip]_pickerVars

\* It is published to the groups the administrator saw when they pressed the
\* button, unless a save or the page's query was under way, or began, or
\* somebody else saved.
PublishedAsSeen ==
  [][sentTo' # sentTo /\ release.calm /\ ~meddled => sentTo' = release.saw]_pickerVars

\* The picker does what it shows: chips are what is saved, one press changes
\* one of them, and publishing goes to those that were lit.
TargetsAsSeen == [](PickerTypeOK /\ ChipsAreSaved) /\ OneChipChanges /\ PublishedAsSeen

=============================================================================
