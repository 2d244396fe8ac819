--------------------------- MODULE PersonalContent ---------------------------
(* One announcement from its targets to its readers: who it reaches, the     *)
(* paragraph each person gets, the sheet that changes many paragraphs at     *)
(* once, asking again, and what a reader had on the screen when confirming.  *)
(*                                                                           *)
(* Obligations has the races between the commands in full, on one text per   *)
(* revision; here obligations also bind a paragraph, and the commands are    *)
(* cut down to what that needs.  Archiving, deadlines and audit rows are     *)
(* left out.                                                                 *)
EXTENDS OrgUnits, Sequences, SequencesExt

CONSTANTS
  Texts,            \* paragraphs that may be written
  Blank,            \* an empty cell of a sheet
  Trimmed,          \* what parseCsv makes of a cell: no surrounding white space
  Targets,          \* target lists an administrator may choose
  Sheets,           \* sheets that may be uploaded, as parseCsv returns them
  MaxVersions,      \* bound: paragraphs ever written for one person
  MaxRevisions,     \* bound: revisions of the shared text
  MaxObligations    \* bound: obligations per person

ASSUME ContentAssumption ==
  /\ MaxVersions \in Nat /\ MaxRevisions \in Nat \ {0} /\ MaxObligations \in Nat \ {0}
  /\ Blank \notin Texts
  /\ Trimmed \in [Texts -> Texts]
  /\ \A t \in Texts : Trimmed[Trimmed[t]] = Trimmed[t]
  /\ Sheets \subseteq Seq([who: People, cell: {Trimmed[t] : t \in Texts} \cup {Blank}])
  /\ Targets \subseteq [all: BOOLEAN, units: SUBSET Units, people: SUBSET People]

VARIABLES
  active,      \* users.disabled_at IS NULL
  target,      \* the current target version, in a set
  recipients,  \* announcement_recipients
  because,     \* announcement_recipient_sources: the units that matched
  revision,    \* the newest revision of the shared text
  published,   \* current_published_content_revision_id, 0 when null
  para,        \* announcement_personalizations per person; the last is live
  obl,         \* announcement_ack_obligations per recipient
  page,        \* what each person's screen shows
  import,      \* the import holding the announcement row
  ask,         \* a re-acknowledgement holding the recipient rows
  stats        \* the statistics handler between its two statements

reach == <<active, target, recipients, because>>
text  == <<revision, published, para>>
work  == <<import, ask, stats>>
contentVars == <<orgVars, reach, text, obl, page, work>>

\* para: the index of the paragraph bound, 0 for none.  shown: history, what
\* was on the screen when it was acknowledged; seen: how many obligations the
\* person had when that screen was fetched.
Screen == [rev: 0..MaxRevisions, para: 0..MaxVersions, seen: 0..MaxObligations]
NoScreen == [rev |-> 0, para |-> 0, seen |-> 0]
Obligation == [rev: 1..MaxRevisions, para: 0..MaxVersions, acked: BOOLEAN,
               waived: BOOLEAN, gone: BOOLEAN, shown: Screen]
NewObligation(r, i) == [rev |-> r, para |-> i, acked |-> FALSE, waived |-> FALSE,
                        gone |-> FALSE, shown |-> NoScreen]

NoImport == [on |-> FALSE, sheet |-> <<>>, major |-> FALSE]
NoAsk == [on |-> FALSE, rev |-> 0, at |-> [p \in People |-> 0],
          para |-> [p \in People |-> 0], moved |-> FALSE]
NoStats == [on |-> FALSE, pending |-> 0, moved |-> FALSE]

ContentTypeOK ==
  /\ OrgTypeOK
  /\ active \subseteq People /\ recipients \subseteq People
  /\ target \subseteq Targets
  /\ because \in [People -> SUBSET Units]
  /\ revision \in 1..MaxRevisions /\ published \in 0..revision
  /\ \A p \in People :
       /\ para[p] \in Seq(Texts) /\ Len(para[p]) <= MaxVersions
       /\ obl[p] \in Seq(Obligation) /\ Len(obl[p]) <= MaxObligations
  /\ page \in [People -> Screen]
  /\ import \in [on: BOOLEAN, sheet: Sheets \cup {<<>>}, major: BOOLEAN]
  /\ ask.rev \in 0..MaxRevisions
  /\ stats.pending \in 0..Cardinality(People)

ContentInit ==
  /\ OrgInit
  /\ active = People
  /\ target = {} /\ recipients = {} /\ because = [p \in People |-> {}]
  /\ revision = 1 /\ published = 0
  /\ para = [p \in People |-> <<>>]
  /\ obl = [p \in People |-> <<>>]
  /\ page = [p \in People |-> NoScreen]
  /\ import = NoImport /\ ask = NoAsk /\ stats = NoStats

\* Bound: the organisation changes, or, for an announcement to everybody, texts
\* and answers do; the two meet in who a publish reaches.
TextsIdle == /\ revision = 1 /\ \A p \in People : para[p] = <<>> /\ Len(obl[p]) <= 1
             /\ page = [p \in People |-> NoScreen] /\ <<import, ask, stats>> =
                                                      <<NoImport, NoAsk, NoStats>>
OrgIdle == /\ \A g \in target : g.all
           /\ <<unit, memb, assign>> =
              <<[u \in Units |-> "none"], [p \in People |-> [u \in Units |-> Never]],
                [a \in Admins |-> NoRequest]>>

\* Bound: texts change, or statistics are read.
TextsMove == OrgIdle /\ ~stats.on
TextsStill == OrgIdle /\ revision = 1 /\ ~import.on /\ \A p \in People : para[p] = <<>>

-----------------------------------------------------------------------------
(* Obligations.                                                              *)

Live(o) == ~o.waived /\ ~o.gone
LiveOf(p) == {i \in DOMAIN obl[p] : Live(obl[p][i])}
LiveAt(p) == IF LiveOf(p) = {} THEN 0 ELSE CHOOSE i \in LiveOf(p) : TRUE

\* The live paragraph, by its index.
LivePara(paras, p) == Len(paras[p])

\* obl[p] with the obligation at i superseded by one that binds r and j.
Replaced(os, i, r, j) == Append([os EXCEPT ![i].gone = TRUE], NewObligation(r, j))

\* Statements after the statistics' first one see what changed.
Counted == stats' = [stats EXCEPT !.moved = stats.on]
\* A re-acknowledgement that read its candidates before a text changed.
Reread == ask' = [ask EXCEPT !.moved = ask.on]

-----------------------------------------------------------------------------
(* Targets and publishing.                                                   *)

Matches(g, p) ==
  g.all \/ p \in g.people \/ \E u \in g.units : Belongs(p, u)

\* resolveTargetUsers: the active people of the current target version.
Resolved == {p \in active : \E g \in target : Matches(g, p)}

SetTargets(g) ==
  /\ TextsIdle /\ assign = [a \in Admins |-> NoRequest]
  /\ target' = {g}
  /\ UNCHANGED <<orgVars, active, recipients, because, text, obl, page, work>>

\* FOR UPDATE on the announcement keeps it out of an import.  The units that
\* matched are recorded with each recipient.
Publish ==
  /\ published = 0 /\ ~import.on
  /\ Resolved # {}
  /\ published' = revision
  /\ recipients' = Resolved
  /\ because' = [p \in People |->
       IF p \in Resolved THEN {u \in UNION {g.units : g \in target} : Belongs(p, u)}
                         ELSE {}]
  /\ obl' = [p \in People |->
       IF p \in Resolved THEN <<NewObligation(revision, LivePara(para, p))>> ELSE <<>>]
  /\ Counted
  /\ UNCHANGED <<orgVars, active, target, revision, para, page, import, ask>>

-----------------------------------------------------------------------------
(* Texts.  Their inserts refer to the announcement, so that they wait while  *)
(* an import holds it.                                                       *)

\* A published announcement moves to the new revision at once, whether or not
\* anybody is asked again.
Revise ==
  /\ TextsMove /\ ~import.on
  /\ revision < MaxRevisions
  /\ revision' = revision + 1
  /\ published' = IF published = 0 THEN 0 ELSE revision'
  /\ Reread
  /\ UNCHANGED <<orgVars, reach, para, obl, page, import, stats>>

\* One person's paragraph, written as it came.
PutPara(p, t) ==
  /\ TextsMove /\ ~import.on
  /\ Len(para[p]) < MaxVersions
  /\ para' = [para EXCEPT ![p] = Append(@, t)]
  /\ Reread
  /\ UNCHANGED <<orgVars, reach, revision, published, obl, page, import, stats>>

-----------------------------------------------------------------------------
(* The sheet.                                                                *)

\* The roster as it is downloaded, every active person and their paragraph, and
\* read again.
SheetNow ==
  LET row(p) == [who |-> p,
                 cell |-> IF para[p] = <<>> THEN Blank ELSE Trimmed[Last(para[p])]]
  IN  {[i \in 1..Cardinality(active) |-> row(order[i])] :
         order \in {o \in [1..Cardinality(active) -> active] : IsInjective(o)}}

\* Rows that say something; blank ones are skipped, so no sheet clears anything.
Entries(sheet) == {r \in ToSet(sheet) : r.cell # Blank}

\* Mutation: every row is written.
AlwaysDiffers(paras, r) == TRUE

\* The paragraph is compared as it is stored, untrimmed.
Differs(paras, r) == paras[r.who] = <<>> \/ Last(paras[r.who]) # r.cell

WriteRow(r, paras) ==
  IF r.cell # Blank /\ Differs(paras, r) THEN [paras EXCEPT ![r.who] = Append(@, r.cell)]
                                         ELSE paras

\* The paragraphs after each row of the sheet, and after the last one.
AfterRows(sheet) ==
  LET after[n \in 0..Len(sheet)] ==
        IF n = 0 THEN para ELSE WriteRow(sheet[n], after[n - 1])
  IN  after
Imported(sheet) == AfterRows(sheet)[Len(sheet)]

\* A row for somebody who is not active refuses the sheet (422).
ImportBegin(sheet, major) ==
  /\ TextsMove /\ ~import.on
  /\ \A r \in Entries(sheet) : r.who \in active
  /\ import' = [on |-> TRUE, sheet |-> sheet, major |-> major]
  /\ UNCHANGED <<orgVars, reach, text, obl, page, ask, stats>>

\* Mutation: candidates are read before the rows are written.
BeforeWriting == para

\* The paragraphs the re-acknowledgement of an import sees.
SeenByImport == Imported(import.sheet)

\* Asked once for every row that changed their paragraph.
Times(p) == Len(Imported(import.sheet)[p]) - Len(para[p])
Asked == {p \in recipients \cap active :
            import.major /\ published # 0 /\ Times(p) > 0 /\ LiveOf(p) # {}}

\* Each time supersedes what is live by then, so that the last one stays.
AskedAgain(p) ==
  LET before == Len(obl[p])
      new == NewObligation(published, LivePara(SeenByImport, p))
  IN  [i \in 1..(before + Times(p)) |->
         IF i <= before THEN [obl[p][i] EXCEPT !.gone = @ \/ i = LiveAt(p)]
                        ELSE [new EXCEPT !.gone = i < before + Times(p)]]

\* Waits while a re-acknowledgement holds a recipient it asks again; that one
\* waits for the announcement, and PostgreSQL ends one of the two.
ImportCommit ==
  /\ import.on
  /\ Asked # {} => ~ask.on
  /\ \A p \in People : /\ Len(Imported(import.sheet)[p]) <= MaxVersions
                       /\ p \in Asked => Len(obl[p]) + Times(p) <= MaxObligations
  /\ para' = Imported(import.sheet)
  /\ obl' = [p \in People |-> IF p \in Asked THEN AskedAgain(p) ELSE obl[p]]
  /\ import' = NoImport
  /\ IF para' = para THEN UNCHANGED ask ELSE Reread
  /\ Counted
  /\ UNCHANGED <<orgVars, reach, revision, published, page>>

ImportFails ==
  /\ import.on
  /\ import' = NoImport
  /\ UNCHANGED <<orgVars, reach, text, obl, page, ask, stats>>

-----------------------------------------------------------------------------
(* Asking again, everybody or one person.                                    *)

Candidates(S) == {p \in S \cap recipients \cap active : LiveOf(p) # {}}

\* The published revision, and the recipients FOR UPDATE with what they hold.
AskSelect(S) ==
  /\ OrgIdle /\ ~ask.on
  /\ published # 0
  /\ Candidates(S) # {}
  /\ ask' = [on |-> TRUE, rev |-> published, moved |-> FALSE,
             at |-> [p \in People |-> IF p \in Candidates(S) THEN LiveAt(p) ELSE 0],
             para |-> [p \in People |-> IF p \in Candidates(S) THEN LivePara(para, p)
                                                                ELSE 0]]
  /\ UNCHANGED <<orgVars, reach, text, obl, page, import, stats>>

AskedPeople == {p \in People : ask.at[p] # 0}

\* Its event refers to the announcement and waits for an import.  What was
\* waived meanwhile cannot be superseded: the check refuses it.
AskCommit ==
  /\ ask.on /\ ~import.on
  /\ \A p \in AskedPeople : ~obl[p][ask.at[p]].waived /\ Len(obl[p]) < MaxObligations
  /\ obl' = [p \in People |->
       IF p \in AskedPeople THEN Replaced(obl[p], ask.at[p], ask.rev, ask.para[p])
                            ELSE obl[p]]
  /\ ask' = NoAsk
  /\ Counted
  /\ UNCHANGED <<orgVars, reach, text, page, import>>

AskFails ==
  /\ ask.on
  /\ ask' = NoAsk
  /\ UNCHANGED <<orgVars, reach, text, obl, page, import, stats>>

-----------------------------------------------------------------------------
(* Readers.                                                                  *)

\* Mutation: paragraphs that were superseded are not left out.
WithFirstPara(p) ==
  [rev |-> published, para |-> IF para[p] = <<>> THEN 0 ELSE 1, seen |-> Len(obl[p])]

\* GET /my/announcements: the published revision and the live paragraph, not
\* what the obligation binds.
Listed(p) == [rev |-> published, para |-> LivePara(para, p), seen |-> Len(obl[p])]

Look(p) ==
  /\ OrgIdle
  /\ p \in recipients \cap active
  /\ page' = [page EXCEPT ![p] = Listed(p)]
  /\ UNCHANGED <<orgVars, reach, text, obl, work>>

\* The request names the announcement only; whichever obligation is live by
\* then is acknowledged, once.
Acknowledge(p) ==
  /\ p \in active /\ page[p] # NoScreen
  /\ \E i \in LiveOf(p) :
       /\ ~obl[p][i].acked
       /\ obl' = [obl EXCEPT ![p][i].acked = TRUE, ![p][i].shown = page[p]]
  /\ Counted
  /\ UNCHANGED <<orgVars, reach, text, page, import, ask>>

\* Disabling waives what is pending; restoring gives nothing back.
DisablePerson(p) ==
  /\ OrgIdle
  /\ p \in active
  /\ active' = active \ {p}
  /\ obl' = [obl EXCEPT ![p] =
       [i \in DOMAIN obl[p] |->
          [obl[p][i] EXCEPT !.waived = @ \/ (Live(obl[p][i]) /\ ~obl[p][i].acked)]]]
  /\ Counted
  /\ UNCHANGED <<orgVars, target, recipients, because, text, page, import, ask>>

RestorePerson(p) ==
  /\ p \notin active
  /\ active' = active \cup {p}
  /\ UNCHANGED <<orgVars, target, recipients, because, text, obl, page, work>>

-----------------------------------------------------------------------------
(* Statistics: numbers by one statement, names by the next.                  *)

\* The denominator.
Denominator == {d \in People \X (1..MaxObligations) : d[2] \in LiveOf(d[1])}
PendingCount == Cardinality({d \in Denominator : ~obl[d[1]][d[2]].acked})

\* Mutation: the names include those who acknowledged.
LiveNames == {p \in People : LiveOf(p) # {}}

PendingNames == {p \in People : \E i \in LiveOf(p) : ~obl[p][i].acked}

StatsCount ==
  /\ TextsStill /\ ~stats.on
  /\ stats' = [on |-> TRUE, pending |-> PendingCount, moved |-> FALSE]
  /\ UNCHANGED <<orgVars, reach, text, obl, page, import, ask>>

StatsNames ==
  /\ stats.on
  /\ stats' = NoStats
  /\ UNCHANGED <<orgVars, reach, text, obl, page, import, ask>>

-----------------------------------------------------------------------------

ContentStep ==
  \/ /\ TextsIdle
     /\ \/ target = {} /\ OrgStep
        \/ \E p \in People, u \in Units : LeaveUnit(p, u)
     /\ UNCHANGED <<reach, text, obl, page, work>>
  \/ \E g \in Targets : SetTargets(g)
  \/ Publish \/ Revise
  \/ \E p \in People, t \in Texts : PutPara(p, t)
  \/ \E sheet \in Sheets, major \in BOOLEAN : ImportBegin(sheet, major)
  \/ ImportCommit \/ ImportFails
  \/ \E S \in {People} \cup {{p} : p \in People} : AskSelect(S)
  \/ AskCommit \/ AskFails
  \/ \E p \in People : Look(p) \/ Acknowledge(p) \/ DisablePerson(p) \/ RestorePerson(p)
  \/ StatsCount \/ StatsNames

-----------------------------------------------------------------------------
(* What must hold.                                                           *)

\* "It stays possible to explain why somebody was included": every unit that
\* brought a recipient still has a row for them, present or past.
Explainable ==
  \A p \in recipients, u \in Units : u \in because[p] => memb[p][u].rows > 0

\* Asking again carries "the person's current personal content forward": what
\* a step asks somebody for is the published text and their live paragraph,
\* unless a text changed while the command was under way.
AskedForCurrent ==
  [][\A p \in People :
       (Len(obl'[p]) > Len(obl[p]) /\ ~ask.moved)
         => /\ Last(obl'[p]).rev = published'
            /\ Last(obl'[p]).para = LivePara(para', p)]_contentVars

\* "Rewriting an identical paragraph could re-ask somebody who has already
\* confirmed": importing the roster as it stands changes nothing and asks
\* nobody, unless a paragraph was stored with white space around it.
UntouchedSheetIsQuiet ==
  [][(/\ import.on /\ import.sheet \in SheetNow
      /\ \A p \in active : para[p] # <<>> => Trimmed[Last(para[p])] = Last(para[p]))
     /\ ~import'.on => para' = para /\ obl' = obl]_contentVars

\* Nobody confirms a text older than the one they are recorded to have agreed
\* to, when the screen they confirmed on was fetched after they were asked.
ShownNotOlder ==
  \A p \in People : \A i \in DOMAIN obl[p] :
    LET o == obl[p][i]
    IN  o.acked /\ o.shown.seen >= i => o.shown.rev >= o.rev /\ o.shown.para >= o.para

\* "Every figure must be explainable": as many people are named pending as are
\* counted, unless something was acknowledged, asked or waived in between.
FiguresAgree ==
  stats.on /\ ~stats.moved => stats.pending = Cardinality(PendingNames)

\* What an administrator and a recipient are told is so: why somebody was
\* included, what they confirmed, and who of those counted is still missing.
AnnouncementTells == ContentTypeOK /\ Explainable /\ ShownNotOlder /\ FiguresAgree

\* Whoever is asked is asked for what is current, and nobody is asked for a
\* sheet that changes nothing.
ImportAsks == AskedForCurrent /\ UntouchedSheetIsQuiet

=============================================================================
