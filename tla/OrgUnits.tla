------------------------------ MODULE OrgUnits ------------------------------
(* Organisation units and who belongs to them (routes/org-units.ts).         *)
(*                                                                           *)
(* A unit is closed, never deleted, and somebody who leaves keeps the row    *)
(* with a departure date.  Adding somebody is one READ COMMITTED transaction *)
(* of several statements: it reads the unit and the live row without a lock, *)
(* demotes the primary unit, then updates the row it read or inserts one;    *)
(* two partial unique indexes are what keeps overlapping requests apart.     *)
(* Names, kinds, parents and descriptions of units are left out: they decide *)
(* nothing else (a name that is taken is answered 409 and changes nothing).  *)
EXTENDS Naturals, FiniteSets

CONSTANTS
  People,
  Units,
  Admins,    \* requests that add somebody to a unit, open at the same time
  MaxRows    \* bound: rows of one person in one unit

ASSUME OrgUnitsAssumption == MaxRows \in Nat \ {0} /\ IsFiniteSet(People)

VARIABLES
  unit,      \* org_units: "none", "open" or "closed"
  memb,      \* user_org_units: how many rows, and the newest one
  assign     \* local state of the requests that add somebody

orgVars == <<unit, memb, assign>>

Membership == [rows: 0..MaxRows, live: BOOLEAN, primary: BOOLEAN]
Never == [rows |-> 0, live |-> FALSE, primary |-> FALSE]

\* row: the live row the request read, 0 when it inserts one.  saw: the primary
\* rows of the demoting statement's snapshot, as <<unit, row>>; held: the ones
\* it demoted, locked until the end.  raced: history, another request committed.
Request == [step: {"idle", "read", "demoting", "ready"}, person: SUBSET People,
            unit: SUBSET Units, primary: BOOLEAN, row: 0..MaxRows,
            saw: SUBSET (Units \X (1..MaxRows)), held: SUBSET Units,
            raced: BOOLEAN]
NoRequest == [step |-> "idle", person |-> {}, unit |-> {}, primary |-> FALSE,
              row |-> 0, saw |-> {}, held |-> {}, raced |-> FALSE]

OrgTypeOK ==
  /\ unit \in [Units -> {"none", "open", "closed"}]
  /\ memb \in [People -> [Units -> Membership]]
  /\ assign \in [Admins -> Request]

OrgInit ==
  /\ unit = [u \in Units |-> "none"]
  /\ memb = [p \in People |-> [u \in Units |-> Never]]
  /\ assign = [a \in Admins |-> NoRequest]

-----------------------------------------------------------------------------
(* Units.                                                                    *)

MoveUnit(u, from, to) ==
  /\ unit[u] = from
  /\ unit' = [unit EXCEPT ![u] = to]
  /\ UNCHANGED <<memb, assign>>

CreateUnit(u) == MoveUnit(u, "none", "open")
DisableUnit(u) == MoveUnit(u, "open", "closed")
RestoreUnit(u) == MoveUnit(u, "closed", "open")

-----------------------------------------------------------------------------
(* Adding somebody to a unit.                                                *)

Belongs(p, u) == memb[p][u].live
PrimaryUnits(p) == {u \in Units : memb[p][u].live /\ memb[p][u].primary}
IsRow(p, u, i) == memb[p][u].live /\ memb[p][u].rows = i

\* Somebody else's transaction holds the row.
RowHeld(a, p, u) ==
  \E b \in Admins \ {a} : p \in assign[b].person /\ u \in assign[b].held

\* 422 for a closed unit, 409 for a member who is not made primary.
AssignRead(a, p, u, primary) ==
  /\ assign[a].step = "idle"
  /\ unit[u] = "open"
  /\ Belongs(p, u) => primary
  /\ assign' = [assign EXCEPT ![a] =
       [NoRequest EXCEPT !.step = IF primary THEN "read" ELSE "ready",
                         !.person = {p}, !.unit = {u}, !.primary = primary,
                         !.row = IF Belongs(p, u) THEN memb[p][u].rows ELSE 0]]
  /\ UNCHANGED <<unit, memb>>

\* The demoting UPDATE takes its snapshot, and may have to wait for a row.
DemoteBegin(a) ==
  /\ assign[a].step = "read"
  /\ \E p \in assign[a].person :
       assign' = [assign EXCEPT ![a].step = "demoting",
                    ![a].saw = {<<u, memb[p][u].rows>> : u \in PrimaryUnits(p)}]
  /\ UNCHANGED <<unit, memb>>

\* It got the rows, and looks at each again.
DemoteEnd(a) ==
  /\ assign[a].step = "demoting"
  /\ \E p \in assign[a].person :
       /\ \A s \in assign[a].saw : ~RowHeld(a, p, s[1])
       /\ assign' = [assign EXCEPT ![a].step = "ready",
                       ![a].held = {u \in PrimaryUnits(p) :
                                      <<u, memb[p][u].rows>> \in assign[a].saw}]
  /\ UNCHANGED <<unit, memb>>

\* Mutation: the new primary is written before the old one is demoted.
DemotedAfter(a, p) == {}

\* The rows no longer primary when the request writes its own.
Demoted(a, p) == assign[a].held

\* The unique indexes refuse the row: the person is in the unit already, or has
\* another primary unit that this request did not demote.
Clashes(a) ==
  /\ assign[a].step = "ready"
  /\ \E p \in assign[a].person, u \in assign[a].unit :
       \/ assign[a].row = 0 /\ Belongs(p, u)
       \/ /\ assign[a].primary
          /\ assign[a].row # 0 => IsRow(p, u, assign[a].row)
          /\ PrimaryUnits(p) \ (Demoted(a, p) \cup {u}) # {}

\* Mutation: a member who is made primary keeps the row as it was.
OnlyInserted(a, p, u) ==
  IF assign[a].row = 0
  THEN [rows |-> memb[p][u].rows + 1, live |-> TRUE, primary |-> assign[a].primary]
  ELSE memb[p][u]

AfterDemotion(a, p, u) ==
  IF u \in assign[a].held THEN [memb[p][u] EXCEPT !.primary = FALSE] ELSE memb[p][u]

\* A row left since it was read is written to no effect: its departure keeps it
\* out of both indexes.  The row that has taken its place may have been demoted.
Written(a, p, u) ==
  IF assign[a].row = 0
  THEN [rows |-> memb[p][u].rows + 1, live |-> TRUE, primary |-> assign[a].primary]
  ELSE IF IsRow(p, u, assign[a].row)
       THEN [memb[p][u] EXCEPT !.primary = assign[a].primary]
       ELSE AfterDemotion(a, p, u)

AssignCommit(a) ==
  /\ assign[a].step = "ready"
  /\ ~Clashes(a)
  /\ \E p \in assign[a].person, u \in assign[a].unit :
       /\ assign[a].row # 0 => ~RowHeld(a, p, u)
       /\ assign[a].row = 0 => memb[p][u].rows < MaxRows
       /\ memb' = [memb EXCEPT ![p] = [v \in Units |->
            IF v = u THEN Written(a, p, u) ELSE AfterDemotion(a, p, v)]]
  /\ assign' = [b \in Admins |->
       IF b = a THEN NoRequest
       ELSE [assign[b] EXCEPT !.raced = @ \/ assign[b].person = assign[a].person]]
  /\ UNCHANGED unit

\* A unique violation (500), or a lost connection.
AssignFails(a) ==
  /\ assign[a].step # "idle"
  /\ assign' = [assign EXCEPT ![a] = NoRequest]
  /\ UNCHANGED <<unit, memb>>

\* Mutation: leaving deletes the row.
Deleted(m) == [m EXCEPT !.live = FALSE, !.rows = @ - 1]

\* left_at is set; the row and its primary flag stay.
Departed(m) == [m EXCEPT !.live = FALSE]

LeaveUnit(p, u) ==
  /\ Belongs(p, u)
  /\ ~\E a \in Admins : p \in assign[a].person /\ u \in assign[a].held
  /\ memb' = [memb EXCEPT ![p][u] = Departed(@)]
  /\ UNCHANGED <<unit, assign>>

OrgStep ==
  \/ \E u \in Units : CreateUnit(u) \/ DisableUnit(u) \/ RestoreUnit(u)
  \/ \E a \in Admins, p \in People, u \in Units, b \in BOOLEAN : AssignRead(a, p, u, b)
  \/ \E a \in Admins : \/ DemoteBegin(a) \/ DemoteEnd(a)
                       \/ AssignCommit(a) \/ AssignFails(a)
  \/ \E p \in People, u \in Units : LeaveUnit(p, u)

-----------------------------------------------------------------------------
(* What must hold.                                                           *)

\* "Setting a new primary demotes the previous one in the same transaction":
\* once it commits, the unit asked for is the person's only primary one, unless
\* the person left it while the request was under way (whoever was added again
\* meanwhile may then be left without a primary one).
SetPrimaryWins ==
  [][\A a \in Admins, p \in People, u \in Units :
       (AssignCommit(a) /\ assign[a].primary /\ p \in assign[a].person /\ u \in assign[a].unit)
         => \/ PrimaryUnits(p)' = {u}
            \/ assign[a].row # 0 /\ ~IsRow(p, u, assign[a].row)]_orgVars

\* "Demote first: the partial unique index allows only one primary per user":
\* the indexes refuse nothing an administrator asks for, unless another request
\* for that person was under way at the same time.
RefusedOnlyRaced == \A a \in Admins : Clashes(a) => assign[a].raced

\* Memberships stay what administrators asked for: nothing is refused and no
\* primary unit is other than asked, unless requests for one person raced.
MembershipHolds == [](OrgTypeOK /\ RefusedOnlyRaced) /\ SetPrimaryWins

=============================================================================
