------------------------- MODULE AdministrationProofs -------------------------
(* What holds of what administrators run, for any people, units, texts, sheets *)
(* and targets, and any number of everything: memberships, one announcement    *)
(* from its targets to its readers, the page its targets are chosen on, the    *)
(* secrets issued from a page, and the webhooks that are told.                 *)
(*                                                                             *)
(* Administration and WebhookDelivery share no state; every theorem is about   *)
(* the specification of one of them, AdminSpec or Spec.                        *)
EXTENDS Administration, WebhookDelivery, FiniteSetTheorems, SequenceTheorems,
        WellFoundedInduction, TLAPS

-----------------------------------------------------------------------------
(* Memberships.                                                            *)

LiveHasRow == \A p \in People, u \in Units : memb[p][u].live => memb[p][u].rows > 0

\* A request is about one person and one unit; only who asks for the primary unit
\* demotes.
OneAsked ==
  \A a \in Admins :
    /\ assign[a].step = "idle" => assign[a].person = {}
    /\ assign[a].step # "idle" =>
         \E p \in People, u \in Units : assign[a].person = {p} /\ assign[a].unit = {u}
    /\ assign[a].step \in {"read", "demoting"} => assign[a].primary

\* What the request read of the person is so still.
StillSo(a) ==
  \A p \in assign[a].person, u \in assign[a].unit :
    /\ assign[a].row = 0 => ~Belongs(p, u)
    /\ assign[a].step = "demoting" =>
         \A v \in PrimaryUnits(p) : <<v, memb[p][v].rows>> \in assign[a].saw
    /\ assign[a].step = "ready" /\ assign[a].primary => PrimaryUnits(p) \subseteq assign[a].held

OrgInv ==
  /\ OrgTypeOK /\ LiveHasRow /\ OneAsked
  /\ \A a \in Admins : assign[a].raced \/ StillSo(a)

LEMMA NoRequestType == NoRequest \in Request /\ NoRequest.step = "idle" /\ NoRequest.person = {}
  BY OrgUnitsAssumption DEF NoRequest, Request

LEMMA InitOrg == OrgInit => OrgInv
<1> SUFFICES ASSUME OrgInit PROVE OrgInv
  OBVIOUS
<1>1. Never \in Membership /\ ~Never.live
  BY OrgUnitsAssumption DEF Never, Membership
<1>2. /\ \A a \in Admins : assign[a] = NoRequest
      /\ \A p \in People, u \in Units : memb[p][u] = Never
  BY DEF OrgInit
<1>3. OrgTypeOK
  BY <1>1, NoRequestType DEF OrgInit, OrgTypeOK
<1>4. LiveHasRow /\ OneAsked /\ \A a \in Admins : StillSo(a)
  BY <1>1, <1>2, NoRequestType DEF LiveHasRow, OneAsked, StillSo
<1> QED BY <1>3, <1>4 DEF OrgInv

\* One request goes on.
LEMMA RequestMoves ==
  ASSUME OrgInv, NEW a \in Admins, NEW r \in Request, assign' = [assign EXCEPT ![a] = r],
         UNCHANGED <<unit, memb>>,
         r.step = "idle" => r.person = {},
         r.step # "idle" => \E p \in People, u \in Units : r.person = {p} /\ r.unit = {u},
         r.step \in {"read", "demoting"} => r.primary,
         assign'[a] = r => StillSo(a)' \/ r.raced
  PROVE  OrgInv'
<1>1. /\ assign' \in [Admins -> Request] /\ assign'[a] = r
      /\ \A b \in Admins \ {a} : assign'[b] = assign[b]
  BY DEF OrgInv, OrgTypeOK
<1>2. OrgTypeOK' /\ LiveHasRow'
  BY <1>1 DEF OrgInv, OrgTypeOK, LiveHasRow
<1>3. OneAsked'
  BY <1>1 DEF OrgInv, OneAsked
<1>4. ASSUME NEW b \in Admins PROVE assign'[b].raced \/ StillSo(b)'
  <2>1. CASE b = a
    BY <1>1, <2>1
  <2>2. CASE b # a
    <3>1. StillSo(b)' <=> StillSo(b)
      BY <1>1, <2>2 DEF StillSo, Belongs, PrimaryUnits
    <3> QED BY <1>1, <2>2, <3>1 DEF OrgInv
  <2> QED BY <2>1, <2>2
<1> QED BY <1>2, <1>3, <1>4 DEF OrgInv

LEMMA ReadOrg ==
  ASSUME OrgInv, NEW a \in Admins, NEW p \in People, NEW u \in Units, NEW b \in BOOLEAN,
         AssignRead(a, p, u, b)
  PROVE  OrgInv'
<1> DEFINE i == IF Belongs(p, u) THEN memb[p][u].rows ELSE 0
           step == IF b THEN "read" ELSE "ready"
           r == [NoRequest EXCEPT !.step = step, !.person = {p}, !.unit = {u},
                                  !.primary = b, !.row = i]
<1>1. assign' = [assign EXCEPT ![a] = r] /\ UNCHANGED <<unit, memb>>
  BY DEF AssignRead
<1>2. memb[p][u] \in Membership /\ (Belongs(p, u) => memb[p][u].rows > 0)
  BY DEF OrgInv, OrgTypeOK, LiveHasRow, Belongs
<1>3. i \in 0..MaxRows /\ (i = 0 => ~Belongs(p, u))
  BY <1>2, OrgUnitsAssumption DEF Membership
<1>4. step \in {"read", "ready"} /\ (step = "read" => b) /\ (step = "ready" => ~b)
  OBVIOUS
<1> HIDE DEF i, step
<1>5. /\ r \in Request /\ r.step \in {"read", "ready"} /\ (r.step = "read" => r.primary)
      /\ r.person = {p} /\ r.unit = {u}
      /\ r.row = 0 => ~Belongs(p, u)
      /\ r.step = "ready" => ~r.primary
  BY <1>3, <1>4 DEF NoRequest, Request
<1> HIDE DEF r
<1>6. assign'[a] = r => StillSo(a)'
  BY <1>1, <1>5 DEF StillSo, Belongs
<1> QED BY <1>1, <1>5, <1>6, RequestMoves

LEMMA DemoteOrg ==
  ASSUME OrgInv, NEW a \in Admins, DemoteBegin(a) \/ DemoteEnd(a)
  PROVE  OrgInv'
<1>1. /\ assign[a] \in Request /\ assign[a].step \in {"read", "demoting"}
      /\ assign[a].primary
  BY DEF OrgInv, OrgTypeOK, OneAsked, DemoteBegin, DemoteEnd
<1>2. PICK p \in People, u \in Units : assign[a].person = {p} /\ assign[a].unit = {u}
  BY <1>1 DEF OrgInv, OneAsked
<1>3. \A v \in PrimaryUnits(p) : v \in Units /\ memb[p][v].rows \in 1..MaxRows
  BY OrgUnitsAssumption DEF PrimaryUnits, OrgInv, OrgTypeOK, LiveHasRow, Membership
<1>4. CASE DemoteBegin(a)
  <2> DEFINE s == {<<v, memb[p][v].rows>> : v \in PrimaryUnits(p)}
             r == [assign[a] EXCEPT !.step = "demoting", !.saw = s]
  <2>0. /\ assign' = [assign EXCEPT ![a].step = "demoting", ![a].saw = s]
        /\ UNCHANGED <<unit, memb>>
    BY <1>2, <1>4 DEF DemoteBegin
  <2>2. s \in SUBSET (Units \X (1..MaxRows)) /\ \A v \in PrimaryUnits(p) : <<v, memb[p][v].rows>> \in s
    BY <1>3
  <2> HIDE DEF s
  <2>1. assign' = [assign EXCEPT ![a] = r] /\ UNCHANGED <<unit, memb>>
    BY <2>0 DEF OrgInv, OrgTypeOK
  <2>3. /\ r \in Request /\ r.step = "demoting" /\ r.saw = s /\ r.primary = assign[a].primary
        /\ r.person = {p} /\ r.unit = {u} /\ r.row = assign[a].row /\ r.raced = assign[a].raced
    BY <1>1, <1>2, <2>2 DEF Request
  <2> HIDE DEF r
  <2>4. assign'[a] = r => StillSo(a)' \/ r.raced
    <3>1. assign[a].raced \/ (r.row = 0 => ~Belongs(p, u))
      BY <1>2, <2>3 DEF OrgInv, StillSo
    <3> QED BY <2>1, <2>2, <2>3, <3>1 DEF StillSo, Belongs, PrimaryUnits
  <2> QED BY <1>1, <2>1, <2>3, <2>4, RequestMoves
<1>5. CASE DemoteEnd(a)
  <2> DEFINE h == {v \in PrimaryUnits(p) : <<v, memb[p][v].rows>> \in assign[a].saw}
             r == [assign[a] EXCEPT !.step = "ready", !.held = h]
  <2>1. assign' = [assign EXCEPT ![a] = r] /\ UNCHANGED <<unit, memb>>
        /\ assign[a].step = "demoting"
    BY <1>2, <1>5 DEF DemoteEnd, OrgInv, OrgTypeOK
  <2>2. h \in SUBSET Units
    BY <1>3
  <2>3. assign[a].raced \/ PrimaryUnits(p) \subseteq h
    BY <1>2, <2>1 DEF OrgInv, StillSo
  <2> HIDE DEF h
  <2>4. /\ r \in Request /\ r.step = "ready" /\ r.held = h /\ r.primary = assign[a].primary
        /\ r.person = {p} /\ r.unit = {u} /\ r.row = assign[a].row /\ r.raced = assign[a].raced
    BY <1>1, <1>2, <2>2 DEF Request
  <2> HIDE DEF r
  <2>5. assign'[a] = r => StillSo(a)' \/ r.raced
    <3>1. assign[a].raced \/ (r.row = 0 => ~Belongs(p, u))
      BY <1>2, <2>4 DEF OrgInv, StillSo
    <3> QED BY <2>1, <2>3, <2>4, <3>1 DEF StillSo, Belongs, PrimaryUnits
  <2> QED BY <1>1, <2>1, <2>4, <2>5, RequestMoves
<1> QED BY <1>4, <1>5

\* What a request writes when it commits.
LEMMA CommitWrites ==
  ASSUME OrgInv, NEW a \in Admins, AssignCommit(a)
  PROVE  \E p \in People, u \in Units :
    /\ assign[a].person = {p} /\ assign[a].unit = {u}
    /\ memb' \in [People -> [Units -> Membership]]
    /\ \A q \in People \ {p} : memb'[q] = memb[q]
    /\ memb'[p][u] = Written(a, p, u)
    /\ \A v \in Units \ {u} :
         /\ memb'[p][v].live = memb[p][v].live /\ memb'[p][v].rows = memb[p][v].rows
         /\ v \in assign[a].held => ~memb'[p][v].primary
         /\ v \notin assign[a].held => memb'[p][v] = memb[p][v]
    /\ memb'[p][u].rows >= memb[p][u].rows
    /\ memb'[p][u].live => memb'[p][u].rows > 0
<1>1. assign[a].step = "ready" /\ assign[a] \in Request
  BY DEF AssignCommit, OrgInv, OrgTypeOK
<1>2. PICK p \in People, u \in Units : assign[a].person = {p} /\ assign[a].unit = {u}
  BY <1>1 DEF OrgInv, OneAsked
<1> DEFINE W == Written(a, p, u)
           R == [v \in Units |-> IF v = u THEN W
                                 ELSE IF v \in assign[a].held THEN [memb[p][v] EXCEPT !.primary = FALSE]
                                      ELSE memb[p][v]]
<1>3. memb' = [memb EXCEPT ![p] = R] /\ (assign[a].row = 0 => memb[p][u].rows < MaxRows)
  BY <1>2 DEF AssignCommit, AfterDemotion
<1>4. /\ memb[p] \in [Units -> Membership] /\ memb[p][u] \in Membership
      /\ memb[p][u].live => memb[p][u].rows > 0
  BY DEF OrgInv, OrgTypeOK, LiveHasRow
<1>5. W \in Membership /\ W.rows >= memb[p][u].rows /\ (W.live => W.rows > 0)
  <2>1. CASE assign[a].row = 0
    <3>1. W = [rows |-> memb[p][u].rows + 1, live |-> TRUE, primary |-> assign[a].primary]
      BY <2>1 DEF Written
    <3> QED BY <1>1, <1>3, <1>4, <2>1, <3>1, OrgUnitsAssumption DEF Membership, Request
  <2>2. CASE assign[a].row # 0
    <3>1. W \in {memb[p][u], [memb[p][u] EXCEPT !.primary = assign[a].primary],
                 [memb[p][u] EXCEPT !.primary = FALSE]}
      BY <2>2 DEF Written, AfterDemotion
    <3>2. \A b \in BOOLEAN : LET m == [memb[p][u] EXCEPT !.primary = b]
                            IN  m \in Membership /\ m.rows = memb[p][u].rows /\ m.live = memb[p][u].live
      BY <1>4 DEF Membership
    <3>3. assign[a].primary \in BOOLEAN
      BY <1>1 DEF Request
    <3>4. W \in Membership /\ W.rows = memb[p][u].rows /\ W.live = memb[p][u].live
      BY <1>4, <3>1, <3>2, <3>3
    <3> QED BY <1>4, <3>4 DEF Membership
  <2> QED BY <2>1, <2>2
<1> HIDE DEF W
<1>6. /\ R \in [Units -> Membership] /\ R[u] = W
      /\ \A v \in Units \ {u} :
           /\ R[v].live = memb[p][v].live /\ R[v].rows = memb[p][v].rows
           /\ v \in assign[a].held => ~R[v].primary
           /\ v \notin assign[a].held => R[v] = memb[p][v]
  BY <1>4, <1>5 DEF Membership
<1> HIDE DEF R
<1>7. /\ memb' \in [People -> [Units -> Membership]] /\ memb'[p] = R
      /\ \A q \in People \ {p} : memb'[q] = memb[q]
  BY <1>3, <1>6 DEF OrgInv, OrgTypeOK
<1> QED BY <1>2, <1>5, <1>6, <1>7 DEF W

LEMMA CommitOrg ==
  ASSUME OrgInv, NEW a \in Admins, AssignCommit(a)
  PROVE  OrgInv'
<1>1. PICK p \in People, u \in Units :
    /\ assign[a].person = {p} /\ assign[a].unit = {u}
    /\ memb' \in [People -> [Units -> Membership]]
    /\ \A q \in People \ {p} : memb'[q] = memb[q]
    /\ \A v \in Units \ {u} :
         /\ memb'[p][v].live = memb[p][v].live /\ memb'[p][v].rows = memb[p][v].rows
    /\ memb'[p][u].live => memb'[p][u].rows > 0
  BY CommitWrites
<1>2. ASSUME NEW b \in Admins \ {a}
      PROVE  /\ assign'[b] \in Request /\ assign'[b].step = assign[b].step
             /\ assign'[b].person = assign[b].person /\ assign'[b].unit = assign[b].unit
             /\ assign'[b].primary = assign[b].primary /\ assign'[b].row = assign[b].row
             /\ assign'[b].saw = assign[b].saw /\ assign'[b].held = assign[b].held
             /\ assign'[b].raced \/ (~assign[b].raced /\ assign[b].person # {p})
  <2> DEFINE x == assign[b].raced \/ assign[b].person = assign[a].person
  <2>1. assign'[b] = [assign[b] EXCEPT !.raced = x] /\ assign[b] \in Request
    BY <1>2 DEF AssignCommit, OrgInv, OrgTypeOK
  <2>2. x \in BOOLEAN /\ (x \/ (~assign[b].raced /\ assign[b].person # {p}))
    BY <1>1, Zenon
  <2> HIDE DEF x
  <2> QED BY <2>1, <2>2 DEF Request
<1>3. assign'[a] = NoRequest /\ assign' \in [Admins -> Request]
  BY <1>2, NoRequestType DEF AssignCommit
<1>4. OrgTypeOK'
  BY <1>1, <1>3 DEF AssignCommit, OrgInv, OrgTypeOK
<1>5. LiveHasRow'
  BY <1>1 DEF OrgInv, LiveHasRow
<1>6. OneAsked'
  BY <1>2, <1>3, NoRequestType DEF OrgInv, OneAsked
<1>7. ASSUME NEW b \in Admins PROVE assign'[b].raced \/ StillSo(b)'
  <2>1. CASE b = a
    BY <1>3, <2>1, NoRequestType DEF StillSo
  <2>2. CASE b # a /\ ~assign'[b].raced
    <3>1. ~assign[b].raced /\ p \notin assign[b].person
      <4>1. assign[b].person = {} \/ \E q \in People : assign[b].person = {q}
        BY <1>2, <2>2 DEF OrgInv, OneAsked
      <4> QED BY <1>2, <2>2, <4>1
    <3>2. StillSo(b)
      BY <3>1 DEF OrgInv
    <3>3. assign[b].person \subseteq People \ {p}
      BY <3>1 DEF OrgInv, OneAsked
    <3> QED BY <1>1, <1>2, <2>2, <3>2, <3>3 DEF StillSo, Belongs, PrimaryUnits
  <2> QED BY <2>1, <2>2
<1> QED BY <1>4, <1>5, <1>6, <1>7 DEF OrgInv

LEMMA LeaveOrg ==
  ASSUME OrgInv, NEW p \in People, NEW u \in Units, LeaveUnit(p, u)
  PROVE  OrgInv' /\ \A q \in People, v \in Units : memb'[q][v].rows = memb[q][v].rows
<1>1. /\ memb' = [memb EXCEPT ![p][u] = Departed(memb[p][u])] /\ UNCHANGED <<unit, assign>>
  BY DEF LeaveUnit, OrgInv, OrgTypeOK
<1>2. /\ memb[p] \in [Units -> Membership] /\ memb[p][u] \in Membership
  BY DEF OrgInv, OrgTypeOK
<1>3. /\ Departed(memb[p][u]) \in Membership /\ ~Departed(memb[p][u]).live
      /\ Departed(memb[p][u]).rows = memb[p][u].rows
  BY <1>2 DEF Departed, Membership
<1>4. /\ memb' \in [People -> [Units -> Membership]]
      /\ \A q \in People, v \in Units :
           /\ memb'[q][v].rows = memb[q][v].rows
           /\ memb'[q][v] = memb[q][v] \/ ~memb'[q][v].live
  BY <1>1, <1>2, <1>3 DEF OrgInv, OrgTypeOK
<1>5. OrgTypeOK' /\ LiveHasRow' /\ OneAsked'
  BY <1>1, <1>4 DEF OrgInv, OrgTypeOK, LiveHasRow, OneAsked
<1>6. ASSUME NEW b \in Admins PROVE assign'[b].raced \/ StillSo(b)'
  <2>1. assign[b].person \subseteq People /\ assign[b].unit \subseteq Units
    BY DEF OrgInv, OrgTypeOK, Request
  <2> QED BY <1>1, <1>4, <2>1 DEF OrgInv, StillSo, Belongs, PrimaryUnits
<1> QED BY <1>4, <1>5, <1>6 DEF OrgInv

LEMMA OrgStepHolds ==
  ASSUME OrgInv, OrgStep
  PROVE  OrgInv' /\ \A q \in People, v \in Units : memb'[q][v].rows >= memb[q][v].rows
<1>0. \A q \in People, v \in Units : memb[q][v].rows \in Nat
  BY OrgUnitsAssumption DEF OrgInv, OrgTypeOK, Membership
<1>1. ASSUME NEW u \in Units, CreateUnit(u) \/ DisableUnit(u) \/ RestoreUnit(u)
      PROVE  OrgInv' /\ UNCHANGED memb
  <2>1. unit' \in [Units -> {"none", "open", "closed"}] /\ UNCHANGED <<memb, assign>>
    BY <1>1 DEF CreateUnit, DisableUnit, RestoreUnit, MoveUnit, OrgInv, OrgTypeOK
  <2> QED BY <2>1 DEF OrgInv, OrgTypeOK, LiveHasRow, OneAsked, StillSo, Belongs, PrimaryUnits
<1>2. ASSUME NEW a \in Admins, AssignFails(a) PROVE OrgInv' /\ UNCHANGED memb
  <2>1. assign' = [assign EXCEPT ![a] = NoRequest] /\ UNCHANGED <<unit, memb>>
    BY <1>2 DEF AssignFails
  <2>2. assign'[a] = NoRequest => StillSo(a)'
    BY NoRequestType DEF StillSo
  <2> QED BY <2>1, <2>2, NoRequestType, RequestMoves
<1>3. ASSUME NEW a \in Admins, NEW p \in People, NEW u \in Units, NEW b \in BOOLEAN,
             AssignRead(a, p, u, b)
      PROVE  OrgInv' /\ UNCHANGED memb
  <2>1. OrgInv'
    BY <1>3, ReadOrg
  <2>2. UNCHANGED memb
    BY <1>3 DEF AssignRead
  <2> QED BY <2>1, <2>2
<1>4. ASSUME NEW a \in Admins, DemoteBegin(a) \/ DemoteEnd(a)
      PROVE  OrgInv' /\ UNCHANGED memb
  BY <1>4, DemoteOrg DEF DemoteBegin, DemoteEnd
<1>5. ASSUME NEW a \in Admins, AssignCommit(a)
      PROVE  OrgInv' /\ \A q \in People, v \in Units : memb'[q][v].rows >= memb[q][v].rows
  <2>1. PICK p \in People, u \in Units :
          /\ \A q \in People \ {p} : memb'[q] = memb[q]
          /\ \A v \in Units \ {u} : memb'[p][v].rows = memb[p][v].rows
          /\ memb'[p][u].rows >= memb[p][u].rows
    BY <1>5, CommitWrites
  <2> QED BY <1>0, <1>5, <2>1, CommitOrg
<1>6. ASSUME NEW p \in People, NEW u \in Units, LeaveUnit(p, u)
      PROVE  OrgInv' /\ \A q \in People, v \in Units : memb'[q][v].rows >= memb[q][v].rows
  BY <1>0, <1>6, LeaveOrg
<1> QED BY <1>0, <1>1, <1>2, <1>3, <1>4, <1>5, <1>6 DEF OrgStep

LEMMA NextOrg == OrgInv /\ [AdminNext]_adminVars => OrgInv'
<1> SUFFICES ASSUME OrgInv, [AdminNext]_adminVars PROVE OrgInv'
  OBVIOUS
<1>1. CASE UNCHANGED orgVars
  BY <1>1 DEF orgVars, OrgInv, OrgTypeOK, LiveHasRow, OneAsked, StillSo, Belongs, PrimaryUnits
<1>2. CASE OrgStep \/ \E p \in People, u \in Units : LeaveUnit(p, u)
  BY <1>2, OrgStepHolds, LeaveOrg
<1> QED BY <1>1, <1>2 DEF AdminNext, adminVars, contentVars, ContentStep, SetTargets, Publish,
   Revise, PutPara, ImportBegin, ImportCommit, ImportFails, AskSelect, AskCommit, AskFails,
   Look, Acknowledge, DisablePerson, RestorePerson, StatsCount, StatsNames

\* Memberships stay what administrators asked for, for any people, units and
\* number of requests at the same time: nothing is refused and no primary unit
\* is other than asked, unless requests for one person raced.
THEOREM MembershipAlwaysHolds == AdminSpec => MembershipHolds
<1>1. AdminInit => OrgInv
  BY InitOrg DEF AdminInit, ContentInit
<1>2. OrgInv => OrgTypeOK /\ RefusedOnlyRaced
  <2> SUFFICES ASSUME OrgInv, NEW a \in Admins, Clashes(a) PROVE assign[a].raced
    BY DEF OrgInv, RefusedOnlyRaced
  <2>1. assign[a].step = "ready"
    BY DEF Clashes
  <2> QED BY <2>1 DEF Clashes, Demoted, OrgInv, StillSo
<1>3. OrgInv /\ [AdminNext]_adminVars =>
        [\A a \in Admins, p \in People, u \in Units :
           (AssignCommit(a) /\ assign[a].primary /\ p \in assign[a].person /\ u \in assign[a].unit)
             => \/ PrimaryUnits(p)' = {u}
                \/ assign[a].row # 0 /\ ~IsRow(p, u, assign[a].row)]_orgVars
  <2> SUFFICES ASSUME OrgInv, NEW a \in Admins, NEW p \in People, NEW u \in Units,
                      AssignCommit(a), assign[a].primary,
                      p \in assign[a].person, u \in assign[a].unit,
                      assign[a].row # 0 => IsRow(p, u, assign[a].row)
               PROVE  PrimaryUnits(p)' = {u}
    OBVIOUS
  <2>1. /\ memb'[p][u] = Written(a, p, u)
        /\ \A v \in Units \ {u} :
             /\ memb'[p][v].live = memb[p][v].live
             /\ v \in assign[a].held => ~memb'[p][v].primary
             /\ v \notin assign[a].held => memb'[p][v] = memb[p][v]
    BY CommitWrites
  <2>2. Written(a, p, u).live /\ Written(a, p, u).primary
    <3>1. memb[p][u] \in Membership
      BY DEF OrgInv, OrgTypeOK
    <3>2. CASE assign[a].row = 0
      BY <3>2 DEF Written
    <3>3. CASE assign[a].row # 0
      BY <3>1, <3>3 DEF Written, IsRow, Membership
    <3> QED BY <3>2, <3>3
  <2>3. PrimaryUnits(p) \subseteq assign[a].held \cup {u}
    BY DEF AssignCommit, Clashes, Demoted
  <2> QED BY <2>1, <2>2, <2>3 DEF PrimaryUnits
<1> QED BY <1>1, <1>2, <1>3, NextOrg, PTL DEF AdminSpec, MembershipHolds, SetPrimaryWins

-----------------------------------------------------------------------------
(* What a sheet makes of the paragraphs.                                   *)

\* What holds of zero, and of the next number with each, holds of all.
LEMMA AllNumbers ==
  ASSUME NEW S, 0 \in S, \A n \in Nat : n \in S => n + 1 \in S
  PROVE  Nat \subseteq S
<1> SUFFICES ASSUME Nat \ S # {} PROVE FALSE
  OBVIOUS
<1> DEFINE R == OpToRel(<, Nat)
<1>1. Nat \ S \subseteq Nat /\ IsWellFoundedOn(R, Nat)
  BY NatLessThanWellFounded
<1> HIDE DEF R
<1>2. PICK n \in Nat \ S : \A m \in Nat \ S : <<m, n>> \notin R
  BY <1>1, WFMin
<1>3. n # 0 /\ n - 1 \in Nat
  BY <1>2
<1>4. n - 1 \notin S
  BY <1>2, <1>3
<1>5. <<n - 1, n>> \in R
  BY <1>3 DEF R, OpToRel
<1> QED BY <1>2, <1>3, <1>4, <1>5

Follows(sheet, m, f) ==
  f = [n \in 0..m |-> IF n = 0 THEN para ELSE WriteRow(sheet[n], f[n - 1])]

LEMMA RowsExist ==
  ASSUME NEW sheet
  PROVE  \A m \in Nat : \E f : Follows(sheet, m, f)
<1> DEFINE S == {m \in Nat : \E f : Follows(sheet, m, f)}
<1>1. 0 \in S
  <2> DEFINE f == [n \in 0..0 |-> para]
  <2>1. f = [n \in 0..0 |-> IF n = 0 THEN para ELSE WriteRow(sheet[n], f[n - 1])]
    OBVIOUS
  <2> QED BY <2>1 DEF Follows
<1>2. ASSUME NEW m \in Nat, m \in S PROVE m + 1 \in S
  <2>1. PICK f : Follows(sheet, m, f)
    BY <1>2
  <2> DEFINE g == [n \in 0..(m + 1) |-> IF n <= m THEN f[n] ELSE WriteRow(sheet[m + 1], f[m])]
  <2>2. \A n \in 0..m : f[n] = IF n = 0 THEN para ELSE WriteRow(sheet[n], f[n - 1])
    BY <2>1 DEF Follows
  <2>3. ASSUME NEW n \in 0..(m + 1)
        PROVE  g[n] = IF n = 0 THEN para ELSE WriteRow(sheet[n], g[n - 1])
    <3>1. CASE n = 0
      BY <2>2, <3>1
    <3>2. CASE n \in 1..m
      <4>1. n \in 0..m /\ n - 1 \in 0..m /\ n # 0 /\ n <= m /\ n - 1 <= m
        BY <3>2
      <4>2. g[n] = f[n] /\ g[n - 1] = f[n - 1]
        BY <4>1
      <4> HIDE DEF g
      <4> QED BY <2>2, <4>1, <4>2
    <3>3. CASE n = m + 1
      <4>1. m + 1 \in 0..(m + 1) /\ m \in 0..(m + 1) /\ ~(m + 1 <= m) /\ m + 1 # 0 /\ (m + 1) - 1 = m
        OBVIOUS
      <4>2. g[m + 1] = WriteRow(sheet[m + 1], f[m]) /\ g[m] = f[m]
        BY <4>1
      <4> HIDE DEF g
      <4> QED BY <3>3, <4>1, <4>2
    <3> QED BY <3>1, <3>2, <3>3
  <2>4. DOMAIN g = 0..(m + 1) /\ g = [n \in 0..(m + 1) |-> g[n]]
    OBVIOUS
  <2> HIDE DEF g
  <2>5. g = [n \in 0..(m + 1) |-> IF n = 0 THEN para ELSE WriteRow(sheet[n], g[n - 1])]
    BY <2>3, <2>4
  <2> QED BY <2>5 DEF Follows
<1> HIDE DEF S
<1>3. Nat \subseteq S
  BY <1>1, <1>2, AllNumbers
<1> QED BY <1>3 DEF S

\* The paragraphs after the first rows, and after each of the others.
LEMMA RowAfterRow ==
  ASSUME NEW sheet, Len(sheet) \in Nat
  PROVE  /\ AfterRows(sheet)[0] = para
         /\ \A n \in 1..Len(sheet) :
              AfterRows(sheet)[n] = WriteRow(sheet[n], AfterRows(sheet)[n - 1])
<1> DEFINE m == Len(sheet)
<1>1. \E f : Follows(sheet, m, f)
  BY RowsExist
<1>2. AfterRows(sheet) = CHOOSE f : Follows(sheet, m, f)
  BY DEF AfterRows, Follows
<1>3. Follows(sheet, m, AfterRows(sheet))
  BY <1>1, <1>2
<1> QED BY <1>3 DEF Follows

-----------------------------------------------------------------------------
(* An announcement and what people are asked.                              *)

ContentShape ==
  /\ active \subseteq People /\ recipients \subseteq People /\ target \subseteq Targets
  /\ because \in [People -> SUBSET Units]
  /\ revision \in 1..MaxRevisions /\ published \in 0..revision
  /\ para \in [People -> Seq(Texts)] /\ \A p \in People : Len(para[p]) <= MaxVersions
  /\ obl \in [People -> Seq(Obligation)] /\ \A p \in People : Len(obl[p]) <= MaxObligations
  /\ page \in [People -> Screen]
  /\ import \in [on : BOOLEAN, sheet : Sheets \cup {<<>>}, major : BOOLEAN]
  /\ ask \in [on : BOOLEAN, rev : 0..MaxRevisions, at : [People -> 0..MaxObligations],
              para : [People -> 0..MaxVersions], moved : BOOLEAN]
  /\ stats \in [on : BOOLEAN, pending : 0..Cardinality(People), moved : BOOLEAN]

\* Nobody is asked before it is published.
Unpublished == published = 0 => recipients = {} /\ \A p \in People : obl[p] = <<>>

\* Nobody was asked for what is not written or not published yet.
AskedForWritten ==
  \A p \in People : \A i \in DOMAIN obl[p] :
    obl[p][i].rev <= published /\ obl[p][i].para <= Len(para[p])

\* A screen shows nothing older than what its reader had been asked for by then.
ScreenFollows ==
  \A p \in People :
    /\ page[p].seen <= Len(obl[p])
    /\ \A i \in DOMAIN obl[p] : i <= page[p].seen =>
         obl[p][i].rev <= page[p].rev /\ obl[p][i].para <= page[p].para

OneLive == \A p \in People : \A i, j \in LiveOf(p) : i = j

\* A re-acknowledgement holds what is live, and asks for what is current unless a
\* text changed meanwhile.
AskFollows ==
  ask.on =>
    /\ ask.rev # 0 /\ ask.rev <= published
    /\ \A p \in People :
         /\ ask.para[p] <= Len(para[p])
         /\ ask.at[p] # 0 => ask.at[p] \in DOMAIN obl[p] /\ LiveOf(p) \subseteq {ask.at[p]}
    /\ ~ask.moved => /\ ask.rev = published
                     /\ \A p \in People : ask.at[p] # 0 => ask.para[p] = Len(para[p])

ContentInv ==
  /\ ContentShape /\ Unpublished /\ AskedForWritten /\ ScreenFollows /\ ShownNotOlder
  /\ OneLive /\ AskFollows /\ FiguresAgree /\ Explainable

\* n is the obligation o, but that the screen s may have been confirmed for it.
KeptBut(o, n, s) ==
  /\ n.rev = o.rev /\ n.para = o.para
  /\ n.shown = s \/ (n.acked = o.acked /\ n.shown = o.shown)

\* ns is os and perhaps more that ask for r and j.
Continues(os, ns, s, r, j) ==
  /\ Len(os) <= Len(ns)
  /\ \A k \in 1..Len(os) : KeptBut(os[k], ns[k], s)
  /\ \A k \in (Len(os) + 1)..Len(ns) : ns[k].rev = r /\ ns[k].para = j /\ ~ns[k].acked

LEMMA FunIsSeq ==
  ASSUME NEW S, NEW n \in Nat, NEW f \in [1..n -> S]
  PROVE  f \in Seq(S) /\ Len(f) = n /\ DOMAIN f = 1..n
  OBVIOUS

LEMMA OneSeq ==
  ASSUME NEW S, NEW e \in S
  PROVE  <<e>> \in Seq(S) /\ Len(<<e>>) = 1 /\ DOMAIN <<e>> = 1..1 /\ <<e>>[1] = e
  OBVIOUS

LEMMA NewType ==
  ASSUME NEW r \in 1..MaxRevisions, NEW j \in 0..MaxVersions
  PROVE  /\ NewObligation(r, j) \in Obligation
         /\ NewObligation(r, j).rev = r /\ NewObligation(r, j).para = j
         /\ ~NewObligation(r, j).acked /\ Live(NewObligation(r, j))
  BY ContentAssumption DEF NewObligation, Obligation, NoScreen, Screen, Live

\* What is superseded goes, and one more is asked for.
LEMMA ReplacedIs ==
  ASSUME NEW os \in Seq(Obligation), NEW i \in DOMAIN os,
         NEW r \in 1..MaxRevisions, NEW j \in 0..MaxVersions, NEW s
  PROVE  /\ Replaced(os, i, r, j) \in Seq(Obligation)
         /\ Len(Replaced(os, i, r, j)) = Len(os) + 1
         /\ Continues(os, Replaced(os, i, r, j), s, r, j)
         /\ Replaced(os, i, r, j)[Len(os) + 1] = NewObligation(r, j)
         /\ \A k \in 1..Len(os) : Live(Replaced(os, i, r, j)[k]) => Live(os[k]) /\ k # i
<1> DEFINE o == [os[i] EXCEPT !.gone = TRUE]
           q == [os EXCEPT ![i] = o]
           n == NewObligation(r, j)
           ns == Append(q, n)
<1>1. Len(os) \in Nat /\ DOMAIN os = 1..Len(os) /\ os[i] \in Obligation
  OBVIOUS
<1>2. /\ o \in Obligation /\ ~Live(o) /\ o.rev = os[i].rev /\ o.para = os[i].para
      /\ o.acked = os[i].acked /\ o.shown = os[i].shown
  BY <1>1 DEF Obligation, Live
<1>3. n \in Obligation /\ n.rev = r /\ n.para = j /\ ~n.acked
  BY NewType
<1> HIDE DEF o, n
<1>4. /\ q \in Seq(Obligation) /\ Len(q) = Len(os) /\ q[i] = o
      /\ \A k \in 1..Len(os) : k # i => q[k] = os[k]
  BY <1>1, <1>2
<1> HIDE DEF q
<1>5. /\ ns \in Seq(Obligation) /\ Len(ns) = Len(os) + 1 /\ ns[Len(os) + 1] = n
      /\ \A k \in 1..Len(os) : ns[k] = q[k]
  BY <1>1, <1>3, <1>4
<1>6. Replaced(os, i, r, j) = ns
  BY DEF Replaced, ns, q, o, n
<1> HIDE DEF ns
<1>7. Continues(os, ns, s, r, j)
  <2>1. \A k \in 1..Len(os) : KeptBut(os[k], ns[k], s)
    BY <1>2, <1>4, <1>5 DEF KeptBut
  <2>2. \A k \in (Len(os) + 1)..Len(ns) : k = Len(os) + 1
    BY <1>1, <1>5
  <2> QED BY <1>1, <1>3, <1>5, <2>1, <2>2 DEF Continues
<1>8. \A k \in 1..Len(os) : Live(ns[k]) => Live(os[k]) /\ k # i
  BY <1>2, <1>4, <1>5
<1> QED BY <1>5, <1>6, <1>7, <1>8 DEF n

LEMMA LiveOne ==
  ASSUME ContentShape, OneLive, NEW p \in People
  PROVE  /\ LiveOf(p) \subseteq DOMAIN obl[p] /\ DOMAIN obl[p] \subseteq 1..MaxObligations
         /\ LiveOf(p) # {} => LiveAt(p) \in LiveOf(p) /\ LiveOf(p) = {LiveAt(p)}
<1>1. LiveOf(p) \subseteq DOMAIN obl[p]
  BY DEF LiveOf
<1>2. obl[p] \in Seq(Obligation) /\ Len(obl[p]) <= MaxObligations /\ MaxObligations \in Nat
  BY ContentAssumption DEF ContentShape
<1>3. LiveOf(p) # {} => LiveAt(p) \in LiveOf(p)
  BY DEF LiveAt
<1> QED BY <1>1, <1>2, <1>3 DEF OneLive

\* What the readers' part of the invariant needs of a step.
LEMMA ReadersHold ==
  ASSUME ContentShape, AskedForWritten, ScreenFollows, ShownNotOlder, ContentShape',
         page' = page, published <= published',
         \A p \in People : Len(para[p]) <= Len(para'[p]),
         \A p \in People : \E r, j :
           /\ Continues(obl[p], obl'[p], page[p], r, j)
           /\ Len(obl'[p]) > Len(obl[p]) => r <= published' /\ j <= Len(para'[p])
  PROVE  AskedForWritten' /\ ScreenFollows' /\ ShownNotOlder'
<1> SUFFICES ASSUME NEW p \in People
             PROVE  /\ \A i \in DOMAIN obl'[p] :
                         obl'[p][i].rev <= published' /\ obl'[p][i].para <= Len(para'[p])
                    /\ page[p].seen <= Len(obl'[p])
                    /\ \A i \in DOMAIN obl'[p] : i <= page[p].seen =>
                         obl'[p][i].rev <= page[p].rev /\ obl'[p][i].para <= page[p].para
                    /\ \A i \in DOMAIN obl'[p] :
                         obl'[p][i].acked /\ obl'[p][i].shown.seen >= i =>
                           /\ obl'[p][i].shown.rev >= obl'[p][i].rev
                           /\ obl'[p][i].shown.para >= obl'[p][i].para
  BY DEF AskedForWritten, ScreenFollows, ShownNotOlder
<1>1. PICK r, j : /\ Continues(obl[p], obl'[p], page[p], r, j)
                  /\ Len(obl'[p]) > Len(obl[p]) => r <= published' /\ j <= Len(para'[p])
  OBVIOUS
<1>2. /\ obl[p] \in Seq(Obligation) /\ obl'[p] \in Seq(Obligation)
      /\ Len(obl[p]) \in Nat /\ Len(obl'[p]) \in Nat /\ Len(obl[p]) <= Len(obl'[p])
      /\ DOMAIN obl[p] = 1..Len(obl[p]) /\ DOMAIN obl'[p] = 1..Len(obl'[p])
      /\ Len(para[p]) \in Nat /\ Len(para'[p]) \in Nat
      /\ published \in Nat /\ published' \in Nat /\ page[p] \in Screen
  BY <1>1, ContentAssumption DEF ContentShape, Continues
<1>3. /\ page[p].seen \in Nat /\ page[p].rev \in Nat /\ page[p].para \in Nat
  BY <1>2, ContentAssumption DEF Screen
<1>4. ASSUME NEW i \in DOMAIN obl'[p], i \in DOMAIN obl[p]
      PROVE  /\ obl'[p][i].rev <= published' /\ obl'[p][i].para <= Len(para'[p])
             /\ i <= page[p].seen =>
                  obl'[p][i].rev <= page[p].rev /\ obl'[p][i].para <= page[p].para
             /\ obl'[p][i].acked /\ obl'[p][i].shown.seen >= i =>
                  /\ obl'[p][i].shown.rev >= obl'[p][i].rev
                  /\ obl'[p][i].shown.para >= obl'[p][i].para
  <2>1. KeptBut(obl[p][i], obl'[p][i], page[p])
    BY <1>1, <1>2, <1>4 DEF Continues
  <2>2. obl[p][i].rev \in Nat /\ obl[p][i].para \in Nat
    <3>1. obl[p][i] \in Obligation
      BY <1>2, <1>4
    <3> QED BY <3>1, ContentAssumption DEF Obligation
  <2>3. /\ obl[p][i].rev <= published /\ obl[p][i].para <= Len(para[p])
        /\ i <= page[p].seen =>
             obl[p][i].rev <= page[p].rev /\ obl[p][i].para <= page[p].para
        /\ obl[p][i].acked /\ obl[p][i].shown.seen >= i =>
             /\ obl[p][i].shown.rev >= obl[p][i].rev
             /\ obl[p][i].shown.para >= obl[p][i].para
    BY <1>4 DEF AskedForWritten, ScreenFollows, ShownNotOlder
  <2>4. i \in Nat
    BY <1>2
  <2>5. /\ obl'[p][i].rev = obl[p][i].rev /\ obl'[p][i].para = obl[p][i].para
        /\ \/ obl'[p][i].shown = page[p]
           \/ obl'[p][i].acked = obl[p][i].acked /\ obl'[p][i].shown = obl[p][i].shown
    BY <2>1 DEF KeptBut
  <2>6. obl'[p][i].rev <= published' /\ obl'[p][i].para <= Len(para'[p])
    BY <1>2, <2>2, <2>3, <2>5
  <2>7. CASE obl'[p][i].shown = page[p]
    BY <1>3, <2>3, <2>4, <2>5, <2>6, <2>7
  <2>8. CASE obl'[p][i].acked = obl[p][i].acked /\ obl'[p][i].shown = obl[p][i].shown
    BY <2>3, <2>5, <2>6, <2>8
  <2> QED BY <2>5, <2>7, <2>8
<1>5. ASSUME NEW i \in DOMAIN obl'[p], i \notin DOMAIN obl[p]
      PROVE  /\ obl'[p][i].rev <= published' /\ obl'[p][i].para <= Len(para'[p])
             /\ ~(i <= page[p].seen) /\ ~obl'[p][i].acked
  <2>1. i \in (Len(obl[p]) + 1)..Len(obl'[p]) /\ Len(obl'[p]) > Len(obl[p])
    BY <1>2, <1>5
  <2>2. page[p].seen <= Len(obl[p])
    BY DEF ScreenFollows
  <2> QED BY <1>1, <1>2, <1>3, <2>1, <2>2 DEF Continues
<1>6. page[p].seen <= Len(obl'[p])
  BY <1>2, <1>3 DEF ScreenFollows
<1> QED BY <1>4, <1>5, <1>6

\* Counting says that the figures may have moved; without it they stand.
LEMMA CountedHolds ==
  ASSUME ContentShape, Counted
  PROVE  FiguresAgree' /\ stats' \in [on : BOOLEAN, pending : 0..Cardinality(People), moved : BOOLEAN]
<1>1. /\ stats'.on = stats.on /\ stats'.moved = stats.on
      /\ stats' \in [on : BOOLEAN, pending : 0..Cardinality(People), moved : BOOLEAN]
  BY DEF Counted, ContentShape
<1> QED BY <1>1 DEF FiguresAgree

LEMMA FiguresKept ==
  ASSUME FiguresAgree, obl' = obl, stats' = stats
  PROVE  FiguresAgree'
  BY DEF FiguresAgree, PendingNames, LiveOf, Live

LEMMA ExplainedStill ==
  ASSUME ContentShape, Explainable, UNCHANGED <<recipients, because>>,
         \A p \in People, u \in Units :
           memb[p][u].rows \in Nat /\ memb'[p][u].rows \in Nat /\ memb'[p][u].rows >= memb[p][u].rows
  PROVE  Explainable'
<1> SUFFICES ASSUME NEW p \in recipients, NEW u \in Units, u \in because[p]
             PROVE  memb'[p][u].rows > 0
  BY DEF Explainable
<1>1. p \in People /\ memb[p][u].rows > 0
  BY DEF Explainable, ContentShape
<1> QED BY <1>1

\* Texts, targets and the commands under way: nobody is asked and no screen moves.
LEMMA TextsHold ==
  ASSUME ContentInv, ContentShape', obl' = obl, page' = page,
         published <= published', published = 0 => published' = 0 /\ recipients' = recipients,
         \A p \in People : Len(para[p]) <= Len(para'[p]),
         AskFollows', FiguresAgree', Explainable'
  PROVE  ContentInv'
<1>1. \A p \in People : Len(obl[p]) \in Nat
  BY DEF ContentInv, ContentShape
<1>2. ASSUME NEW p \in People
      PROVE  \E r, j : /\ Continues(obl[p], obl'[p], page[p], r, j)
                       /\ Len(obl'[p]) > Len(obl[p]) => r <= published' /\ j <= Len(para'[p])
  <2>1. Continues(obl[p], obl'[p], page[p], 0, 0) /\ ~(Len(obl'[p]) > Len(obl[p]))
    BY <1>1 DEF Continues, KeptBut
  <2> QED BY <2>1
<1>3. AskedForWritten' /\ ScreenFollows' /\ ShownNotOlder'
  BY <1>2, ReadersHold DEF ContentInv
<1>4. Unpublished'
  <2>1. published \in Nat /\ published' \in Nat
    BY DEF ContentInv, ContentShape
  <2> QED BY <2>1 DEF ContentInv, Unpublished
<1>5. OneLive'
  BY DEF ContentInv, OneLive, LiveOf, Live
<1> QED BY <1>3, <1>4, <1>5 DEF ContentInv

LEMMA RowsSame ==
  ASSUME OrgInv, UNCHANGED orgVars
  PROVE  \A p \in People, u \in Units :
           memb[p][u].rows \in Nat /\ memb'[p][u].rows \in Nat /\ memb'[p][u].rows >= memb[p][u].rows
<1>1. \A p \in People, u \in Units : memb[p][u] \in Membership
  BY DEF OrgInv, OrgTypeOK
<1>2. memb' = memb
  BY DEF orgVars
<1> QED BY <1>1, <1>2, OrgUnitsAssumption DEF Membership

LEMMA OrgPart ==
  ASSUME OrgInv, ContentInv, OrgStep \/ (\E p \in People, u \in Units : LeaveUnit(p, u)),
         UNCHANGED <<reach, text, obl, page, work>>
  PROVE  ContentInv'
<1>1. OrgInv' /\ \A p \in People, u \in Units : memb'[p][u].rows >= memb[p][u].rows
  <2>1. ASSUME NEW p \in People, NEW u \in Units, LeaveUnit(p, u)
        PROVE  OrgInv' /\ \A q \in People, v \in Units : memb'[q][v].rows = memb[q][v].rows
    BY <2>1, LeaveOrg
  <2>2. \A q \in People, v \in Units : memb[q][v].rows \in Nat
    BY OrgUnitsAssumption DEF OrgInv, OrgTypeOK, Membership
  <2> QED BY <2>1, <2>2, OrgStepHolds
<1>2. \A p \in People, u \in Units : memb[p][u].rows \in Nat /\ memb'[p][u].rows \in Nat
  BY <1>1, OrgUnitsAssumption DEF OrgInv, OrgTypeOK, Membership
<1>3. UNCHANGED <<active, target, recipients, because, revision, published, para, obl, page,
                  import, ask, stats>>
  BY DEF reach, text, work
<1>4. ContentShape' /\ AskFollows' /\ FiguresAgree'
  BY <1>3, FiguresKept DEF ContentInv, ContentShape, AskFollows, LiveOf, Live
<1>5. Explainable'
  BY <1>1, <1>2, <1>3, ExplainedStill DEF ContentInv
<1>6. published <= published' /\ \A p \in People : Len(para[p]) <= Len(para'[p])
  BY <1>3 DEF ContentInv, ContentShape
<1> QED BY <1>3, <1>4, <1>5, <1>6, TextsHold

\* A target list, a sheet that begins or fails, a command that fails, a person
\* who comes back.
LEMMA AsideHolds ==
  ASSUME OrgInv, ContentInv,
         \/ \E g \in Targets : SetTargets(g)
         \/ \E sheet \in Sheets, major \in BOOLEAN : ImportBegin(sheet, major)
         \/ ImportFails \/ AskFails
         \/ \E p \in People : RestorePerson(p)
  PROVE  ContentInv'
<1>1. /\ UNCHANGED <<orgVars, recipients, because, revision, published, para, obl, page, stats>>
      /\ active' \subseteq People /\ target' \subseteq Targets
      /\ import' \in [on : BOOLEAN, sheet : Sheets \cup {<<>>}, major : BOOLEAN]
      /\ ask' = ask \/ ask' = NoAsk
  <2>1. CASE \E g \in Targets : SetTargets(g)
    BY <2>1 DEF SetTargets, text, work, ContentInv, ContentShape
  <2>2. CASE \E sheet \in Sheets, major \in BOOLEAN : ImportBegin(sheet, major)
    BY <2>2 DEF ImportBegin, reach, text, ContentInv, ContentShape
  <2>3. CASE ImportFails
    BY <2>3 DEF ImportFails, reach, text, NoImport, ContentInv, ContentShape
  <2>4. CASE AskFails
    BY <2>4 DEF AskFails, reach, text, ContentInv, ContentShape
  <2>5. CASE \E p \in People : RestorePerson(p)
    BY <2>5 DEF RestorePerson, text, work, ContentInv, ContentShape
  <2> QED BY <2>1, <2>2, <2>3, <2>4, <2>5
<1>2. NoAsk \in [on : BOOLEAN, rev : 0..MaxRevisions, at : [People -> 0..MaxObligations],
                 para : [People -> 0..MaxVersions], moved : BOOLEAN] /\ ~NoAsk.on
  BY ContentAssumption DEF NoAsk
<1>3. ContentShape'
  BY <1>1, <1>2 DEF ContentInv, ContentShape
<1>4. AskFollows'
  <2>1. CASE ask' = ask
    BY <1>1, <2>1 DEF ContentInv, AskFollows, LiveOf, Live
  <2>2. CASE ask' = NoAsk
    BY <1>2, <2>2 DEF AskFollows
  <2> QED BY <1>1, <2>1, <2>2
<1>5. FiguresAgree' /\ Explainable'
  BY <1>1, FiguresKept, ExplainedStill, RowsSame DEF ContentInv
<1>6. published <= published' /\ \A p \in People : Len(para[p]) <= Len(para'[p])
  BY <1>1 DEF ContentInv, ContentShape
<1> QED BY <1>1, <1>3, <1>4, <1>5, <1>6, TextsHold

\* A text changes: a command under way is told.
LEMMA TextStep ==
  ASSUME OrgInv, ContentInv, Revise \/ \E p \in People, t \in Texts : PutPara(p, t)
  PROVE  ContentInv'
<1>0. /\ revision \in Nat /\ published \in 0..revision /\ MaxRevisions \in Nat
      /\ para \in [People -> Seq(Texts)]
      /\ \A p \in People : Len(para[p]) \in Nat /\ Len(para[p]) <= MaxVersions
  BY ContentAssumption DEF ContentInv, ContentShape
<1>1. /\ UNCHANGED <<orgVars, reach, obl, page, import, stats>> /\ Reread
      /\ revision' \in 1..MaxRevisions /\ published' \in 0..revision'
      /\ published <= published' /\ (published = 0 => published' = 0)
      /\ para' \in [People -> Seq(Texts)]
      /\ \A p \in People : Len(para[p]) <= Len(para'[p]) /\ Len(para'[p]) <= MaxVersions
  <2>1. CASE Revise
    <3>1. /\ revision' = revision + 1 /\ revision < MaxRevisions /\ para' = para
          /\ published' = IF published = 0 THEN 0 ELSE revision + 1
      BY <2>1 DEF Revise
    <3>2. published' \in 0..(revision + 1) /\ published <= published' /\ (published = 0 => published' = 0)
      BY <1>0, <3>1
    <3> QED BY <1>0, <2>1, <3>1, <3>2 DEF Revise
  <2>2. ASSUME NEW p \in People, NEW t \in Texts, PutPara(p, t)
        PROVE  /\ UNCHANGED <<orgVars, reach, obl, page, import, stats>> /\ Reread
               /\ revision' \in 1..MaxRevisions /\ published' \in 0..revision'
               /\ published <= published' /\ (published = 0 => published' = 0)
               /\ para' \in [People -> Seq(Texts)]
               /\ \A q \in People : Len(para[q]) <= Len(para'[q]) /\ Len(para'[q]) <= MaxVersions
    <3> DEFINE a == Append(para[p], t)
    <3>1. /\ para' = [para EXCEPT ![p] = a] /\ Len(para[p]) < MaxVersions
          /\ UNCHANGED <<orgVars, reach, obl, page, import, stats, revision, published>> /\ Reread
      BY <2>2 DEF PutPara
    <3>2. a \in Seq(Texts) /\ Len(a) = Len(para[p]) + 1
      BY <1>0
    <3> HIDE DEF a
    <3>3. /\ para' \in [People -> Seq(Texts)] /\ para'[p] = a
          /\ \A q \in People \ {p} : para'[q] = para[q]
      BY <1>0, <3>1, <3>2
    <3>4. \A q \in People : Len(para[q]) <= Len(para'[q]) /\ Len(para'[q]) <= MaxVersions
      BY <1>0, <3>1, <3>2, <3>3, ContentAssumption
    <3> QED BY <1>0, <3>1, <3>3, <3>4 DEF ContentInv, ContentShape
  <2> QED BY <2>1, <2>2
<1>2. /\ ask' \in [on : BOOLEAN, rev : 0..MaxRevisions, at : [People -> 0..MaxObligations],
                   para : [People -> 0..MaxVersions], moved : BOOLEAN]
      /\ ask'.on = ask.on /\ ask'.moved = ask.on /\ ask'.rev = ask.rev
      /\ ask'.at = ask.at /\ ask'.para = ask.para
  BY <1>1 DEF Reread, ContentInv, ContentShape
<1>3. UNCHANGED <<active, target, recipients, because, obl, page, import, stats>>
  BY <1>1 DEF reach
<1>4. ContentShape'
  BY <1>1, <1>2, <1>3 DEF ContentInv, ContentShape
<1>5. AskFollows'
  <2> SUFFICES ASSUME ask.on
               PROVE  /\ ask.rev # 0 /\ ask.rev <= published'
                      /\ \A p \in People :
                           /\ ask.para[p] <= Len(para'[p])
                           /\ ask.at[p] # 0 => ask.at[p] \in DOMAIN obl[p] /\ LiveOf(p) \subseteq {ask.at[p]}
    BY <1>2, <1>3 DEF AskFollows, LiveOf, Live
  <2>1. /\ ask.rev # 0 /\ ask.rev <= published /\ ask.rev \in Nat
        /\ \A p \in People :
             /\ ask.para[p] <= Len(para[p]) /\ ask.para[p] \in Nat
             /\ ask.at[p] # 0 => ask.at[p] \in DOMAIN obl[p] /\ LiveOf(p) \subseteq {ask.at[p]}
    BY ContentAssumption DEF ContentInv, ContentShape, AskFollows
  <2>2. published' \in Nat /\ published \in Nat /\ \A p \in People : Len(para'[p]) \in Nat
    BY <1>0, <1>4, ContentAssumption DEF ContentShape
  <2> QED BY <1>0, <1>1, <2>1, <2>2
<1>6. FiguresAgree' /\ Explainable'
  BY <1>1, <1>3, FiguresKept, ExplainedStill, RowsSame DEF ContentInv
<1> QED BY <1>1, <1>3, <1>4, <1>5, <1>6, TextsHold

\* A re-acknowledgement reads whom it asks.
LEMMA AskSelectHolds ==
  ASSUME OrgInv, ContentInv, NEW S, AskSelect(S)
  PROVE  ContentInv'
<1> DEFINE where == [p \in People |-> IF p \in Candidates(S) THEN LiveAt(p) ELSE 0]
           what == [p \in People |-> IF p \in Candidates(S) THEN LivePara(para, p) ELSE 0]
<1>1. /\ ask' = [on |-> TRUE, rev |-> published, moved |-> FALSE, at |-> where, para |-> what]
      /\ UNCHANGED <<orgVars, reach, text, obl, page, import, stats>> /\ published # 0
  BY DEF AskSelect
<1>2. UNCHANGED <<active, target, recipients, because, revision, published, para, obl, page,
                  import, stats>>
  BY <1>1 DEF reach, text
<1>3. /\ published \in 0..MaxRevisions /\ published <= published
      /\ \A p \in People : Len(para[p]) \in 0..MaxVersions /\ Len(para[p]) <= Len(para[p])
  BY ContentAssumption DEF ContentInv, ContentShape
<1>4. ASSUME NEW p \in People
      PROVE  /\ where[p] \in 0..MaxObligations /\ what[p] \in 0..MaxVersions
             /\ what[p] <= Len(para[p])
             /\ where[p] # 0 => /\ where[p] \in DOMAIN obl[p] /\ LiveOf(p) \subseteq {where[p]}
                                /\ what[p] = Len(para[p])
  <2>1. CASE p \in Candidates(S)
    <3>1. LiveOf(p) # {}
      BY <2>1 DEF Candidates
    <3>2. /\ LiveAt(p) \in DOMAIN obl[p] /\ LiveAt(p) \in 0..MaxObligations
          /\ LiveOf(p) \subseteq {LiveAt(p)}
      BY <3>1, LiveOne, ContentAssumption DEF ContentInv
    <3> QED BY <1>3, <2>1, <3>2 DEF LivePara
  <2>2. CASE p \notin Candidates(S)
    BY <1>3, <2>2, ContentAssumption
  <2> QED BY <2>1, <2>2
<1>5. where \in [People -> 0..MaxObligations] /\ what \in [People -> 0..MaxVersions]
  BY <1>4
<1> HIDE DEF where, what
<1>6. ContentShape'
  BY <1>1, <1>2, <1>3, <1>5 DEF ContentInv, ContentShape
<1>7. AskFollows'
  BY <1>1, <1>2, <1>3, <1>4 DEF AskFollows, LiveOf, Live
<1>8. FiguresAgree' /\ Explainable'
  BY <1>1, <1>2, FiguresKept, ExplainedStill, RowsSame DEF ContentInv
<1> QED BY <1>2, <1>3, <1>6, <1>7, <1>8, TextsHold

\* Somebody is asked, answers, or is let off.
LEMMA AskedHold ==
  ASSUME ContentInv, ContentShape', page' = page, published' = published, published # 0,
         \A p \in People : Len(para[p]) <= Len(para'[p]),
         \A p \in People : \E r, j :
           /\ Continues(obl[p], obl'[p], page[p], r, j)
           /\ Len(obl'[p]) > Len(obl[p]) => r <= published' /\ j <= Len(para'[p]),
         OneLive', AskFollows', FiguresAgree', Explainable'
  PROVE  ContentInv'
<1>1. published <= published'
  BY DEF ContentInv, ContentShape
<1>2. AskedForWritten' /\ ScreenFollows' /\ ShownNotOlder'
  BY <1>1, ReadersHold DEF ContentInv
<1>3. Unpublished'
  BY DEF Unpublished
<1> QED BY <1>2, <1>3 DEF ContentInv

\* Who is reached: nobody was asked before.
LEMMA PublishHolds ==
  ASSUME OrgInv, ContentInv, Publish
  PROVE  ContentInv'
<1>1. /\ published = 0 /\ published' = revision /\ recipients' = Resolved /\ Counted
      /\ UNCHANGED <<orgVars, active, target, revision, para, page, import, ask>>
      /\ because' = [p \in People |->
           IF p \in Resolved THEN {u \in UNION {g.units : g \in target} : Belongs(p, u)} ELSE {}]
      /\ obl' = [p \in People |->
           IF p \in Resolved THEN <<NewObligation(revision, LivePara(para, p))>> ELSE <<>>]
  BY DEF Publish
<1>2. ~ask.on /\ \A p \in People : obl[p] = <<>>
  BY <1>1 DEF ContentInv, AskFollows, Unpublished, ContentShape
<1>3. /\ revision \in 1..MaxRevisions /\ MaxObligations \in Nat \ {0} /\ MaxRevisions \in Nat
      /\ \A p \in People : Len(para[p]) \in 0..MaxVersions
      /\ Resolved \subseteq People /\ \A g \in target : g.units \subseteq Units
  BY ContentAssumption DEF ContentInv, ContentShape, Resolved
<1>4. ASSUME NEW p \in People
      PROVE  /\ obl'[p] \in Seq(Obligation) /\ Len(obl'[p]) <= 1
             /\ \A k \in DOMAIN obl'[p] : k = 1 /\ obl'[p][k].rev = revision
                  /\ obl'[p][k].para = Len(para[p]) /\ ~obl'[p][k].acked
             /\ Continues(obl[p], obl'[p], page[p], revision, Len(para[p]))
             /\ because'[p] \subseteq Units
             /\ \A u \in because'[p] : Belongs(p, u)
  <2> DEFINE n == NewObligation(revision, LivePara(para, p))
  <2>1. n \in Obligation /\ n.rev = revision /\ n.para = Len(para[p]) /\ ~n.acked
    BY <1>3, NewType DEF LivePara
  <2>2. obl'[p] = <<n>> \/ obl'[p] = <<>>
    BY <1>1
  <2> HIDE DEF n
  <2>3. /\ obl'[p] \in Seq(Obligation) /\ Len(obl'[p]) <= 1
        /\ \A k \in DOMAIN obl'[p] : k = 1 /\ obl'[p][k] = n
    <3>1. CASE obl'[p] = <<n>>
      <4>1. /\ obl'[p] \in Seq(Obligation) /\ Len(obl'[p]) = 1
            /\ DOMAIN obl'[p] = 1..1 /\ obl'[p][1] = n
        BY <2>1, <3>1, OneSeq
      <4> QED BY <4>1
    <3>2. CASE obl'[p] = <<>>
      BY <3>2
    <3> QED BY <2>2, <3>1, <3>2
  <2>4. Continues(obl[p], obl'[p], page[p], revision, Len(para[p]))
    <3>1. Len(obl[p]) = 0 /\ DOMAIN obl'[p] = 1..Len(obl'[p]) /\ Len(obl'[p]) \in Nat
      BY <1>2, <2>3
    <3> QED BY <2>1, <2>3, <3>1 DEF Continues
  <2>5. because'[p] \subseteq Units /\ \A u \in because'[p] : Belongs(p, u)
    BY <1>1, <1>3
  <2> QED BY <2>1, <2>3, <2>4, <2>5
<1>5. /\ obl' \in [People -> Seq(Obligation)] /\ because' \in [People -> SUBSET Units]
      /\ \A p \in People : Len(obl'[p]) <= MaxObligations
  <2>1. \A p \in People : Len(obl'[p]) \in Nat
    BY <1>4
  <2>2. DOMAIN obl' = People /\ DOMAIN because' = People
    BY <1>1
  <2>3. \A p \in People : Len(obl'[p]) <= MaxObligations
    BY <1>3, <1>4, <2>1
  <2>4. obl' = [p \in People |-> obl'[p]] /\ because' = [p \in People |-> because'[p]]
    BY <1>1
  <2> QED BY <1>4, <2>3, <2>4
<1>6. FiguresAgree' /\ stats' \in [on : BOOLEAN, pending : 0..Cardinality(People), moved : BOOLEAN]
  BY <1>1, CountedHolds DEF ContentInv
<1>7. ContentShape'
  BY <1>1, <1>3, <1>5, <1>6 DEF ContentInv, ContentShape
<1>8. /\ published <= published' /\ published' # 0
      /\ \A p \in People : Len(para[p]) <= Len(para'[p])
  BY <1>1, <1>3
<1>9. AskedForWritten' /\ ScreenFollows' /\ ShownNotOlder'
  <2>1. \A p \in People : \E r, j :
           /\ Continues(obl[p], obl'[p], page[p], r, j)
           /\ Len(obl'[p]) > Len(obl[p]) => r <= published' /\ j <= Len(para'[p])
    <3>1. \A p \in People : revision <= published' /\ Len(para[p]) <= Len(para'[p])
      BY <1>1, <1>3, <1>8
    <3> QED BY <1>4, <3>1
  <2> QED BY <1>1, <1>7, <1>8, <2>1, ReadersHold DEF ContentInv
<1>10. OneLive' /\ AskFollows' /\ Unpublished'
  BY <1>1, <1>2, <1>4, <1>8 DEF OneLive, LiveOf, AskFollows, Unpublished
<1>11. Explainable'
  <2> SUFFICES ASSUME NEW p \in recipients', NEW u \in Units, u \in because'[p]
               PROVE  memb'[p][u].rows > 0
    BY DEF Explainable
  <2>1. p \in People /\ memb' = memb
    BY <1>1, <1>3 DEF orgVars
  <2>2. Belongs(p, u)
    BY <1>4, <2>1
  <2> QED BY <2>1, <2>2 DEF OrgInv, LiveHasRow, Belongs
<1> QED BY <1>6, <1>7, <1>9, <1>10, <1>11 DEF ContentInv

LEMMA AskCommitHolds ==
  ASSUME OrgInv, ContentInv, AskCommit
  PROVE  ContentInv'
<1>1. /\ ask.on /\ ask' = NoAsk /\ Counted
      /\ UNCHANGED <<orgVars, reach, text, page, import>>
      /\ obl' = [p \in People |-> IF p \in AskedPeople
                   THEN Replaced(obl[p], ask.at[p], ask.rev, ask.para[p]) ELSE obl[p]]
      /\ \A p \in AskedPeople : Len(obl[p]) < MaxObligations
  BY DEF AskCommit
<1>2. UNCHANGED <<active, target, recipients, because, revision, published, para, page, import>>
  BY <1>1 DEF reach, text
<1>3. /\ ask.rev \in 1..MaxRevisions /\ ask.rev <= published /\ published # 0
      /\ \A p \in People : /\ ask.para[p] \in 0..MaxVersions /\ ask.para[p] <= Len(para[p])
                           /\ obl[p] \in Seq(Obligation) /\ Len(obl[p]) \in Nat
                           /\ Len(para[p]) <= Len(para[p])
      /\ \A p \in AskedPeople : /\ p \in People /\ ask.at[p] \in DOMAIN obl[p]
                                /\ LiveOf(p) \subseteq {ask.at[p]}
  BY <1>1, ContentAssumption DEF ContentInv, ContentShape, AskFollows, AskedPeople
<1>4. ASSUME NEW p \in People
      PROVE  /\ obl'[p] \in Seq(Obligation) /\ Len(obl'[p]) <= MaxObligations
             /\ Continues(obl[p], obl'[p], page[p], ask.rev, ask.para[p])
             /\ \A i, k \in LiveOf(p)' : i = k
  <2>1. CASE p \in AskedPeople
    <3> DEFINE ns == Replaced(obl[p], ask.at[p], ask.rev, ask.para[p])
    <3>1. /\ ns \in Seq(Obligation) /\ Len(ns) = Len(obl[p]) + 1
          /\ Continues(obl[p], ns, page[p], ask.rev, ask.para[p])
          /\ \A k \in 1..Len(obl[p]) : Live(ns[k]) => Live(obl[p][k]) /\ k # ask.at[p]
      <4> DEFINE os == obl[p]
                 i == ask.at[p]
                 r == ask.rev
                 j == ask.para[p]
      <4>1. os \in Seq(Obligation) /\ i \in DOMAIN os /\ r \in 1..MaxRevisions /\ j \in 0..MaxVersions
        BY <1>3, <2>1
      <4> HIDE DEF os, i, r, j
      <4>2. /\ Replaced(os, i, r, j) \in Seq(Obligation)
            /\ Len(Replaced(os, i, r, j)) = Len(os) + 1
            /\ Continues(os, Replaced(os, i, r, j), page[p], r, j)
            /\ \A k \in 1..Len(os) : Live(Replaced(os, i, r, j)[k]) => Live(os[k]) /\ k # i
        BY <4>1, ReplacedIs
      <4> QED BY <4>2 DEF os, i, r, j
    <3>2. obl'[p] = ns /\ Len(obl[p]) < MaxObligations
      BY <1>1, <2>1
    <3> HIDE DEF ns
    <3>3. ASSUME NEW i \in LiveOf(p)' PROVE i = Len(obl[p]) + 1
      <4>1. i \in 1..(Len(obl[p]) + 1) /\ Live(ns[i])
        BY <1>3, <3>1, <3>2, <3>3 DEF LiveOf
      <4>2. i \notin 1..Len(obl[p])
        BY <1>3, <2>1, <3>1, <4>1 DEF LiveOf
      <4> QED BY <1>3, <4>1, <4>2
    <3> QED BY <1>3, <3>1, <3>2, <3>3, ContentAssumption
  <2>2. CASE p \notin AskedPeople
    <3>1. obl'[p] = obl[p]
      BY <1>1, <2>2
    <3> QED BY <1>3, <3>1 DEF ContentInv, ContentShape, OneLive, LiveOf, Continues, KeptBut
  <2> QED BY <2>1, <2>2
<1>5. obl' \in [People -> Seq(Obligation)]
  BY <1>1, <1>4
<1>6. FiguresAgree' /\ stats' \in [on : BOOLEAN, pending : 0..Cardinality(People), moved : BOOLEAN]
  BY <1>1, CountedHolds DEF ContentInv
<1>7. NoAsk \in [on : BOOLEAN, rev : 0..MaxRevisions, at : [People -> 0..MaxObligations],
                 para : [People -> 0..MaxVersions], moved : BOOLEAN] /\ ~NoAsk.on
  BY ContentAssumption DEF NoAsk
<1>8. ContentShape'
  BY <1>1, <1>2, <1>4, <1>5, <1>6, <1>7 DEF ContentInv, ContentShape
<1>9. OneLive' /\ AskFollows'
  BY <1>1, <1>4, <1>7 DEF OneLive, AskFollows
<1>10. Explainable'
  BY <1>1, <1>2, ExplainedStill, RowsSame DEF ContentInv
<1>11. \A p \in People : \E r, j :
           /\ Continues(obl[p], obl'[p], page[p], r, j)
           /\ Len(obl'[p]) > Len(obl[p]) => r <= published' /\ j <= Len(para'[p])
  <2>1. \A p \in People : ask.rev <= published' /\ ask.para[p] <= Len(para'[p])
    BY <1>2, <1>3
  <2> QED BY <1>4, <2>1
<1> QED BY <1>2, <1>3, <1>6, <1>8, <1>9, <1>10, <1>11, AskedHold

\* Somebody looks: the screen shows what is current.
LEMMA LookHolds ==
  ASSUME OrgInv, ContentInv, NEW p \in People, Look(p)
  PROVE  ContentInv'
<1>1. page' = [page EXCEPT ![p] = Listed(p)] /\ UNCHANGED <<orgVars, reach, text, obl, work>>
  BY DEF Look
<1>2. UNCHANGED <<active, target, recipients, because, revision, published, para, obl,
                  import, ask, stats>>
  BY <1>1 DEF reach, text, work
<1>3. /\ published \in 0..MaxRevisions /\ Len(para[p]) \in 0..MaxVersions
      /\ Len(obl[p]) \in 0..MaxObligations
  BY ContentAssumption DEF ContentInv, ContentShape
<1>4. /\ Listed(p) \in Screen /\ Listed(p).rev = published
      /\ Listed(p).para = Len(para[p]) /\ Listed(p).seen = Len(obl[p])
  BY <1>3 DEF Listed, Screen, LivePara
<1>5. /\ page' \in [People -> Screen] /\ page'[p] = Listed(p)
      /\ \A q \in People \ {p} : page'[q] = page[q]
  BY <1>1, <1>4 DEF ContentInv, ContentShape
<1>6. ContentShape'
  BY <1>2, <1>5 DEF ContentInv, ContentShape
<1>7. ScreenFollows'
  <2> SUFFICES ASSUME NEW q \in People
               PROVE  /\ page'[q].seen <= Len(obl[q])
                      /\ \A i \in DOMAIN obl[q] : i <= page'[q].seen =>
                           obl[q][i].rev <= page'[q].rev /\ obl[q][i].para <= page'[q].para
    BY <1>2 DEF ScreenFollows
  <2>1. CASE q = p
    BY <1>3, <1>4, <1>5, <2>1 DEF ContentInv, AskedForWritten
  <2>2. CASE q # p
    BY <1>5, <2>2 DEF ContentInv, ScreenFollows
  <2> QED BY <2>1, <2>2
<1>8. FiguresAgree' /\ Explainable'
  BY <1>1, <1>2, FiguresKept, ExplainedStill, RowsSame DEF ContentInv
<1>9. Unpublished' /\ AskedForWritten' /\ ShownNotOlder' /\ OneLive' /\ AskFollows'
  BY <1>2 DEF ContentInv, Unpublished, AskedForWritten, ShownNotOlder, OneLive, AskFollows,
     LiveOf, Live
<1> QED BY <1>6, <1>7, <1>8, <1>9 DEF ContentInv

\* Who reads or is disabled: nobody is asked, and nothing becomes live.
LEMMA PersonHolds ==
  ASSUME OrgInv, ContentInv, NEW p \in People, NEW os \in Seq(Obligation),
         obl' = [obl EXCEPT ![p] = os], Len(os) = Len(obl[p]),
         \A i \in 1..Len(os) : KeptBut(obl[p][i], os[i], page[p]),
         \A i \in 1..Len(os) : Live(os[i]) => Live(obl[p][i]),
         active' \subseteq People, obl[p] # <<>>,
         Counted, UNCHANGED <<orgVars, target, recipients, because, text, page, import, ask>>
  PROVE  ContentInv'
<1>1. UNCHANGED <<revision, published, para>>
  BY DEF text
<1>2. /\ obl \in [People -> Seq(Obligation)] /\ obl[p] \in Seq(Obligation)
      /\ \A q \in People : Len(obl[q]) \in Nat /\ Len(obl[q]) <= MaxObligations
      /\ published # 0
      /\ \A q \in People : Len(para[q]) <= Len(para[q])
  BY DEF ContentInv, ContentShape, Unpublished
<1>3. /\ obl' \in [People -> Seq(Obligation)] /\ obl'[p] = os
      /\ \A q \in People \ {p} : obl'[q] = obl[q]
  BY <1>2
<1>4. \A q \in People : /\ Continues(obl[q], obl'[q], page[q], 0, 0)
                        /\ Len(obl'[q]) = Len(obl[q])
                        /\ LiveOf(q)' \subseteq LiveOf(q) /\ DOMAIN obl'[q] = DOMAIN obl[q]
  <2> SUFFICES ASSUME NEW q \in People
               PROVE  /\ Continues(obl[q], obl'[q], page[q], 0, 0)
                      /\ Len(obl'[q]) = Len(obl[q])
                      /\ LiveOf(q)' \subseteq LiveOf(q) /\ DOMAIN obl'[q] = DOMAIN obl[q]
    OBVIOUS
  <2>1. CASE q = p
    BY <1>2, <1>3, <2>1 DEF Continues, LiveOf
  <2>2. CASE q # p
    BY <1>2, <1>3, <2>2 DEF Continues, LiveOf, KeptBut
  <2> QED BY <2>1, <2>2
<1>5. FiguresAgree' /\ stats' \in [on : BOOLEAN, pending : 0..Cardinality(People), moved : BOOLEAN]
  BY CountedHolds DEF ContentInv
<1>6. ContentShape'
  BY <1>1, <1>2, <1>3, <1>4, <1>5 DEF ContentInv, ContentShape
<1>7. OneLive' /\ AskFollows'
  BY <1>1, <1>4 DEF ContentInv, OneLive, AskFollows
<1>8. Explainable'
  BY ExplainedStill, RowsSame DEF ContentInv
<1>9. \A q \in People : \E r, j :
           /\ Continues(obl[q], obl'[q], page[q], r, j)
           /\ Len(obl'[q]) > Len(obl[q]) => r <= published' /\ j <= Len(para'[q])
  BY <1>2, <1>4
<1> QED BY <1>1, <1>2, <1>5, <1>6, <1>7, <1>8, <1>9, AskedHold

LEMMA AcknowledgeHolds ==
  ASSUME OrgInv, ContentInv, NEW p \in People, Acknowledge(p)
  PROVE  ContentInv'
<1>1. PICK i \in LiveOf(p) :
        obl' = [obl EXCEPT ![p][i].acked = TRUE, ![p][i].shown = page[p]]
  BY DEF Acknowledge
<1>2. /\ obl[p] \in Seq(Obligation) /\ i \in DOMAIN obl[p] /\ obl[p][i] \in Obligation
      /\ page[p] \in Screen /\ obl \in [People -> Seq(Obligation)]
      /\ Len(obl[p]) \in Nat /\ DOMAIN obl[p] = 1..Len(obl[p])
  BY DEF ContentInv, ContentShape, LiveOf
<1> DEFINE o == [obl[p][i] EXCEPT !.acked = TRUE, !.shown = page[p]]
           os == [obl[p] EXCEPT ![i] = o]
<1>3. obl' = [obl EXCEPT ![p] = os]
  BY <1>1, <1>2
<1>4. /\ o \in Obligation /\ o.rev = obl[p][i].rev /\ o.para = obl[p][i].para
      /\ o.shown = page[p] /\ (Live(o) => Live(obl[p][i]))
  BY <1>2 DEF Obligation, Live
<1> HIDE DEF o
<1>5. /\ os \in Seq(Obligation) /\ Len(os) = Len(obl[p])
      /\ \A k \in 1..Len(os) : os[k] = IF k = i THEN o ELSE obl[p][k]
  BY <1>2, <1>4
<1> HIDE DEF os
<1>6. /\ \A k \in 1..Len(os) : KeptBut(obl[p][k], os[k], page[p])
      /\ \A k \in 1..Len(os) : Live(os[k]) => Live(obl[p][k])
  BY <1>4, <1>5 DEF KeptBut
<1>7. /\ active' \subseteq People /\ obl[p] # <<>>
      /\ Counted /\ UNCHANGED <<orgVars, target, recipients, because, text, page, import, ask>>
  BY <1>2 DEF Acknowledge, reach, ContentInv, ContentShape
<1> QED BY <1>3, <1>5, <1>6, <1>7, PersonHolds

LEMMA DisableHolds ==
  ASSUME OrgInv, ContentInv, NEW p \in People, DisablePerson(p)
  PROVE  ContentInv' /\ \A q \in People : Len(obl'[q]) = Len(obl[q])
<1> DEFINE b(i) == obl[p][i].waived \/ (Live(obl[p][i]) /\ ~obl[p][i].acked)
           o(i) == [obl[p][i] EXCEPT !.waived = b(i)]
           os == [i \in DOMAIN obl[p] |-> o(i)]
<1>1. obl' = [obl EXCEPT ![p] = os]
  BY DEF DisablePerson
<1>2. /\ obl \in [People -> Seq(Obligation)] /\ obl[p] \in Seq(Obligation)
      /\ Len(obl[p]) \in Nat /\ DOMAIN obl[p] = 1..Len(obl[p])
  BY DEF ContentInv, ContentShape
<1>3. ASSUME NEW i \in 1..Len(obl[p])
      PROVE  /\ o(i) \in Obligation /\ KeptBut(obl[p][i], o(i), page[p])
             /\ Live(o(i)) => Live(obl[p][i])
  <2> DEFINE w == b(i)
  <2>1. obl[p][i] \in Obligation
    BY <1>2
  <2>2. obl[p][i].waived \in BOOLEAN
    BY <2>1 DEF Obligation
  <2>3. w \in BOOLEAN /\ (obl[p][i].waived => w)
    BY <2>2, Zenon
  <2>4. o(i) = [obl[p][i] EXCEPT !.waived = w]
    OBVIOUS
  <2> HIDE DEF w, b, o
  <2> QED BY <2>1, <2>3, <2>4 DEF Obligation, KeptBut, Live
<1>4. os = [i \in 1..Len(obl[p]) |-> o(i)]
  BY <1>2
<1>5. DOMAIN os = 1..Len(obl[p]) /\ \A i \in 1..Len(obl[p]) : os[i] = o(i)
  BY <1>4
<1> HIDE DEF o
<1>6. os \in [1..Len(obl[p]) -> Obligation]
  BY <1>3, <1>4
<1> HIDE DEF os
<1>7. os \in Seq(Obligation) /\ Len(os) = Len(obl[p])
  BY <1>2, <1>6, FunIsSeq
<1>8. /\ \A i \in 1..Len(os) : KeptBut(obl[p][i], os[i], page[p])
      /\ \A i \in 1..Len(os) : Live(os[i]) => Live(obl[p][i])
  BY <1>3, <1>5, <1>7
<1>9. /\ active' \subseteq People /\ Counted
      /\ UNCHANGED <<orgVars, target, recipients, because, text, page, import, ask>>
  BY DEF DisablePerson, ContentInv, ContentShape
<1>10. \A q \in People : Len(obl'[q]) = Len(obl[q])
  BY <1>1, <1>2, <1>7
<1>11. CASE obl[p] # <<>>
  BY <1>1, <1>7, <1>8, <1>9, <1>10, <1>11, PersonHolds
<1>12. CASE obl[p] = <<>>
  <2>1. os = obl[p]
    BY <1>7, <1>12
  <2>2. obl' = obl
    BY <1>1, <1>2, <2>1
  <2>3. UNCHANGED <<target, recipients, because, revision, published, para, page, import, ask>>
    BY <1>9 DEF text
  <2>4. FiguresAgree' /\ stats' \in [on : BOOLEAN, pending : 0..Cardinality(People), moved : BOOLEAN]
    BY <1>9, CountedHolds DEF ContentInv
  <2>5. ContentShape' /\ published <= published' /\ \A q \in People : Len(para[q]) <= Len(para'[q])
    BY <1>9, <2>2, <2>3, <2>4 DEF ContentInv, ContentShape
  <2>6. AskFollows'
    BY <2>2, <2>3 DEF ContentInv, AskFollows, LiveOf, Live
  <2>7. Explainable'
    BY <1>9, ExplainedStill, RowsSame DEF ContentInv
  <2> QED BY <1>10, <2>2, <2>3, <2>4, <2>5, <2>6, <2>7, TextsHold
<1> QED BY <1>11, <1>12

\* What is asked for last, when anything more is asked for.
LEMMA LastContinues ==
  ASSUME NEW os \in Seq(Obligation), NEW ns \in Seq(Obligation), NEW s, NEW r, NEW j,
         Continues(os, ns, s, r, j), Len(ns) > Len(os)
  PROVE  Last(ns).rev = r /\ Last(ns).para = j
<1>1. Len(ns) \in (Len(os) + 1)..Len(ns)
  OBVIOUS
<1> QED BY <1>1 DEF Continues, Last

-----------------------------------------------------------------------------
(* The sheet, row by row.                                                  *)

Rows == [who : People, cell : Texts \cup {Blank}]

\* A sheet only adds paragraphs.
LEMMA ImportedType ==
  ASSUME NEW sheet \in Seq(Rows), para \in [People -> Seq(Texts)]
  PROVE  /\ Imported(sheet) \in [People -> Seq(Texts)]
         /\ \A p \in People : Len(para[p]) <= Len(Imported(sheet)[p])
<1> DEFINE Grown(f) == f \in [People -> Seq(Texts)] /\ \A p \in People : Len(para[p]) <= Len(f[p])
           S == {n \in Nat : n <= Len(sheet) => Grown(AfterRows(sheet)[n])}
<1>1. /\ AfterRows(sheet)[0] = para /\ Len(sheet) \in Nat
      /\ \A n \in 1..Len(sheet) :
           AfterRows(sheet)[n] = WriteRow(sheet[n], AfterRows(sheet)[n - 1])
  BY RowAfterRow
<1>2. 0 \in S
  BY <1>1
<1>3. ASSUME NEW n \in Nat, n \in S PROVE n + 1 \in S
  <2> SUFFICES ASSUME n + 1 <= Len(sheet) PROVE Grown(AfterRows(sheet)[n + 1])
    OBVIOUS
  <2> DEFINE f == AfterRows(sheet)[n]
             r == sheet[n + 1]
  <2>1. n <= Len(sheet) /\ n + 1 \in 1..Len(sheet) /\ (n + 1) - 1 = n
    BY <1>1
  <2>2. Grown(f)
    BY <1>3, <2>1
  <2>3. r \in Rows
    BY <2>1
  <2>4. AfterRows(sheet)[n + 1] = WriteRow(r, f)
    BY <1>1, <2>1
  <2> HIDE DEF f, r
  <2>5. CASE r.cell # Blank
    <3> DEFINE a == Append(f[r.who], r.cell)
               g == [f EXCEPT ![r.who] = a]
    <3>1. r.who \in People /\ r.cell \in Texts /\ f[r.who] \in Seq(Texts)
      BY <2>2, <2>3, <2>5 DEF Rows
    <3>2. a \in Seq(Texts) /\ Len(a) = Len(f[r.who]) + 1
      BY <3>1
    <3> HIDE DEF a
    <3>3. g \in [People -> Seq(Texts)] /\ \A p \in People : Len(f[p]) <= Len(g[p])
      BY <2>2, <3>1, <3>2
    <3>4. \A p \in People : Len(para[p]) \in Nat /\ Len(f[p]) \in Nat /\ Len(g[p]) \in Nat
      BY <2>2, <3>3
    <3>5. WriteRow(r, f) = g \/ WriteRow(r, f) = f
      BY DEF WriteRow, a
    <3> HIDE DEF g
    <3> QED BY <2>2, <2>4, <3>3, <3>4, <3>5
  <2>6. CASE r.cell = Blank
    BY <2>2, <2>4, <2>6 DEF WriteRow
  <2> QED BY <2>5, <2>6
<1> HIDE DEF S
<1>4. Len(sheet) \in S
  BY <1>1, <1>2, <1>3, AllNumbers
<1> QED BY <1>1, <1>4 DEF S, Imported

\* The roster as it stands says nothing new.
LEMMA RosterSaysNothing ==
  ASSUME NEW sheet \in SheetNow, active \subseteq People,
         \A p \in active : para[p] # <<>> => Trimmed[Last(para[p])] = Last(para[p])
  PROVE  Imported(sheet) = para
<1> DEFINE row(p) == [who |-> p, cell |-> IF para[p] = <<>> THEN Blank ELSE Trimmed[Last(para[p])]]
<1>0. IsFiniteSet(active)
  BY OrgUnitsAssumption, FS_Subset
<1>1. Cardinality(active) \in Nat
  BY <1>0, FS_CardinalityType
<1>2. PICK order \in [1..Cardinality(active) -> active] :
        sheet = [i \in 1..Cardinality(active) |-> row(order[i])]
  BY DEF SheetNow
<1>3. Len(sheet) = Cardinality(active)
  BY <1>1, <1>2
<1>4. ASSUME NEW i \in 1..Len(sheet)
      PROVE  WriteRow(sheet[i], para) = para
  <2>1. order[i] \in active /\ sheet[i] = row(order[i])
    BY <1>2, <1>3
  <2> DEFINE p == order[i]
  <2>2. /\ sheet[i].who = p
        /\ sheet[i].cell = IF para[p] = <<>> THEN Blank ELSE Trimmed[Last(para[p])]
    BY <2>1
  <2> HIDE DEF p
  <2>3. p \in active
    BY <2>1 DEF p
  <2> QED BY <2>2, <2>3 DEF WriteRow, Differs
<1> DEFINE S == {n \in Nat : n <= Len(sheet) => AfterRows(sheet)[n] = para}
<1>5. /\ AfterRows(sheet)[0] = para /\ Len(sheet) \in Nat
      /\ \A n \in 1..Len(sheet) :
           AfterRows(sheet)[n] = WriteRow(sheet[n], AfterRows(sheet)[n - 1])
  BY <1>1, <1>3, RowAfterRow
<1>6. 0 \in S
  BY <1>5
<1>7. ASSUME NEW n \in Nat, n \in S PROVE n + 1 \in S
  <2> SUFFICES ASSUME n + 1 <= Len(sheet) PROVE AfterRows(sheet)[n + 1] = para
    OBVIOUS
  <2>1. n <= Len(sheet) /\ n + 1 \in 1..Len(sheet) /\ (n + 1) - 1 = n
    BY <1>5
  <2>2. AfterRows(sheet)[n] = para
    BY <1>7, <2>1
  <2> QED BY <1>4, <1>5, <2>1, <2>2
<1> HIDE DEF S
<1>8. Len(sheet) \in S
  BY <1>5, <1>6, <1>7, AllNumbers
<1> QED BY <1>5, <1>8 DEF S, Imported

-----------------------------------------------------------------------------
(* An import and statistics.                                               *)

\* Everybody asked again is asked once for each of their rows, and the last of
\* these is all that is live.
LEMMA AskedAgainIs ==
  ASSUME ContentShape, OneLive, NEW p \in Asked, NEW s, NEW j \in 0..MaxVersions,
         LivePara(SeenByImport, p) = j, Times(p) \in Nat
  PROVE  /\ AskedAgain(p) \in Seq(Obligation)
         /\ Len(AskedAgain(p)) = Len(obl[p]) + Times(p) /\ Times(p) > 0
         /\ Continues(obl[p], AskedAgain(p), s, published, j)
         /\ \A i \in DOMAIN AskedAgain(p) : Live(AskedAgain(p)[i]) => i = Len(AskedAgain(p))
<1> DEFINE b == Len(obl[p])
           t == Times(p)
           n == NewObligation(published, j)
           at == LiveAt(p)
           old(i) == [obl[p][i] EXCEPT !.gone = @ \/ i = at]
           new(i) == [n EXCEPT !.gone = i < b + t]
           ns == [i \in 1..(b + t) |-> IF i <= b THEN old(i) ELSE new(i)]
<1>1. /\ p \in People /\ published # 0 /\ t > 0 /\ LiveOf(p) # {}
  BY DEF Asked, ContentShape
<1>2. /\ obl[p] \in Seq(Obligation) /\ b \in Nat /\ t \in Nat /\ published \in 1..MaxRevisions
      /\ DOMAIN obl[p] = 1..b
  BY <1>1, ContentAssumption DEF ContentShape
<1>3. n \in Obligation /\ n.rev = published /\ n.para = j /\ ~n.acked
  BY <1>2, NewType
<1>4. LiveOf(p) = {at}
  BY <1>1, LiveOne
<1>5. AskedAgain(p) = ns
  BY DEF AskedAgain
<1> HIDE DEF b, t, n, at
<1>6. ASSUME NEW i \in 1..b
      PROVE  old(i) \in Obligation /\ KeptBut(obl[p][i], old(i), s) /\ ~Live(old(i))
  <2> DEFINE g == obl[p][i].gone \/ i = at
  <2>1. obl[p][i] \in Obligation
    BY <1>2
  <2>2. obl[p][i].gone \in BOOLEAN
    BY <2>1 DEF Obligation
  <2>3. g \in BOOLEAN /\ (obl[p][i].gone => g) /\ (i = at => g)
    BY <2>2, Zenon
  <2>4. old(i) = [obl[p][i] EXCEPT !.gone = g]
    OBVIOUS
  <2>5. Live(obl[p][i]) => i = at
    BY <1>2, <1>4 DEF LiveOf
  <2> HIDE DEF g, old
  <2> QED BY <2>1, <2>3, <2>4, <2>5 DEF Obligation, KeptBut, Live
<1>7. ASSUME NEW i \in 1..(b + t)
      PROVE  /\ new(i) \in Obligation /\ new(i).rev = published /\ new(i).para = j
             /\ ~new(i).acked /\ (Live(new(i)) => i = b + t)
  <2> DEFINE g == i < b + t
  <2>1. g \in BOOLEAN /\ (~g => i = b + t)
    BY <1>2
  <2>2. new(i) = [n EXCEPT !.gone = g]
    OBVIOUS
  <2> HIDE DEF g, new
  <2> QED BY <1>3, <2>1, <2>2 DEF Obligation, Live
<1> HIDE DEF old, new
<1>8. \A i \in 1..(b + t) : ns[i] = IF i <= b THEN old(i) ELSE new(i)
  OBVIOUS
<1>9. ns \in [1..(b + t) -> Obligation]
  <2>1. \A i \in 1..(b + t) : i <= b => i \in 1..b
    BY <1>2
  <2> QED BY <1>6, <1>7, <2>1
<1> HIDE DEF ns
<1>10. b + t \in Nat
  BY <1>2
<1>11. ns \in Seq(Obligation) /\ Len(ns) = b + t /\ DOMAIN ns = 1..(b + t)
  BY <1>9, <1>10, FunIsSeq
<1>12. Continues(obl[p], ns, s, published, j)
  <2>1. \A k \in 1..b : ns[k] = old(k)
    BY <1>2, <1>8
  <2>2. \A k \in (b + 1)..(b + t) : k \in 1..(b + t) /\ ns[k] = new(k)
    BY <1>2, <1>8
  <2>3. Len(obl[p]) = b
    BY DEF b
  <2> QED BY <1>2, <1>6, <1>7, <1>11, <2>1, <2>2, <2>3 DEF Continues
<1>13. ASSUME NEW i \in 1..(b + t), Live(ns[i]) PROVE i = b + t
  <2>1. CASE i <= b
    BY <1>2, <1>6, <1>8, <1>13, <2>1
  <2>2. CASE ~(i <= b)
    BY <1>7, <1>8, <1>13, <2>2
  <2> QED BY <2>1, <2>2
<1> QED BY <1>1, <1>5, <1>11, <1>12, <1>13 DEF b, t

LEMMA ImportCommitHolds ==
  ASSUME OrgInv, ContentInv, ImportCommit
  PROVE  /\ ContentInv'
         /\ \A p \in People : Len(obl'[p]) > Len(obl[p]) =>
              Last(obl'[p]).rev = published' /\ Last(obl'[p]).para = LivePara(para', p)
<1> DEFINE paras == Imported(import.sheet)
<1>1. /\ (Asked # {} => ~ask.on) /\ para' = paras /\ import' = NoImport
      /\ \A p \in People : /\ Len(paras[p]) <= MaxVersions
                           /\ p \in Asked => Len(obl[p]) + Times(p) <= MaxObligations
      /\ obl' = [p \in People |-> IF p \in Asked THEN AskedAgain(p) ELSE obl[p]]
      /\ (ask' = ask /\ para' = para) \/ Reread
      /\ Counted
      /\ UNCHANGED <<orgVars, reach, revision, published, page>>
  BY DEF ImportCommit
<1>2. UNCHANGED <<active, target, recipients, because>>
  BY <1>1 DEF reach
<1>3. /\ para \in [People -> Seq(Texts)] /\ obl \in [People -> Seq(Obligation)]
      /\ OneLive /\ ContentShape /\ NoImport \in [on : BOOLEAN, sheet : Sheets \cup {<<>>}, major : BOOLEAN]
      /\ \A p \in People : Len(obl[p]) \in Nat /\ Len(para[p]) \in Nat
  BY DEF ContentInv, ContentShape, NoImport
<1>4. import.sheet \in Seq(Rows)
  <2>1. {Trimmed[t] : t \in Texts} \subseteq Texts
    BY ContentAssumption
  <2> DEFINE C == [who : People, cell : {Trimmed[t] : t \in Texts} \cup {Blank}]
  <2>2. C \subseteq Rows /\ Sheets \subseteq Seq(C)
    BY <2>1, ContentAssumption DEF Rows
  <2> HIDE DEF C
  <2>3. Sheets \subseteq Seq(Rows)
    <3>1. Seq(C) \subseteq Seq(Rows)
      BY <2>2
    <3> QED BY <2>2, <3>1
  <2>4. import.sheet \in Sheets \/ import.sheet = <<>>
    BY <1>3 DEF ContentShape
  <2>5. <<>> \in Seq(Rows)
    OBVIOUS
  <2> QED BY <2>3, <2>4, <2>5
<1>5. /\ paras \in [People -> Seq(Texts)]
      /\ \A p \in People : Len(para[p]) <= Len(paras[p]) /\ Len(paras[p]) \in 0..MaxVersions
  <2>1. paras \in [People -> Seq(Texts)] /\ \A p \in People : Len(para[p]) <= Len(paras[p])
    BY <1>3, <1>4, ImportedType
  <2>2. \A p \in People : Len(paras[p]) \in Nat
    BY <2>1
  <2> QED BY <1>1, <2>1, <2>2, ContentAssumption
<1>6. ASSUME NEW p \in Asked
      PROVE  /\ p \in People /\ obl'[p] = AskedAgain(p)
             /\ AskedAgain(p) \in Seq(Obligation) /\ Len(obl'[p]) \in Nat
             /\ Len(obl'[p]) <= MaxObligations
             /\ Continues(obl[p], obl'[p], page[p], published, Len(paras[p]))
             /\ \A i \in DOMAIN obl'[p] : Live(obl'[p][i]) => i = Len(obl'[p])
  <2>1. p \in People
    BY <1>3 DEF Asked, ContentShape
  <2>2. LivePara(SeenByImport, p) = Len(paras[p])
    BY DEF LivePara, SeenByImport
  <2>3. Times(p) \in Nat
    BY <1>3, <1>5, <2>1 DEF Times
  <2>4. Len(paras[p]) \in 0..MaxVersions
    BY <1>5, <2>1
  <2> DEFINE ns == AskedAgain(p)
             j == Len(paras[p])
  <2> HIDE DEF paras, j
  <2>5. /\ ns \in Seq(Obligation) /\ Len(ns) = Len(obl[p]) + Times(p)
        /\ Continues(obl[p], ns, page[p], published, j)
        /\ \A i \in DOMAIN ns : Live(ns[i]) => i = Len(ns)
    BY <1>3, <2>2, <2>3, <2>4, AskedAgainIs DEF j
  <2>6. obl'[p] = ns
    BY <1>1, <2>1
  <2>7. Len(obl[p]) + Times(p) <= MaxObligations
    BY <1>1, <2>1
  <2> HIDE DEF ns
  <2> QED BY <2>1, <2>5, <2>6, <2>7 DEF ns, j
<1>7. \A p \in People \ Asked : obl'[p] = obl[p]
  BY <1>1
<1> HIDE DEF paras
<1>8. obl' \in [People -> Seq(Obligation)] /\ \A p \in People : Len(obl'[p]) <= MaxObligations
  <2>1. \A p \in People : obl'[p] \in Seq(Obligation) /\ Len(obl'[p]) <= MaxObligations
    BY <1>3, <1>6, <1>7 DEF ContentShape
  <2>2. obl' = [p \in People |-> obl'[p]]
    BY <1>1
  <2> QED BY <2>1, <2>2
<1>9. FiguresAgree' /\ stats' \in [on : BOOLEAN, pending : 0..Cardinality(People), moved : BOOLEAN]
  BY <1>1, <1>3, CountedHolds
<1>10. /\ ask' \in [on : BOOLEAN, rev : 0..MaxRevisions, at : [People -> 0..MaxObligations],
                    para : [People -> 0..MaxVersions], moved : BOOLEAN]
       /\ ask'.on = ask.on /\ ask'.rev = ask.rev /\ ask'.at = ask.at /\ ask'.para = ask.para
       /\ ask'.moved = ask.on \/ (ask'.moved = ask.moved /\ para' = para)
  <2>1. ask \in [on : BOOLEAN, rev : 0..MaxRevisions, at : [People -> 0..MaxObligations],
                 para : [People -> 0..MaxVersions], moved : BOOLEAN]
    BY <1>3 DEF ContentShape
  <2>2. CASE Reread
    BY <2>1, <2>2 DEF Reread
  <2>3. CASE ask' = ask /\ para' = para
    BY <2>1, <2>3
  <2> QED BY <1>1, <2>2, <2>3
<1>11. ContentShape'
  BY <1>1, <1>2, <1>3, <1>5, <1>8, <1>9, <1>10 DEF ContentShape
<1>12. Explainable'
  BY <1>1, <1>2, <1>3, ExplainedStill, RowsSame DEF ContentInv
<1>13. \A p \in People : Len(para[p]) <= Len(para'[p])
  BY <1>1, <1>5
<1>14. published' = published /\ published \in Nat /\ page' = page
  BY <1>1, <1>3 DEF ContentShape
<1>15. CASE Asked = {}
  <2>1. obl' = obl
    BY <1>3, <1>7, <1>8, <1>15
  <2>2. AskFollows'
    <3> SUFFICES ASSUME ask.on
                 PROVE  /\ ask.rev # 0 /\ ask.rev <= published
                        /\ \A p \in People :
                             /\ ask.para[p] <= Len(para'[p])
                             /\ ask.at[p] # 0 => ask.at[p] \in DOMAIN obl[p] /\ LiveOf(p) \subseteq {ask.at[p]}
                        /\ ~ask'.moved => /\ ask.rev = published
                                          /\ \A p \in People : ask.at[p] # 0 => ask.para[p] = Len(para'[p])
      BY <1>10, <1>14, <2>1 DEF AskFollows, LiveOf, Live
    <3>1. /\ ask.rev # 0 /\ ask.rev <= published
          /\ \A p \in People :
               /\ ask.para[p] <= Len(para[p]) /\ ask.para[p] \in Nat
               /\ ask.at[p] # 0 => ask.at[p] \in DOMAIN obl[p] /\ LiveOf(p) \subseteq {ask.at[p]}
          /\ ~ask.moved => /\ ask.rev = published
                           /\ \A p \in People : ask.at[p] # 0 => ask.para[p] = Len(para[p])
      BY ContentAssumption DEF ContentInv, ContentShape, AskFollows
    <3>2. \A p \in People : Len(para'[p]) \in Nat
      BY <1>1, <1>5, ContentAssumption
    <3>3. ~ask'.moved => para' = para /\ ~ask.moved
      BY <1>10
    <3> QED BY <1>3, <1>13, <3>1, <3>2, <3>3
  <2>3. ContentInv'
    <3>1. published <= published' /\ (published = 0 => published' = 0 /\ recipients' = recipients)
      BY <1>2, <1>14
    <3> QED BY <1>9, <1>11, <1>12, <1>13, <1>14, <2>1, <2>2, <3>1, TextsHold
  <2> QED BY <1>3, <2>1, <2>3
<1>16. CASE Asked # {}
  <2>1. ~ask.on /\ published # 0
    BY <1>1, <1>16 DEF Asked
  <2>2. AskFollows'
    BY <1>10, <2>1 DEF AskFollows
  <2>3. OneLive'
    <3> SUFFICES ASSUME NEW p \in People, NEW i \in LiveOf(p)', NEW k \in LiveOf(p)' PROVE i = k
      BY DEF OneLive
    <3>1. CASE p \in Asked
      BY <1>6, <3>1 DEF LiveOf
    <3>2. CASE p \notin Asked
      BY <1>3, <1>7, <3>2 DEF OneLive, LiveOf
    <3> QED BY <3>1, <3>2
  <2>4. ASSUME NEW p \in People
        PROVE  /\ Continues(obl[p], obl'[p], page[p], published, Len(para'[p]))
               /\ published <= published' /\ Len(para'[p]) <= Len(para'[p])
    <3>1. Len(para'[p]) \in Nat
      BY <1>1, <1>5, ContentAssumption
    <3>2. CASE p \in Asked
      BY <1>1, <1>6, <1>14, <3>1, <3>2
    <3>3. CASE p \notin Asked
      BY <1>3, <1>7, <1>14, <3>1, <3>3 DEF Continues, KeptBut
    <3> QED BY <3>2, <3>3
  <2>5. ContentInv'
    BY <1>9, <1>11, <1>12, <1>13, <1>14, <2>1, <2>2, <2>3, <2>4, AskedHold
  <2>6. ASSUME NEW p \in People, Len(obl'[p]) > Len(obl[p])
        PROVE  Last(obl'[p]).rev = published' /\ Last(obl'[p]).para = LivePara(para', p)
    <3>1. obl[p] \in Seq(Obligation) /\ obl'[p] \in Seq(Obligation)
      BY <1>3, <1>8
    <3> QED BY <1>14, <2>4, <2>6, <3>1, LastContinues DEF LivePara
  <2> QED BY <2>5, <2>6
<1> QED BY <1>15, <1>16

\* As many people are pending as are counted: nobody is counted twice.
LEMMA PendingCounted ==
  ASSUME ContentShape, OneLive
  PROVE  /\ PendingCount = Cardinality(PendingNames)
         /\ PendingCount \in 0..Cardinality(People)
<1> DEFINE D == {d \in Denominator : ~obl[d[1]][d[2]].acked}
           f == [d \in D |-> d[1]]
<1>1. IsFiniteSet(People) /\ PendingNames \subseteq People
  BY OrgUnitsAssumption DEF PendingNames
<1>2. IsFiniteSet(PendingNames) /\ Cardinality(PendingNames) <= Cardinality(People)
  BY <1>1, FS_Subset
<1>3. Cardinality(PendingNames) \in Nat /\ Cardinality(People) \in Nat
  BY <1>1, <1>2, FS_CardinalityType
<1>4. ASSUME NEW d \in D
      PROVE  d = <<d[1], d[2]>> /\ d[1] \in People /\ d[2] \in LiveOf(d[1]) /\ d[1] \in PendingNames
  <2>1. d \in People \X (1..MaxObligations) /\ d[2] \in LiveOf(d[1]) /\ ~obl[d[1]][d[2]].acked
    BY DEF Denominator
  <2> QED BY <2>1 DEF PendingNames
<1>5. ASSUME NEW p \in PendingNames
      PROVE  \E d \in D : d[1] = p
  <2>1. PICK i \in LiveOf(p) : ~obl[p][i].acked
    BY DEF PendingNames
  <2>2. p \in People /\ i \in 1..MaxObligations
    BY <1>1, LiveOne
  <2>3. <<p, i>> \in D
    BY <2>1, <2>2 DEF Denominator
  <2> QED BY <2>3
<1>6. ASSUME NEW c \in D, NEW d \in D, c[1] = d[1]
      PROVE  c = d
  <2>1. c[2] = d[2]
    BY <1>4, <1>6 DEF OneLive
  <2> QED BY <1>4, <1>6, <2>1
<1>7. f \in [D -> PendingNames] /\ \A d \in D : f[d] = d[1]
  BY <1>4
<1> HIDE DEF f, D
<1>8. f \in Injection(D, PendingNames)
  BY <1>6, <1>7 DEF Injection, IsInjective
<1>9. f \in Surjection(D, PendingNames)
  BY <1>5, <1>7 DEF Surjection
<1>10. Cardinality(D) = Cardinality(PendingNames)
  BY <1>2, <1>8, <1>9, FS_Injection
<1>11. PendingCount = Cardinality(D)
  BY DEF PendingCount, D
<1> QED BY <1>2, <1>3, <1>10, <1>11

LEMMA StatsHold ==
  ASSUME OrgInv, ContentInv, StatsCount \/ StatsNames
  PROVE  ContentInv'
<1>1. UNCHANGED <<orgVars, active, target, recipients, because, revision, published, para, obl,
                  page, import, ask>>
  BY DEF StatsCount, StatsNames, reach, text
<1>2. /\ stats' \in [on : BOOLEAN, pending : 0..Cardinality(People), moved : BOOLEAN]
      /\ stats'.on => stats'.pending = Cardinality(PendingNames)
  <2>1. CASE StatsCount
    <3>1. stats' = [on |-> TRUE, pending |-> PendingCount, moved |-> FALSE]
      BY <2>1 DEF StatsCount
    <3>2. PendingCount = Cardinality(PendingNames) /\ PendingCount \in 0..Cardinality(People)
      BY PendingCounted DEF ContentInv
    <3> QED BY <3>1, <3>2
  <2>2. CASE StatsNames
    <3>1. Cardinality(People) \in Nat
      BY OrgUnitsAssumption, FS_CardinalityType
    <3> QED BY <2>2, <3>1 DEF StatsNames, NoStats
  <2> QED BY <2>1, <2>2
<1>3. PendingNames' = PendingNames
  BY <1>1 DEF PendingNames, LiveOf, Live
<1>4. FiguresAgree'
  BY <1>2, <1>3 DEF FiguresAgree
<1>5. ContentShape'
  BY <1>1, <1>2 DEF ContentInv, ContentShape
<1>6. AskFollows'
  BY <1>1 DEF ContentInv, AskFollows, LiveOf, Live
<1>7. Explainable'
  BY <1>1, ExplainedStill, RowsSame DEF ContentInv
<1>8. published <= published' /\ \A p \in People : Len(para[p]) <= Len(para'[p])
  BY <1>1 DEF ContentInv, ContentShape
<1> QED BY <1>1, <1>4, <1>5, <1>6, <1>7, <1>8, TextsHold

-----------------------------------------------------------------------------

LEMMA InitContent == ContentInit => ContentInv
<1> SUFFICES ASSUME ContentInit PROVE ContentInv
  OBVIOUS
<1>1. /\ active = People /\ target = {} /\ recipients = {} /\ revision = 1 /\ published = 0
      /\ because = [p \in People |-> {}] /\ para = [p \in People |-> <<>>]
      /\ obl = [p \in People |-> <<>>] /\ page = [p \in People |-> NoScreen]
      /\ import = NoImport /\ ask = NoAsk /\ stats = NoStats
  BY DEF ContentInit
<1>2. Cardinality(People) \in Nat
  BY OrgUnitsAssumption, FS_CardinalityType
<1>3. /\ NoScreen \in Screen /\ NoScreen.seen = 0
      /\ NoAsk \in [on : BOOLEAN, rev : 0..MaxRevisions, at : [People -> 0..MaxObligations],
                    para : [People -> 0..MaxVersions], moved : BOOLEAN]
      /\ NoStats \in [on : BOOLEAN, pending : 0..Cardinality(People), moved : BOOLEAN]
      /\ NoImport \in [on : BOOLEAN, sheet : Sheets \cup {<<>>}, major : BOOLEAN]
      /\ ~NoAsk.on /\ ~NoStats.on
  BY <1>2, ContentAssumption DEF NoScreen, Screen, NoAsk, NoStats, NoImport
<1>4. /\ para \in [People -> Seq(Texts)] /\ obl \in [People -> Seq(Obligation)]
      /\ \A p \in People : Len(para[p]) = 0 /\ Len(obl[p]) = 0 /\ DOMAIN obl[p] = {}
  BY <1>1
<1>5. ContentShape
  BY <1>1, <1>3, <1>4, ContentAssumption DEF ContentShape
<1>6. Unpublished /\ AskedForWritten /\ ShownNotOlder /\ OneLive /\ Explainable
  BY <1>1, <1>4 DEF Unpublished, AskedForWritten, ShownNotOlder, OneLive, LiveOf, Explainable
<1>7. ScreenFollows
  BY <1>1, <1>3, <1>4 DEF ScreenFollows
<1>8. AskFollows /\ FiguresAgree
  BY <1>1, <1>3 DEF AskFollows, FiguresAgree
<1> QED BY <1>5, <1>6, <1>7, <1>8 DEF ContentInv

LEMMA ContentStepHolds ==
  ASSUME OrgInv, ContentInv, ContentStep
  PROVE  ContentInv'
<1>1. ASSUME NEW S, AskSelect(S) PROVE ContentInv'
  BY <1>1, AskSelectHolds
<1>2. ASSUME NEW p \in People, Look(p) \/ Acknowledge(p) \/ DisablePerson(p)
      PROVE  ContentInv'
  BY <1>2, LookHolds, AcknowledgeHolds, DisableHolds
<1>3. CASE /\ OrgStep \/ (\E p \in People, u \in Units : LeaveUnit(p, u))
           /\ UNCHANGED <<reach, text, obl, page, work>>
  BY <1>3, OrgPart
<1>4. CASE \/ \E g \in Targets : SetTargets(g)
           \/ \E sheet \in Sheets, major \in BOOLEAN : ImportBegin(sheet, major)
           \/ ImportFails \/ AskFails
           \/ \E p \in People : RestorePerson(p)
  BY <1>4, AsideHolds
<1>5. CASE Revise \/ \E p \in People, t \in Texts : PutPara(p, t)
  BY <1>5, TextStep
<1>6. CASE Publish \/ ImportCommit \/ AskCommit \/ StatsCount \/ StatsNames
  BY <1>6, PublishHolds, ImportCommitHolds, AskCommitHolds, StatsHold
<1> QED BY <1>1, <1>2, <1>3, <1>4, <1>5, <1>6 DEF ContentStep

LEMMA ContentKept ==
  ASSUME OrgInv, ContentInv, UNCHANGED contentVars
  PROVE  ContentInv'
<1>1. UNCHANGED <<orgVars, active, target, recipients, because, revision, published, para, obl,
                  page, import, ask, stats>>
  BY DEF contentVars, reach, text, work
<1>2. ContentShape' /\ AskFollows' /\ FiguresAgree'
  BY <1>1, FiguresKept DEF ContentInv, ContentShape, AskFollows, LiveOf, Live
<1>3. Explainable'
  BY <1>1, ExplainedStill, RowsSame DEF ContentInv
<1>4. published <= published' /\ \A p \in People : Len(para[p]) <= Len(para'[p])
  BY <1>1 DEF ContentInv, ContentShape
<1> QED BY <1>1, <1>2, <1>3, <1>4, TextsHold

LEMMA NextContent == OrgInv /\ ContentInv /\ [AdminNext]_adminVars => ContentInv'
<1> SUFFICES ASSUME OrgInv, ContentInv, [AdminNext]_adminVars PROVE ContentInv'
  OBVIOUS
<1>1. CASE ContentStep
  BY <1>1, ContentStepHolds
<1>2. CASE UNCHANGED contentVars
  BY <1>2, ContentKept
<1> QED BY <1>1, <1>2 DEF AdminNext, adminVars

\* What an administrator and a recipient are told is so, for any people, units, texts,
\* sheets and targets and any number of revisions, paragraphs and obligations: why
\* somebody was included can be explained, nobody is recorded to have confirmed
\* anything newer than what a screen fetched after they were asked showed, and as many
\* people are named pending as are counted unless something was answered in between.
THEOREM AnnouncementAlwaysTells == AdminSpec => []AnnouncementTells
<1>1. AdminInit => OrgInv /\ ContentInv
  BY InitOrg, InitContent DEF AdminInit, ContentInit
<1>2. OrgInv /\ ContentInv /\ [AdminNext]_adminVars => OrgInv' /\ ContentInv'
  BY NextOrg, NextContent
<1>3. OrgInv /\ ContentInv => AnnouncementTells
  <2> SUFFICES ASSUME OrgInv, ContentInv PROVE AnnouncementTells
    OBVIOUS
  <2>1. ContentTypeOK
    BY DEF OrgInv, ContentInv, ContentShape, ContentTypeOK
  <2> QED BY <2>1 DEF ContentInv, AnnouncementTells
<1> QED BY <1>1, <1>2, <1>3, PTL DEF AdminSpec

\* Whoever a step asks again is asked for what is current.
LEMMA AskedCurrent ==
  ASSUME OrgInv, ContentInv, ContentStep, NEW p \in People,
         Len(obl'[p]) > Len(obl[p]), ~ask.moved
  PROVE  Last(obl'[p]).rev = published' /\ Last(obl'[p]).para = LivePara(para', p)
<1>1. /\ obl \in [People -> Seq(Obligation)] /\ \A q \in People : Len(obl[q]) \in Nat
      /\ obl[p] \in Seq(Obligation) /\ Len(para[p]) \in 0..MaxVersions
      /\ revision \in 1..MaxRevisions
  BY ContentAssumption DEF ContentInv, ContentShape
<1>2. obl' # obl
  BY <1>1
<1>3. \/ Publish \/ ImportCommit \/ AskCommit
      \/ \E q \in People : Acknowledge(q) \/ DisablePerson(q)
  BY <1>2 DEF ContentStep, SetTargets, Revise, PutPara, ImportBegin, ImportFails, AskSelect,
     AskFails, Look, RestorePerson, StatsCount, StatsNames
<1>4. CASE Publish
  <2>1. /\ published' = revision /\ para' = para
        /\ obl'[p] = <<NewObligation(revision, LivePara(para, p))>> \/ obl'[p] = <<>>
    BY <1>4 DEF Publish
  <2> DEFINE n == NewObligation(revision, LivePara(para, p))
  <2>2. n \in Obligation /\ n.rev = revision /\ n.para = Len(para[p])
    BY <1>1, NewType DEF LivePara
  <2> HIDE DEF n
  <2>3. obl'[p] = <<n>>
    BY <1>1, <2>1 DEF n
  <2>4. Len(<<n>>) = 1 /\ <<n>>[1] = n
    BY <2>2, OneSeq
  <2>5. Last(obl'[p]) = n
    BY <2>3, <2>4 DEF Last
  <2> QED BY <2>1, <2>2, <2>5 DEF LivePara
<1>5. CASE ImportCommit
  BY <1>5, ImportCommitHolds
<1>6. CASE AskCommit
  <2>1. /\ ask.on /\ UNCHANGED <<published, para>>
        /\ p \in AskedPeople =>
             obl'[p] = Replaced(obl[p], ask.at[p], ask.rev, ask.para[p])
        /\ p \notin AskedPeople => obl'[p] = obl[p]
    BY <1>6 DEF AskCommit, text
  <2>2. p \in AskedPeople
    BY <1>1, <2>1
  <2> DEFINE i == ask.at[p]
             r == ask.rev
             j == ask.para[p]
             os == obl[p]
  <2>3. /\ os \in Seq(Obligation) /\ i \in DOMAIN os /\ r \in 1..MaxRevisions /\ j \in 0..MaxVersions
        /\ r = published /\ j = Len(para[p])
    BY <2>1, <2>2, ContentAssumption DEF ContentInv, ContentShape, AskFollows, AskedPeople
  <2>4. obl'[p] = Replaced(os, i, r, j)
    BY <2>1, <2>2
  <2> HIDE DEF os, i, r, j
  <2>5. /\ Len(Replaced(os, i, r, j)) = Len(os) + 1
        /\ Continues(os, Replaced(os, i, r, j), NoScreen, r, j)
        /\ Replaced(os, i, r, j)[Len(os) + 1] = NewObligation(r, j)
    <3>1. os \in Seq(Obligation) /\ i \in DOMAIN os /\ r \in 1..MaxRevisions /\ j \in 0..MaxVersions
      BY <2>3
    <3> QED BY <3>1, ReplacedIs
  <2>6. NewObligation(r, j).rev = r /\ NewObligation(r, j).para = j
    BY <2>3, NewType
  <2> QED BY <2>1, <2>3, <2>4, <2>5, <2>6 DEF Last, LivePara
<1>7. ASSUME NEW q \in People, Acknowledge(q)
      PROVE  FALSE
  <2>1. PICK i \in LiveOf(q) :
          obl' = [obl EXCEPT ![q][i].acked = TRUE, ![q][i].shown = page[q]]
    BY <1>7 DEF Acknowledge
  <2>2. obl[q] \in Seq(Obligation) /\ i \in DOMAIN obl[q]
    BY <1>1 DEF LiveOf
  <2> DEFINE o == [obl[q][i] EXCEPT !.acked = TRUE, !.shown = page[q]]
             os == [obl[q] EXCEPT ![i] = o]
  <2>3. obl' = [obl EXCEPT ![q] = os]
    BY <1>1, <2>1, <2>2
  <2> HIDE DEF o
  <2>4. Len(os) = Len(obl[q])
    BY <2>2
  <2> HIDE DEF os
  <2>5. Len(obl'[p]) = Len(obl[p])
    BY <1>1, <2>3, <2>4
  <2> QED BY <1>1, <2>5
<1>8. ASSUME NEW q \in People, DisablePerson(q)
      PROVE  FALSE
  <2>1. Len(obl'[p]) = Len(obl[p])
    BY <1>8, DisableHolds
  <2> QED BY <1>1, <2>1
<1> QED BY <1>3, <1>4, <1>5, <1>6, <1>7, <1>8

\* A sheet that is the roster as it stands changes nothing.
LEMMA UntouchedQuiet ==
  ASSUME OrgInv, ContentInv, ContentStep, import.on, import.sheet \in SheetNow, ~import'.on,
         \A p \in active : para[p] # <<>> => Trimmed[Last(para[p])] = Last(para[p])
  PROVE  para' = para /\ obl' = obl
<1>1. ImportCommit \/ ImportFails
  BY DEF ContentStep, SetTargets, Publish, Revise, PutPara, ImportBegin, AskSelect, AskCommit,
     AskFails, Look, Acknowledge, DisablePerson, RestorePerson, StatsCount, StatsNames, work
<1>2. CASE ImportFails
  BY <1>2 DEF ImportFails, text
<1>3. CASE ImportCommit
  <2>1. Imported(import.sheet) = para
    BY RosterSaysNothing DEF ContentInv, ContentShape
  <2>2. \A p \in People : Times(p) = 0
    <3>1. \A p \in People : Len(para[p]) \in Nat
      BY DEF ContentInv, ContentShape
    <3> QED BY <2>1, <3>1 DEF Times
  <2>3. Asked = {}
    BY <2>2 DEF Asked, ContentInv, ContentShape
  <2>4. obl \in [People -> Seq(Obligation)]
    BY DEF ContentInv, ContentShape
  <2> QED BY <1>3, <2>1, <2>3, <2>4 DEF ImportCommit
<1> QED BY <1>1, <1>2, <1>3

\* Whoever is asked again, by an administrator or by a sheet, is asked for the
\* published text and their live paragraph, unless a text changed meanwhile, and the
\* roster imported as it stands asks nobody and changes nothing.
THEOREM ImportAlwaysAsks == AdminSpec => ImportAsks
<1>1. AdminInit => OrgInv /\ ContentInv
  BY InitOrg, InitContent DEF AdminInit, ContentInit
<1>2. OrgInv /\ ContentInv /\ [AdminNext]_adminVars => OrgInv' /\ ContentInv'
  BY NextOrg, NextContent
<1>3. OrgInv /\ ContentInv /\ [AdminNext]_adminVars =>
        [\A p \in People :
           (Len(obl'[p]) > Len(obl[p]) /\ ~ask.moved)
             => /\ Last(obl'[p]).rev = published'
                /\ Last(obl'[p]).para = LivePara(para', p)]_contentVars
  <2> SUFFICES ASSUME OrgInv, ContentInv, [AdminNext]_adminVars, ~UNCHANGED contentVars,
                      NEW p \in People, Len(obl'[p]) > Len(obl[p]), ~ask.moved
               PROVE  /\ Last(obl'[p]).rev = published'
                      /\ Last(obl'[p]).para = LivePara(para', p)
    OBVIOUS
  <2>1. ContentStep
    BY DEF AdminNext, adminVars
  <2> QED BY <2>1, AskedCurrent
<1>4. OrgInv /\ ContentInv /\ [AdminNext]_adminVars =>
        [(/\ import.on /\ import.sheet \in SheetNow
          /\ \A p \in active : para[p] # <<>> => Trimmed[Last(para[p])] = Last(para[p]))
         /\ ~import'.on => para' = para /\ obl' = obl]_contentVars
  <2> SUFFICES ASSUME OrgInv, ContentInv, [AdminNext]_adminVars, ~UNCHANGED contentVars,
                      import.on, import.sheet \in SheetNow, ~import'.on,
                      \A p \in active : para[p] # <<>> => Trimmed[Last(para[p])] = Last(para[p])
               PROVE  para' = para /\ obl' = obl
    OBVIOUS
  <2>1. ContentStep
    BY DEF AdminNext, adminVars
  <2> QED BY <2>1, UntouchedQuiet
<1> QED BY <1>1, <1>2, <1>3, <1>4, PTL DEF AdminSpec, ImportAsks, AskedForCurrent,
     UntouchedSheetIsQuiet

-----------------------------------------------------------------------------
(* The page on which targets are chosen.                                   *)

PickerShape ==
  /\ saved \subseteq Chips /\ sentTo \subseteq Chips /\ meddled \in BOOLEAN
  /\ detail \in [at : {"no", "asked", "answered"}, list : SUBSET Chips,
                 published : BOOLEAN, answer : SUBSET Chips,
                 answerPublished : BOOLEAN, error : BOOLEAN]
  /\ choice \in [at : {"no", "sent", "committed"}, list : SUBSET Chips,
                 chip : SUBSET Chips, calm : BOOLEAN]
  /\ release \in [at : {"no", "sent", "committed"}, saw : SUBSET Chips, calm : BOOLEAN]

\* Until somebody else saves or an answer is lost, what was answered, and what
\* is shown, is what is saved, unless a save was made that was not answered yet.
PageFollows ==
  choice.at # "committed" =>
    /\ detail.at = "answered" => detail.answer = saved
    /\ detail.at = "no" /\ ~detail.error => detail.list = saved

\* A press made at rest is about what is saved, and stays so until it is answered.
PressesFollow ==
  /\ choice.at = "sent" /\ choice.calm => choice.list = SymDiff(saved, choice.chip)
  /\ release.at = "sent" /\ release.calm => choice.at = "no" /\ release.saw = saved

PickerInv == PickerShape /\ (~meddled => PageFollows /\ PressesFollow)

\* A chip added or removed twice changes nothing.
LEMMA SymDiffTwice ==
  ASSUME NEW A, NEW B
  PROVE  SymDiff(A, SymDiff(A, B)) = B
  BY DEF SymDiff

LEMMA SymDiffType ==
  ASSUME NEW S, NEW A \in SUBSET S, NEW B \in SUBSET S
  PROVE  SymDiff(A, B) \in SUBSET S
  BY DEF SymDiff

LEMMA InitPicker == PickerInit => PickerInv
<1> SUFFICES ASSUME PickerInit PROVE PickerInv
  OBVIOUS
<1>1. /\ detail \in [at : {"no", "asked", "answered"}, list : SUBSET Chips,
                     published : BOOLEAN, answer : SUBSET Chips,
                     answerPublished : BOOLEAN, error : BOOLEAN]
      /\ detail.at = "asked"
  BY DEF PickerInit, FirstLoad
<1>2. /\ choice \in [at : {"no", "sent", "committed"}, list : SUBSET Chips,
                     chip : SUBSET Chips, calm : BOOLEAN]
      /\ choice.at = "no"
  BY DEF PickerInit, AtRest
<1>3. /\ release \in [at : {"no", "sent", "committed"}, saw : SUBSET Chips, calm : BOOLEAN]
      /\ release.at = "no"
  BY DEF PickerInit, NotReleased
<1>4. PickerShape
  BY <1>1, <1>2, <1>3 DEF PickerInit, PickerShape
<1> QED BY <1>1, <1>2, <1>3, <1>4 DEF PickerInv, PageFollows, PressesFollow

LEMMA QueryStep ==
  ASSUME PickerInv, DetailAsked \/ DetailAnswers \/ DetailTaken \/ DetailFails
  PROVE  PickerInv'
<1>1. /\ UNCHANGED <<saved, sentTo, choice, release, meddled>>
      /\ detail' \in [at : {"no", "asked", "answered"}, list : SUBSET Chips,
                      published : BOOLEAN, answer : SUBSET Chips,
                      answerPublished : BOOLEAN, error : BOOLEAN]
      /\ \/ detail'.at = "asked"
         \/ detail'.at = "answered" /\ detail'.answer = saved
         \/ detail'.at = "no" /\ detail.at = "answered" /\ detail'.list = detail.answer
         \/ detail'.at = "no" /\ detail'.error
  <2>1. CASE DetailAsked
    BY <2>1 DEF DetailAsked, Refreshed, PickerInv, PickerShape
  <2>2. CASE DetailAnswers
    BY <2>2 DEF DetailAnswers, PickerInv, PickerShape
  <2>3. CASE DetailTaken
    BY <2>3 DEF DetailTaken, PickerInv, PickerShape
  <2>4. CASE DetailFails
    BY <2>4 DEF DetailFails, PickerInv, PickerShape
  <2> QED BY <2>1, <2>2, <2>3, <2>4
<1>2. PickerShape'
  BY <1>1 DEF PickerInv, PickerShape
<1>3. ~meddled => PageFollows' /\ PressesFollow'
  BY <1>1 DEF PickerInv, PageFollows, PressesFollow
<1> QED BY <1>1, <1>2, <1>3 DEF PickerInv

LEMMA ChoosingStep ==
  ASSUME PickerInv,
         (\E c \in Chips : Toggle(c)) \/ PutCommits \/ PutAnswered \/ PutFails \/ OtherAdminSaves
  PROVE  PickerInv'
<1>0. PickerShape /\ meddled \in BOOLEAN
  BY DEF PickerInv, PickerShape
<1>1. ASSUME NEW c \in Chips, Toggle(c) PROVE PickerInv'
  <2>1. /\ UNCHANGED <<saved, sentTo, detail, meddled>> /\ ~detail.error /\ choice.at = "no"
        /\ choice' = [at |-> "sent", list |-> SymDiff(detail.list, {c}), chip |-> {c},
                      calm |-> detail.at = "no"]
        /\ release' = [release EXCEPT !.calm = FALSE]
    BY <1>1 DEF Toggle, ChipsEnabled
  <2>2. SymDiff(detail.list, {c}) \in SUBSET Chips
    BY <1>0, SymDiffType DEF PickerShape
  <2>3. PickerShape' /\ ~release'.calm
    BY <1>0, <2>1, <2>2 DEF PickerShape
  <2>4. choice'.at = "sent" /\ choice'.list = SymDiff(detail.list, choice'.chip)
        /\ (choice'.calm <=> detail.at = "no")
    BY <2>1
  <2>5. ~meddled => PageFollows' /\ PressesFollow'
    BY <2>1, <2>3, <2>4 DEF PickerInv, PageFollows, PressesFollow
  <2> QED BY <2>1, <2>3, <2>5 DEF PickerInv
<1>2. CASE PutCommits
  <2>1. PickerShape' /\ choice'.at = "committed" /\ choice.at = "sent"
        /\ UNCHANGED <<detail, release, meddled>>
    BY <1>0, <1>2 DEF PutCommits, PickerShape
  <2>2. ~meddled => PageFollows' /\ PressesFollow'
    BY <2>1 DEF PickerInv, PageFollows, PressesFollow
  <2> QED BY <2>1, <2>2 DEF PickerInv
<1>3. CASE PutAnswered
  <2>1. PickerShape' /\ choice'.at = "no" /\ detail'.at = "asked" /\ choice.at = "committed"
        /\ UNCHANGED <<saved, release, meddled>>
    BY <1>0, <1>3 DEF PutAnswered, PickerShape, AtRest, Refreshed
  <2>2. ~meddled => PageFollows' /\ PressesFollow'
    BY <2>1 DEF PickerInv, PageFollows, PressesFollow
  <2> QED BY <2>1, <2>2 DEF PickerInv
<1>4. CASE PutFails
  <2>1. /\ UNCHANGED <<saved, sentTo, detail, release>> /\ choice' = AtRest
        /\ meddled' = (meddled \/ choice.at = "committed")
    BY <1>4 DEF PutFails
  <2>2. choice' \in [at : {"no", "sent", "committed"}, list : SUBSET Chips,
                     chip : SUBSET Chips, calm : BOOLEAN] /\ choice'.at = "no"
    BY <2>1 DEF AtRest
  <2>3. meddled' \in BOOLEAN /\ (~meddled' => ~meddled /\ choice.at # "committed")
    BY <2>1, <1>0, Zenon
  <2>4. PickerShape'
    BY <1>0, <2>1, <2>2, <2>3 DEF PickerShape
  <2>5. ~meddled' => PageFollows' /\ PressesFollow'
    BY <2>1, <2>2, <2>3 DEF PickerInv, PageFollows, PressesFollow
  <2> QED BY <2>4, <2>5 DEF PickerInv
<1>5. CASE OtherAdminSaves
  BY <1>0, <1>5 DEF OtherAdminSaves, PickerInv, PickerShape
<1> QED BY <1>1, <1>2, <1>3, <1>4, <1>5

LEMMA ReleaseStep ==
  ASSUME PickerInv, PressPublish \/ PublishCommits \/ PublishAnswered \/ PublishFails
  PROVE  PickerInv'
<1>1. CASE PressPublish
  <2>1. PickerShape' /\ UNCHANGED <<saved, detail, choice, meddled>>
        /\ release'.at = "sent" /\ release'.saw = detail.list /\ ~detail.error
        /\ (release'.calm <=> choice.at = "no" /\ detail.at = "no")
    BY <1>1 DEF PressPublish, PickerInv, PickerShape
  <2>2. ~meddled => PageFollows' /\ PressesFollow'
    BY <2>1 DEF PickerInv, PageFollows, PressesFollow
  <2> QED BY <2>1, <2>2 DEF PickerInv
<1>2. CASE PublishCommits
  <2>1. PickerShape' /\ UNCHANGED <<saved, detail, choice, meddled>>
        /\ release'.at = "committed"
    BY <1>2 DEF PublishCommits, PickerInv, PickerShape
  <2>2. ~meddled => PageFollows' /\ PressesFollow'
    BY <2>1 DEF PickerInv, PageFollows, PressesFollow
  <2> QED BY <2>1, <2>2 DEF PickerInv
<1>3. CASE PublishAnswered \/ PublishFails
  <2>1. /\ UNCHANGED <<saved, sentTo, choice, meddled>>
        /\ release' = NotReleased /\ detail' \in {detail, Refreshed}
    BY <1>3 DEF PublishAnswered, PublishFails
  <2>2. /\ release' \in [at : {"no", "sent", "committed"}, saw : SUBSET Chips, calm : BOOLEAN]
        /\ release'.at = "no"
    BY <2>1 DEF NotReleased
  <2>3. /\ detail' \in [at : {"no", "asked", "answered"}, list : SUBSET Chips,
                        published : BOOLEAN, answer : SUBSET Chips,
                        answerPublished : BOOLEAN, error : BOOLEAN]
        /\ detail'.at = "asked" \/ detail' = detail
    BY <2>1 DEF Refreshed, PickerInv, PickerShape
  <2>4. PickerShape'
    BY <2>1, <2>2, <2>3 DEF PickerInv, PickerShape
  <2>5. ~meddled => PageFollows' /\ PressesFollow'
    BY <2>1, <2>2, <2>3 DEF PickerInv, PageFollows, PressesFollow
  <2> QED BY <2>1, <2>4, <2>5 DEF PickerInv
<1> QED BY <1>1, <1>2, <1>3

LEMMA NextPicker == PickerInv /\ [AdminNext]_adminVars => PickerInv'
<1> SUFFICES ASSUME PickerInv, [AdminNext]_adminVars PROVE PickerInv'
  OBVIOUS
<1>1. CASE PickerStep
  BY <1>1, QueryStep, ChoosingStep, ReleaseStep DEF PickerStep
<1>2. CASE UNCHANGED pickerVars
  BY <1>2 DEF pickerVars, PickerInv, PickerShape, PageFollows, PressesFollow
<1> QED BY <1>1, <1>2 DEF AdminNext, adminVars

\* The picker does what it shows, for any groups: chips are what is saved, one
\* press changes one of them, and publishing goes to those that were lit.
THEOREM TargetsAlwaysAsSeen == AdminSpec => TargetsAsSeen
<1>1. AdminInit => PickerInv
  BY InitPicker DEF AdminInit
<1>2. PickerInv => PickerTypeOK /\ ChipsAreSaved
  <2> SUFFICES ASSUME PickerInv PROVE PickerTypeOK /\ ChipsAreSaved
    OBVIOUS
  <2>1. PickerTypeOK
    BY DEF PickerInv, PickerShape, PickerTypeOK
  <2>2. ChipsAreSaved
    BY DEF PickerInv, PageFollows, ChipsAreSaved
  <2> QED BY <2>1, <2>2
<1>3. PickerInv /\ [AdminNext]_adminVars =>
        [saved' # saved /\ choice'.at = "committed" /\ choice.calm /\ ~meddled'
           => SymDiff(saved, saved') = choice.chip]_pickerVars
  <2> SUFFICES ASSUME PickerInv, [AdminNext]_adminVars, saved' # saved,
                      choice'.at = "committed", choice.calm, ~meddled'
               PROVE  SymDiff(saved, saved') = choice.chip
    OBVIOUS
  <2>1. PutCommits
    BY DEF AdminNext, adminVars, pickerVars, PickerStep, DetailAsked, DetailAnswers,
       DetailTaken, DetailFails, Toggle, PutAnswered, PutFails, OtherAdminSaves,
       PressPublish, PublishCommits, PublishAnswered, PublishFails
  <2>2. choice.at = "sent" /\ saved' = choice.list /\ ~meddled
    BY <2>1 DEF PutCommits
  <2>3. saved' = SymDiff(saved, choice.chip)
    BY <2>2 DEF PickerInv, PressesFollow
  <2> QED BY <2>3, SymDiffTwice
<1>4. PickerInv /\ [AdminNext]_adminVars =>
        [sentTo' # sentTo /\ release.calm /\ ~meddled => sentTo' = release.saw]_pickerVars
  <2> SUFFICES ASSUME PickerInv, [AdminNext]_adminVars, sentTo' # sentTo,
                      release.calm, ~meddled
               PROVE  sentTo' = release.saw
    OBVIOUS
  <2>1. PublishCommits
    BY DEF AdminNext, adminVars, pickerVars, PickerStep, DetailAsked, DetailAnswers,
       DetailTaken, DetailFails, Toggle, PutCommits, PutAnswered, PutFails, OtherAdminSaves,
       PressPublish, PublishAnswered, PublishFails
  <2> QED BY <2>1 DEF PublishCommits, PickerInv, PressesFollow
<1> QED BY <1>1, <1>2, <1>3, <1>4, NextPicker, PTL
        DEF AdminSpec, TargetsAsSeen, OneChipChanges, PublishedAsSeen

-----------------------------------------------------------------------------
(* Secrets that are issued from a page.                                    *)

ListingShape ==
  listing \in [at : {"no", "asked", "answered"}, list : SUBSET SecretIds,
               answer : SUBSET SecretIds, stale : BOOLEAN]

\* Only the answer brings a secret on the screen, and it is put away once.
ScreenOnce ==
  /\ \A s \in gone \cup OffScreen : issuing[s].at \in {"settling", "over"}
  /\ onScreen \notin gone

\* What is in use, listed or revoked was issued before; what is revoked is not
\* issued again.
IssuedBefore ==
  \A s \in SecretIds :
    /\ issuing[s].at \in {"no", "sent"} =>
         s \notin live \cup listing.list \cup listing.answer /\ revoking[s].at = "no"
    /\ revoking[s].at = "committed" => s \notin live

\* A change the page has not been told of.
Untold(s) == (issuing[s].at = "committed" /\ s \in live) \/ revoking[s].at = "committed"

\* The list has the secret as it is, or is asked for after the last change the
\* page was told of, or will be once somebody looks.
ToldOf(s) ==
  \/ Untold(s)
  \/ listing.at = "asked"
  \/ listing.at = "answered" /\ (s \in live <=> s \in listing.answer)
  \/ listing.at = "no" /\ (s \in live <=> s \in listing.list)
  \/ listing.at = "no" /\ listing.stale /\ ~Up

ListFollows == \A s \in SecretIds \ unsure : ToldOf(s)

SecretInv ==
  /\ SecretsTypeOK /\ ListingShape /\ LiveWasShown /\ ScreenOnce
  /\ IssuedBefore /\ ListFollows

LEMMA InitSecrets == SecretsInit => SecretInv
<1> SUFFICES ASSUME SecretsInit PROVE SecretInv
  OBVIOUS
<1>1. MaxMounts \in Nat /\ MaxSecrets \in Nat
  BY IssuedSecretsAssumption
<1>2. NotAskedFor \in Requests /\ NotAskedFor.at = "no"
  BY <1>1 DEF NotAskedFor, Requests
<1>3. SecretsTypeOK /\ ListingShape
  BY <1>1, <1>2 DEF SecretsInit, SecretsTypeOK, ListingShape
<1>4. LiveWasShown /\ ScreenOnce /\ IssuedBefore /\ ListFollows
  BY <1>1, <1>2 DEF SecretsInit, LiveWasShown, ScreenOnce, OffScreen, IssuedBefore,
     ListFollows, ToldOf, SecretIds
<1> QED BY <1>3, <1>4 DEF SecretInv

\* One request goes on, the others stand still.
LEMMA ToType ==
  ASSUME NEW r \in [SecretIds -> Requests], NEW s \in SecretIds,
         NEW step \in {"no", "sent", "committed", "settling", "over"}
  PROVE  /\ To(r, s, step) \in [SecretIds -> Requests]
         /\ To(r, s, step)[s].at = step /\ To(r, s, step)[s].mount = r[s].mount
         /\ \A t \in SecretIds \ {s} : To(r, s, step)[t] = r[t]
  BY DEF To, Requests

\* The list is asked for again, or marked when nobody looks.
LEMMA AskedAgainListing ==
  ASSUME ListingShape
  PROVE  /\ ListAskedAgain \in [at : {"no", "asked", "answered"}, list : SUBSET SecretIds,
                                answer : SUBSET SecretIds, stale : BOOLEAN]
         /\ ListAskedAgain.list = listing.list /\ ListAskedAgain.answer = listing.answer
         /\ ListAskedAgain.stale
         /\ Up => ListAskedAgain.at = "asked"
         /\ ~Up => ListAskedAgain.at = listing.at
  BY DEF ListingShape, ListAskedAgain

\* The panel is put up: the list is asked for unless it is known to be fresh.
LEMMA MountedListing ==
  ASSUME ListingShape, SecretsTypeOK, PutUp
  PROVE  /\ ListingShape' /\ mount' \in 0..MaxMounts
         /\ listing'.list = listing.list /\ listing'.answer = listing.answer
         /\ \/ listing' = listing /\ (listing.at = "no" => ~listing.stale)
            \/ listing.at = "no" /\ listing'.at = "asked"
<1>1. MaxMounts \in Nat
  BY IssuedSecretsAssumption
<1>2. mount' \in 0..MaxMounts
  BY <1>1 DEF PutUp, SecretsTypeOK
<1>3. \/ listing' = listing /\ (listing.at = "no" => ~listing.stale)
      \/ listing.at = "no" /\ listing' = [listing EXCEPT !.at = "asked"]
  BY DEF PutUp, ListingOnMount
<1>4. CASE listing' = listing /\ (listing.at = "no" => ~listing.stale)
  BY <1>2, <1>4 DEF ListingShape
<1>5. CASE listing.at = "no" /\ listing' = [listing EXCEPT !.at = "asked"]
  BY <1>2, <1>5 DEF ListingShape
<1> QED BY <1>3, <1>4, <1>5

\* The page is looked at, or not: nothing happens to the secrets.
LEMMA PanelStep ==
  ASSUME SecretInv, Return \/ Unfold \/ Fold \/ Leave \/ DismissSecret
  PROVE  SecretInv'
<1>1. /\ UNCHANGED <<kind, issuing, revoking, live, unseen, unsure>>
      /\ view' \in {"away", "folded", "open"} /\ mount' \in 0..MaxMounts
      /\ \/ onScreen' = onScreen /\ gone' = gone
         \/ onScreen' = 0 /\ gone' = gone \cup OffScreen
      /\ ListingShape'
      /\ listing'.list = listing.list /\ listing'.answer = listing.answer
      /\ listing' = listing \/ listing'.at = "asked"
      /\ listing'.at = "no" /\ ~Up /\ Up' => ~listing.stale
  <2>1. CASE Return
    <3>1. CASE kind = "token"
      BY <2>1, <3>1 DEF Return, Up, SecretInv, SecretsTypeOK, historyVars, ListingShape
    <3>2. CASE kind = "webhook"
      BY <2>1, <3>2, MountedListing DEF Return, Up, SecretInv, SecretsTypeOK, historyVars
    <3> QED BY <3>1, <3>2 DEF SecretInv, SecretsTypeOK
  <2>2. CASE Unfold
    <3>1. CASE kind = "token"
      BY <2>2, <3>1, MountedListing DEF Unfold, Up, SecretInv, SecretsTypeOK, historyVars
    <3>2. CASE kind = "webhook"
      BY <2>2, <3>2 DEF Unfold, Up, SecretInv, SecretsTypeOK, historyVars, ListingShape
    <3> QED BY <3>1, <3>2 DEF SecretInv, SecretsTypeOK
  <2>3. CASE Fold
    BY <2>3 DEF Fold, ScreenAfterFold, Up, SecretInv, SecretsTypeOK, ListingShape
  <2>4. CASE Leave
    BY <2>4 DEF Leave, Up, SecretInv, SecretsTypeOK, ListingShape
  <2>5. CASE DismissSecret
    BY <2>5 DEF DismissSecret, Up, SecretInv, SecretsTypeOK, ListingShape
  <2> QED BY <2>1, <2>2, <2>3, <2>4, <2>5
<1>2. SecretsTypeOK'
  BY <1>1, IssuedSecretsAssumption DEF SecretInv, SecretsTypeOK, OffScreen, SecretIds, ListingShape
<1>3. LiveWasShown' /\ ScreenOnce' /\ IssuedBefore'
  BY <1>1 DEF SecretInv, SecretsTypeOK, LiveWasShown, ScreenOnce, OffScreen, IssuedBefore, SecretIds
<1>4. ListFollows'
  <2> SUFFICES ASSUME NEW s \in SecretIds \ unsure PROVE ToldOf(s)'
    BY <1>1 DEF ListFollows
  <2>1. ToldOf(s)
    BY DEF SecretInv, ListFollows
  <2> QED BY <1>1, <2>1 DEF ToldOf, Untold
<1> QED BY <1>1, <1>2, <1>3, <1>4 DEF SecretInv

\* The list is answered, and what was answered is taken.
LEMMA ListStep ==
  ASSUME SecretInv, ListAnswers \/ ListTaken
  PROVE  SecretInv'
<1>1. /\ UNCHANGED <<kind, view, mount, issuing, revoking, live, onScreen, gone, unseen, unsure>>
      /\ ListingShape'
      /\ \/ /\ listing'.list = listing.list /\ listing'.answer = live
            /\ listing'.at = "answered"
         \/ /\ listing'.list = listing.answer /\ listing'.answer = listing.answer
            /\ listing.at = "answered" /\ listing'.at = "no"
  <2>1. CASE ListAnswers
    BY <2>1 DEF ListAnswers, historyVars, SecretInv, SecretsTypeOK, ListingShape
  <2>2. CASE ListTaken
    BY <2>2 DEF ListTaken, historyVars, SecretInv, ListingShape
  <2> QED BY <2>1, <2>2
<1>2. SecretsTypeOK'
  BY <1>1 DEF SecretInv, SecretsTypeOK, ListingShape
<1>3. LiveWasShown' /\ ScreenOnce' /\ IssuedBefore'
  BY <1>1 DEF SecretInv, LiveWasShown, ScreenOnce, OffScreen, IssuedBefore
<1>4. ListFollows'
  <2> SUFFICES ASSUME NEW s \in SecretIds \ unsure PROVE ToldOf(s)'
    BY <1>1 DEF ListFollows
  <2>1. ToldOf(s)
    BY DEF SecretInv, ListFollows
  <2> QED BY <1>1, <2>1 DEF ToldOf, Untold
<1> QED BY <1>1, <1>2, <1>3, <1>4 DEF SecretInv

\* A request that goes on without changing what is in use or listed, and without
\* an answer, changes nothing.
LEMMA QuietRequest ==
  ASSUME SecretInv, NEW s \in SecretIds,
         UNCHANGED <<kind, view, mount, live, onScreen, listing, gone, unseen, unsure>>,
         issuing' \in [SecretIds -> Requests], revoking' \in [SecretIds -> Requests],
         \A t \in SecretIds \ {s} : issuing'[t] = issuing[t] /\ revoking'[t] = revoking[t],
         \/ /\ issuing'[s] = issuing[s]
            /\ revoking'[s].at # "committed" /\ revoking[s].at # "committed"
            /\ issuing[s].at \notin {"no", "sent"}
         \/ /\ revoking'[s] = revoking[s]
            /\ \/ issuing[s].at = "no" /\ issuing'[s].at = "sent"
               \/ issuing[s].at = "sent" /\ issuing'[s].at = "over"
               \/ issuing[s].at = "committed" /\ issuing'[s].at = "over" /\ s \notin live
               \/ issuing[s].at = "settling" /\ issuing'[s].at = "over"
  PROVE  SecretInv'
<1>1. SecretsTypeOK' /\ ListingShape'
  BY DEF SecretInv, SecretsTypeOK, ListingShape
<1>2. LiveWasShown' /\ ScreenOnce' /\ IssuedBefore'
  BY DEF SecretInv, SecretsTypeOK, LiveWasShown, ScreenOnce, OffScreen, IssuedBefore, SecretIds
<1>3. ListFollows'
  <2> SUFFICES ASSUME NEW t \in SecretIds \ unsure PROVE ToldOf(t)'
    BY DEF ListFollows
  <2>1. ToldOf(t)
    BY DEF SecretInv, ListFollows
  <2>2. issuing[s].at \in {"no", "sent"} => s \notin live
    BY DEF SecretInv, IssuedBefore
  <2>3. Up' <=> Up
    BY DEF Up
  <2>4. Untold(t) => Untold(t)'
    BY <2>2 DEF Untold
  <2> QED BY <2>1, <2>3, <2>4 DEF ToldOf
<1> QED BY <1>1, <1>2, <1>3 DEF SecretInv

\* What the page was told of is listed again, or will be, or it is unsure.
LEMMA Retold ==
  ASSUME SecretInv, NEW s \in SecretIds,
         UNCHANGED <<kind, view, live>>, listing' = ListAskedAgain, unsure' = UnsureOf(s),
         \A t \in SecretIds \ {s} : Untold(t) => Untold(t)'
  PROVE  ListFollows'
<1> SUFFICES ASSUME NEW t \in SecretIds \ unsure' PROVE ToldOf(t)'
  BY DEF ListFollows
<1>1. /\ listing'.list = listing.list /\ listing'.answer = listing.answer
      /\ listing'.stale
      /\ Up => listing'.at = "asked"
      /\ ~Up => listing'.at = listing.at
  BY AskedAgainListing DEF SecretInv
<1>2. Up' <=> Up
  BY DEF Up
<1>3. CASE t = s
  <2>1. ~Up => listing.at = "no"
    BY <1>3 DEF UnsureOf
  <2> QED BY <1>1, <1>2, <2>1 DEF ToldOf
<1>4. CASE t # s
  <2>1. ToldOf(t)
    BY DEF SecretInv, ListFollows, UnsureOf
  <2> QED BY <1>1, <1>2, <1>4, <2>1 DEF ToldOf
<1> QED BY <1>3, <1>4

\* A secret is issued.
LEMMA IssueStep ==
  ASSUME SecretInv, NEW s \in SecretIds,
         \/ PressIssue(s) \/ IssueCommits(s) \/ IssueAnswered(s)
         \/ IssueFails(s) \/ IssueSettles(s)
  PROVE  SecretInv'
<1>1. issuing \in [SecretIds -> Requests] /\ revoking \in [SecretIds -> Requests]
  BY DEF SecretInv, SecretsTypeOK
<1>2. CASE PressIssue(s)
  <2>1. [at |-> "sent", mount |-> mount] \in Requests
    BY DEF Requests, SecretInv, SecretsTypeOK
  <2>2. /\ issuing' \in [SecretIds -> Requests] /\ issuing'[s].at = "sent"
        /\ issuing[s].at = "no"
        /\ \A t \in SecretIds \ {s} : issuing'[t] = issuing[t]
    BY <1>1, <1>2, <2>1 DEF PressIssue
  <2> QED BY <1>1, <1>2, <2>2, QuietRequest DEF PressIssue, historyVars
<1>3. CASE IssueSettles(s)
  <2>1. /\ issuing' \in [SecretIds -> Requests] /\ issuing'[s].at = "over"
        /\ issuing[s].at = "settling"
        /\ \A t \in SecretIds \ {s} : issuing'[t] = issuing[t]
    BY <1>1, <1>3, ToType DEF IssueSettles, Settling
  <2> QED BY <1>1, <1>3, <2>1, QuietRequest DEF IssueSettles, historyVars
<1>4. CASE IssueFails(s)
  <2>1. /\ issuing' \in [SecretIds -> Requests] /\ issuing'[s].at = "over"
        /\ issuing[s].at \in {"sent", "committed"}
        /\ \A t \in SecretIds \ {s} : issuing'[t] = issuing[t]
    BY <1>1, <1>4, ToType DEF IssueFails
  <2>2. CASE s \notin live
    BY <1>1, <1>4, <2>1, <2>2, QuietRequest DEF IssueFails
  <2>3. CASE s \in live
    <3>1. /\ UNCHANGED <<kind, view, mount, revoking, live, onScreen, listing, gone>>
          /\ unseen' = unseen \cup {s} /\ unsure' = unsure \cup {s}
      BY <1>4, <2>3 DEF IssueFails
    <3>2. SecretsTypeOK' /\ ListingShape'
      BY <2>1, <3>1 DEF SecretInv, SecretsTypeOK, ListingShape
    <3>3. LiveWasShown' /\ ScreenOnce' /\ IssuedBefore'
      BY <2>1, <3>1 DEF SecretInv, SecretsTypeOK, LiveWasShown, ScreenOnce, OffScreen, IssuedBefore, SecretIds
    <3>4. ListFollows'
      BY <2>1, <3>1 DEF SecretInv, ListFollows, ToldOf, Untold, Up
    <3> QED BY <3>2, <3>3, <3>4 DEF SecretInv
  <2> QED BY <2>2, <2>3
<1>5. CASE IssueCommits(s)
  <2>1. /\ issuing' \in [SecretIds -> Requests] /\ issuing'[s].at = "committed"
        /\ issuing[s].at = "sent"
        /\ \A t \in SecretIds \ {s} : issuing'[t] = issuing[t]
        /\ live' = live \cup {s}
        /\ UNCHANGED <<kind, view, mount, revoking, onScreen, listing, gone, unseen, unsure>>
    <3>1. /\ issuing' = To(issuing, s, "committed") /\ issuing[s].at = "sent"
          /\ live' = live \cup {s}
          /\ UNCHANGED <<kind, view, mount, revoking, onScreen, listing, gone, unseen, unsure>>
      BY <1>5 DEF IssueCommits, historyVars
    <3>2. To(issuing, s, "committed") \in [SecretIds -> Requests]
      BY <1>1, ToType
    <3> QED BY <1>1, <3>1, <3>2, ToType
  <2>2. SecretsTypeOK' /\ ListingShape'
    BY <2>1 DEF SecretInv, SecretsTypeOK, ListingShape
  <2>3. LiveWasShown' /\ ScreenOnce'
    BY <2>1 DEF SecretInv, SecretsTypeOK, LiveWasShown, ScreenOnce, OffScreen, SecretIds
  <2>4. IssuedBefore'
    BY <2>1 DEF SecretInv, IssuedBefore
  <2>5. ListFollows'
    BY <2>1 DEF SecretInv, ListFollows, ToldOf, Untold, Up
  <2> QED BY <2>2, <2>3, <2>4, <2>5 DEF SecretInv
<1>6. CASE IssueAnswered(s)
  <2>1. /\ issuing' \in [SecretIds -> Requests] /\ issuing'[s].at = "settling"
        /\ issuing[s].at = "committed"
        /\ \A t \in SecretIds \ {s} : issuing'[t] = issuing[t]
        /\ listing' = ListAskedAgain /\ unsure' = UnsureOf(s)
        /\ UNCHANGED <<kind, view, mount, revoking, live>>
        /\ \/ onScreen' = s /\ gone' = gone \cup OffScreen /\ unseen' = unseen
           \/ onScreen' = onScreen /\ gone' = gone /\ unseen' = unseen \cup {s}
    BY <1>1, <1>6, ToType DEF IssueAnswered, Shows
  <2>2. /\ ListingShape' /\ listing'.list = listing.list /\ listing'.answer = listing.answer
    BY <2>1, AskedAgainListing DEF SecretInv, ListingShape
  <2>3. SecretsTypeOK'
    BY <2>1, <2>2 DEF SecretInv, SecretsTypeOK, UnsureOf, ListingShape, OffScreen, SecretIds
  <2>4. LiveWasShown'
    BY <2>1 DEF SecretInv, SecretsTypeOK, LiveWasShown, OffScreen, SecretIds
  <2>5. ScreenOnce'
    BY <2>1 DEF SecretInv, SecretsTypeOK, ScreenOnce, OffScreen, SecretIds
  <2>6. IssuedBefore'
    BY <2>1, <2>2 DEF SecretInv, IssuedBefore
  <2>7. ListFollows'
    BY <2>1, Retold DEF Untold
  <2> QED BY <2>2, <2>3, <2>4, <2>5, <2>6, <2>7 DEF SecretInv
<1> QED BY <1>2, <1>3, <1>4, <1>5, <1>6

\* A token is revoked.
LEMMA RevokeStep ==
  ASSUME SecretInv, NEW s \in SecretIds,
         \/ PressRevoke(s) \/ RevokeCommits(s) \/ RevokeAnswered(s)
         \/ RevokeFails(s) \/ RevokeSettles(s)
  PROVE  SecretInv'
<1>1. issuing \in [SecretIds -> Requests] /\ revoking \in [SecretIds -> Requests]
  BY DEF SecretInv, SecretsTypeOK
<1>2. CASE PressRevoke(s)
  <2>1. [at |-> "sent", mount |-> mount] \in Requests
    BY DEF Requests, SecretInv, SecretsTypeOK
  <2>2. /\ revoking' \in [SecretIds -> Requests] /\ revoking'[s].at = "sent"
        /\ revoking[s].at # "committed" /\ issuing[s].at \notin {"no", "sent"}
        /\ \A t \in SecretIds \ {s} : revoking'[t] = revoking[t]
    BY <1>1, <1>2, <2>1 DEF PressRevoke, SecretInv, IssuedBefore
  <2> QED BY <1>1, <1>2, <2>2, QuietRequest DEF PressRevoke, historyVars
<1>3. CASE RevokeSettles(s)
  <2>1. /\ revoking' \in [SecretIds -> Requests] /\ revoking'[s].at = "over"
        /\ revoking[s].at = "settling" /\ issuing[s].at \notin {"no", "sent"}
        /\ \A t \in SecretIds \ {s} : revoking'[t] = revoking[t]
    BY <1>1, <1>3, ToType DEF RevokeSettles, Settling, SecretInv, IssuedBefore
  <2> QED BY <1>1, <1>3, <2>1, QuietRequest DEF RevokeSettles, historyVars
<1>4. CASE RevokeFails(s)
  <2>1. /\ revoking' \in [SecretIds -> Requests] /\ revoking'[s].at = "over"
        /\ revoking[s].at \in {"sent", "committed"} /\ issuing[s].at \notin {"no", "sent"}
        /\ \A t \in SecretIds \ {s} : revoking'[t] = revoking[t]
    BY <1>1, <1>4, ToType DEF RevokeFails, SecretInv, IssuedBefore
  <2>2. CASE s \in live
    <3>1. revoking[s].at # "committed" /\ unsure' = unsure
      BY <1>4, <2>2 DEF SecretInv, IssuedBefore, RevokeFails
    <3> QED BY <1>1, <1>4, <2>1, <3>1, QuietRequest DEF RevokeFails
  <2>3. CASE s \notin live
    <3>1. /\ UNCHANGED <<kind, view, mount, issuing, live, onScreen, listing, gone, unseen>>
          /\ unsure' = unsure \cup {s}
      BY <1>4, <2>3 DEF RevokeFails
    <3>2. SecretsTypeOK' /\ ListingShape'
      BY <2>1, <3>1 DEF SecretInv, SecretsTypeOK, ListingShape
    <3>3. LiveWasShown' /\ ScreenOnce' /\ IssuedBefore'
      BY <2>1, <3>1 DEF SecretInv, LiveWasShown, ScreenOnce, OffScreen, IssuedBefore
    <3>4. ListFollows'
      BY <2>1, <3>1 DEF SecretInv, ListFollows, ToldOf, Untold, Up
    <3> QED BY <3>2, <3>3, <3>4 DEF SecretInv
  <2> QED BY <2>2, <2>3
<1>5. CASE RevokeCommits(s)
  <2>1. /\ revoking' \in [SecretIds -> Requests] /\ revoking'[s].at = "committed"
        /\ revoking[s].at = "sent" /\ issuing[s].at \notin {"no", "sent"}
        /\ \A t \in SecretIds \ {s} : revoking'[t] = revoking[t]
        /\ live' = live \ {s}
        /\ UNCHANGED <<kind, view, mount, issuing, onScreen, listing, gone, unseen, unsure>>
    BY <1>1, <1>5, ToType DEF RevokeCommits, historyVars, SecretInv, IssuedBefore
  <2>2. SecretsTypeOK' /\ ListingShape'
    BY <2>1 DEF SecretInv, SecretsTypeOK, ListingShape
  <2>3. LiveWasShown' /\ ScreenOnce' /\ IssuedBefore'
    BY <2>1 DEF SecretInv, LiveWasShown, ScreenOnce, OffScreen, IssuedBefore
  <2>4. ListFollows'
    BY <2>1 DEF SecretInv, ListFollows, ToldOf, Untold, Up
  <2> QED BY <2>2, <2>3, <2>4 DEF SecretInv
<1>6. CASE RevokeAnswered(s)
  <2>1. /\ revoking' \in [SecretIds -> Requests] /\ revoking'[s].at = "settling"
        /\ revoking[s].at = "committed" /\ issuing[s].at \notin {"no", "sent"}
        /\ \A t \in SecretIds \ {s} : revoking'[t] = revoking[t]
        /\ listing' = ListAskedAgain /\ unsure' = UnsureOf(s)
        /\ UNCHANGED <<kind, view, mount, issuing, live, onScreen, gone, unseen>>
    BY <1>1, <1>6, ToType DEF RevokeAnswered, SecretInv, IssuedBefore
  <2>2. /\ ListingShape' /\ listing'.list = listing.list /\ listing'.answer = listing.answer
    BY <2>1, AskedAgainListing DEF SecretInv, ListingShape
  <2>3. SecretsTypeOK'
    BY <2>1, <2>2 DEF SecretInv, SecretsTypeOK, UnsureOf, ListingShape
  <2>4. LiveWasShown' /\ ScreenOnce' /\ IssuedBefore'
    BY <2>1, <2>2 DEF SecretInv, LiveWasShown, ScreenOnce, OffScreen, IssuedBefore
  <2>5. ListFollows'
    BY <2>1, Retold DEF Untold
  <2> QED BY <2>2, <2>3, <2>4, <2>5 DEF SecretInv
<1> QED BY <1>2, <1>3, <1>4, <1>5, <1>6

LEMMA NextSecrets == SecretInv /\ [AdminNext]_adminVars => SecretInv'
<1> SUFFICES ASSUME SecretInv, [AdminNext]_adminVars PROVE SecretInv'
  OBVIOUS
<1>1. CASE SecretsStep
  BY <1>1, PanelStep, ListStep, IssueStep, RevokeStep DEF SecretsStep
<1>2. CASE UNCHANGED secretVars
  BY <1>2 DEF secretVars, SecretInv, SecretsTypeOK, ListingShape, LiveWasShown, ScreenOnce,
     OffScreen, IssuedBefore, ListFollows, ToldOf, Untold, Up
<1> QED BY <1>1, <1>2 DEF AdminNext, adminVars

\* A secret is shown once, is listed while it can be taken back, and is not
\* brought back, for any number of secrets and however often the page is left.
THEOREM SecretsAlwaysTold == AdminSpec => []SecretsTold
<1>1. AdminInit => SecretInv
  BY InitSecrets DEF AdminInit
<1>2. SecretInv => SecretsTold
  <2> SUFFICES ASSUME SecretInv PROVE SecretsTold
    OBVIOUS
  <2>1. GoneForGood
    BY DEF SecretInv, ScreenOnce, GoneForGood
  <2>2. ListTellsLive
    BY DEF SecretInv, ListFollows, ToldOf, Untold, ListTellsLive
  <2> QED BY <2>1, <2>2 DEF SecretInv, SecretsTold
<1> QED BY <1>1, <1>2, NextSecrets, PTL DEF AdminSpec

-----------------------------------------------------------------------------
(* Webhooks: the record of deliveries is true and final, and a webhook is      *)
(* switched off for the right reason.                                          *)

-----------------------------------------------------------------------------
(* Types.                                                                  *)

LEMMA IdleType == Idle \in Local /\ Idle.step = "idle" /\ Idle.batch = {} /\ Idle.row = {}
  BY DEF Idle, Local, Steps

\* One pass goes on, the others stand still.
LEMMA GotoType ==
  ASSUME TypeOK, NEW p \in Passes, NEW l \in Local, Goto(p, l)
  PROVE  /\ pass' \in [Passes -> Local] /\ pass'[p] = l
         /\ \A q \in Passes \ {p} : pass'[q] = pass[q]
  BY DEF Goto, TypeOK

LEMMA StepType ==
  ASSUME TypeOK, NEW p \in Passes, NEW s \in Steps, Step(p, s)
  PROVE  /\ pass' \in [Passes -> Local]
         /\ pass'[p].step = s /\ pass'[p].batch = pass[p].batch
         /\ pass'[p].row = pass[p].row
         /\ \A q \in Passes \ {p} : pass'[q] = pass[q]
<1> DEFINE l == [pass[p] EXCEPT !.step = s]
<1>1. pass[p] \in Local
  BY DEF TypeOK
<1>2. /\ l \in Local /\ l.step = s /\ l.batch = pass[p].batch /\ l.row = pass[p].row
  BY <1>1 DEF Local
<1>3. Goto(p, l)
  BY DEF Step
<1> HIDE DEF l
<1> QED BY <1>2, <1>3, GotoType

\* Whoever is through with a row is idle or sends another row of the batch.
LEMMA AdvanceType ==
  ASSUME TypeOK, NEW p \in Passes, Advance(p)
  PROVE  /\ pass' \in [Passes -> Local]
         /\ pass'[p].step \in {"idle", "send"} /\ pass'[p].row = {}
         /\ pass'[p].batch = pass[p].batch \ pass[p].row
         /\ pass'[p].step = "idle" => pass'[p].batch = {}
         /\ \A q \in Passes \ {p} : pass'[q] = pass[q]
<1> DEFINE rest == pass[p].batch \ pass[p].row
           l == IF rest = {} THEN Idle ELSE [step |-> "send", batch |-> rest, row |-> {}]
<1>1. pass[p] \in Local
  BY DEF TypeOK
<1>2. rest \subseteq Deliveries
  BY <1>1 DEF Local
<1>3. /\ l \in Local /\ l.step \in {"idle", "send"} /\ l.row = {} /\ l.batch = rest
      /\ l.step = "idle" => rest = {}
  BY <1>2, IdleType DEF Local, Steps
<1>4. Goto(p, l)
  BY DEF Advance
<1> HIDE DEF l
<1> QED BY <1>3, <1>4, GotoType

-----------------------------------------------------------------------------
(* The record of deliveries.                                               *)

\* The rows of its batch that pass p has not settled.
Mine(p) ==
  pass[p].batch \ (IF pass[p].step \in {"reset", "count"} THEN pass[p].row
                                                          ELSE pass[p].row \cap delivered)

\* A pass works on one row of its batch at a time.
OneRow ==
  \A p \in Passes :
    /\ pass[p].step = "idle" => pass[p].batch = {}
    /\ pass[p].step \in {"idle", "send"} => pass[p].row = {}
    /\ pass[p].row \subseteq pass[p].batch

\* What is unsettled is locked for one pass, and never delivered already; what
\* is about to be recorded as delivered was taken by the endpoint.
Ownership ==
  /\ locked \cap delivered = {}
  /\ \A p \in Passes : Mine(p) \subseteq locked
  /\ \A p, q \in Passes : p # q => Mine(p) \cap Mine(q) = {}
  /\ \A p \in Passes : pass[p].step = "ok" => pass[p].row \subseteq locked \cap accepted
  /\ \A p \in Passes : pass[p].step = "reset" => pass[p].row \subseteq delivered

RecordInv == TypeOK /\ OneRow /\ Ownership /\ DeliveredWasAccepted

LEMMA InitRecord == Init => RecordInv
<1> SUFFICES ASSUME Init PROVE RecordInv
  OBVIOUS
<1>1. \A p \in Passes : pass[p] = Idle
  BY DEF Init
<1>2. TypeOK
  <2>1. pass \in [Passes -> Local]
    BY IdleType DEF Init
  <2>2. attempts \in [Deliveries -> 0..MaxAttempts] /\ failures \in Nat /\ streak \in Nat
    BY WebhookAssumption DEF Init
  <2> QED BY <2>1, <2>2 DEF Init, TypeOK
<1>3. OneRow
  BY <1>1, IdleType DEF OneRow
<1>4. Ownership
  BY <1>1, IdleType DEF Init, Ownership, Mine
<1>5. DeliveredWasAccepted
  BY DEF Init, DeliveredWasAccepted
<1> QED BY <1>2, <1>3, <1>4, <1>5 DEF RecordInv

\* A pass leaves what is locked for the others alone: everything then depends
\* on what the step does to its own rows.
LEMMA PassRecord ==
  ASSUME RecordInv, TypeOK', NEW p \in Passes, DeliveredWasAccepted',
         \A q \in Passes \ {p} : pass'[q] = pass[q],
         delivered \subseteq delivered', accepted \subseteq accepted',
         \A q \in Passes \ {p} : Mine(q) \cap (delivered' \ delivered) = {},
         \A q \in Passes \ {p} : Mine(q) \subseteq locked',
         locked' \cap delivered' = {},
         pass'[p].step = "idle" => pass'[p].batch = {},
         pass'[p].step \in {"idle", "send"} => pass'[p].row = {},
         pass'[p].row \subseteq pass'[p].batch,
         Mine(p)' \subseteq locked',
         \A q \in Passes \ {p} : Mine(q) \cap Mine(p)' = {},
         pass'[p].step = "ok" => pass'[p].row \subseteq locked' \cap accepted',
         pass'[p].step = "reset" => pass'[p].row \subseteq delivered'
  PROVE  RecordInv'
<1>1. OneRow'
  BY DEF RecordInv, OneRow
<1>2. \A q \in Passes \ {p} : Mine(q)' \subseteq Mine(q)
  BY DEF Mine
<1>3. \A q \in Passes \ {p} : pass[q].step = "ok" => pass[q].row \subseteq Mine(q)
  BY DEF RecordInv, OneRow, Ownership, Mine
<1>4. Ownership'
  <2>1. \A q \in Passes : Mine(q)' \subseteq locked'
    BY <1>2
  <2>2. \A q, r \in Passes : q # r => Mine(q)' \cap Mine(r)' = {}
    <3> SUFFICES ASSUME NEW q \in Passes, NEW r \in Passes, q # r
                 PROVE  Mine(q)' \cap Mine(r)' = {}
      OBVIOUS
    <3>1. CASE q = p
      BY <1>2, <3>1
    <3>2. CASE r = p
      BY <1>2, <3>2
    <3>3. CASE q # p /\ r # p
      BY <1>2, <3>3 DEF RecordInv, Ownership
    <3> QED BY <3>1, <3>2, <3>3
  <2>3. \A q \in Passes : pass'[q].step = "ok" => pass'[q].row \subseteq locked' \cap accepted'
    BY <1>3 DEF RecordInv, Ownership
  <2>4. \A q \in Passes : pass'[q].step = "reset" => pass'[q].row \subseteq delivered'
    BY DEF RecordInv, Ownership
  <2> QED BY <2>1, <2>2, <2>3, <2>4 DEF Ownership
<1> QED BY <1>1, <1>4 DEF RecordInv

\* The administrator, an event or a reclaim: no pass moves.
LEMMA StillRecord ==
  ASSUME RecordInv, TypeOK', UNCHANGED <<delivered, accepted, pass>>,
         locked' \cap delivered = {},
         \A p \in Passes : pass[p].batch \cap locked \subseteq locked'
  PROVE  RecordInv'
<1>1. \A p \in Passes : Mine(p)' = Mine(p) /\ Mine(p) \subseteq pass[p].batch
  BY DEF Mine
<1>2. OneRow' /\ DeliveredWasAccepted'
  BY DEF RecordInv, OneRow, DeliveredWasAccepted
<1>3. \A p \in Passes : Mine(p)' \subseteq locked'
  BY <1>1 DEF RecordInv, Ownership
<1>4. \A p \in Passes : pass[p].step = "ok" => pass[p].row \subseteq locked'
  BY DEF RecordInv, OneRow, Ownership
<1>5. Ownership'
  BY <1>1, <1>3, <1>4 DEF RecordInv, Ownership
<1> QED BY <1>2, <1>5 DEF RecordInv

LEMMA NextRecord ==
  ASSUME RecordInv, [Next]_vars
  PROVE  RecordInv'
<1> USE WebhookAssumption
<1>0. /\ TypeOK /\ OneRow /\ Ownership /\ DeliveredWasAccepted
      /\ queued \subseteq Deliveries /\ locked \subseteq queued
      /\ delivered \subseteq queued /\ accepted \subseteq queued
      /\ attempts \in [Deliveries -> 0..MaxAttempts]
      /\ failures \in Nat /\ streak \in Nat /\ disabled \in BOOLEAN
      /\ faults \in Environments /\ pass \in [Passes -> Local]
  BY DEF RecordInv, TypeOK
<1>m. \A p \in Passes : Mine(p) \subseteq pass[p].batch
  BY DEF Mine
<1>1. ASSUME NEW d \in Deliveries, Enqueue(d) PROVE RecordInv'
  <2>1. TypeOK'
    BY <1>0, <1>1 DEF Enqueue, TypeOK, webhook, history
  <2> QED BY <1>0, <1>1, <2>1, StillRecord DEF Enqueue, Ownership, history
<1>2. CASE Disable \/ Restore
  <2>0. failures' \in Nat /\ disabled' \in BOOLEAN
    <3>1. CASE Disable
      BY <1>0, <3>1 DEF Disable
    <3>2. CASE Restore
      BY <3>2 DEF Restore
    <3> QED BY <1>2, <3>1, <3>2
  <2>1. TypeOK'
    BY <1>0, <1>2, <2>0 DEF Disable, Restore, TypeOK, rows, history
  <2> QED BY <1>0, <1>2, <2>1, StillRecord DEF Disable, Restore, Ownership, rows, history
<1>3. CASE Reclaim
  <2>1. PICK S \in SUBSET Expired : S # {} /\ locked' = locked \ S
    BY <1>3 DEF Reclaim
  <2>2. UNCHANGED <<queued, attempts, delivered, webhook, history, pass>>
    BY <1>3 DEF Reclaim
  <2>3. TypeOK'
    BY <1>0, <2>1, <2>2 DEF TypeOK, webhook, history
  <2>4. \A p \in Passes : pass[p].batch \cap S = {}
    BY DEF Expired, Held
  <2> QED BY <1>0, <2>1, <2>2, <2>3, <2>4, StillRecord DEF Ownership, history
<1>4. ASSUME NEW p \in Passes, Claim(p) PROVE RecordInv'
  <2>1. PICK S \in SUBSET Claimable :
          /\ S # {}
          /\ attempts' = [d \in Deliveries |-> attempts[d] + IF d \in S THEN 1 ELSE 0]
          /\ locked' = locked \cup S
          /\ Goto(p, [step |-> "send", batch |-> S, row |-> {}])
    BY <1>4 DEF Claim
  <2>2. UNCHANGED <<queued, delivered, webhook, history>>
    BY <1>4 DEF Claim
  <2> DEFINE l == [step |-> "send", batch |-> S, row |-> {}]
  <2>3. S \subseteq Deliveries /\ S \subseteq queued /\ S \cap (locked \cup delivered) = {}
    BY <1>0 DEF Claimable
  <2>4. l \in Local /\ l.step = "send" /\ l.batch = S /\ l.row = {}
    BY <2>3 DEF Local, Steps
  <2>5. Goto(p, l)
    BY <2>1
  <2> HIDE DEF l
  <2>6. /\ pass' \in [Passes -> Local] /\ pass'[p] = l
        /\ \A q \in Passes \ {p} : pass'[q] = pass[q]
    BY <1>0, <2>4, <2>5, GotoType
  <2>7. attempts' \in [Deliveries -> 0..MaxAttempts]
    <3>1. \A d \in S : attempts[d] < MaxAttempts
      BY DEF Claimable
    <3> QED BY <1>0, <2>1, <2>3, <3>1
  <2>8. TypeOK'
    BY <1>0, <2>1, <2>2, <2>3, <2>6, <2>7 DEF TypeOK, webhook, history
  <2>9. Mine(p)' = S
    BY <2>4, <2>6 DEF Mine
  <2> QED BY <1>0, <2>1, <2>2, <2>3, <2>4, <2>6, <2>8, <2>9, PassRecord
          DEF Ownership, DeliveredWasAccepted, history
<1>5. ASSUME NEW p \in Passes, Send(p) PROVE RecordInv'
  <2>1. PICK d \in pass[p].batch, status \in {200, 302, 500, 0} :
          /\ Goto(p, [pass[p] EXCEPT !.step = IF Success(status) THEN "ok" ELSE "bad",
                                     !.row = {d}])
          /\ accepted' = IF status = 200 THEN accepted \cup {d} ELSE accepted
          /\ streak' = IF status = 200 THEN 0 ELSE streak + 1
    BY <1>5 DEF Send
  <2>2. UNCHANGED <<rows, webhook>> /\ pass[p].step = "send"
    BY <1>5 DEF Send, At
  <2> DEFINE s == IF Success(status) THEN "ok" ELSE "bad"
             l == [pass[p] EXCEPT !.step = s, !.row = {d}]
  <2>3. s \in {"ok", "bad"} /\ (s = "ok" => status = 200)
    BY DEF Success
  <2> HIDE DEF s
  <2>4. /\ pass[p] \in Local /\ {d} \in SUBSET Deliveries /\ s \in Steps
    BY <1>0, <2>3 DEF Local, Steps
  <2>5. l \in Local /\ l.step = s /\ l.batch = pass[p].batch /\ l.row = {d}
    BY <2>4 DEF Local
  <2>6. Goto(p, l)
    BY <2>1 DEF s
  <2> HIDE DEF l
  <2>7. /\ pass' \in [Passes -> Local] /\ pass'[p] = l
        /\ \A q \in Passes \ {p} : pass'[q] = pass[q]
    BY <1>0, <2>5, <2>6, GotoType
  <2>8. Mine(p) = pass[p].batch
    BY <1>0, <2>2 DEF OneRow, Mine
  <2>9. d \in locked /\ d \notin delivered
    BY <1>0, <2>8 DEF Ownership
  <2>10. TypeOK'
    BY <1>0, <2>1, <2>2, <2>7, <2>9 DEF TypeOK, rows, webhook
  <2>11. Mine(p)' = Mine(p)
    BY <2>2, <2>3, <2>5, <2>7, <2>8, <2>9 DEF Mine, rows
  <2>12. accepted \subseteq accepted' /\ (s = "ok" => d \in accepted')
    BY <2>1, <2>3
  <2> QED BY <1>0, <2>2, <2>3, <2>5, <2>7, <2>9, <2>10, <2>11, <2>12, PassRecord
          DEF Ownership, DeliveredWasAccepted, rows
<1>6. ASSUME NEW p \in Passes, MarkDelivered(p) PROVE RecordInv'
  <2>1. /\ pass[p].step = "ok"
        /\ delivered' = delivered \cup pass[p].row /\ locked' = locked \ pass[p].row
        /\ Step(p, "reset") /\ UNCHANGED <<queued, attempts, webhook, history>>
    BY <1>6 DEF MarkDelivered, At
  <2>2. /\ pass' \in [Passes -> Local] /\ pass'[p].step = "reset"
        /\ pass'[p].batch = pass[p].batch /\ pass'[p].row = pass[p].row
        /\ \A q \in Passes \ {p} : pass'[q] = pass[q]
    BY <1>0, <2>1, StepType DEF Steps
  <2>3. pass[p].row \subseteq locked \cap accepted /\ pass[p].row \subseteq pass[p].batch
    BY <1>0, <2>1 DEF Ownership, OneRow
  <2>4. pass[p].row \subseteq Mine(p)
    BY <1>0, <2>1, <2>3 DEF Mine, Ownership
  <2>5. \A q \in Passes \ {p} : Mine(q) \cap pass[p].row = {}
    BY <1>0, <2>4 DEF Ownership
  <2>6. TypeOK'
    BY <1>0, <2>1, <2>2, <2>3 DEF TypeOK, webhook, history
  <2>7. Mine(p)' \subseteq Mine(p) \ pass[p].row
    BY <1>0, <2>1, <2>2 DEF Mine
  <2>8. \A q \in Passes : Mine(q) \subseteq locked
    BY <1>0 DEF Ownership
  <2>9. \A q \in Passes \ {p} : Mine(q) \cap Mine(p)' = {}
    BY <1>0, <2>7 DEF Ownership
  <2> QED BY <1>0, <2>1, <2>2, <2>3, <2>5, <2>6, <2>7, <2>8, <2>9, PassRecord
          DEF Ownership, DeliveredWasAccepted, history
<1>7. ASSUME NEW p \in Passes, ResetFailures(p) \/ CountFailure(p) PROVE RecordInv'
  <2>1. /\ pass[p].step \in {"reset", "count"} /\ Advance(p)
        /\ UNCHANGED <<rows, faults, history>>
        /\ failures' = 0 \/ failures' = failures + 1
        /\ disabled' = disabled
             \/ disabled' = (disabled \/ failures + 1 >= FailuresBeforeDisable)
    BY <1>7 DEF ResetFailures, CountFailure, AfterSuccess, At
  <2>a. failures' \in Nat
    BY <1>0, <2>1
  <2>b. disabled' \in BOOLEAN
    BY <1>0, <2>1
  <2>2. /\ pass' \in [Passes -> Local]
        /\ pass'[p].step \in {"idle", "send"} /\ pass'[p].row = {}
        /\ pass'[p].batch = pass[p].batch \ pass[p].row
        /\ pass'[p].step = "idle" => pass'[p].batch = {}
        /\ \A q \in Passes \ {p} : pass'[q] = pass[q]
    BY <1>0, <2>1, AdvanceType
  <2>3. TypeOK'
    BY <1>0, <2>1, <2>2, <2>a, <2>b DEF TypeOK, rows, history
  <2>4. Mine(p)' = Mine(p)
    BY <2>1, <2>2 DEF Mine, rows
  <2> QED BY <1>0, <2>1, <2>2, <2>3, <2>4, PassRecord
          DEF Ownership, DeliveredWasAccepted, rows, history
<1>8. ASSUME NEW p \in Passes, SuccessUnrecorded(p) PROVE RecordInv'
  <2>1. /\ pass[p].step \in {"ok", "reset"} /\ Step(p, "bad")
        /\ UNCHANGED <<rows, webhook, history>>
    BY <1>8 DEF SuccessUnrecorded
  <2>2. /\ pass' \in [Passes -> Local] /\ pass'[p].step = "bad"
        /\ pass'[p].batch = pass[p].batch /\ pass'[p].row = pass[p].row
        /\ \A q \in Passes \ {p} : pass'[q] = pass[q]
    BY <1>0, <2>1, StepType DEF Steps
  <2>3. TypeOK'
    BY <1>0, <2>1, <2>2 DEF TypeOK, rows, webhook, history
  <2>4. Mine(p)' = Mine(p)
    BY <1>0, <2>1, <2>2 DEF Mine, Ownership, rows
  <2>5. pass[p].row \subseteq pass[p].batch
    BY <1>0 DEF OneRow
  <2> QED BY <1>0, <2>1, <2>2, <2>3, <2>4, <2>5, PassRecord
          DEF Ownership, DeliveredWasAccepted, rows, history
<1>9. ASSUME NEW p \in Passes, ReleaseForRetry(p) PROVE RecordInv'
  <2>1. /\ pass[p].step = "bad" /\ locked' = locked \ pass[p].row /\ Step(p, "count")
        /\ UNCHANGED <<queued, attempts, delivered, webhook, history>>
    BY <1>9 DEF ReleaseForRetry, At
  <2>2. /\ pass' \in [Passes -> Local] /\ pass'[p].step = "count"
        /\ pass'[p].batch = pass[p].batch /\ pass'[p].row = pass[p].row
        /\ \A q \in Passes \ {p} : pass'[q] = pass[q]
    BY <1>0, <2>1, StepType DEF Steps
  <2>3. TypeOK'
    BY <1>0, <2>1, <2>2 DEF TypeOK, webhook, history
  <2>4. pass[p].row \subseteq pass[p].batch
    BY <1>0 DEF OneRow
  <2>5. pass[p].row \subseteq Mine(p) \cup delivered
    BY <2>1, <2>4 DEF Mine
  <2>6. \A q \in Passes \ {p} : Mine(q) \subseteq locked'
    BY <1>0, <2>1, <2>5 DEF Ownership
  <2>7. Mine(p)' \subseteq Mine(p) \ pass[p].row
    BY <2>1, <2>2 DEF Mine
  <2>8. Mine(p) \subseteq locked /\ locked \cap delivered = {}
    BY <1>0 DEF Ownership
  <2>9. \A q \in Passes \ {p} : Mine(q) \cap Mine(p)' = {}
    BY <1>0, <2>7 DEF Ownership
  <2> QED BY <1>0, <2>1, <2>2, <2>3, <2>4, <2>6, <2>7, <2>8, <2>9, PassRecord
          DEF DeliveredWasAccepted, history
<1>10. ASSUME NEW p \in Passes, Crash(p) PROVE RecordInv'
  <2>1. Goto(p, Idle) /\ UNCHANGED <<rows, webhook, history>>
    BY <1>10 DEF Crash
  <2>2. /\ pass' \in [Passes -> Local] /\ pass'[p] = Idle
        /\ \A q \in Passes \ {p} : pass'[q] = pass[q]
    BY <1>0, <2>1, IdleType, GotoType
  <2>3. TypeOK'
    BY <1>0, <2>1, <2>2 DEF TypeOK, rows, webhook, history
  <2>4. Mine(p)' = {}
    BY <2>2, IdleType DEF Mine
  <2> QED BY <1>0, <2>1, <2>2, <2>3, <2>4, IdleType, PassRecord
          DEF Ownership, DeliveredWasAccepted, rows, history
<1>11. CASE UNCHANGED vars
  <2>1. TypeOK'
    BY <1>0, <1>11 DEF TypeOK, vars, rows, webhook, history
  <2> QED BY <1>0, <1>11, <2>1, StillRecord DEF Ownership, vars, rows, history
<1> QED BY <1>1, <1>2, <1>3, <1>4, <1>5, <1>6, <1>7, <1>8, <1>9, <1>10, <1>11
        DEF Next, Work

\* In every state an unsettled row is locked for the one pass that works on it,
\* and a row about to be recorded was taken by the endpoint.
THEOREM RecordAlways == Spec => []RecordInv
<1>1. Init => RecordInv
  BY InitRecord
<1>2. RecordInv /\ [Next]_vars => RecordInv'
  BY NextRecord
<1> QED BY <1>1, <1>2, PTL DEF Spec

\* The record of deliveries is true and final, for any deliveries, passes and
\* servers and whatever crashes or fails in between: what it calls delivered
\* was answered with a 2xx, and is never sent again.
THEOREM RecordIsAlwaysTrue == Spec => RecordIsTrue
<1>1. RecordInv => TypeOK /\ DeliveredWasAccepted
  BY DEF RecordInv
<1>2. RecordInv /\ [Next]_vars =>
        [\A p \in Passes : At(p, "send") /\ pass'[p].row # {}
           => pass'[p].row \cap delivered = {}]_vars
  <2> SUFFICES ASSUME RecordInv, [Next]_vars, NEW p \in Passes,
                      At(p, "send"), pass'[p].row # {}
               PROVE  pass'[p].row \cap delivered = {}
    OBVIOUS
  <2>1. /\ TypeOK /\ pass[p].row = {} /\ pass[p].step = "send"
        /\ Mine(p) = pass[p].batch /\ Mine(p) \cap delivered = {}
    BY DEF RecordInv, OneRow, Ownership, Mine, At
  <2>2. ASSUME NEW q \in Passes, NEW l \in Local, Goto(q, l) PROVE p = q
    BY <2>1, <2>2, GotoType
  <2>3. ~UNCHANGED pass
    BY <2>1
  <2>4. CASE Send(p)
    <3>1. PICK d \in pass[p].batch, s \in {"ok", "bad"} :
            Goto(p, [pass[p] EXCEPT !.step = s, !.row = {d}])
      BY <2>4 DEF Send
    <3>2. pass[p] \in Local /\ pass'[p].row = {d}
      BY <2>1, <3>1 DEF TypeOK, Goto, Local
    <3> QED BY <2>1, <3>2
  <2>5. \A s : \A q \in Passes : Step(q, s) => pass'[p].row = {}
    BY <2>1 DEF Step, Goto, TypeOK, Local
  <2>6. \A q \in Passes : Advance(q) \/ Goto(q, Idle) => pass'[p].row = {}
    BY <2>1, IdleType, AdvanceType, GotoType
  <2>7. \A q \in Passes : Claim(q) => pass'[p].row = {}
    BY <2>1 DEF Claim, Goto, TypeOK
  <2>8. \A q \in Passes \ {p} : Send(q) => pass'[p].row = {}
    BY <2>1 DEF Send, Goto, TypeOK
  <2> QED BY <2>3, <2>4, <2>5, <2>6, <2>7, <2>8
          DEF Next, Work, vars, Enqueue, Reclaim, Disable, Restore, MarkDelivered,
              ResetFailures, SuccessUnrecorded, ReleaseForRetry, CountFailure, Crash
<1> QED BY <1>1, <1>2, RecordAlways, PTL DEF Spec, RecordIsTrue, DeliveredNotResent

-----------------------------------------------------------------------------
(* Switching a webhook off.                                                *)

\* Where nothing fails around it, one pass runs at a time, and between a
\* success and its record every counted failure followed the last success.
StreakInv ==
  faults = {} =>
    /\ \A p, q \in Passes :
         pass[p].step # "idle" /\ pass[q].step # "idle" => p = q
    /\ \A p \in Passes : pass[p].step \in {"bad", "count"} => streak >= failures + 1
    /\ (\A p \in Passes : pass[p].step \notin {"ok", "reset"}) => streak >= failures

AllowanceInv == StreakInv /\ FullAllowance

LEMMA InitAllowance == Init => AllowanceInv
<1> SUFFICES ASSUME Init PROVE AllowanceInv
  OBVIOUS
<1>1. \A p \in Passes : pass[p].step = "idle"
  BY IdleType DEF Init
<1> QED BY <1>1, WebhookAssumption DEF Init, AllowanceInv, StreakInv, FullAllowance

\* Of the one pass that runs where nothing fails.
LEMMA OnePass ==
  ASSUME AllowanceInv, NEW p \in Passes, faults' = faults,
         \A q \in Passes \ {p} : pass'[q] = pass[q],
         faults = {} =>
           /\ \A q \in Passes \ {p} : pass[q].step = "idle"
           /\ pass'[p].step \in {"bad", "count"} => streak' >= failures' + 1
           /\ pass'[p].step \notin {"ok", "reset"} => streak' >= failures'
  PROVE  StreakInv'
<1> SUFFICES ASSUME faults = {}
             PROVE  /\ \A q, r \in Passes :
                         pass'[q].step # "idle" /\ pass'[r].step # "idle" => q = r
                    /\ \A q \in Passes : pass'[q].step \in {"bad", "count"} =>
                                           streak' >= failures' + 1
                    /\ (\A q \in Passes : pass'[q].step \notin {"ok", "reset"}) =>
                         streak' >= failures'
  BY DEF StreakInv
<1>1. \A q \in Passes \ {p} : pass'[q].step = "idle"
  OBVIOUS
<1> QED BY <1>1

LEMMA NextAllowance ==
  ASSUME TypeOK, AllowanceInv, [Next]_vars
  PROVE  AllowanceInv'
<1>0. /\ failures \in Nat /\ streak \in Nat /\ disabled \in BOOLEAN
      /\ pass \in [Passes -> Local] /\ FailuresBeforeDisable \in Nat \ {0}
  BY WebhookAssumption DEF TypeOK
<1>s. faults = {} => \A p \in Passes :
        /\ pass[p].step # "idle" => \A q \in Passes \ {p} : pass[q].step = "idle"
        /\ pass[p].step \in {"bad", "count"} => streak >= failures + 1
        /\ pass[p].step \in {"send", "bad", "count"} => streak >= failures
        /\ (\A q \in Passes : pass[q].step = "idle") => streak >= failures
  BY DEF AllowanceInv, StreakInv
<1>1. ASSUME UNCHANGED <<failures, disabled, faults, streak, pass>>
      PROVE  AllowanceInv'
  BY <1>1 DEF AllowanceInv, StreakInv, FullAllowance
<1>2. CASE Disable \/ Restore
  <2>1. /\ UNCHANGED <<faults, streak, pass>>
        /\ failures' = failures \/ failures' = 0
        /\ disabled' \/ failures' = 0
    BY <1>2 DEF Disable, Restore, history
  <2>2. StreakInv'
    BY <1>0, <2>1 DEF AllowanceInv, StreakInv
  <2>3. FullAllowance'
    <3>1. CASE Disable
      BY <3>1 DEF Disable, FullAllowance
    <3>2. CASE Restore
      <4>1. failures' = 0 /\ 0 < FailuresBeforeDisable
        BY <1>0, <3>2 DEF Restore
      <4> QED BY <4>1 DEF FullAllowance
    <3> QED BY <1>2, <3>1, <3>2
  <2> QED BY <2>2, <2>3 DEF AllowanceInv
<1>3. ASSUME NEW p \in Passes, Claim(p) PROVE AllowanceInv'
  <2>1. PICK S \in SUBSET Claimable : Goto(p, [step |-> "send", batch |-> S, row |-> {}])
    BY <1>3 DEF Claim
  <2>2. /\ pass[p].step = "idle" /\ UNCHANGED <<failures, disabled, faults, streak>>
        /\ faults = {} => \A q \in Passes : pass[q].step = "idle"
    BY <1>3 DEF Claim, At, webhook, history
  <2>3. pass'[p].step = "send" /\ \A q \in Passes \ {p} : pass'[q] = pass[q]
    BY <1>0, <2>1 DEF Goto
  <2>4. StreakInv'
    BY <1>s, <2>2, <2>3, OnePass
  <2> QED BY <2>2, <2>4 DEF AllowanceInv, FullAllowance
<1>4. ASSUME NEW p \in Passes, Send(p) PROVE AllowanceInv'
  <2>1. PICK d \in pass[p].batch, status \in {200, 302, 500, 0} :
          /\ Goto(p, [pass[p] EXCEPT !.step = IF Success(status) THEN "ok" ELSE "bad",
                                     !.row = {d}])
          /\ accepted' = IF status = 200 THEN accepted \cup {d} ELSE accepted
          /\ streak' = IF status = 200 THEN 0 ELSE streak + 1
    BY <1>4 DEF Send
  <2>2. pass[p].step = "send" /\ UNCHANGED <<failures, disabled, faults>>
    BY <1>4 DEF Send, At, webhook
  <2>3. /\ pass'[p].step = IF status = 200 THEN "ok" ELSE "bad"
        /\ \A q \in Passes \ {p} : pass'[q] = pass[q]
    <3>1. pass[p] \in Local /\ (Success(status) <=> status = 200)
      BY <1>0 DEF Success
    <3> QED BY <1>0, <2>1, <3>1 DEF Goto, Local
  <2>4. StreakInv'
    BY <1>0, <1>s, <2>1, <2>2, <2>3, OnePass
  <2> QED BY <2>2, <2>4 DEF AllowanceInv, FullAllowance
<1>5. ASSUME NEW p \in Passes, MarkDelivered(p) PROVE AllowanceInv'
  <2>1. /\ pass[p].step = "ok" /\ Step(p, "reset")
        /\ UNCHANGED <<failures, disabled, faults, streak>>
    BY <1>5 DEF MarkDelivered, At, webhook, history
  <2>2. pass'[p].step = "reset" /\ \A q \in Passes \ {p} : pass'[q] = pass[q]
    BY <2>1, StepType DEF Steps
  <2>3. StreakInv'
    BY <1>s, <2>1, <2>2, OnePass
  <2> QED BY <2>1, <2>3 DEF AllowanceInv, FullAllowance
<1>6. ASSUME NEW p \in Passes, ResetFailures(p) PROVE AllowanceInv'
  <2>1. /\ pass[p].step = "reset" /\ Advance(p) /\ failures' = 0
        /\ UNCHANGED <<disabled, faults, streak>>
    BY <1>6 DEF ResetFailures, AfterSuccess, At, history
  <2>2. /\ pass'[p].step \in {"idle", "send"}
        /\ \A q \in Passes \ {p} : pass'[q] = pass[q]
    BY <2>1, AdvanceType
  <2>3. StreakInv'
    BY <1>0, <1>s, <2>1, <2>2, OnePass
  <2> QED BY <1>0, <2>1, <2>3 DEF AllowanceInv, FullAllowance
<1>7. ASSUME NEW p \in Passes, SuccessUnrecorded(p) PROVE AllowanceInv'
  <2>1. /\ faults # {} /\ UNCHANGED <<failures, disabled, faults, streak>>
    BY <1>7 DEF SuccessUnrecorded, webhook, history
  <2> QED BY <2>1 DEF AllowanceInv, StreakInv, FullAllowance
<1>8. ASSUME NEW p \in Passes, ReleaseForRetry(p) PROVE AllowanceInv'
  <2>1. /\ pass[p].step = "bad" /\ Step(p, "count")
        /\ UNCHANGED <<failures, disabled, faults, streak>>
    BY <1>8 DEF ReleaseForRetry, At, webhook, history
  <2>2. pass'[p].step = "count" /\ \A q \in Passes \ {p} : pass'[q] = pass[q]
    BY <2>1, StepType DEF Steps
  <2>3. StreakInv'
    BY <1>s, <2>1, <2>2, OnePass
  <2> QED BY <2>1, <2>3 DEF AllowanceInv, FullAllowance
<1>9. ASSUME NEW p \in Passes, CountFailure(p) PROVE AllowanceInv'
  <2>1. /\ pass[p].step = "count" /\ Advance(p) /\ failures' = failures + 1
        /\ disabled' = (disabled \/ failures + 1 >= FailuresBeforeDisable)
        /\ UNCHANGED <<faults, streak>>
    BY <1>9 DEF CountFailure, At, history
  <2>2. /\ pass'[p].step \in {"idle", "send"}
        /\ \A q \in Passes \ {p} : pass'[q] = pass[q]
    BY <2>1, AdvanceType
  <2>3. StreakInv'
    BY <1>0, <1>s, <2>1, <2>2, OnePass
  <2>4. FullAllowance'
    <3>1. ~disabled' => ~(failures + 1 >= FailuresBeforeDisable)
      BY <2>1, Zenon
    <3>2. failures' = failures + 1
      BY <2>1
    <3> QED BY <1>0, <3>1, <3>2 DEF FullAllowance
  <2> QED BY <2>3, <2>4 DEF AllowanceInv
<1>10. ASSUME NEW p \in Passes, Crash(p) PROVE AllowanceInv'
  <2>1. /\ faults # {} /\ UNCHANGED <<failures, disabled, faults, streak>>
    BY <1>10 DEF Crash, webhook, history
  <2> QED BY <2>1 DEF AllowanceInv, StreakInv, FullAllowance
<1>11. CASE Reclaim \/ (\E d \in Deliveries : Enqueue(d)) \/ UNCHANGED vars
  BY <1>1, <1>11 DEF Reclaim, Enqueue, vars, webhook, history
<1> QED BY <1>2, <1>3, <1>4, <1>5, <1>6, <1>7, <1>8, <1>9, <1>10, <1>11 DEF Next, Work

\* The invariant behind switching off: the failures counted are failures since
\* the last success, where a server runs undisturbed.
THEOREM AllowanceAlways == Spec => []AllowanceInv
<1>1. Init => AllowanceInv
  BY InitAllowance
<1>2. TypeOK /\ AllowanceInv /\ [Next]_vars => AllowanceInv'
  BY NextAllowance
<1>3. RecordInv => TypeOK
  BY DEF RecordInv
<1> QED BY <1>1, <1>2, <1>3, RecordAlways, PTL DEF Spec

\* A webhook is switched off only when as many attempts as the allowance grants
\* failed since it last worked, for every allowance.
THEOREM SwitchedOffAlwaysRightly == Spec => SwitchedOffRightly
<1>1. AllowanceInv => FullAllowance
  BY DEF AllowanceInv
<1>2. RecordInv /\ AllowanceInv /\ [Next]_vars =>
        [failures' = failures + 1 /\ disabled' /\ ~disabled /\ faults = {}
           => streak >= FailuresBeforeDisable]_vars
  <2> SUFFICES ASSUME RecordInv, AllowanceInv, [Next]_vars, failures' = failures + 1,
                      disabled', ~disabled, faults = {}
               PROVE  streak >= FailuresBeforeDisable
    OBVIOUS
  <2>1. failures \in Nat /\ streak \in Nat /\ FailuresBeforeDisable \in Nat
    BY WebhookAssumption DEF RecordInv, TypeOK
  <2>2. failures' # failures /\ failures' # 0
    BY <2>1
  <2>3. PICK p \in Passes : CountFailure(p)
    BY <2>2 DEF Next, Work, vars, webhook, Enqueue, Claim, Reclaim, Disable, Restore, Send,
       MarkDelivered, ResetFailures, AfterSuccess, SuccessUnrecorded, ReleaseForRetry, Crash
  <2>4. failures + 1 >= FailuresBeforeDisable /\ pass[p].step = "count"
    BY <2>3 DEF CountFailure, At
  <2>5. streak >= failures + 1
    BY <2>4 DEF AllowanceInv, StreakInv
  <2> QED BY <2>1, <2>4, <2>5
<1> QED BY <1>1, <1>2, RecordAlways, AllowanceAlways, PTL
        DEF Spec, SwitchedOffRightly, OnlyGoneIsSwitchedOff

=============================================================================
