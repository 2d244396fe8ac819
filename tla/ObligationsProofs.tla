------------------------- MODULE ObligationsProofs -------------------------
(* What holds of Obligations for any people and any number of concurrent   *)
(* transactions: type correctness, the shape of the obligation history,    *)
(* one event per fact, and what the source claims of handlers that run one *)
(* after the other.                                                        *)
EXTENDS Obligations, SequenceTheorems, FiniteSetTheorems, TLAPS

-----------------------------------------------------------------------------
(* Facts about the sequences the commands build.                           *)

LEMMA AppendObligation ==
  ASSUME NEW s \in Seq(Obligation), NEW o \in Obligation
  PROVE  /\ Append(s, o) \in Seq(Obligation)
         /\ Len(Append(s, o)) = Len(s) + 1
         /\ \A i \in 1..Len(s) : Append(s, o)[i] = s[i]
         /\ Append(s, o)[Len(s) + 1] = o
  OBVIOUS

LEMMA ChangeObligation ==
  ASSUME NEW s \in Seq(Obligation), NEW i, NEW o \in Obligation
  PROVE  /\ [s EXCEPT ![i] = o] \in Seq(Obligation)
         /\ Len([s EXCEPT ![i] = o]) = Len(s)
         /\ \A j \in 1..Len(s) : [s EXCEPT ![i] = o][j] = IF j = i THEN o ELSE s[j]
<1>1. CASE i \in 1..Len(s)
  BY <1>1, ExceptSeq
<1>2. CASE i \notin 1..Len(s)
  <2>1. [s EXCEPT ![i] = o] = s
    BY <1>2, LenProperties
  <2> QED BY <2>1, <1>2
<1> QED BY <1>1, <1>2

LEMMA NewObligationType ==
  ASSUME NEW rev \in Nat, NEW prev \in Nat
  PROVE  NewObligation(rev, prev) \in Obligation
  BY DEF NewObligation, Obligation

LEMMA FlagsType ==
  ASSUME NEW o \in Obligation
  PROVE  /\ [o EXCEPT !.superseded = TRUE] \in Obligation
         /\ [o EXCEPT !.waived = TRUE] \in Obligation
         /\ [o EXCEPT !.acked = TRUE] \in Obligation
  BY DEF Obligation

-----------------------------------------------------------------------------
(* Type correctness.                                                       *)

LEMMA LiveIndexType ==
  ASSUME obl \in [Users -> Seq(Obligation)], NEW u \in Users
  PROVE  /\ LiveIndex(u) \in Nat
         /\ HoldsLive(u) => /\ LiveIndex(u) \in LiveOf(u)
                            /\ LiveIndex(u) \in 1..Len(obl[u])
<1>1. LiveOf(u) \subseteq 1..Len(obl[u])
  BY DEF LiveOf
<1>2. HoldsLive(u) => LiveIndex(u) \in LiveOf(u)
  BY DEF HoldsLive, LiveIndex
<1>3. ~HoldsLive(u) => LiveIndex(u) = 0
  BY DEF LiveIndex
<1>4. Len(obl[u]) \in Nat
  BY LenProperties
<1> QED BY <1>1, <1>2, <1>3, <1>4

LEMMA ReadLiveType ==
  ASSUME obl \in [Users -> Seq(Obligation)], NEW S
  PROVE  ReadLive(S) \in [Users -> Nat]
  BY LiveIndexType DEF ReadLive

LEMMA GrantType ==
  ASSUME obl \in [Users -> Seq(Obligation)], NEW S, NEW rev \in Nat
  PROVE  Grant(S, rev) \in [Users -> Seq(Obligation)]
<1>1. NewObligation(rev, 0) \in Obligation
  BY NewObligationType
<1>2. \A u \in Users : Append(obl[u], NewObligation(rev, 0)) \in Seq(Obligation)
  BY <1>1, AppendObligation
<1> QED BY <1>2 DEF Grant

LEMMA ChangeFlagType ==
  ASSUME NEW s \in Seq(Obligation), NEW i
  PROVE  /\ [s EXCEPT ![i].superseded = TRUE] \in Seq(Obligation)
         /\ [s EXCEPT ![i].waived = TRUE] \in Seq(Obligation)
         /\ [s EXCEPT ![i].acked = TRUE] \in Seq(Obligation)
<1>1. CASE i \in 1..Len(s)
  <2>1. s[i] \in Obligation
    BY <1>1, ElementOfSeq
  <2> QED BY <2>1, FlagsType, ChangeObligation
<1>2. CASE i \notin 1..Len(s)
  BY <1>2, LenProperties
<1> QED BY <1>1, <1>2

LEMMA SucceedType ==
  ASSUME obl \in [Users -> Seq(Obligation)], NEW S, NEW rev \in Nat,
         NEW at \in [Users -> Nat]
  PROVE  Succeed(S, at, rev) \in [Users -> Seq(Obligation)]
<1>1. ASSUME NEW u \in Users
      PROVE  Append(Retire(obl[u], at[u]), NewObligation(rev, at[u]))
               \in Seq(Obligation)
  <2>1. Retire(obl[u], at[u]) \in Seq(Obligation)
    BY ChangeFlagType DEF Retire
  <2>2. NewObligation(rev, at[u]) \in Obligation
    BY NewObligationType
  <2> QED BY <2>1, <2>2, AppendObligation
<1> QED BY <1>1 DEF Succeed

LEMMA WaiveAtType ==
  ASSUME obl \in [Users -> Seq(Obligation)], NEW S, NEW at
  PROVE  WaiveAt(S, at) \in [Users -> Seq(Obligation)]
  BY ChangeFlagType DEF WaiveAt

LEMMA GotoType ==
  ASSUME TypeOK, NEW t, NEW local \in Local, Goto(t, local)
  PROVE  tx' \in [Tx -> Local] /\ overlapped' \in BOOLEAN
  BY DEF TypeOK, Goto

LEMMA IdleType == Idle \in Local
  BY DEF Idle, Local, Ops, NoRows

LEMMA QueueType ==
  ASSUME TypeOK, NEW S \in SUBSET Users,
         NEW kind \in {"obligation.assigned", "obligation.reassigned"}
  PROVE  QueueNotification(S, kind) \subseteq OutboxRow
<1>1. \A u \in S : Len(obl[u]) + 1 \in Nat
  BY LenProperties DEF TypeOK
<1> QED BY <1>1 DEF TypeOK, QueueNotification, OutboxRow

LEMMA InitTyped == Init => TypeOK
<1>1. <<>> \in Seq(Obligation)
  BY EmptySeq
<1>2. ASSUME Init PROVE TypeOK
  <2>1. overlapped \in BOOLEAN /\ tx \in [Tx -> Local]
    BY <1>2, IdleType DEF Init
  <2>2. /\ obl \in [Users -> Seq(Obligation)] /\ ackEvents \in [Users -> Nat]
        /\ enabled \subseteq Users /\ recipients \subseteq Users
        /\ covered \subseteq Users /\ released \subseteq Nat
        /\ outbox \subseteq OutboxRow
    BY <1>1, <1>2 DEF Init
  <2>3. /\ requiresAck \in BOOLEAN /\ revisions \in Nat /\ published \in Nat
        /\ publishEvents \in Nat
    BY <1>2 DEF Init
  <2> QED BY <2>1, <2>2, <2>3 DEF TypeOK
<1> QED BY <1>2

\* Loading and selecting write nothing but the transaction's own state.
LEMMA LoadTyped ==
  ASSUME TypeOK, NEW t \in Tx, NEW S \in SUBSET Users,
         NEW op \in {"assign", "reack"}, Load(t, op, S)
  PROVE  TypeOK'
<1>1. [Idle EXCEPT !.op = op, !.step = "loaded", !.scope = S, !.rev = Bound]
        \in Local
  BY DEF TypeOK, Idle, Local, Ops, NoRows, Bound
<1> QED BY <1>1, GotoType DEF Load, TypeOK, authoring, people, queued

LEMMA SelectTyped ==
  ASSUME TypeOK, NEW t \in Tx, NEW S \in SUBSET Users,
         NEW op \in {"assign", "reack"}, Select(t, op, S)
  PROVE  TypeOK'
<1>1. ReadLive(S) \in [Users -> Nat]
  BY ReadLiveType DEF TypeOK
<1>2. [tx[t] EXCEPT !.step = "selected", !.sel = S, !.at = ReadLive(S)]
        \in Local
  BY <1>1 DEF TypeOK, Local
<1> QED BY <1>2, GotoType DEF Select, TypeOK, authoring, people, queued

LEMMA NextTyped ==
  ASSUME TypeOK, [Next]_vars
  PROVE  TypeOK'
<1> USE BoundsAssumption
<1>0. \A t \in Tx : tx[t] \in Local
  BY DEF TypeOK
<1>1. ASSUME NEW S \in SUBSET Users, SetTargets(S) PROVE TypeOK'
  BY <1>1 DEF SetTargets, TypeOK, people, queued
<1>2. ASSUME NEW u \in Users, Restore(u) PROVE TypeOK'
  BY <1>2 DEF Restore, TypeOK, authoring, queued
<1>3. ASSUME NEW t \in Tx, Rollback(t) PROVE TypeOK'
  BY <1>3, IdleType, GotoType
  DEF Rollback, Done, TypeOK, authoring, people, queued
<1>4. ASSUME NEW t \in Tx, ReviseLoad(t) PROVE TypeOK'
  <2>1. [Idle EXCEPT !.op = "revise", !.step = "loaded", !.rev = published]
          \in Local
    BY DEF TypeOK, Idle, Local, Ops, NoRows
  <2> QED BY <1>4, <2>1, GotoType DEF ReviseLoad, TypeOK, authoring, people, queued
<1>5. ASSUME NEW t \in Tx, ReviseCommit(t) PROVE TypeOK'
  <2>1. tx' \in [Tx -> Local] /\ overlapped' \in BOOLEAN
    BY <1>5, IdleType, GotoType DEF ReviseCommit, Done
  <2>2. revisions' \in Nat /\ published' \in Nat /\ released' \subseteq Nat
    <3>0. revisions \in Nat /\ published \in Nat /\ released \subseteq Nat
      BY DEF TypeOK
    <3>1. CASE MovesPublished(t)
      <4>1. /\ revisions' = revisions + 1 /\ published' = revisions + 1
            /\ released' = released \cup {revisions + 1}
        BY <1>5, <3>1 DEF ReviseCommit
      <4> QED BY <3>0, <4>1
    <3>2. CASE ~MovesPublished(t)
      <4>1. /\ revisions' = revisions + 1 /\ published' = published
            /\ released' = released
        BY <1>5, <3>2 DEF ReviseCommit
      <4> QED BY <3>0, <4>1
    <3> QED BY <3>1, <3>2
  <2> QED BY <1>5, <2>1, <2>2 DEF ReviseCommit, TypeOK, people, queued
<1>6. ASSUME NEW t \in Tx, PublishLock(t) PROVE TypeOK'
  <2>1. [Idle EXCEPT !.op = "publish", !.step = "loaded",
                     !.scope = covered \cap enabled, !.rev = revisions]
          \in Local
    BY DEF TypeOK, Idle, Local, Ops, NoRows
  <2> QED BY <1>6, <2>1, GotoType
          DEF PublishLock, TypeOK, authoring, people, queued
<1>7. ASSUME NEW t \in Tx, PublishSelect(t) PROVE TypeOK'
  <2> DEFINE sel == IF requiresAck
                      THEN {u \in tx[t].scope \cap enabled : ~HoldsLive(u)}
                      ELSE {}
  <2>1. sel \in SUBSET Users
    BY DEF TypeOK
  <2>2. [tx[t] EXCEPT !.step = "selected", !.sel = sel] \in Local
    BY <1>0, <2>1 DEF Local
  <2> QED BY <1>7, <2>2, GotoType
          DEF PublishSelect, TypeOK, authoring, people, queued
<1>8. ASSUME NEW t \in Tx, PublishCommit(t) PROVE TypeOK'
  <2>1. tx[t].sel \in SUBSET Users /\ tx[t].scope \in SUBSET Users
        /\ tx[t].rev \in Nat
    BY <1>0 DEF Local
  <2>2. tx' \in [Tx -> Local] /\ overlapped' \in BOOLEAN
    BY <1>8, IdleType, GotoType DEF PublishCommit, Done
  <2>3. obl' \in [Users -> Seq(Obligation)]
    BY <1>8, <2>1, GrantType DEF PublishCommit, TypeOK
  <2>4. outbox' \subseteq OutboxRow
    BY <1>8, <2>1, QueueType DEF PublishCommit
  <2>5. /\ recipients' \subseteq Users
        /\ published' \in Nat /\ released' \subseteq Nat
        /\ publishEvents' \in Nat
    <3>1. /\ recipients \subseteq Users /\ released \subseteq Nat
          /\ publishEvents \in Nat
      BY DEF TypeOK
    <3>2. /\ recipients' = recipients \cup tx[t].scope
          /\ published' = tx[t].rev
          /\ released' = released \cup {tx[t].rev}
          /\ publishEvents' = publishEvents + 1
      BY <1>8 DEF PublishCommit
    <3>3. recipients' \subseteq Users
      BY <2>1, <3>1, <3>2
    <3>4. released' \subseteq Nat
      BY <2>1, <3>1, <3>2
    <3> QED BY <2>1, <3>1, <3>2, <3>3, <3>4
  <2>6. UNCHANGED <<enabled, requiresAck, revisions, covered, ackEvents>>
    BY <1>8 DEF PublishCommit
  <2> QED BY <2>2, <2>3, <2>4, <2>5, <2>6 DEF TypeOK
<1>9. ASSUME NEW t \in Tx, NEW S \in SUBSET Users,
             AssignLoad(t, S) \/ ReackLoad(t, S)
      PROVE  TypeOK'
  BY <1>9, LoadTyped DEF AssignLoad, ReackLoad
<1>10. ASSUME NEW t \in Tx, AssignSelect(t) \/ ReackSelect(t) PROVE TypeOK'
  <2>1. /\ {u \in Candidates(tx[t].scope) : ~HoldsLive(u)} \in SUBSET Users
        /\ {u \in Candidates(tx[t].scope) : HoldsLive(u)} \in SUBSET Users
    BY DEF Candidates, TypeOK
  <2> QED BY <1>10, <2>1, SelectTyped DEF AssignSelect, ReackSelect
<1>11. ASSUME NEW t \in Tx, AssignCommit(t) PROVE TypeOK'
  <2>1. tx[t].sel \in SUBSET Users /\ tx[t].rev \in Nat
    BY <1>0 DEF Local
  <2>2. tx' \in [Tx -> Local] /\ overlapped' \in BOOLEAN
    BY <1>11, IdleType, GotoType DEF AssignCommit, Done
  <2>3. obl' \in [Users -> Seq(Obligation)]
    BY <1>11, <2>1, GrantType DEF AssignCommit, TypeOK
  <2>4. outbox' \subseteq OutboxRow
    BY <1>11, <2>1, QueueType DEF AssignCommit
  <2> QED BY <1>11, <2>2, <2>3, <2>4 DEF AssignCommit, TypeOK, authoring, people
<1>12. ASSUME NEW t \in Tx, ReackCommit(t) PROVE TypeOK'
  <2>1. tx[t].sel \in SUBSET Users /\ tx[t].rev \in Nat
        /\ tx[t].at \in [Users -> Nat]
    BY <1>0 DEF Local
  <2>2. tx' \in [Tx -> Local] /\ overlapped' \in BOOLEAN
    BY <1>12, IdleType, GotoType DEF ReackCommit, Done
  <2>3. obl' \in [Users -> Seq(Obligation)]
    BY <1>12, <2>1, SucceedType DEF ReackCommit, TypeOK
  <2>4. outbox' \subseteq OutboxRow
    BY <1>12, <2>1, QueueType DEF ReackCommit
  <2> QED BY <1>12, <2>2, <2>3, <2>4 DEF ReackCommit, TypeOK, authoring, people
<1>13. ASSUME NEW t \in Tx, NEW S \in SUBSET Users, WaiveSelect(t, S)
       PROVE  TypeOK'
  <2> DEFINE sel == Pending(S \cap recipients)
  <2>1. sel \in SUBSET Users /\ ReadLive(sel) \in [Users -> Nat]
    BY ReadLiveType DEF Pending, TypeOK
  <2>2. [Idle EXCEPT !.op = "waive", !.step = "selected", !.scope = S,
                     !.sel = sel, !.at = ReadLive(sel)] \in Local
    BY <2>1 DEF Idle, Local, Ops, NoRows
  <2> QED BY <1>13, <2>2, GotoType
          DEF WaiveSelect, TypeOK, authoring, people, queued
<1>14. ASSUME NEW t \in Tx, WaiveCommit(t) PROVE TypeOK'
  <2>1. tx' \in [Tx -> Local] /\ overlapped' \in BOOLEAN
    BY <1>14, IdleType, GotoType DEF WaiveCommit, Done
  <2>2. obl' \in [Users -> Seq(Obligation)]
    BY <1>14, WaiveAtType DEF WaiveCommit, TypeOK
  <2> QED BY <1>14, <2>1, <2>2 DEF WaiveCommit, TypeOK, authoring, people, queued
<1>15. ASSUME NEW t \in Tx, NEW u \in Users, DisableSelect(t, u) PROVE TypeOK'
  <2> DEFINE sel == Pending({u})
  <2>1. sel \in SUBSET Users /\ ReadLive(sel) \in [Users -> Nat]
    BY ReadLiveType DEF Pending, TypeOK
  <2>2. [Idle EXCEPT !.op = "disable", !.step = "selected",
                     !.scope = {u} \cap enabled, !.sel = sel,
                     !.at = ReadLive(sel)] \in Local
    BY <2>1 DEF Idle, Local, Ops, NoRows
  <2> QED BY <1>15, <2>2, GotoType
          DEF DisableSelect, TypeOK, authoring, people, queued
<1>16. ASSUME NEW t \in Tx, DisableCommit(t) PROVE TypeOK'
  <2>1. tx' \in [Tx -> Local] /\ overlapped' \in BOOLEAN
    BY <1>16, IdleType, GotoType DEF DisableCommit, Done
  <2>2. obl' \in [Users -> Seq(Obligation)]
    BY <1>16, WaiveAtType DEF DisableCommit, TypeOK
  <2> QED BY <1>16, <2>1, <2>2 DEF DisableCommit, TypeOK, authoring, queued
<1>17. ASSUME NEW t \in Tx, NEW u \in Users, AcknowledgeBegin(t, u)
       PROVE  TypeOK'
  <2>1. [Idle EXCEPT !.op = "acknowledge", !.step = "loaded", !.scope = {u}]
          \in Local
    BY DEF Idle, Local, Ops, NoRows
  <2> QED BY <1>17, <2>1, GotoType
          DEF AcknowledgeBegin, TypeOK, authoring, people, queued
<1>18. ASSUME NEW t \in Tx, AcknowledgeCommit(t) PROVE TypeOK'
  <2>1. tx' \in [Tx -> Local] /\ overlapped' \in BOOLEAN
    BY <1>18, IdleType, GotoType DEF AcknowledgeCommit, Done
  <2>2. PICK u \in tx[t].scope :
          /\ obl' = [obl EXCEPT ![u][LiveIndex(u)].acked = TRUE]
          /\ ackEvents' = [ackEvents EXCEPT ![u] = @ + Recorded(u)]
    BY <1>18 DEF AcknowledgeCommit
  <2>3. u \in Users /\ Recorded(u) \in Nat
    BY <1>0 DEF Local, Recorded
  <2>4. obl' \in [Users -> Seq(Obligation)]
    BY <2>2, <2>3, ChangeFlagType DEF TypeOK
  <2>5. ackEvents' \in [Users -> Nat]
    BY <2>2, <2>3 DEF TypeOK
  <2> QED BY <1>18, <2>1, <2>4, <2>5
          DEF AcknowledgeCommit, TypeOK, authoring, people
<1>19. CASE UNCHANGED vars
  BY <1>19 DEF vars, TypeOK
<1> QED
  BY <1>1, <1>2, <1>3, <1>4, <1>5, <1>6, <1>7, <1>8, <1>9, <1>10, <1>11,
     <1>12, <1>13, <1>14, <1>15, <1>16, <1>17, <1>18, <1>19 DEF Next, Scopes

\* Every row, every queued message and every transaction's local state has
\* its declared shape, for any people and any number of transactions.
THEOREM Typed == Spec => []TypeOK
<1>1. Init => TypeOK
  BY InitTyped
<1>2. TypeOK /\ [Next]_vars => TypeOK'
  BY NextTyped
<1> QED BY <1>1, <1>2, PTL DEF Spec

-----------------------------------------------------------------------------
(* History stands: what one person's obligations may become in a step.     *)

\* n keeps every obligation of s, what it was bound to and what was decided.
Extends(s, n) ==
  \A i \in DOMAIN s :
    /\ i \in DOMAIN n
    /\ n[i].rev = s[i].rev /\ n[i].prev = s[i].prev
    /\ (s[i].acked => n[i].acked) /\ (s[i].waived => n[i].waived)
    /\ (s[i].superseded => n[i].superseded)

LEMMA AppendExtends ==
  ASSUME NEW s \in Seq(Obligation), NEW o \in Obligation
  PROVE  Extends(s, Append(s, o))
<1>1. /\ Append(s, o) \in Seq(Obligation) /\ Len(Append(s, o)) = Len(s) + 1
      /\ \A i \in 1..Len(s) : Append(s, o)[i] = s[i]
  BY AppendObligation
<1>2. DOMAIN s = 1..Len(s) /\ Len(s) \in Nat
      /\ DOMAIN Append(s, o) = 1..Len(Append(s, o))
  BY <1>1, LenProperties
<1>3. \A i \in DOMAIN s : i \in DOMAIN Append(s, o)
  BY <1>1, <1>2
<1> QED BY <1>1, <1>2, <1>3 DEF Extends

\* One obligation gets one more flag, every other stays as it is.
LEMMA FlagExtends ==
  ASSUME NEW s \in Seq(Obligation), NEW p,
         NEW n \in {[s EXCEPT ![p].superseded = TRUE],
                    [s EXCEPT ![p].waived = TRUE],
                    [s EXCEPT ![p].acked = TRUE]}
  PROVE  Extends(s, n) /\ Len(n) = Len(s)
<1>1. CASE p \in 1..Len(s)
  <2>1. s[p] \in Obligation
    BY <1>1, ElementOfSeq
  <2>2. PICK o \in {[s[p] EXCEPT !.superseded = TRUE],
                    [s[p] EXCEPT !.waived = TRUE],
                    [s[p] EXCEPT !.acked = TRUE]} : n = [s EXCEPT ![p] = o]
    OBVIOUS
  <2>3. o \in Obligation
    BY <2>1, <2>2, FlagsType
  <2>4. /\ n \in Seq(Obligation) /\ Len(n) = Len(s)
        /\ \A j \in 1..Len(s) : n[j] = IF j = p THEN o ELSE s[j]
    BY <2>2, <2>3, ChangeObligation
  <2>5. /\ o.rev = s[p].rev /\ o.prev = s[p].prev
        /\ (s[p].acked => o.acked) /\ (s[p].waived => o.waived)
        /\ (s[p].superseded => o.superseded)
    BY <2>1, <2>2 DEF Obligation
  <2>6. DOMAIN s = 1..Len(s) /\ DOMAIN n = 1..Len(s)
    BY <2>4, LenProperties
  <2> QED BY <2>4, <2>5, <2>6 DEF Extends
<1>2. CASE p \notin 1..Len(s)
  <2>1. n = s
    BY <1>2, LenProperties
  <2> QED BY <2>1 DEF Extends
<1> QED BY <1>1, <1>2

LEMMA ExtendsTransitive ==
  ASSUME NEW a, NEW b, NEW c, Extends(a, b), Extends(b, c)
  PROVE  Extends(a, c)
  BY DEF Extends

\* The six commits that write obligations; every other step leaves them.
WritesObligations(t) ==
  \/ PublishCommit(t) \/ AssignCommit(t) \/ ReackCommit(t)
  \/ WaiveCommit(t) \/ DisableCommit(t) \/ AcknowledgeCommit(t)

LEMMA OnlyCommitsWrite ==
  ASSUME [Next]_vars
  PROVE  UNCHANGED obl \/ \E t \in Tx : WritesObligations(t)
  BY DEF Next, vars, authoring, people, queued, SetTargets, Restore, Rollback,
     ReviseLoad, ReviseCommit, PublishLock, PublishSelect, AssignLoad,
     AssignSelect, ReackLoad, ReackSelect, Load, Select, WaiveSelect,
     DisableSelect, AcknowledgeBegin, WritesObligations

\* What a commit does to each person's obligations.
LEMMA CommitShapes ==
  ASSUME TypeOK, NEW t \in Tx, WritesObligations(t), NEW u \in Users
  PROVE  \/ obl'[u] = obl[u]
         \/ /\ obl'[u] = Append(obl[u], NewObligation(tx[t].rev, 0))
            /\ tx[t].op \in {"publish", "assign"} /\ LiveOf(u) = {}
         \/ /\ obl'[u] = Append(Retire(obl[u], tx[t].at[u]),
                                NewObligation(tx[t].rev, tx[t].at[u]))
            /\ In(t, "reack", "selected") /\ u \in tx[t].sel
            /\ NotWaived(u, tx[t].at[u]) /\ NoOtherLive(u, tx[t].at[u])
         \/ /\ obl'[u] = [obl[u] EXCEPT ![tx[t].at[u]].waived = TRUE]
            /\ tx[t].op \in {"waive", "disable"} /\ tx[t].step = "selected"
            /\ u \in tx[t].sel /\ Live(obl[u][tx[t].at[u]])
         \/ /\ obl'[u] = [obl[u] EXCEPT ![LiveIndex(u)].acked = TRUE]
            /\ HoldsLive(u)
<1>0. tx[t] \in Local /\ obl \in [Users -> Seq(Obligation)]
  BY DEF TypeOK
<1>1. CASE PublishCommit(t)
  <2>1. obl'[u] = IF u \in tx[t].sel
                    THEN Append(obl[u], NewObligation(tx[t].rev, 0)) ELSE obl[u]
    BY <1>1 DEF PublishCommit, Grant
  <2>2. u \in tx[t].sel => LiveOf(u) = {}
    <3>1. 0 \notin DOMAIN obl[u]
      BY <1>0, LenProperties
    <3> QED BY <1>1, <3>1 DEF PublishCommit, NoOtherLive, LiveOf
  <2> QED BY <1>1, <2>1, <2>2 DEF PublishCommit, In
<1>2. CASE AssignCommit(t)
  <2>1. obl'[u] = IF u \in tx[t].sel
                    THEN Append(obl[u], NewObligation(tx[t].rev, 0)) ELSE obl[u]
    BY <1>2 DEF AssignCommit, Grant
  <2>2. u \in tx[t].sel => LiveOf(u) = {}
    <3>1. 0 \notin DOMAIN obl[u]
      BY <1>0, LenProperties
    <3> QED BY <1>2, <3>1 DEF AssignCommit, NoOtherLive, LiveOf
  <2> QED BY <1>2, <2>1, <2>2 DEF AssignCommit, In
<1>3. CASE ReackCommit(t)
  BY <1>3 DEF ReackCommit, Succeed
<1>4. CASE WaiveCommit(t)
  BY <1>4 DEF WaiveCommit, WaiveAt, StillLive, In
<1>5. CASE DisableCommit(t)
  BY <1>5 DEF DisableCommit, WaiveAt, StillLive, In
<1>6. CASE AcknowledgeCommit(t)
  <2>1. PICK v \in tx[t].scope :
          /\ HoldsLive(v)
          /\ obl' = [obl EXCEPT ![v][LiveIndex(v)].acked = TRUE]
    BY <1>6 DEF AcknowledgeCommit
  <2>2. v \in Users
    BY <1>0 DEF Local
  <2> QED BY <1>0, <2>1, <2>2
<1> QED BY <1>1, <1>2, <1>3, <1>4, <1>5, <1>6 DEF WritesObligations

LEMMA SucceedExtends ==
  ASSUME NEW s \in Seq(Obligation), NEW p \in Nat, NEW rev \in Nat
  PROVE  Extends(s, Append(Retire(s, p), NewObligation(rev, p)))
<1>1. Retire(s, p) \in Seq(Obligation)
  BY ChangeFlagType DEF Retire
<1>2. Extends(s, Retire(s, p))
  BY FlagExtends DEF Retire
<1>3. Extends(Retire(s, p), Append(Retire(s, p), NewObligation(rev, p)))
  BY <1>1, NewObligationType, AppendExtends
<1> QED BY <1>2, <1>3, ExtendsTransitive

LEMMA StepExtends ==
  ASSUME TypeOK, [Next]_vars, NEW u \in Users
  PROVE  Extends(obl[u], obl'[u])
<1>1. CASE UNCHANGED obl
  BY <1>1 DEF Extends
<1>2. ASSUME NEW t \in Tx, WritesObligations(t) PROVE Extends(obl[u], obl'[u])
  <2>1. /\ obl[u] \in Seq(Obligation)
        /\ tx[t].rev \in Nat /\ tx[t].at[u] \in Nat
    BY DEF TypeOK, Local
  <2>2. Extends(obl[u], obl[u])
    BY DEF Extends
  <2>3. Extends(obl[u], Append(obl[u], NewObligation(tx[t].rev, 0)))
    BY <2>1, AppendExtends, NewObligationType
  <2>4. Extends(obl[u], Append(Retire(obl[u], tx[t].at[u]),
                               NewObligation(tx[t].rev, tx[t].at[u])))
    BY <2>1, SucceedExtends
  <2>5. /\ Extends(obl[u], [obl[u] EXCEPT ![tx[t].at[u]].waived = TRUE])
        /\ Extends(obl[u], [obl[u] EXCEPT ![LiveIndex(u)].acked = TRUE])
    BY <2>1, FlagExtends
  <2> QED BY <1>2, <2>2, <2>3, <2>4, <2>5, CommitShapes
<1> QED BY <1>1, <1>2, OnlyCommitsWrite

\* Acknowledgements, waives and supersessions are history, whatever commands
\* run concurrently and in whatever order they commit.
THEOREM HistoryAlwaysStands == Spec => HistoryStands
<1>1. TypeOK /\ [Next]_vars =>
        [\A u \in Users : \A i \in DOMAIN obl[u] :
           LET o == obl[u][i]  n == obl'[u][i]
           IN  /\ i \in DOMAIN obl'[u]
               /\ n.rev = o.rev /\ n.prev = o.prev
               /\ (o.acked => n.acked) /\ (o.waived => n.waived)
               /\ (o.superseded => n.superseded)]_vars
  BY StepExtends DEF Extends
<1> QED BY <1>1, Typed, PTL DEF Spec, HistoryStands

-----------------------------------------------------------------------------
(* One live obligation, and a sound chain of successors.                   *)

\* Stronger than one live obligation: only the newest can be live, so what a
\* successor replaces is never live again.
Sound(s) ==
  /\ \A i \in DOMAIN s : Live(s[i]) => i = Len(s)
  /\ \A i \in DOMAIN s :
       s[i].prev # 0 => /\ s[i].prev < i
                        /\ s[s[i].prev].superseded /\ ~s[s[i].prev].waived
  /\ \A i \in DOMAIN s :
       s[i].superseded => \E j \in DOMAIN s : s[j].prev = i

\* A transaction that read an obligation can still find it by its place.
Bounded ==
  \A t \in Tx :
    tx[t].op \in {"reack", "waive", "disable"} /\ tx[t].step = "selected" =>
      \A u \in tx[t].sel : tx[t].at[u] \in 1..Len(obl[u])

ChainInv == Bounded /\ \A u \in Users : Sound(obl[u])

LEMMA GrantSound ==
  ASSUME NEW s \in Seq(Obligation), NEW rev \in Nat, Sound(s),
         \A i \in DOMAIN s : ~Live(s[i])
  PROVE  Sound(Append(s, NewObligation(rev, 0)))
<1> DEFINE o == NewObligation(rev, 0)
           n == Append(s, o)
<1>1. /\ n \in Seq(Obligation) /\ Len(n) = Len(s) + 1
      /\ (\A i \in 1..Len(s) : n[i] = s[i]) /\ n[Len(s) + 1] = o
  BY NewObligationType, AppendObligation
<1>2. o.prev = 0 /\ ~o.superseded
  BY DEF NewObligation
<1>3. /\ Len(s) \in Nat /\ DOMAIN s = 1..Len(s)
      /\ DOMAIN n = 1..(Len(s) + 1)
  BY <1>1, LenProperties
<1> HIDE DEF n, o
<1>4. \A i \in DOMAIN n : i \in DOMAIN s \/ i = Len(s) + 1
  BY <1>3
<1>5. ASSUME NEW i \in DOMAIN s PROVE s[i].prev \in Nat
  <2>1. s[i] \in Obligation
    BY <1>3, ElementOfSeq
  <2> QED BY <2>1 DEF Obligation
<1>6. ASSUME NEW i \in DOMAIN n, Live(n[i]) PROVE i = Len(n)
  BY <1>1, <1>3, <1>4, <1>6
<1>7. ASSUME NEW i \in DOMAIN n, n[i].prev # 0
      PROVE  /\ n[i].prev < i
             /\ n[n[i].prev].superseded /\ ~n[n[i].prev].waived
  <2>1. i \in DOMAIN s /\ n[i] = s[i]
    BY <1>1, <1>2, <1>3, <1>4, <1>7
  <2>2. n[i].prev < i /\ n[i].prev \in 1..Len(s)
    BY <1>3, <1>5, <1>7, <2>1 DEF Sound
  <2> QED BY <1>1, <1>7, <2>1, <2>2 DEF Sound
<1>8. ASSUME NEW i \in DOMAIN n, n[i].superseded
      PROVE  \E j \in DOMAIN n : n[j].prev = i
  <2>1. i \in DOMAIN s /\ s[i].superseded
    BY <1>1, <1>2, <1>3, <1>4, <1>8
  <2>2. PICK j \in DOMAIN s : s[j].prev = i
    BY <2>1 DEF Sound
  <2> QED BY <1>1, <1>3, <2>2
<1> QED BY <1>6, <1>7, <1>8 DEF Sound, n, o

LEMMA SucceedSound ==
  ASSUME NEW s \in Seq(Obligation), NEW rev \in Nat, Sound(s),
         NEW p \in 1..Len(s), ~s[p].waived,
         \A i \in DOMAIN s : Live(s[i]) => i = p
  PROVE  Sound(Append(Retire(s, p), NewObligation(rev, p)))
<1> DEFINE o == NewObligation(rev, p)
           r == Retire(s, p)
           n == Append(r, o)
<1>1. s[p] \in Obligation /\ p \in Nat /\ Len(s) \in Nat
      /\ DOMAIN s = 1..Len(s)
  BY ElementOfSeq, LenProperties
<1>2. r = [s EXCEPT ![p] = [s[p] EXCEPT !.superseded = TRUE]]
  BY DEF Retire
<1>3. /\ r \in Seq(Obligation) /\ Len(r) = Len(s)
      /\ \A i \in 1..Len(s) :
           r[i] = IF i = p THEN [s[p] EXCEPT !.superseded = TRUE] ELSE s[i]
  <2>1. [s[p] EXCEPT !.superseded = TRUE] \in Obligation
    BY <1>1, FlagsType
  <2> QED BY <1>2, <2>1, ChangeObligation
<1>4. /\ n \in Seq(Obligation) /\ Len(n) = Len(s) + 1
      /\ (\A i \in 1..Len(s) : n[i] = r[i]) /\ n[Len(s) + 1] = o
  <2>1. o \in Obligation
    BY <1>1, NewObligationType
  <2> HIDE DEF o, r
  <2> QED BY <1>3, <2>1, AppendObligation
<1>5. DOMAIN n = 1..(Len(s) + 1)
  BY <1>4, LenProperties
<1>6. o.prev = p /\ ~o.superseded
  BY DEF NewObligation
<1>7. \A i \in 1..Len(s) : /\ n[i].prev = s[i].prev /\ n[i].waived = s[i].waived
                           /\ n[i].superseded = (s[i].superseded \/ i = p)
  <2> TAKE i \in 1..Len(s)
  <2>1. s[i] \in Obligation
    BY ElementOfSeq
  <2>2. CASE i = p
    BY <1>1, <1>3, <1>4, <2>1, <2>2 DEF Obligation
  <2>3. CASE i # p
    BY <1>3, <1>4, <2>1, <2>3 DEF Obligation
  <2> QED BY <2>2, <2>3
<1> HIDE DEF n, r, o
<1>8. \A i \in DOMAIN n : i \in 1..Len(s) \/ i = Len(s) + 1
  BY <1>1, <1>5
<1>9. ASSUME NEW i \in 1..Len(s) PROVE s[i].prev \in Nat
  <2>1. s[i] \in Obligation
    BY ElementOfSeq
  <2> QED BY <2>1 DEF Obligation
<1>10. ASSUME NEW i \in DOMAIN n, Live(n[i]) PROVE i = Len(n)
  <2>1. ASSUME i \in 1..Len(s) PROVE FALSE
    BY <1>1, <1>7, <1>10, <2>1 DEF Live
  <2> QED BY <1>4, <1>8, <2>1
<1>11. ASSUME NEW i \in DOMAIN n, n[i].prev # 0
       PROVE  /\ n[i].prev < i
              /\ n[n[i].prev].superseded /\ ~n[n[i].prev].waived
  <2>1. CASE i = Len(s) + 1
    <3>1. n[i].prev = p
      BY <1>4, <1>6, <2>1
    <3>2. n[p].superseded /\ ~n[p].waived
      BY <1>7
    <3> QED BY <1>1, <2>1, <3>1, <3>2
  <2>2. CASE i \in 1..Len(s)
    <3>1. /\ s[i].prev < i /\ s[i].prev \in 1..Len(s)
          /\ s[s[i].prev].superseded /\ ~s[s[i].prev].waived
      BY <1>1, <1>7, <1>9, <1>11, <2>2 DEF Sound
    <3> QED BY <1>7, <2>2, <3>1
  <2> QED BY <1>8, <2>1, <2>2
<1>12. ASSUME NEW i \in DOMAIN n, n[i].superseded
       PROVE  \E j \in DOMAIN n : n[j].prev = i
  <2>1. i \in 1..Len(s) /\ (s[i].superseded \/ i = p)
    BY <1>4, <1>6, <1>7, <1>8, <1>12
  <2>2. CASE i = p
    BY <1>1, <1>4, <1>5, <1>6, <2>2
  <2>3. CASE s[i].superseded
    <3>1. PICK j \in 1..Len(s) : s[j].prev = i
      BY <1>1, <2>1, <2>3 DEF Sound
    <3> QED BY <1>1, <1>5, <1>7, <3>1
  <2> QED BY <2>1, <2>2, <2>3
<1> QED BY <1>10, <1>11, <1>12 DEF Sound, n, r, o

\* Waiving a live obligation, or acknowledging any, keeps the chain sound.
LEMMA FlagSound ==
  ASSUME NEW s \in Seq(Obligation), Sound(s), NEW p \in 1..Len(s),
         NEW n, \/ n = [s EXCEPT ![p].waived = TRUE] /\ Live(s[p])
                \/ n = [s EXCEPT ![p].acked = TRUE]
  PROVE  Sound(n)
<1>1. s[p] \in Obligation /\ DOMAIN s = 1..Len(s)
  BY ElementOfSeq, LenProperties
<1>2. PICK o \in {[s[p] EXCEPT !.waived = TRUE], [s[p] EXCEPT !.acked = TRUE]} :
        /\ n = [s EXCEPT ![p] = o]
        /\ o = [s[p] EXCEPT !.waived = TRUE] => Live(s[p])
           \/ o = [s[p] EXCEPT !.acked = TRUE]
  OBVIOUS
<1>3. o \in Obligation
  BY <1>1, <1>2, FlagsType
<1>4. /\ n \in Seq(Obligation) /\ Len(n) = Len(s)
      /\ \A j \in 1..Len(s) : n[j] = IF j = p THEN o ELSE s[j]
  BY <1>2, <1>3, ChangeObligation
<1>5. /\ o.prev = s[p].prev /\ o.superseded = s[p].superseded
      /\ (Live(o) => Live(s[p]))
      /\ (o.waived # s[p].waived => Live(s[p]))
  BY <1>1, <1>2 DEF Obligation, Live
<1>6. DOMAIN n = DOMAIN s
  BY <1>1, <1>4, LenProperties
<1>7. \A i \in DOMAIN s :
        /\ n[i].prev = s[i].prev /\ n[i].superseded = s[i].superseded
        /\ (Live(n[i]) => Live(s[i]))
        /\ (s[i].superseded /\ ~s[i].waived => ~n[i].waived)
  BY <1>1, <1>4, <1>5 DEF Live
<1>8. \A i \in DOMAIN s : s[i].prev # 0 => s[i].prev \in DOMAIN s
  <2> SUFFICES ASSUME NEW i \in DOMAIN s, s[i].prev # 0
               PROVE  s[i].prev \in DOMAIN s
    OBVIOUS
  <2>1. s[i] \in Obligation /\ Len(s) \in Nat
    BY <1>1, ElementOfSeq, LenProperties
  <2>2. s[i].prev \in Nat /\ s[i].prev < i
    BY <2>1 DEF Sound, Obligation
  <2> QED BY <1>1, <2>1, <2>2
<1>9. \A i \in DOMAIN n : Live(n[i]) => i = Len(n)
  BY <1>4, <1>6, <1>7 DEF Sound
<1>10. ASSUME NEW i \in DOMAIN n, n[i].prev # 0
       PROVE  /\ n[i].prev < i
              /\ n[n[i].prev].superseded /\ ~n[n[i].prev].waived
  <2>1. /\ s[i].prev < i /\ s[i].prev \in DOMAIN s
        /\ s[s[i].prev].superseded /\ ~s[s[i].prev].waived
    BY <1>6, <1>7, <1>8, <1>10 DEF Sound
  <2> QED BY <1>6, <1>7, <2>1
<1>11. \A i \in DOMAIN n : n[i].superseded => \E j \in DOMAIN n : n[j].prev = i
  BY <1>6, <1>7 DEF Sound
<1> QED BY <1>9, <1>10, <1>11 DEF Sound

LEMMA CommitSound ==
  ASSUME TypeOK, ChainInv, NEW t \in Tx, WritesObligations(t), NEW u \in Users
  PROVE  Sound(obl'[u])
<1>1. /\ obl[u] \in Seq(Obligation) /\ DOMAIN obl[u] = 1..Len(obl[u])
      /\ Sound(obl[u]) /\ tx[t] \in Local
  BY LenProperties DEF TypeOK, ChainInv
<1>2. tx[t].rev \in Nat
  BY <1>1 DEF Local
<1>3. CASE obl'[u] = obl[u]
  BY <1>1, <1>3
<1>4. CASE /\ obl'[u] = Append(obl[u], NewObligation(tx[t].rev, 0))
           /\ LiveOf(u) = {}
  <2>1. \A i \in DOMAIN obl[u] : ~Live(obl[u][i])
    BY <1>4 DEF LiveOf
  <2> QED BY <1>1, <1>2, <1>4, <2>1, GrantSound
<1>5. CASE /\ obl'[u] = Append(Retire(obl[u], tx[t].at[u]),
                              NewObligation(tx[t].rev, tx[t].at[u]))
           /\ In(t, "reack", "selected") /\ u \in tx[t].sel
           /\ NotWaived(u, tx[t].at[u]) /\ NoOtherLive(u, tx[t].at[u])
  <2>1. tx[t].at[u] \in 1..Len(obl[u])
    BY <1>5 DEF ChainInv, Bounded, In
  <2>2. /\ ~obl[u][tx[t].at[u]].waived
        /\ \A i \in DOMAIN obl[u] : Live(obl[u][i]) => i = tx[t].at[u]
    BY <1>5 DEF NotWaived, NoOtherLive, LiveOf
  <2> QED BY <1>1, <1>2, <1>5, <2>1, <2>2, SucceedSound
<1>6. CASE /\ obl'[u] = [obl[u] EXCEPT ![tx[t].at[u]].waived = TRUE]
           /\ tx[t].op \in {"waive", "disable"} /\ tx[t].step = "selected"
           /\ u \in tx[t].sel /\ Live(obl[u][tx[t].at[u]])
  <2>1. tx[t].at[u] \in 1..Len(obl[u])
    BY <1>6 DEF ChainInv, Bounded
  <2> QED BY <1>1, <1>6, <2>1, FlagSound
<1>7. CASE /\ obl'[u] = [obl[u] EXCEPT ![LiveIndex(u)].acked = TRUE]
           /\ HoldsLive(u)
  <2>1. LiveIndex(u) \in 1..Len(obl[u])
    BY <1>7, LiveIndexType DEF TypeOK
  <2> QED BY <1>1, <1>7, <2>1, FlagSound
<1> QED BY <1>3, <1>4, <1>5, <1>6, <1>7, CommitShapes

LEMMA ExtendsLen ==
  ASSUME NEW s \in Seq(Obligation), NEW n \in Seq(Obligation), Extends(s, n)
  PROVE  1..Len(s) \subseteq 1..Len(n)
  BY LenProperties DEF Extends

\* What a selection reads is a place in the history.
LEMMA ReadLiveBounded ==
  ASSUME TypeOK, NEW S \in SUBSET Users, \A u \in S : HoldsLive(u)
  PROVE  \A u \in S : ReadLive(S)[u] \in 1..Len(obl[u])
  BY LiveIndexType DEF TypeOK, ReadLive

\* How a step may change the local state of a transaction: it ends, begins or
\* reads something, or it is not this transaction's step.
LEMMA LocalSteps ==
  ASSUME TypeOK, [Next]_vars, NEW t \in Tx,
         tx'[t].op \in {"reack", "waive", "disable"}, tx'[t].step = "selected"
  PROVE  \/ tx'[t] = tx[t]
         \/ \E S \in SUBSET Users : /\ \A u \in S : HoldsLive(u)
                                   /\ tx'[t].sel = S /\ tx'[t].at = ReadLive(S)
<1> DEFINE Read(r) == \E S \in SUBSET Users :
              /\ \A u \in S : HoldsLive(u)
              /\ tx'[r].sel = S /\ tx'[r].at = ReadLive(S)
<1>0. tx \in [Tx -> Local]
  BY DEF TypeOK
<1>1. CASE UNCHANGED tx
  BY <1>1
<1>2. ASSUME NEW r \in Tx, NEW local, Goto(r, local), local.step # "selected"
      PROVE  tx'[t] = tx[t]
  BY <1>0, <1>2 DEF Goto
<1>3. Idle.step = "start"
  BY DEF Idle
<1>4. ASSUME NEW r \in Tx, Done(r) PROVE tx'[t] = tx[t]
  BY <1>2, <1>3, <1>4 DEF Done
<1>5. ASSUME NEW r \in Tx, ReviseLoad(r) \/ PublishLock(r)
             \/ (\E S : AssignLoad(r, S) \/ ReackLoad(r, S))
             \/ (\E u : AcknowledgeBegin(r, u))
      PROVE  tx'[t] = tx[t]
  <2>1. CASE ReviseLoad(r)
    BY <1>2, <2>1 DEF ReviseLoad, Idle
  <2>2. CASE PublishLock(r)
    BY <1>2, <2>2 DEF PublishLock, Idle
  <2>3. CASE \E S : AssignLoad(r, S) \/ ReackLoad(r, S)
    BY <1>2, <2>3 DEF AssignLoad, ReackLoad, Load, Idle
  <2>4. CASE \E u : AcknowledgeBegin(r, u)
    BY <1>2, <2>4 DEF AcknowledgeBegin, Idle
  <2> QED BY <1>5, <2>1, <2>2, <2>3, <2>4
<1>6. ASSUME NEW r \in Tx, PublishSelect(r) \/ AssignSelect(r)
      PROVE  tx'[t] = tx[t]
  <2>1. tx[r].op \in {"publish", "assign"}
    BY <1>6 DEF PublishSelect, AssignSelect, Select, In
  <2>2. tx'[r].op = tx[r].op /\ (t # r => tx'[t] = tx[t])
    <3>1. tx[r] \in Local
      BY <1>0
    <3>2. CASE PublishSelect(r)
      BY <1>0, <3>1, <3>2 DEF PublishSelect, Goto, Local
    <3>3. CASE AssignSelect(r)
      BY <1>0, <3>1, <3>3 DEF AssignSelect, Select, Goto, Local
    <3> QED BY <1>6, <3>2, <3>3
  <2> QED BY <2>1, <2>2
<1>7. ASSUME NEW r \in Tx, ReackSelect(r) PROVE tx'[t] = tx[t] \/ Read(t)
  <2> DEFINE S == {u \in Candidates(tx[r].scope) : HoldsLive(u)}
  <2>1. S \in SUBSET Users
    BY DEF Candidates, TypeOK
  <2>2. Goto(r, [tx[r] EXCEPT !.step = "selected", !.sel = S,
                              !.at = ReadLive(S)])
    BY <1>7 DEF ReackSelect, Select
  <2>3. t = r => tx'[t].sel = S /\ tx'[t].at = ReadLive(S)
    BY <1>0, <2>2 DEF Goto, Local
  <2>4. t # r => tx'[t] = tx[t]
    BY <1>0, <2>2 DEF Goto
  <2> QED BY <2>1, <2>3, <2>4
<1>8. ASSUME NEW r \in Tx, NEW T, WaiveSelect(r, T)
      PROVE  tx'[t] = tx[t] \/ Read(t)
  <2> DEFINE S == Pending(T \cap recipients)
  <2>1. S \in SUBSET Users /\ \A u \in S : HoldsLive(u)
    BY DEF Pending, TypeOK
  <2>2. t = r => tx'[t].sel = S /\ tx'[t].at = ReadLive(S)
    BY <1>0, <1>8 DEF WaiveSelect, Goto, Idle
  <2>3. t # r => tx'[t] = tx[t]
    BY <1>0, <1>8 DEF WaiveSelect, Goto
  <2> QED BY <2>1, <2>2, <2>3
<1>9. ASSUME NEW r \in Tx, NEW v \in Users, DisableSelect(r, v)
      PROVE  tx'[t] = tx[t] \/ Read(t)
  <2> DEFINE S == Pending({v})
  <2>1. S \in SUBSET Users /\ \A u \in S : HoldsLive(u)
    BY DEF Pending
  <2>2. t = r => tx'[t].sel = S /\ tx'[t].at = ReadLive(S)
    BY <1>0, <1>9 DEF DisableSelect, Goto, Idle
  <2>3. t # r => tx'[t] = tx[t]
    BY <1>0, <1>9 DEF DisableSelect, Goto
  <2> QED BY <2>1, <2>2, <2>3
<1>10. ASSUME Next PROVE \/ UNCHANGED tx
                        \/ \E r \in Tx :
                             \/ Done(r)
                             \/ ReviseLoad(r) \/ PublishLock(r)
                             \/ (\E S : AssignLoad(r, S) \/ ReackLoad(r, S))
                             \/ (\E u : AcknowledgeBegin(r, u))
                             \/ PublishSelect(r) \/ AssignSelect(r)
                             \/ ReackSelect(r) \/ (\E S : WaiveSelect(r, S))
                             \/ (\E u \in Users : DisableSelect(r, u))
  BY <1>10 DEF Next, SetTargets, Restore, Rollback, ReviseCommit, PublishCommit,
     AssignCommit, ReackCommit, WaiveCommit, DisableCommit, AcknowledgeCommit
<1> HIDE DEF Read
<1>11. Next => tx'[t] = tx[t] \/ Read(t)
  BY <1>1, <1>4, <1>5, <1>6, <1>7, <1>8, <1>9, <1>10
<1> QED BY <1>1, <1>11 DEF Read, vars

LEMMA InitChain == Init => ChainInv
<1>1. DOMAIN <<>> = {}
  OBVIOUS
<1> QED BY <1>1 DEF Init, ChainInv, Bounded, Sound, Idle

LEMMA NextChain ==
  ASSUME TypeOK, TypeOK', ChainInv, [Next]_vars
  PROVE  ChainInv'
<1>1. ASSUME NEW u \in Users PROVE 1..Len(obl[u]) \subseteq 1..Len(obl'[u])
  BY <1>1, StepExtends, ExtendsLen DEF TypeOK
<1>2. Bounded'
  <2> SUFFICES ASSUME NEW t \in Tx, tx'[t].op \in {"reack", "waive", "disable"},
                      tx'[t].step = "selected", NEW u \in tx'[t].sel
               PROVE  tx'[t].at[u] \in 1..Len(obl'[u])
    BY DEF Bounded
  <2>1. u \in Users
    BY DEF TypeOK, Local
  <2>2. CASE tx'[t] = tx[t]
    BY <1>1, <2>1, <2>2 DEF ChainInv, Bounded
  <2>3. CASE \E S \in SUBSET Users : /\ \A v \in S : HoldsLive(v)
                                  /\ tx'[t].sel = S /\ tx'[t].at = ReadLive(S)
    BY <1>1, <2>1, <2>3, ReadLiveBounded
  <2> QED BY <2>2, <2>3, LocalSteps
<1>3. ASSUME NEW u \in Users PROVE Sound(obl'[u])
  <2>1. CASE UNCHANGED obl
    BY <2>1 DEF ChainInv
  <2>2. CASE \E t \in Tx : WritesObligations(t)
    BY <2>2, CommitSound
  <2> QED BY <2>1, <2>2, OnlyCommitsWrite
<1> QED BY <1>2, <1>3 DEF ChainInv

\* In every state each person's chain of obligations is sound (one live, each
\* superseded one succeeded, each successor pointing back at a superseded one):
\* the invariant the next three theorems read off.
THEOREM ChainAlways == Spec => []ChainInv
<1>1. Init => ChainInv
  BY InitChain
<1>2. TypeOK /\ TypeOK' /\ ChainInv /\ [Next]_vars => ChainInv'
  BY NextChain
<1> QED BY <1>1, <1>2, Typed, PTL DEF Spec

\* A recipient never holds two live obligations, for any people and any
\* commands running at the same time.
THEOREM NobodyCountedTwice == Spec => []OneLivePerRecipient
<1>1. ChainInv => OneLivePerRecipient
  BY DEF ChainInv, Sound, OneLivePerRecipient, LiveOf
<1> QED BY <1>1, ChainAlways, PTL

\* Every successor names an earlier obligation that left by supersession.
THEOREM ChainsAreSound == Spec => []ChainSound
<1>1. ChainInv => ChainSound
  BY DEF ChainInv, Sound, ChainSound
<1> QED BY <1>1, ChainAlways, PTL

\* Nobody drops out of the denominator: what was superseded has a successor.
THEOREM NobodyDropsOut == Spec => []SupersededIsReplaced
<1>1. ChainInv => SupersededIsReplaced
  BY DEF ChainInv, Sound, SupersededIsReplaced
<1> QED BY <1>1, ChainAlways, PTL

-----------------------------------------------------------------------------
(* One publication, and only released text.                                *)

\* One publisher at a time; it holds the announcement, so nothing else can
\* have published it, and nobody else works from a revision never released.
PublishInv ==
  /\ revisions # 0
  /\ published # 0 => published \in released
  /\ publishEvents = IF published = 0 THEN 0 ELSE 1
  /\ \A t \in Tx : tx[t].op = "publish" => tx[t].rev # 0 /\ published = 0
  /\ \A t \in Tx : tx[t].op = "revise" /\ tx[t].rev # 0 => published # 0
  /\ \A t \in Tx : tx[t].op \in {"assign", "reack"} => tx[t].rev \in released
  /\ \A t, r \in Tx : tx[t].op = "publish" /\ tx[r].op = "publish" => t = r

LEMMA InitPublish == Init => PublishInv
  BY DEF Init, PublishInv, Idle

\* A transaction that ends leaves the claims about the others.
LEMMA DonePublish ==
  ASSUME TypeOK, PublishInv, NEW t \in Tx, Done(t),
         UNCHANGED <<revisions, published, released, publishEvents>>
  PROVE  PublishInv'
<1>1. \A r \in Tx : tx'[r] = IF r = t THEN Idle ELSE tx[r]
  BY DEF Done, Goto, TypeOK
<1>2. Idle.op = "idle"
  BY DEF Idle
<1> QED BY <1>1, <1>2 DEF PublishInv

\* So does one that begins or goes on, with what it has read.
LEMMA GotoPublish ==
  ASSUME TypeOK, PublishInv, NEW t \in Tx, NEW local, Goto(t, local),
         UNCHANGED <<revisions, published, released, publishEvents>>,
         local.op = "publish" =>
           /\ local.rev # 0 /\ published = 0
           /\ \A r \in Tx : tx[r].op = "publish" => r = t,
         local.op = "revise" /\ local.rev # 0 => published # 0,
         local.op \in {"assign", "reack"} => local.rev \in released
  PROVE  PublishInv'
<1>1. \A r \in Tx : tx'[r] = IF r = t THEN local ELSE tx[r]
  BY DEF Goto, TypeOK
<1> QED BY <1>1 DEF PublishInv

LEMMA NextPublish ==
  ASSUME TypeOK, PublishInv, [Next]_vars
  PROVE  PublishInv'
<1>0. ASSUME NEW t \in Tx
      PROVE  /\ tx[t] \in Local
             /\ [tx[t] EXCEPT !.step = "selected"] \in Local
  BY <1>0 DEF TypeOK, Local
<1>1. ASSUME NEW S, SetTargets(S) PROVE PublishInv'
  BY <1>1 DEF SetTargets, PublishInv, queued
<1>2. ASSUME NEW u, Restore(u) PROVE PublishInv'
  BY <1>2 DEF Restore, PublishInv, authoring, queued
<1>3. ASSUME NEW t \in Tx,
             Rollback(t) \/ AssignCommit(t) \/ ReackCommit(t) \/ WaiveCommit(t)
             \/ DisableCommit(t) \/ AcknowledgeCommit(t)
      PROVE  PublishInv'
  BY <1>3, DonePublish DEF Rollback, AssignCommit, ReackCommit, WaiveCommit,
     DisableCommit, AcknowledgeCommit, authoring, queued
<1>4. ASSUME NEW t \in Tx, ReviseLoad(t) PROVE PublishInv'
  BY <1>4, GotoPublish DEF ReviseLoad, authoring, queued, Idle
<1>5. ASSUME NEW t \in Tx, ReviseCommit(t) PROVE PublishInv'
  <2>1. \A r \in Tx : tx'[r] = IF r = t THEN Idle ELSE tx[r]
    BY <1>5 DEF ReviseCommit, Done, Goto, TypeOK
  <2>2. Idle.op = "idle"
    BY DEF Idle
  <2>3. \A r \in Tx : tx[r].op # "publish"
    BY <1>5 DEF ReviseCommit, AnnouncementLocked
  <2>4. revisions \in Nat /\ publishEvents' = publishEvents
        /\ revisions' = revisions + 1
    BY <1>5 DEF ReviseCommit, TypeOK, queued
  <2>5. CASE MovesPublished(t)
    <3>1. published' = revisions + 1 /\ released' = released \cup {revisions + 1}
      BY <1>5, <2>5 DEF ReviseCommit
    <3>2. published # 0
      BY <1>5, <2>5 DEF ReviseCommit, MovesPublished, In, PublishInv
    <3> QED BY <2>1, <2>2, <2>3, <2>4, <3>1, <3>2 DEF PublishInv
  <2>6. CASE ~MovesPublished(t)
    <3>1. published' = published /\ released' = released
      BY <1>5, <2>6 DEF ReviseCommit
    <3> QED BY <2>1, <2>2, <2>3, <2>4, <3>1 DEF PublishInv
  <2> QED BY <2>5, <2>6
<1>6. ASSUME NEW t \in Tx, PublishLock(t) PROVE PublishInv'
  <2>1. revisions # 0 /\ \A r \in Tx : tx[r].op # "publish"
    BY <1>6 DEF PublishLock, AnnouncementLocked, PublishInv
  <2> QED BY <1>6, <2>1, GotoPublish DEF PublishLock, authoring, queued, Idle
<1>7. ASSUME NEW t \in Tx, NEW local,
             local.op = tx[t].op, local.rev = tx[t].rev, Goto(t, local),
             UNCHANGED <<revisions, published, released, publishEvents>>
      PROVE  PublishInv'
  BY <1>7, GotoPublish DEF PublishInv
<1>8. ASSUME NEW t \in Tx, PublishSelect(t) PROVE PublishInv'
  <2> DEFINE local == [tx[t] EXCEPT !.step = "selected",
                !.sel = IF requiresAck
                          THEN {u \in tx[t].scope \cap enabled : ~HoldsLive(u)}
                          ELSE {}]
  <2>1. local.op = tx[t].op /\ local.rev = tx[t].rev
    BY <1>0 DEF Local
  <2>2. /\ Goto(t, local)
        /\ UNCHANGED <<revisions, published, released, publishEvents>>
    BY <1>8 DEF PublishSelect, authoring, queued
  <2> QED BY <1>7, <2>1, <2>2
<1>9. ASSUME NEW t \in Tx, PublishCommit(t) PROVE PublishInv'
  <2>1. tx[t].op = "publish" /\ tx[t].rev # 0 /\ published = 0
    BY <1>9 DEF PublishCommit, In, PublishInv
  <2>2. \A r \in Tx : tx'[r] = IF r = t THEN Idle ELSE tx[r]
    BY <1>9 DEF PublishCommit, Done, Goto, TypeOK
  <2>3. Idle.op = "idle"
    BY DEF Idle
  <2>4. \A r \in Tx : tx'[r].op # "publish"
    BY <2>1, <2>2, <2>3 DEF PublishInv
  <2>5. /\ published' = tx[t].rev /\ released' = released \cup {tx[t].rev}
        /\ publishEvents' = publishEvents + 1 /\ revisions' = revisions
    BY <1>9 DEF PublishCommit
  <2>6. publishEvents = 0
    BY <2>1 DEF PublishInv
  <2> QED BY <2>1, <2>2, <2>3, <2>4, <2>5, <2>6 DEF PublishInv
<1>10. ASSUME NEW t \in Tx, NEW S, AssignLoad(t, S) \/ ReackLoad(t, S)
       PROVE  PublishInv'
  <2>1. Bound \in released
    BY <1>10 DEF AssignLoad, ReackLoad, Load, Bound, PublishInv
  <2>2. CASE AssignLoad(t, S)
    BY <2>1, <2>2, GotoPublish DEF AssignLoad, Load, authoring, queued, Idle
  <2>3. CASE ReackLoad(t, S)
    BY <2>1, <2>3, GotoPublish DEF ReackLoad, Load, authoring, queued, Idle
  <2> QED BY <1>10, <2>2, <2>3
<1>11. ASSUME NEW t \in Tx, AssignSelect(t) \/ ReackSelect(t) PROVE PublishInv'
  <2>1. PICK S : Select(t, "assign", S) \/ Select(t, "reack", S)
    BY <1>11 DEF AssignSelect, ReackSelect
  <2> DEFINE local == [tx[t] EXCEPT !.step = "selected", !.sel = S,
                                    !.at = ReadLive(S)]
  <2>2. local.op = tx[t].op /\ local.rev = tx[t].rev
    BY <1>0 DEF Local
  <2>3. /\ Goto(t, local)
        /\ UNCHANGED <<revisions, published, released, publishEvents>>
    BY <2>1 DEF Select, authoring, queued
  <2> QED BY <1>7, <2>2, <2>3
<1>12. ASSUME NEW t \in Tx, NEW S, WaiveSelect(t, S) PROVE PublishInv'
  BY <1>12, GotoPublish DEF WaiveSelect, authoring, queued, Idle
<1>13. ASSUME NEW t \in Tx, NEW u, DisableSelect(t, u) \/ AcknowledgeBegin(t, u)
       PROVE  PublishInv'
  <2>1. CASE DisableSelect(t, u)
    BY <2>1, GotoPublish DEF DisableSelect, authoring, queued, Idle
  <2>2. CASE AcknowledgeBegin(t, u)
    BY <2>2, GotoPublish DEF AcknowledgeBegin, authoring, queued, Idle
  <2> QED BY <1>13, <2>1, <2>2
<1>14. CASE UNCHANGED vars
  BY <1>14 DEF vars, PublishInv
<1> QED
  BY <1>1, <1>2, <1>3, <1>4, <1>5, <1>6, <1>8, <1>9, <1>10, <1>11, <1>12,
     <1>13, <1>14 DEF Next

\* One transaction at a time holds the announcement to publish it, and only
\* while it is unpublished: the invariant behind publishing once.
THEOREM PublishAlways == Spec => []PublishInv
<1>1. Init => PublishInv
  BY InitPublish
<1>2. TypeOK /\ PublishInv /\ [Next]_vars => PublishInv'
  BY NextPublish
<1> QED BY <1>1, <1>2, Typed, PTL DEF Spec

\* Whoever presses publish at the same moment, it is published once.
THEOREM PublishedOnceAlways == Spec => []PublishedOnce
<1>1. PublishInv => PublishedOnce
  BY DEF PublishInv, PublishedOnce
<1> QED BY <1>1, PublishAlways, PTL

\* The recipients are the snapshot that publishing took.
THEOREM RecipientsAlwaysFrozen == Spec => RecipientsFrozen
<1>1. TypeOK /\ PublishInv /\ [Next]_vars =>
        [recipients' # recipients => published = 0 /\ published' # 0]_vars
  <2> SUFFICES ASSUME PublishInv, [Next]_vars, recipients' # recipients
               PROVE  published = 0 /\ published' # 0
    OBVIOUS
  <2>1. \E t \in Tx : PublishCommit(t)
    BY DEF Next, vars, people, SetTargets, Restore, Rollback, ReviseLoad,
       ReviseCommit, PublishLock, PublishSelect, AssignLoad, AssignSelect,
       AssignCommit, ReackLoad, ReackSelect, ReackCommit, Load, Select,
       WaiveSelect, WaiveCommit, DisableSelect, DisableCommit,
       AcknowledgeBegin, AcknowledgeCommit
  <2> QED BY <2>1 DEF PublishCommit, In, PublishInv
<1> QED BY <1>1, Typed, PublishAlways, PTL DEF Spec, RecipientsFrozen

LEMMA NextReleased ==
  ASSUME TypeOK, TypeOK', PublishInv, OnlyReleasedText, [Next]_vars
  PROVE  OnlyReleasedText'
<1> SUFFICES ASSUME NEW u \in Users, NEW i \in DOMAIN obl'[u]
             PROVE  obl'[u][i].rev \in released'
  BY DEF OnlyReleasedText
<1>0. obl[u] \in Seq(Obligation) /\ DOMAIN obl[u] = 1..Len(obl[u])
  BY LenProperties DEF TypeOK
<1>1. released \subseteq released'
  BY DEF Next, vars, authoring, SetTargets, Restore, Rollback, ReviseLoad,
     ReviseCommit, PublishLock, PublishSelect, PublishCommit, AssignLoad,
     AssignSelect, AssignCommit, ReackLoad, ReackSelect, ReackCommit, Load,
     Select, WaiveSelect, WaiveCommit, DisableSelect, DisableCommit,
     AcknowledgeBegin, AcknowledgeCommit
<1>2. \A j \in DOMAIN obl[u] : obl'[u][j].rev \in released'
  BY <1>1, StepExtends DEF Extends, OnlyReleasedText
<1>3. CASE i \in DOMAIN obl[u]
  BY <1>2, <1>3
<1>4. CASE i \notin DOMAIN obl[u]
  <2>1. PICK t \in Tx : WritesObligations(t)
    BY <1>4, OnlyCommitsWrite
  <2>2. tx[t].rev \in Nat /\ tx[t].at[u] \in Nat /\ tx[t] \in Local
    BY DEF TypeOK, Local
  <2>3. tx[t].op \in {"publish", "assign", "reack"} => tx[t].rev \in released'
    <3>1. CASE tx[t].op = "publish"
      <4>1. PublishCommit(t)
        BY <2>1, <3>1 DEF WritesObligations, AssignCommit, ReackCommit,
           WaiveCommit, DisableCommit, AcknowledgeCommit, In
      <4> QED BY <4>1 DEF PublishCommit
    <3>2. CASE tx[t].op \in {"assign", "reack"}
      BY <1>1, <3>2 DEF PublishInv
    <3> QED BY <3>1, <3>2
  <2>4. \A p \in Nat : NewObligation(tx[t].rev, p).rev = tx[t].rev
    BY DEF NewObligation
  <2>5. CASE /\ obl'[u] = Append(obl[u], NewObligation(tx[t].rev, 0))
             /\ tx[t].op \in {"publish", "assign"}
    <3>1. i = Len(obl[u]) + 1 /\ obl'[u][i] = NewObligation(tx[t].rev, 0)
      BY <1>0, <1>4, <2>2, <2>5, NewObligationType, AppendObligation, LenProperties
    <3> QED BY <2>3, <2>4, <2>5, <3>1
  <2>6. CASE /\ obl'[u] = Append(Retire(obl[u], tx[t].at[u]),
                                NewObligation(tx[t].rev, tx[t].at[u]))
             /\ In(t, "reack", "selected")
    <3>1. /\ Retire(obl[u], tx[t].at[u]) \in Seq(Obligation)
          /\ Len(Retire(obl[u], tx[t].at[u])) = Len(obl[u])
      BY <1>0, ChangeFlagType, FlagExtends DEF Retire
    <3>2. /\ i = Len(obl[u]) + 1
          /\ obl'[u][i] = NewObligation(tx[t].rev, tx[t].at[u])
      BY <1>0, <1>4, <2>2, <2>6, <3>1, NewObligationType, AppendObligation,
         LenProperties
    <3> QED BY <2>2, <2>3, <2>4, <2>6, <3>2 DEF In
  <2>7. CASE \/ obl'[u] = obl[u]
             \/ obl'[u] = [obl[u] EXCEPT ![tx[t].at[u]].waived = TRUE]
             \/ obl'[u] = [obl[u] EXCEPT ![LiveIndex(u)].acked = TRUE]
    <3>1. DOMAIN obl'[u] = DOMAIN obl[u]
      BY <1>0, <2>7
    <3> QED BY <1>4, <3>1
  <2> QED BY <2>1, <2>5, <2>6, <2>7, CommitShapes
<1> QED BY <1>3, <1>4

\* Nobody is ever asked to confirm a text that was not released.
THEOREM NoDraftIsBound == Spec => []OnlyReleasedText
<1>1. Init => OnlyReleasedText
  <2>1. DOMAIN <<>> = {}
    OBVIOUS
  <2> QED BY <2>1 DEF Init, OnlyReleasedText
<1>2. TypeOK /\ TypeOK' /\ PublishInv /\ OnlyReleasedText /\ [Next]_vars
        => OnlyReleasedText'
  BY NextReleased
<1> QED BY <1>1, <1>2, Typed, PublishAlways, PTL DEF Spec

\* Every recipient is counted exactly once, whatever commands overlap.
THEOREM EveryoneIsCountedOnce == Spec => []EveryoneCountedOnce
BY NobodyCountedTwice, ChainsAreSound, NobodyDropsOut, PTL DEF EveryoneCountedOnce

\* No handler rewrites the recipients of a published announcement or anything
\* recorded about their obligations.
THEOREM PublishedAlwaysStands == Spec => PublishedStands
BY HistoryAlwaysStands, RecipientsAlwaysFrozen DEF PublishedStands

-----------------------------------------------------------------------------
(* Whoever is told of something is told once.                              *)

Told(o) == IF o.prev = 0 THEN "obligation.assigned" ELSE "obligation.reassigned"
RowOf(u, i, o) == [user |-> u, n |-> i, event |-> Told(o)]

\* The rows that obligations o ask for: what EveryDemandQueued says of obl.
Demands(o) == UNION {{[user |-> u, n |-> i,
                       event |-> IF o[u][i].prev = 0
                                   THEN "obligation.assigned"
                                   ELSE "obligation.reassigned"]
                      : i \in DOMAIN o[u]} : u \in Users}

LEMMA DemandsQueued ==
  ASSUME NEW o
  PROVE  \A x : x \in Demands(o) <=>
                  \E u \in Users : \E i \in DOMAIN o[u] : x = RowOf(u, i, o[u][i])
  BY SMT DEF Demands, RowOf, Told

\* The people of S get an obligation more and a row each, nobody else does.
LEMMA QueueKeeps ==
  ASSUME TypeOK, TypeOK', EveryDemandQueued, NEW S \in SUBSET Users, NEW kind,
         outbox' = QueueNotification(S, kind),
         \A u \in Users : \A i \in DOMAIN obl[u] : obl'[u][i].prev = obl[u][i].prev,
         \A u \in S : /\ Len(obl'[u]) = Len(obl[u]) + 1
                      /\ Told(obl'[u][Len(obl[u]) + 1]) = kind,
         \A u \in Users \ S : Len(obl'[u]) = Len(obl[u])
  PROVE  EveryDemandQueued'
<1> DEFINE At(x, u, i) == i \in DOMAIN obl[u] /\ x = RowOf(u, i, obl[u][i])
           After(x, u, i) == i \in DOMAIN obl'[u] /\ x = RowOf(u, i, obl'[u][i])
           New(u) == Len(obl[u]) + 1
<1>1. \A u \in Users : /\ Len(obl[u]) \in Nat /\ DOMAIN obl[u] = 1..Len(obl[u])
                       /\ DOMAIN obl'[u] = 1..Len(obl'[u])
  BY LenProperties DEF TypeOK
<1>2. \A x : x \in outbox <=> \E u \in Users : \E i : At(x, u, i)
  <2>1. \A x : x \in outbox <=>
                 \E u \in Users : \E i \in DOMAIN obl[u] : x = RowOf(u, i, obl[u][i])
    <3>1. outbox = Demands(obl)
      BY DEF EveryDemandQueued, Demands
    <3>2. \A x : x \in Demands(obl) <=>
                   \E u \in Users : \E i \in DOMAIN obl[u] : x = RowOf(u, i, obl[u][i])
      BY DemandsQueued, Zenon
    <3> QED BY <3>1, <3>2
  <2> QED BY <2>1
<1>3. \A x : x \in outbox' <=> \/ x \in outbox
                               \/ \E u \in S : x = [user |-> u, n |-> New(u), event |-> kind]
  BY DEF QueueNotification
<1>4. \A u \in Users : \A i : /\ i \in DOMAIN obl[u] => i \in DOMAIN obl'[u]
                              /\ i \in DOMAIN obl'[u] =>
                                   i \in DOMAIN obl[u] \/ (u \in S /\ i = New(u))
                              /\ u \in S => New(u) \in DOMAIN obl'[u]
  BY <1>1
<1>5. ASSUME NEW x, NEW u \in Users, NEW i \in DOMAIN obl[u]
      PROVE  At(x, u, i) <=> After(x, u, i)
  <2>1. obl'[u][i].prev = obl[u][i].prev /\ i \in DOMAIN obl'[u]
    BY <1>4
  <2> QED BY <2>1 DEF RowOf, Told
<1>6. ASSUME NEW x, NEW u \in S
      PROVE  After(x, u, New(u)) <=> x = [user |-> u, n |-> New(u), event |-> kind]
  <2>1. New(u) \in DOMAIN obl'[u] /\ Told(obl'[u][New(u)]) = kind
    BY <1>4
  <2> QED BY <2>1 DEF RowOf
<1>a. /\ \A x, u, i : At(x, u, i) => i \in DOMAIN obl[u]
      /\ \A x, u, i : After(x, u, i) => i \in DOMAIN obl'[u]
  OBVIOUS
<1> HIDE DEF New, At, After
<1>7. \A x : x \in outbox' <=> \E u \in Users : \E i : After(x, u, i)
  <2> SUFFICES ASSUME NEW x
               PROVE  x \in outbox' <=> \E u \in Users : \E i : After(x, u, i)
    OBVIOUS
  <2>1. ASSUME x \in outbox PROVE \E u \in Users : \E i : After(x, u, i)
    BY <1>2, <1>5, <1>a, <2>1
  <2>2. ASSUME NEW u \in S, x = [user |-> u, n |-> New(u), event |-> kind]
        PROVE  \E v \in Users : \E i : After(x, v, i)
    BY <1>6, <2>2
  <2>3. ASSUME NEW u \in Users, NEW i, After(x, u, i) PROVE x \in outbox'
    <3>1. CASE i \in DOMAIN obl[u]
      BY <1>2, <1>3, <1>5, <1>a, <2>3, <3>1
    <3>2. CASE u \in S /\ i = New(u)
      BY <1>3, <1>6, <2>3, <3>2
    <3> QED BY <1>4, <1>a, <2>3, <3>1, <3>2
  <2> QED BY <1>3, <2>1, <2>2, <2>3
<1>8. \A x : x \in Demands(obl') <=> \E u \in Users : \E i : After(x, u, i)
  <2>1. \A x : x \in Demands(obl') <=>
                 \E u \in Users : \E i \in DOMAIN obl'[u] : x = RowOf(u, i, obl'[u][i])
    BY DemandsQueued, Zenon
  <2> QED BY <2>1 DEF After
<1>9. \A x : x \in Demands(obl') <=> x \in outbox'
  BY <1>7, <1>8, Zenon
<1>10. Demands(obl') = outbox'
  BY <1>9, Zenon
<1> QED BY <1>10 DEF EveryDemandQueued, Demands

\* The acknowledgements of one person.
Acks(s) == {i \in DOMAIN s : s[i].acked}

LEMMA AcksFinite ==
  ASSUME NEW s \in Seq(Obligation)
  PROVE  IsFiniteSet(Acks(s)) /\ Cardinality(Acks(s)) \in Nat
<1>1. DOMAIN s = 1..Len(s) /\ Len(s) \in Nat
  BY LenProperties
<1>2. IsFiniteSet(1..Len(s)) /\ Acks(s) \subseteq 1..Len(s)
  BY <1>1, FS_Interval DEF Acks
<1> QED BY <1>2, FS_Subset, FS_CardinalityType

LEMMA AppendAcks ==
  ASSUME NEW s \in Seq(Obligation), NEW rev \in Nat, NEW prev \in Nat
  PROVE  Acks(Append(s, NewObligation(rev, prev))) = Acks(s)
<1> DEFINE o == NewObligation(rev, prev)
           n == Append(s, o)
<1>1. /\ n \in Seq(Obligation) /\ Len(n) = Len(s) + 1
      /\ \A i \in 1..Len(s) : n[i] = s[i]
      /\ n[Len(s) + 1] = o
  BY NewObligationType, AppendObligation
<1>2. ~o.acked
  BY DEF NewObligation
<1>3. Len(s) \in Nat /\ DOMAIN s = 1..Len(s) /\ DOMAIN n = 1..(Len(s) + 1)
  BY <1>1, LenProperties
<1> HIDE DEF n, o
<1>4. \A i : i \in DOMAIN n /\ n[i].acked <=> i \in DOMAIN s /\ s[i].acked
  BY <1>1, <1>2, <1>3
<1>5. Acks(n) = Acks(s)
  BY <1>4 DEF Acks
<1> QED BY <1>5 DEF n, o

LEMMA FlagAcks ==
  ASSUME NEW s \in Seq(Obligation), NEW p
  PROVE  /\ Acks([s EXCEPT ![p].superseded = TRUE]) = Acks(s)
         /\ Acks([s EXCEPT ![p].waived = TRUE]) = Acks(s)
         /\ p \in 1..Len(s) => Acks([s EXCEPT ![p].acked = TRUE]) = Acks(s) \cup {p}
<1>1. CASE p \notin 1..Len(s)
  <2>1. /\ [s EXCEPT ![p].superseded = TRUE] = s
        /\ [s EXCEPT ![p].waived = TRUE] = s
    BY <1>1, LenProperties
  <2> QED BY <1>1, <2>1
<1>2. CASE p \in 1..Len(s)
  <2>1. s[p] \in Obligation /\ DOMAIN s = 1..Len(s)
    BY <1>2, ElementOfSeq, LenProperties
  <2>2. ASSUME NEW o \in Obligation
        PROVE  \A i : i \in Acks([s EXCEPT ![p] = o]) <=>
                        i \in 1..Len(s) /\ IF i = p THEN o.acked ELSE s[i].acked
    <3>1. /\ [s EXCEPT ![p] = o] \in Seq(Obligation)
          /\ Len([s EXCEPT ![p] = o]) = Len(s)
          /\ \A j \in 1..Len(s) : [s EXCEPT ![p] = o][j] = IF j = p THEN o ELSE s[j]
      BY ChangeObligation
    <3>2. DOMAIN [s EXCEPT ![p] = o] = 1..Len(s)
      BY <3>1, LenProperties
    <3> QED BY <3>1, <3>2 DEF Acks
  <2> DEFINE a == [s[p] EXCEPT !.superseded = TRUE]
             b == [s[p] EXCEPT !.waived = TRUE]
             c == [s[p] EXCEPT !.acked = TRUE]
  <2>3. a \in Obligation /\ b \in Obligation /\ c \in Obligation
    BY <2>1, FlagsType
  <2>4. a.acked = s[p].acked /\ b.acked = s[p].acked /\ c.acked
    BY <2>1 DEF Obligation
  <2>5. \A i : i \in Acks(s) <=> i \in 1..Len(s) /\ s[i].acked
    BY <2>1 DEF Acks
  <2> HIDE DEF a, b, c
  <2>6. Acks([s EXCEPT ![p] = a]) = Acks(s)
    BY <2>2, <2>3, <2>4, <2>5
  <2>7. Acks([s EXCEPT ![p] = b]) = Acks(s)
    BY <2>2, <2>3, <2>4, <2>5
  <2>8. Acks([s EXCEPT ![p] = c]) = Acks(s) \cup {p}
    BY <1>2, <2>2, <2>3, <2>4, <2>5
  <2> QED BY <2>6, <2>7, <2>8 DEF a, b, c
<1> QED BY <1>1, <1>2

EventsInv == EveryDemandQueued /\ OneEventPerAck

LEMMA OneEvent ==
  OneEventPerAck <=> \A u \in Users : ackEvents[u] = Cardinality(Acks(obl[u]))
  BY DEF OneEventPerAck, Acks

LEMMA InitEvents == Init => EventsInv
<1> SUFFICES ASSUME Init PROVE EventsInv
  OBVIOUS
<1>1. \A u \in Users : DOMAIN obl[u] = {}
  BY DEF Init
<1>2. outbox = {} /\ \A u \in Users : ackEvents[u] = 0
  BY DEF Init
<1>3. EveryDemandQueued
  BY <1>1, <1>2 DEF EveryDemandQueued
<1>4. \A u \in Users : Acks(obl[u]) = {}
  BY <1>1 DEF Acks
<1> QED BY <1>2, <1>3, <1>4, OneEvent, FS_EmptySet DEF EventsInv

\* Without a commit nothing is told either.
LEMMA OnlyCommitsTell ==
  ASSUME [Next]_vars
  PROVE  UNCHANGED <<obl, outbox, ackEvents>> \/ \E t \in Tx : WritesObligations(t)
  BY DEF Next, vars, authoring, people, queued, SetTargets, Restore, Rollback,
     ReviseLoad, ReviseCommit, PublishLock, PublishSelect, AssignLoad,
     AssignSelect, ReackLoad, ReackSelect, Load, Select, WaiveSelect,
     DisableSelect, AcknowledgeBegin, WritesObligations

LEMMA CommitQueues ==
  ASSUME TypeOK, TypeOK', ChainInv, EveryDemandQueued, NEW t \in Tx, WritesObligations(t)
  PROVE  EveryDemandQueued'
<1>0. /\ tx[t] \in Local /\ tx[t].rev \in Nat /\ tx[t].sel \subseteq Users
      /\ tx[t].at \in [Users -> Nat] /\ obl \in [Users -> Seq(Obligation)]
      /\ \A u \in Users : Len(obl[u]) \in Nat /\ DOMAIN obl[u] = 1..Len(obl[u])
  BY LenProperties DEF TypeOK, Local
<1>1. [Next]_vars
  BY DEF WritesObligations, Next
<1>2. \A u \in Users : \A i \in DOMAIN obl[u] : obl'[u][i].prev = obl[u][i].prev
  BY <1>1, StepExtends DEF Extends
<1>3. \A u \in Users : \A p \in Nat : /\ NewObligation(tx[t].rev, p) \in Obligation
                                      /\ NewObligation(tx[t].rev, p).prev = p
  BY <1>0, NewObligationType DEF NewObligation
<1>4. CASE PublishCommit(t) \/ AssignCommit(t)
  <2>1. /\ obl' = Grant(tx[t].sel, tx[t].rev)
        /\ outbox' = QueueNotification(tx[t].sel, "obligation.assigned")
    BY <1>4 DEF PublishCommit, AssignCommit
  <2>2. ASSUME NEW u \in tx[t].sel
        PROVE  /\ Len(obl'[u]) = Len(obl[u]) + 1
               /\ Told(obl'[u][Len(obl[u]) + 1]) = "obligation.assigned"
    <3>1. obl'[u] = Append(obl[u], NewObligation(tx[t].rev, 0))
      BY <1>0, <2>1 DEF Grant
    <3>2. /\ Len(obl'[u]) = Len(obl[u]) + 1
          /\ obl'[u][Len(obl[u]) + 1] = NewObligation(tx[t].rev, 0)
      BY <1>0, <1>3, <3>1, AppendObligation
    <3> QED BY <1>0, <1>3, <3>2 DEF Told
  <2>3. \A u \in Users \ tx[t].sel : Len(obl'[u]) = Len(obl[u])
    BY <2>1 DEF Grant
  <2> QED BY <1>0, <1>2, <2>1, <2>2, <2>3, QueueKeeps
<1>5. CASE ReackCommit(t)
  <2>1. /\ obl' = Succeed(tx[t].sel, tx[t].at, tx[t].rev)
        /\ outbox' = QueueNotification(tx[t].sel, "obligation.reassigned")
        /\ tx[t].op = "reack" /\ tx[t].step = "selected"
    BY <1>5 DEF ReackCommit, In
  <2>2. ASSUME NEW u \in tx[t].sel
        PROVE  /\ Len(obl'[u]) = Len(obl[u]) + 1
               /\ Told(obl'[u][Len(obl[u]) + 1]) = "obligation.reassigned"
    <3>1. obl'[u] = Append(Retire(obl[u], tx[t].at[u]), NewObligation(tx[t].rev, tx[t].at[u]))
      BY <1>0, <2>1 DEF Succeed
    <3>2. tx[t].at[u] \in 1..Len(obl[u]) /\ tx[t].at[u] \in Nat /\ tx[t].at[u] # 0
      BY <1>0, <2>1 DEF ChainInv, Bounded
    <3>3. /\ Retire(obl[u], tx[t].at[u]) \in Seq(Obligation)
          /\ Len(Retire(obl[u], tx[t].at[u])) = Len(obl[u])
      BY <1>0, ChangeFlagType, FlagExtends DEF Retire
    <3>4. /\ Len(obl'[u]) = Len(obl[u]) + 1
          /\ obl'[u][Len(obl[u]) + 1] = NewObligation(tx[t].rev, tx[t].at[u])
      BY <1>0, <1>3, <3>1, <3>2, <3>3, AppendObligation
    <3> QED BY <1>0, <1>3, <3>2, <3>4 DEF Told
  <2>3. \A u \in Users \ tx[t].sel : Len(obl'[u]) = Len(obl[u])
    BY <2>1 DEF Succeed
  <2> QED BY <1>0, <1>2, <2>1, <2>2, <2>3, QueueKeeps
<1>6. CASE WaiveCommit(t) \/ DisableCommit(t) \/ AcknowledgeCommit(t)
  <2>1. outbox' = outbox
    BY <1>6 DEF WaiveCommit, DisableCommit, AcknowledgeCommit, queued
  <2>2. outbox' = QueueNotification({}, "obligation.assigned")
    BY <2>1 DEF QueueNotification
  <2>3. ASSUME NEW u \in Users PROVE Len(obl'[u]) = Len(obl[u])
    <3>1. tx[t].op \notin {"publish", "assign", "reack"}
      BY <1>6 DEF WaiveCommit, DisableCommit, AcknowledgeCommit, In
    <3>2. \/ obl'[u] = obl[u]
          \/ obl'[u] = [obl[u] EXCEPT ![tx[t].at[u]].waived = TRUE]
          \/ obl'[u] = [obl[u] EXCEPT ![LiveIndex(u)].acked = TRUE]
      BY <3>1, CommitShapes DEF In
    <3>3. /\ obl[u] \in Seq(Obligation)
          /\ Len([obl[u] EXCEPT ![tx[t].at[u]].waived = TRUE]) = Len(obl[u])
          /\ Len([obl[u] EXCEPT ![LiveIndex(u)].acked = TRUE]) = Len(obl[u])
      BY <1>0, FlagExtends
    <3> QED BY <3>2, <3>3
  <2> QED BY <1>2, <2>2, <2>3, QueueKeeps
<1> QED BY <1>4, <1>5, <1>6 DEF WritesObligations

LEMMA CommitTells ==
  ASSUME TypeOK, OneEventPerAck, NEW t \in Tx, WritesObligations(t)
  PROVE  OneEventPerAck'
<1> SUFFICES ASSUME NEW u \in Users
             PROVE  ackEvents'[u] = Cardinality(Acks(obl'[u]))
  BY DEF OneEventPerAck, Acks
<1>0. /\ tx[t] \in Local /\ tx[t].rev \in Nat /\ tx[t].at[u] \in Nat
      /\ obl \in [Users -> Seq(Obligation)] /\ ackEvents \in [Users -> Nat]
      /\ ackEvents[u] = Cardinality(Acks(obl[u]))
  BY OneEvent DEF TypeOK, Local
<1>1. CASE ~AcknowledgeCommit(t)
  <2>1. ackEvents' = ackEvents
    BY <1>1 DEF WritesObligations, PublishCommit, AssignCommit, ReackCommit, WaiveCommit,
       DisableCommit, queued
  <2>2. tx[t].op # "acknowledge"
    BY <1>1 DEF WritesObligations, PublishCommit, AssignCommit, ReackCommit, WaiveCommit,
       DisableCommit, In
  <2>3. Acks(obl'[u]) = Acks(obl[u])
    <3>1. Acks(Append(obl[u], NewObligation(tx[t].rev, 0))) = Acks(obl[u])
      BY <1>0, AppendAcks
    <3>2. Acks(Append(Retire(obl[u], tx[t].at[u]), NewObligation(tx[t].rev, tx[t].at[u])))
            = Acks(obl[u])
      <4>1. /\ Retire(obl[u], tx[t].at[u]) \in Seq(Obligation)
            /\ Acks(Retire(obl[u], tx[t].at[u])) = Acks(obl[u])
        BY <1>0, ChangeFlagType, FlagAcks DEF Retire
      <4> QED BY <1>0, <4>1, AppendAcks
    <3>3. Acks([obl[u] EXCEPT ![tx[t].at[u]].waived = TRUE]) = Acks(obl[u])
      BY <1>0, FlagAcks
    <3>4. \/ obl'[u] = obl[u]
          \/ obl'[u] = Append(obl[u], NewObligation(tx[t].rev, 0))
          \/ obl'[u] = Append(Retire(obl[u], tx[t].at[u]),
                              NewObligation(tx[t].rev, tx[t].at[u]))
          \/ obl'[u] = [obl[u] EXCEPT ![tx[t].at[u]].waived = TRUE]
      <4>1. CASE PublishCommit(t) \/ AssignCommit(t)
        BY <4>1 DEF PublishCommit, AssignCommit, Grant
      <4>2. CASE ReackCommit(t)
        BY <4>2 DEF ReackCommit, Succeed
      <4>3. CASE WaiveCommit(t) \/ DisableCommit(t)
        BY <4>3 DEF WaiveCommit, DisableCommit, WaiveAt
      <4> QED BY <1>1, <4>1, <4>2, <4>3 DEF WritesObligations
    <3> QED BY <3>1, <3>2, <3>3, <3>4
  <2> QED BY <1>0, <2>1, <2>3
<1>2. CASE AcknowledgeCommit(t)
  <2>1. PICK v \in tx[t].scope :
          /\ HoldsLive(v)
          /\ obl' = [obl EXCEPT ![v][LiveIndex(v)].acked = TRUE]
          /\ ackEvents' = [ackEvents EXCEPT ![v] = @ + Recorded(v)]
    BY <1>2 DEF AcknowledgeCommit
  <2>2. v \in Users
    BY <1>0 DEF Local
  <2>3. CASE u # v
    BY <1>0, <2>1, <2>2, <2>3
  <2>4. CASE u = v
    <3> DEFINE p == LiveIndex(u)
    <3>1. p \in 1..Len(obl[u]) /\ DOMAIN obl[u] = 1..Len(obl[u])
      BY <1>0, <2>1, <2>4, LiveIndexType, LenProperties
    <3>2. /\ obl'[u] = [obl[u] EXCEPT ![p].acked = TRUE]
          /\ ackEvents'[u] = ackEvents[u] + IF obl[u][p].acked THEN 0 ELSE 1
      BY <1>0, <2>1, <2>4 DEF Recorded
    <3> HIDE DEF p
    <3>3. Acks(obl'[u]) = Acks(obl[u]) \cup {p}
      <4>1. obl[u] \in Seq(Obligation)
        BY <1>0
      <4>2. Acks([obl[u] EXCEPT ![p].acked = TRUE]) = Acks(obl[u]) \cup {p}
        BY <3>1, <4>1, FlagAcks
      <4> QED BY <3>2, <4>2
    <3>4. IsFiniteSet(Acks(obl[u])) /\ Cardinality(Acks(obl[u])) \in Nat
      BY <1>0, AcksFinite
    <3>5. CASE obl[u][p].acked
      <4>1. Acks(obl'[u]) = Acks(obl[u])
        BY <3>1, <3>3, <3>5 DEF Acks
      <4> QED BY <1>0, <3>2, <3>4, <3>5, <4>1
    <3>6. CASE ~obl[u][p].acked
      <4>1. p \notin Acks(obl[u])
        BY <3>6 DEF Acks
      <4>2. Cardinality(Acks(obl'[u])) = Cardinality(Acks(obl[u])) + 1
        BY <3>3, <3>4, <4>1, FS_AddElement
      <4> QED BY <1>0, <3>2, <3>6, <4>2
    <3> QED BY <3>5, <3>6
  <2> QED BY <2>3, <2>4
<1> QED BY <1>1, <1>2

\* One outbox row per obligation with the right event, one webhook event for
\* the publication and one per acknowledgement, however often and however
\* concurrently the button was pressed.
THEOREM EventsAlwaysOnce == Spec => []EventsOnce
<1>1. Init => EventsInv
  BY InitEvents
<1>2. TypeOK /\ TypeOK' /\ ChainInv /\ EventsInv /\ [Next]_vars => EventsInv'
  <2> SUFFICES ASSUME TypeOK, TypeOK', ChainInv, EventsInv, [Next]_vars
               PROVE  EventsInv'
    OBVIOUS
  <2>1. CASE UNCHANGED <<obl, outbox, ackEvents>>
    BY <2>1 DEF EventsInv, EveryDemandQueued, OneEventPerAck
  <2>2. CASE \E t \in Tx : WritesObligations(t)
    BY <2>2, CommitQueues, CommitTells DEF EventsInv
  <2> QED BY <2>1, <2>2, OnlyCommitsTell
<1>3. EventsInv /\ PublishedOnce => EventsOnce
  BY DEF EventsInv, EventsOnce
<1> QED BY <1>1, <1>2, <1>3, Typed, ChainAlways, PublishedOnceAlways, PTL DEF Spec

-----------------------------------------------------------------------------
(* Handlers one after the other.  As long as no two overlapped, what a       *)
(* transaction read is still true when it commits, and the claims of the     *)
(* source hold.                                                              *)

\* What is claimed of one person's obligations s, where p is published and e
\* says whether the account is enabled.
Kept(s, p, e) ==
  \A i \in DOMAIN s :
    /\ ~(s[i].acked /\ s[i].waived)
    /\ s[i].rev <= p
    /\ s[i].prev # 0 => s[i].rev >= s[s[i].prev].rev
    /\ ~e /\ Live(s[i]) => s[i].acked

\* What l knows, where o are the obligations, e the enabled accounts, p the
\* published and r the latest revision, and q whether to acknowledge.
Knows(l, o, e, p, r, q) ==
  /\ l.op = "revise" => l.rev = p
  /\ l.op = "publish" =>
       /\ l.rev = r /\ l.scope # {} /\ l.scope \subseteq e
       /\ l.step = "selected" => l.sel \subseteq l.scope /\ (q => l.sel # {})
  /\ l.op \in {"assign", "reack"} =>
       l.rev = p /\ (l.step = "selected" => l.sel \subseteq e)
  /\ l.op \in {"waive", "disable"} => \A u \in l.sel : ~o[u][l.at[u]].acked
  /\ l.op = "disable" =>
       \A u \in l.scope : \A i \in DOMAIN o[u] :
         Live(o[u][i]) => o[u][i].acked \/ (u \in l.sel /\ i = l.at[u])

Promised ==
  /\ PublishedIsLatest /\ PublishedAsksSomebody
  /\ \A u \in Users : Kept(obl[u], published, u \in enabled)

OverlapSeen == Overlap(tx) => overlapped
DraftReleasesNothing == published = 0 => released = {}
Knowing ==
  \A t \in Tx : Knows(tx[t], obl, enabled, published, revisions, requiresAck)

AloneInv == OverlapSeen /\ DraftReleasesNothing /\ (~overlapped => Promised /\ Knowing)

LEMMA InitAlone == Init => AloneInv
<1> SUFFICES ASSUME Init PROVE AloneInv
  OBVIOUS
<1>1. /\ published = 0 /\ released = {} /\ \A u \in Users : DOMAIN obl[u] = {}
      /\ \A t \in Tx : tx[t].op = "idle"
  BY DEF Init, Idle
<1>2. Promised
  BY <1>1 DEF Promised, PublishedIsLatest, PublishedAsksSomebody, Kept
<1>3. OverlapSeen /\ DraftReleasesNothing /\ Knowing
  BY <1>1 DEF OverlapSeen, Overlap, DraftReleasesNothing, Knowing, Knows
<1> QED BY <1>2, <1>3 DEF AloneInv

\* Of a transaction's step: who else is open has been noticed.
LEMMA GotoOthers ==
  ASSUME TypeOK, AloneInv, NEW t \in Tx, NEW l, Goto(t, l),
         l.op # "idle" \/ tx[t].op # "idle"
  PROVE  /\ OverlapSeen' /\ (~overlapped' => ~overlapped)
         /\ tx'[t] = l
         /\ ~overlapped' => \A s \in Tx \ {t} : tx'[s].op = "idle"
<1>1. /\ tx'[t] = l /\ \A s \in Tx \ {t} : tx'[s] = tx[s]
  BY DEF Goto, TypeOK
<1>2. overlapped' = (overlapped \/ Overlap(tx')) /\ overlapped \in BOOLEAN
  BY DEF Goto, TypeOK
<1>3. OverlapSeen'
  BY <1>2 DEF OverlapSeen, Overlap
<1>4. ASSUME ~overlapped', NEW s \in Tx \ {t} PROVE tx'[s].op = "idle"
  <2>1. ~Overlap(tx') /\ ~Overlap(tx)
    BY <1>2, <1>4 DEF AloneInv, OverlapSeen
  <2> QED BY <1>1, <2>1 DEF Overlap
<1> QED BY <1>1, <1>2, <1>3, <1>4

\* A transaction reads something and goes on, or ends without a trace.
LEMMA GotoAlone ==
  ASSUME TypeOK, AloneInv, NEW t \in Tx, NEW l, Goto(t, l),
         l.op # "idle" \/ tx[t].op # "idle",
         UNCHANGED <<authoring, people, obl>>,
         ~overlapped => Knows(l, obl, enabled, published, revisions, requiresAck)
  PROVE  AloneInv'
<1>1. /\ OverlapSeen' /\ (~overlapped' => ~overlapped) /\ tx'[t] = l
      /\ ~overlapped' => \A s \in Tx \ {t} : tx'[s].op = "idle"
  BY GotoOthers
<1>2. /\ obl' = obl /\ enabled' = enabled /\ published' = published
      /\ revisions' = revisions /\ requiresAck' = requiresAck /\ released' = released
  BY DEF authoring, people
<1>3. DraftReleasesNothing' /\ (Promised => Promised')
  BY <1>2 DEF AloneInv, DraftReleasesNothing, Promised, PublishedIsLatest, PublishedAsksSomebody
<1>4. ~overlapped' => Knowing'
  <2> SUFFICES ASSUME ~overlapped', NEW s \in Tx
               PROVE  Knows(tx'[s], obl', enabled', published', revisions', requiresAck')
    BY DEF Knowing
  <2>1. CASE s = t
    BY <1>1, <1>2, <2>1
  <2>2. CASE s # t
    BY <1>1, <2>2 DEF Knows
  <2> QED BY <2>1, <2>2
<1> QED BY <1>1, <1>3, <1>4 DEF AloneInv

\* A transaction commits what keeps the promises.
LEMMA DoneAlone ==
  ASSUME TypeOK, AloneInv, NEW t \in Tx, Done(t), tx[t].op # "idle",
         published' = 0 => released' = {},
         ~overlapped => Promised'
  PROVE  AloneInv'
<1>0. Idle.op = "idle"
  BY DEF Idle
<1>1. /\ OverlapSeen' /\ (~overlapped' => ~overlapped) /\ tx'[t] = Idle
      /\ ~overlapped' => \A s \in Tx \ {t} : tx'[s].op = "idle"
  BY GotoOthers DEF Done
<1>2. ~overlapped' => Knowing'
  BY <1>0, <1>1 DEF Knowing, Knows
<1> QED BY <1>1, <1>2 DEF AloneInv, DraftReleasesNothing

-----------------------------------------------------------------------------
(* What a commit makes of one person's obligations.                        *)

LEMMA ElementType ==
  ASSUME NEW s \in Seq(Obligation), NEW i \in DOMAIN s
  PROVE  s[i] \in Obligation /\ s[i].rev \in Nat /\ s[i].prev \in Nat
<1>1. s[i] \in Obligation
  BY ElementOfSeq, LenProperties
<1> QED BY <1>1 DEF Obligation

LEMMA KeptLonger ==
  ASSUME NEW s \in Seq(Obligation), NEW p \in Nat, NEW q \in Nat, p <= q,
         NEW e, NEW f, e => f, Kept(s, p, e)
  PROVE  Kept(s, q, f)
<1>1. \A i \in DOMAIN s : s[i].rev \in Nat
  BY ElementType
<1> QED BY <1>1 DEF Kept

LEMMA GrantKept ==
  ASSUME NEW s \in Seq(Obligation), Sound(s), NEW p \in Nat, NEW e, Kept(s, p, e),
         NEW rev \in Nat, p <= rev
  PROVE  Kept(Append(s, NewObligation(rev, 0)), rev, TRUE)
<1> DEFINE o == NewObligation(rev, 0)
           n == Append(s, o)
<1>1. /\ n \in Seq(Obligation) /\ Len(n) = Len(s) + 1
      /\ \A i \in 1..Len(s) : n[i] = s[i]
      /\ n[Len(s) + 1] = o
  BY NewObligationType, AppendObligation
<1>2. ~o.acked /\ o.prev = 0 /\ o.rev = rev
  BY DEF NewObligation
<1>3. Len(s) \in Nat /\ DOMAIN s = 1..Len(s) /\ DOMAIN n = 1..(Len(s) + 1)
  BY <1>1, LenProperties
<1>4. \A i \in DOMAIN s : s[i].rev \in Nat /\ s[i].prev \in Nat
  BY ElementType
<1> HIDE DEF n, o
<1>5. \A i \in DOMAIN s : s[i].prev # 0 => s[i].prev \in DOMAIN s
  BY <1>3, <1>4 DEF Sound
<1>6. ASSUME NEW i \in DOMAIN s
      PROVE  /\ ~(n[i].acked /\ n[i].waived) /\ n[i].rev <= rev
             /\ n[i].prev # 0 => n[i].rev >= n[n[i].prev].rev
  BY <1>1, <1>3, <1>4, <1>5 DEF Kept
<1>7. Kept(n, rev, TRUE)
  BY <1>1, <1>2, <1>3, <1>6 DEF Kept
<1> QED BY <1>7 DEF n, o

LEMMA SucceedKept ==
  ASSUME NEW s \in Seq(Obligation), Sound(s), NEW p \in Nat, NEW e, Kept(s, p, e),
         NEW at \in 1..Len(s)
  PROVE  Kept(Append(Retire(s, at), NewObligation(p, at)), p, TRUE)
<1> DEFINE o == NewObligation(p, at)
           r == Retire(s, at)
           n == Append(r, o)
<1>1. s[at] \in Obligation /\ at \in Nat /\ Len(s) \in Nat /\ DOMAIN s = 1..Len(s)
  BY ElementOfSeq, LenProperties
<1>2. /\ r \in Seq(Obligation) /\ Len(r) = Len(s)
      /\ \A i \in 1..Len(s) :
           r[i] = IF i = at THEN [s[at] EXCEPT !.superseded = TRUE] ELSE s[i]
  <2>1. [s[at] EXCEPT !.superseded = TRUE] \in Obligation
    BY <1>1, FlagsType
  <2> QED BY <2>1, ChangeObligation DEF Retire
<1>3. /\ n \in Seq(Obligation) /\ Len(n) = Len(s) + 1
      /\ (\A i \in 1..Len(s) : n[i] = r[i]) /\ n[Len(s) + 1] = o
  <2>1. o \in Obligation
    BY <1>1, NewObligationType
  <2> HIDE DEF o, r
  <2> QED BY <1>2, <2>1, AppendObligation
<1>4. DOMAIN n = 1..(Len(s) + 1)
  BY <1>3, LenProperties
<1>5. o.prev = at /\ ~o.acked /\ o.rev = p
  BY DEF NewObligation
<1>6. \A i \in 1..Len(s) : /\ n[i].prev = s[i].prev /\ n[i].waived = s[i].waived
                           /\ n[i].acked = s[i].acked /\ n[i].rev = s[i].rev
                           /\ s[i].rev \in Nat /\ s[i].prev \in Nat
  <2> TAKE i \in 1..Len(s)
  <2>1. s[i] \in Obligation
    BY ElementOfSeq
  <2>2. CASE i = at
    BY <1>1, <1>2, <1>3, <2>1, <2>2 DEF Obligation
  <2>3. CASE i # at
    BY <1>2, <1>3, <2>1, <2>3 DEF Obligation
  <2> QED BY <2>2, <2>3
<1> HIDE DEF n, r, o
<1>7. \A i \in 1..Len(s) : s[i].prev # 0 => s[i].prev \in 1..Len(s)
  BY <1>1, <1>6 DEF Sound
<1>8. ASSUME NEW i \in 1..Len(s)
      PROVE  /\ ~(n[i].acked /\ n[i].waived) /\ n[i].rev <= p
             /\ n[i].prev # 0 => n[i].rev >= n[n[i].prev].rev
  BY <1>1, <1>6, <1>7 DEF Kept
<1>9. Kept(n, p, TRUE)
  <2>1. n[at].rev <= p
    BY <1>8
  <2> QED BY <1>1, <1>3, <1>4, <1>5, <1>8, <2>1 DEF Kept
<1> QED BY <1>9 DEF n, r, o

\* A waive of something that is not acknowledged, or an acknowledgement of
\* something live; f may be an account that the same commit disables.
LEMMA FlagKept ==
  ASSUME NEW s \in Seq(Obligation), Sound(s), NEW p \in Nat, NEW e, NEW f, Kept(s, p, e),
         NEW at \in 1..Len(s),
         NEW n, \/ n = [s EXCEPT ![at].waived = TRUE] /\ ~s[at].acked
                \/ n = [s EXCEPT ![at].acked = TRUE] /\ Live(s[at]),
         ~f => \A i \in DOMAIN s : Live(s[i]) => s[i].acked \/ i = at
  PROVE  Kept(n, p, f)
<1>1. s[at] \in Obligation /\ DOMAIN s = 1..Len(s) /\ Len(s) \in Nat
  BY ElementOfSeq, LenProperties
<1>2. PICK o \in {[s[at] EXCEPT !.waived = TRUE], [s[at] EXCEPT !.acked = TRUE]} :
        /\ n = [s EXCEPT ![at] = o]
        /\ \/ o = [s[at] EXCEPT !.waived = TRUE] /\ ~s[at].acked
           \/ o = [s[at] EXCEPT !.acked = TRUE] /\ Live(s[at])
  OBVIOUS
<1>3. o \in Obligation
  BY <1>1, <1>2, FlagsType
<1>4. /\ n \in Seq(Obligation) /\ Len(n) = Len(s)
      /\ \A j \in 1..Len(s) : n[j] = IF j = at THEN o ELSE s[j]
  BY <1>2, <1>3, ChangeObligation
<1>5. /\ o.prev = s[at].prev /\ o.rev = s[at].rev /\ o.superseded = s[at].superseded
      /\ ~(o.acked /\ o.waived) /\ (Live(o) => o.acked)
  BY <1>1, <1>2 DEF Obligation, Live
<1>6. DOMAIN n = DOMAIN s
  BY <1>1, <1>4, LenProperties
<1>7. \A i \in DOMAIN s : n[i].prev = s[i].prev /\ n[i].rev = s[i].rev
  BY <1>1, <1>4, <1>5
<1>8. \A i \in DOMAIN s : s[i].prev # 0 => s[i].prev \in DOMAIN s
  <2> SUFFICES ASSUME NEW i \in DOMAIN s, s[i].prev # 0 PROVE s[i].prev \in DOMAIN s
    OBVIOUS
  <2>1. s[i] \in Obligation
    BY <1>1, ElementOfSeq
  <2>2. s[i].prev \in Nat /\ s[i].prev < i
    BY <2>1 DEF Sound, Obligation
  <2> QED BY <1>1, <2>2
<1>9. ASSUME NEW i \in DOMAIN n
      PROVE  /\ ~(n[i].acked /\ n[i].waived) /\ n[i].rev <= p
             /\ n[i].prev # 0 => n[i].rev >= n[n[i].prev].rev
  <2>1. ~(n[i].acked /\ n[i].waived)
    BY <1>1, <1>4, <1>5, <1>6 DEF Kept
  <2>2. n[i].rev <= p /\ (n[i].prev # 0 => n[i].rev >= n[n[i].prev].rev)
    BY <1>6, <1>7, <1>8 DEF Kept
  <2> QED BY <2>1, <2>2
<1>10. ASSUME NEW i \in DOMAIN n, ~f, Live(n[i]) PROVE n[i].acked
  <2>1. CASE i = at
    BY <1>1, <1>4, <1>5, <1>10, <2>1
  <2>2. CASE i # at
    BY <1>1, <1>4, <1>6, <1>10, <2>2
  <2> QED BY <2>1, <2>2
<1> QED BY <1>9, <1>10 DEF Kept

-----------------------------------------------------------------------------
(* Every handler keeps the promises as long as none overlapped.            *)

LEMMA ReadsAlone ==
  ASSUME TypeOK, ChainInv, PublishInv, OnlyReleasedText, AloneInv, NEW t \in Tx,
         \/ Rollback(t) \/ ReviseLoad(t) \/ PublishLock(t) \/ PublishSelect(t)
         \/ AssignSelect(t) \/ ReackSelect(t)
         \/ \E S \in Scopes : AssignLoad(t, S) \/ ReackLoad(t, S) \/ WaiveSelect(t, S)
         \/ \E u \in Users : DisableSelect(t, u) \/ AcknowledgeBegin(t, u)
  PROVE  AloneInv'
<1>0. /\ tx[t] \in Local /\ enabled \subseteq Users /\ recipients \subseteq Users
      /\ obl \in [Users -> Seq(Obligation)]
      /\ ~overlapped => Knows(tx[t], obl, enabled, published, revisions, requiresAck)
  BY DEF TypeOK, AloneInv, Knowing
<1>1. Idle.op = "idle"
  BY DEF Idle
<1>2. CASE Rollback(t)
  <2>1. Goto(t, Idle) /\ UNCHANGED <<authoring, people, obl>> /\ tx[t].op # "idle"
    BY <1>2 DEF Rollback, Done, Free
  <2>2. Knows(Idle, obl, enabled, published, revisions, requiresAck)
    BY <1>1 DEF Knows
  <2> QED BY <2>1, <2>2, GotoAlone
<1>3. CASE ReviseLoad(t)
  <2> DEFINE l == [Idle EXCEPT !.op = "revise", !.step = "loaded", !.rev = published]
  <2>1. l.op = "revise" /\ l.rev = published
    BY DEF Idle
  <2>2. Goto(t, l) /\ UNCHANGED <<authoring, people, obl>>
    BY <1>3 DEF ReviseLoad
  <2> HIDE DEF l
  <2>3. Knows(l, obl, enabled, published, revisions, requiresAck)
    BY <2>1 DEF Knows
  <2> QED BY <2>1, <2>2, <2>3, GotoAlone
<1>4. CASE PublishLock(t)
  <2> DEFINE l == [Idle EXCEPT !.op = "publish", !.step = "loaded",
                               !.scope = covered \cap enabled, !.rev = revisions]
  <2>1. /\ l.op = "publish" /\ l.step = "loaded" /\ l.scope = covered \cap enabled
        /\ l.rev = revisions
    BY DEF Idle
  <2>2. Goto(t, l) /\ UNCHANGED <<authoring, people, obl>> /\ covered \cap enabled # {}
    BY <1>4 DEF PublishLock
  <2> HIDE DEF l
  <2>3. Knows(l, obl, enabled, published, revisions, requiresAck)
    BY <2>1, <2>2 DEF Knows
  <2> QED BY <2>1, <2>2, <2>3, GotoAlone
<1>5. CASE PublishSelect(t)
  <2> DEFINE S == IF requiresAck
                    THEN {u \in tx[t].scope \cap enabled : ~HoldsLive(u)} ELSE {}
             l == [tx[t] EXCEPT !.step = "selected", !.sel = S]
  <2>1. /\ l.op = tx[t].op /\ l.scope = tx[t].scope /\ l.rev = tx[t].rev
        /\ l.step = "selected" /\ l.sel = S
    BY <1>0 DEF Local
  <2>2. Goto(t, l) /\ UNCHANGED <<authoring, people, obl>> /\ tx[t].op = "publish"
    BY <1>5 DEF PublishSelect, In
  <2>3. published = 0 /\ released = {}
    BY <2>2 DEF PublishInv, AloneInv, DraftReleasesNothing
  <2>4. \A u \in Users : ~HoldsLive(u)
    BY <2>3 DEF OnlyReleasedText, HoldsLive, LiveOf
  <2>5. S \subseteq tx[t].scope
    OBVIOUS
  <2>6. ~overlapped /\ requiresAck => S # {}
    BY <1>0, <2>2, <2>4 DEF Knows
  <2> HIDE DEF S, l
  <2>7. ~overlapped => Knows(l, obl, enabled, published, revisions, requiresAck)
    BY <1>0, <2>1, <2>2, <2>5, <2>6 DEF Knows
  <2> QED BY <2>1, <2>2, <2>7, GotoAlone
<1>6. ASSUME NEW op \in {"assign", "reack"}, NEW S, S \subseteq enabled, Select(t, op, S)
      PROVE  AloneInv'
  <2> DEFINE l == [tx[t] EXCEPT !.step = "selected", !.sel = S, !.at = ReadLive(S)]
  <2>1. /\ l.op = tx[t].op /\ l.rev = tx[t].rev /\ l.sel = S
    BY <1>0 DEF Local
  <2>2. Goto(t, l) /\ UNCHANGED <<authoring, people, obl>> /\ tx[t].op = op
    BY <1>6 DEF Select, In
  <2> HIDE DEF l
  <2>3. ~overlapped => Knows(l, obl, enabled, published, revisions, requiresAck)
    BY <1>0, <1>6, <2>1, <2>2 DEF Knows
  <2> QED BY <2>1, <2>2, <2>3, GotoAlone
<1>7. CASE AssignSelect(t)
  BY <1>6, <1>7 DEF AssignSelect, Candidates
<1>8. CASE ReackSelect(t)
  BY <1>6, <1>8 DEF ReackSelect, Candidates
<1>9. ASSUME NEW S, NEW op \in {"assign", "reack"}, Load(t, op, S) PROVE AloneInv'
  <2> DEFINE l == [Idle EXCEPT !.op = op, !.step = "loaded", !.scope = S, !.rev = Bound]
  <2>1. l.op = op /\ l.step = "loaded" /\ l.rev = published
    BY DEF Idle, Bound
  <2>2. Goto(t, l) /\ UNCHANGED <<authoring, people, obl>>
    BY <1>9 DEF Load
  <2> HIDE DEF l
  <2>3. Knows(l, obl, enabled, published, revisions, requiresAck)
    BY <2>1 DEF Knows
  <2> QED BY <2>1, <2>2, <2>3, GotoAlone
<1>10. ASSUME NEW S, S \subseteq Users
       PROVE  /\ Pending(S) \subseteq Users
              /\ \A u \in Pending(S) : ~obl[u][ReadLive(Pending(S))[u]].acked
  <2>1. \A u \in Pending(S) : u \in Users /\ ~obl[u][LiveIndex(u)].acked
    BY <1>10 DEF Pending
  <2>2. \A u \in Pending(S) : ReadLive(Pending(S))[u] = LiveIndex(u)
    BY <2>1 DEF ReadLive
  <2> QED BY <2>1, <2>2
<1>11. ASSUME NEW S \in Scopes, WaiveSelect(t, S) PROVE AloneInv'
  <2> DEFINE P == Pending(S \cap recipients)
             l == [Idle EXCEPT !.op = "waive", !.step = "selected", !.scope = S,
                               !.sel = P, !.at = ReadLive(P)]
  <2>1. l.op = "waive" /\ l.sel = P /\ l.at = ReadLive(P)
    BY DEF Idle
  <2>2. Goto(t, l) /\ UNCHANGED <<authoring, people, obl>>
    BY <1>11 DEF WaiveSelect
  <2>3. \A u \in P : ~obl[u][ReadLive(P)[u]].acked
    BY <1>0, <1>10
  <2> HIDE DEF P, l
  <2>4. Knows(l, obl, enabled, published, revisions, requiresAck)
    BY <2>1, <2>3 DEF Knows
  <2> QED BY <2>1, <2>2, <2>4, GotoAlone
<1>12. ASSUME NEW v \in Users, DisableSelect(t, v) PROVE AloneInv'
  <2> DEFINE P == Pending({v})
             l == [Idle EXCEPT !.op = "disable", !.step = "selected",
                               !.scope = {v} \cap enabled, !.sel = P, !.at = ReadLive(P)]
  <2>1. /\ l.op = "disable" /\ l.scope = {v} \cap enabled /\ l.sel = P
        /\ l.at = ReadLive(P)
    BY DEF Idle
  <2>2. Goto(t, l) /\ UNCHANGED <<authoring, people, obl>>
    BY <1>12 DEF DisableSelect
  <2>3. \A u \in P : ~obl[u][ReadLive(P)[u]].acked
    BY <1>10
  <2>4. ASSUME NEW i \in DOMAIN obl[v], Live(obl[v][i]), ~obl[v][i].acked
        PROVE  v \in P /\ i = ReadLive(P)[v]
    <3>1. HoldsLive(v) /\ i \in LiveOf(v)
      BY <2>4 DEF HoldsLive, LiveOf
    <3>2. LiveIndex(v) \in LiveOf(v)
      BY <1>0, <3>1, LiveIndexType
    <3>3. i = LiveIndex(v)
      BY <3>1, <3>2 DEF ChainInv, Sound, LiveOf
    <3> QED BY <2>4, <3>1, <3>3 DEF Pending, ReadLive
  <2> HIDE DEF P, l
  <2>5. Knows(l, obl, enabled, published, revisions, requiresAck)
    BY <2>1, <2>3, <2>4 DEF Knows
  <2> QED BY <2>1, <2>2, <2>5, GotoAlone
<1>13. ASSUME NEW v \in Users, AcknowledgeBegin(t, v) PROVE AloneInv'
  <2> DEFINE l == [Idle EXCEPT !.op = "acknowledge", !.step = "loaded", !.scope = {v}]
  <2>1. l.op = "acknowledge"
    BY DEF Idle
  <2>2. Goto(t, l) /\ UNCHANGED <<authoring, people, obl>>
    BY <1>13 DEF AcknowledgeBegin
  <2> HIDE DEF l
  <2>3. Knows(l, obl, enabled, published, revisions, requiresAck)
    BY <2>1 DEF Knows
  <2> QED BY <2>1, <2>2, <2>3, GotoAlone
<1> QED BY <1>2, <1>3, <1>4, <1>5, <1>7, <1>8, <1>9, <1>11, <1>12, <1>13
        DEF AssignLoad, ReackLoad

\* Whoever was asked is still asked.
LEMMA StillAsked ==
  ASSUME TypeOK, [Next]_vars, NEW u \in Users, obl[u] # <<>>
  PROVE  obl'[u] # <<>>
<1>1. obl[u] \in Seq(Obligation) /\ DOMAIN obl[u] = 1..Len(obl[u]) /\ Len(obl[u]) \in Nat
  BY LenProperties DEF TypeOK
<1>2. Len(obl[u]) # 0
  BY <1>1, EmptySeq
<1>3. 1 \in DOMAIN obl[u]
  BY <1>1, <1>2
<1>4. 1 \in DOMAIN obl'[u]
  BY <1>3, StepExtends DEF Extends
<1> QED BY <1>4

\* A commit about the obligations of an announcement that is published.
LEMMA WritesAlone ==
  ASSUME TypeOK, ChainInv, PublishInv, AloneInv, NEW t \in Tx,
         \/ AssignCommit(t) \/ ReackCommit(t) \/ WaiveCommit(t)
         \/ DisableCommit(t) \/ AcknowledgeCommit(t)
  PROVE  AloneInv'
<1>0. /\ tx[t] \in Local /\ tx[t].at \in [Users -> Nat] /\ tx[t].rev \in Nat
      /\ obl \in [Users -> Seq(Obligation)] /\ published \in Nat
      /\ \A u \in Users : Sound(obl[u]) /\ DOMAIN obl[u] = 1..Len(obl[u])
      /\ ~overlapped => /\ Promised
                        /\ Knows(tx[t], obl, enabled, published, revisions, requiresAck)
  BY LenProperties DEF TypeOK, Local, ChainInv, AloneInv, Knowing
<1>1. WritesObligations(t) /\ [Next]_vars
  BY DEF WritesObligations, Next
<1>2. /\ Done(t) /\ tx[t].op # "idle" /\ UNCHANGED authoring
      /\ tx[t].op # "publish"
  BY DEF AssignCommit, ReackCommit, WaiveCommit, DisableCommit, AcknowledgeCommit, In
<1>3. /\ requiresAck' = requiresAck /\ revisions' = revisions
      /\ published' = published /\ released' = released
  BY <1>2 DEF authoring
<1>4. ~DisableCommit(t) => enabled' = enabled
  BY DEF AssignCommit, ReackCommit, WaiveCommit, AcknowledgeCommit, people
<1>5. ASSUME ~overlapped, NEW u \in Users PROVE Kept(obl'[u], published, u \in enabled')
  <2>0. Kept(obl[u], published, u \in enabled) /\ obl[u] \in Seq(Obligation) /\ Sound(obl[u])
    BY <1>0, <1>5 DEF Promised
  <2>1. CASE AssignCommit(t)
    <3>1. /\ obl'[u] = IF u \in tx[t].sel
                         THEN Append(obl[u], NewObligation(tx[t].rev, 0)) ELSE obl[u]
          /\ tx[t].op = "assign" /\ tx[t].step = "selected"
      BY <2>1 DEF AssignCommit, Grant, In
    <3>2. tx[t].rev = published /\ tx[t].sel \subseteq enabled
      BY <1>0, <1>5, <3>1 DEF Knows
    <3>3. enabled' = enabled
      BY <2>1 DEF AssignCommit, people
    <3>4. CASE u \in tx[t].sel
      <4>1. Kept(Append(obl[u], NewObligation(published, 0)), published, TRUE)
        <5>1. published <= published
          BY <1>0
        <5> QED BY <1>0, <2>0, <5>1, GrantKept
      <4> QED BY <3>1, <3>2, <3>3, <3>4, <4>1 DEF Kept
    <3> QED BY <2>0, <3>1, <3>3, <3>4
  <2>2. CASE ReackCommit(t)
    <3>1. /\ obl'[u] = IF u \in tx[t].sel
                         THEN Append(Retire(obl[u], tx[t].at[u]),
                                     NewObligation(tx[t].rev, tx[t].at[u]))
                         ELSE obl[u]
          /\ tx[t].op = "reack" /\ tx[t].step = "selected"
      BY <2>2 DEF ReackCommit, Succeed, In
    <3>2. tx[t].rev = published /\ tx[t].sel \subseteq enabled
      BY <1>0, <1>5, <3>1 DEF Knows
    <3>3. enabled' = enabled
      BY <2>2 DEF ReackCommit, people
    <3>4. CASE u \in tx[t].sel
      <4>1. tx[t].at[u] \in 1..Len(obl[u])
        BY <3>1, <3>4 DEF ChainInv, Bounded
      <4>2. Kept(Append(Retire(obl[u], tx[t].at[u]), NewObligation(published, tx[t].at[u])),
                 published, TRUE)
        BY <1>0, <2>0, <4>1, SucceedKept
      <4> QED BY <3>1, <3>2, <3>3, <3>4, <4>2 DEF Kept
    <3> QED BY <2>0, <3>1, <3>3, <3>4
  <2>3. CASE WaiveCommit(t) \/ DisableCommit(t)
    <3> DEFINE at == tx[t].at[u]
    <3>1. /\ obl'[u] = IF u \in StillLive(t) THEN [obl[u] EXCEPT ![at].waived = TRUE]
                                             ELSE obl[u]
          /\ tx[t].op \in {"waive", "disable"} /\ tx[t].step = "selected"
      BY <2>3 DEF WaiveCommit, DisableCommit, WaiveAt, In
    <3>2. u \in StillLive(t) <=> u \in tx[t].sel /\ Live(obl[u][at])
      BY DEF StillLive
    <3>3. u \in tx[t].sel => at \in 1..Len(obl[u]) /\ ~obl[u][at].acked
      BY <1>0, <1>5, <3>1 DEF ChainInv, Bounded, Knows
    <3>4. u \notin enabled' =>
            \A i \in DOMAIN obl[u] :
              Live(obl[u][i]) => obl[u][i].acked \/ (u \in StillLive(t) /\ i = at)
      <4>1. CASE u \notin enabled
        BY <2>0, <4>1 DEF Kept
      <4>2. CASE u \in enabled
        <5> SUFFICES ASSUME u \notin enabled' PROVE
              \A i \in DOMAIN obl[u] :
                Live(obl[u][i]) => obl[u][i].acked \/ (u \in StillLive(t) /\ i = at)
          OBVIOUS
        <5>1. DisableCommit(t)
          BY <1>4, <4>2
        <5>2. tx[t].op = "disable" /\ u \in tx[t].scope
          BY <4>2, <5>1 DEF DisableCommit, In
        <5> QED BY <1>0, <1>5, <3>2, <5>2 DEF Knows
      <4> QED BY <4>1, <4>2
    <3> HIDE DEF at
    <3>5. CASE u \in StillLive(t)
      <4>1. /\ obl'[u] = [obl[u] EXCEPT ![at].waived = TRUE]
            /\ at \in 1..Len(obl[u]) /\ ~obl[u][at].acked
            /\ u \notin enabled' =>
                 \A i \in DOMAIN obl[u] : Live(obl[u][i]) => obl[u][i].acked \/ i = at
        BY <3>1, <3>2, <3>3, <3>4, <3>5
      <4> QED BY <1>0, <2>0, <4>1, FlagKept
    <3>6. CASE u \notin StillLive(t)
      BY <2>0, <3>1, <3>4, <3>6 DEF Kept
    <3> QED BY <3>5, <3>6
  <2>4. CASE AcknowledgeCommit(t)
    <3>1. PICK v \in tx[t].scope :
            /\ HoldsLive(v)
            /\ obl' = [obl EXCEPT ![v][LiveIndex(v)].acked = TRUE]
      BY <2>4 DEF AcknowledgeCommit
    <3>2. v \in Users /\ enabled' = enabled
      BY <1>0, <2>4 DEF Local, AcknowledgeCommit, people
    <3>3. CASE u # v
      BY <1>0, <2>0, <3>1, <3>2, <3>3
    <3>4. CASE u = v
      <4> DEFINE at == LiveIndex(u)
      <4>1. at \in 1..Len(obl[u]) /\ Live(obl[u][at])
        BY <1>0, <3>1, <3>4, LiveIndexType DEF LiveOf
      <4>2. obl'[u] = [obl[u] EXCEPT ![at].acked = TRUE]
        BY <1>0, <3>1, <3>4
      <4>3. u \notin enabled' =>
              \A i \in DOMAIN obl[u] : Live(obl[u][i]) => obl[u][i].acked \/ i = at
        BY <2>0, <3>2 DEF Kept
      <4> HIDE DEF at
      <4> QED BY <1>0, <2>0, <4>1, <4>2, <4>3, FlagKept
    <3> QED BY <3>3, <3>4
  <2> QED BY <2>1, <2>2, <2>3, <2>4
<1>6. ~overlapped => Promised'
  <2> SUFFICES ASSUME ~overlapped PROVE Promised'
    OBVIOUS
  <2>1. PublishedIsLatest'
    BY <1>0, <1>3 DEF Promised, PublishedIsLatest
  <2>2. PublishedAsksSomebody'
    BY <1>0, <1>1, <1>3, StillAsked DEF Promised, PublishedAsksSomebody
  <2> QED BY <1>3, <1>5, <2>1, <2>2 DEF Promised
<1> QED BY <1>2, <1>3, <1>6, DoneAlone DEF AloneInv, DraftReleasesNothing

LEMMA PublishAlone ==
  ASSUME TypeOK, ChainInv, PublishInv, AloneInv, NEW t \in Tx, PublishCommit(t)
  PROVE  AloneInv'
<1>0. /\ tx[t] \in Local /\ tx[t].rev \in Nat /\ tx[t].sel \subseteq Users
      /\ obl \in [Users -> Seq(Obligation)]
      /\ \A u \in Users : Sound(obl[u])
      /\ tx[t].op = "publish" /\ tx[t].step = "selected" /\ tx[t].rev # 0
      /\ published = 0
      /\ ~overlapped => /\ Promised
                        /\ Knows(tx[t], obl, enabled, published, revisions, requiresAck)
  BY DEF TypeOK, Local, ChainInv, AloneInv, Knowing, PublishInv, PublishCommit, In
<1>1. /\ Done(t) /\ published' = tx[t].rev /\ revisions' = revisions
      /\ requiresAck' = requiresAck /\ enabled' = enabled
      /\ \A u \in Users : obl'[u] = IF u \in tx[t].sel
                                      THEN Append(obl[u], NewObligation(tx[t].rev, 0))
                                      ELSE obl[u]
  BY DEF PublishCommit, Grant
<1>2. ASSUME ~overlapped PROVE Promised'
  <2>1. /\ tx[t].rev = revisions /\ tx[t].sel \subseteq enabled
        /\ requiresAck => tx[t].sel # {}
    BY <1>0, <1>2 DEF Knows
  <2>2. ASSUME NEW u \in Users PROVE Kept(obl'[u], published', u \in enabled')
    <3>1. Kept(obl[u], published, u \in enabled) /\ obl[u] \in Seq(Obligation)
      BY <1>0, <1>2 DEF Promised
    <3>2. published <= tx[t].rev
      BY <1>0
    <3>3. CASE u \in tx[t].sel
      <4>1. Kept(Append(obl[u], NewObligation(tx[t].rev, 0)), tx[t].rev, TRUE)
        BY <1>0, <3>1, <3>2, GrantKept
      <4> QED BY <1>1, <2>1, <3>3, <4>1 DEF Kept
    <3>4. CASE u \notin tx[t].sel
      <4>1. Kept(obl[u], tx[t].rev, u \in enabled)
        BY <1>0, <3>1, <3>2, KeptLonger
      <4> QED BY <1>1, <3>4, <4>1
    <3> QED BY <3>3, <3>4
  <2>3. PublishedAsksSomebody'
    <3> SUFFICES ASSUME requiresAck PROVE \E u \in Users : obl'[u] # <<>>
      BY <1>1 DEF PublishedAsksSomebody
    <3>1. PICK u \in Users : u \in tx[t].sel
      BY <1>0, <2>1
    <3>2. obl[u] \in Seq(Obligation) /\ NewObligation(tx[t].rev, 0) \in Obligation
      BY <1>0, NewObligationType
    <3>3. Len(obl'[u]) = Len(obl[u]) + 1 /\ Len(obl[u]) \in Nat
      <4>1. obl'[u] = Append(obl[u], NewObligation(tx[t].rev, 0))
        BY <1>1, <3>1
      <4> QED BY <3>2, <4>1, AppendObligation, LenProperties
    <3> QED BY <3>3, EmptySeq
  <2> QED BY <1>1, <2>1, <2>2, <2>3 DEF Promised, PublishedIsLatest
<1> QED BY <1>0, <1>1, <1>2, DoneAlone

LEMMA ReviseAlone ==
  ASSUME TypeOK, AloneInv, PublishInv, NEW t \in Tx, ReviseCommit(t)
  PROVE  AloneInv'
<1>0. /\ obl \in [Users -> Seq(Obligation)] /\ published \in Nat /\ revisions \in Nat
      /\ tx[t].op = "revise"
      /\ ~overlapped => /\ Promised
                        /\ Knows(tx[t], obl, enabled, published, revisions, requiresAck)
  BY DEF TypeOK, AloneInv, Knowing, ReviseCommit, In
<1>1. /\ Done(t) /\ requiresAck' = requiresAck /\ revisions' = revisions + 1
      /\ obl' = obl /\ enabled' = enabled
      /\ IF tx[t].rev # 0 THEN published' = revisions + 1
                          ELSE published' = published /\ released' = released
  BY DEF ReviseCommit, MovesPublished, people
<1>2. published' = 0 => released' = {}
  BY <1>0, <1>1 DEF AloneInv, DraftReleasesNothing
<1>3. ASSUME ~overlapped PROVE Promised'
  <2>1. /\ tx[t].rev = published /\ (published # 0 => published = revisions)
    BY <1>0, <1>3 DEF Knows, Promised, PublishedIsLatest
  <2>2. published <= published' /\ published' \in Nat
    BY <1>0, <1>1, <2>1
  <2>3. PublishedIsLatest' /\ PublishedAsksSomebody'
    BY <1>0, <1>1, <1>3, <2>1 DEF Promised, PublishedIsLatest, PublishedAsksSomebody
  <2>4. ASSUME NEW u \in Users PROVE Kept(obl'[u], published', u \in enabled')
    <3>1. Kept(obl[u], published, u \in enabled) /\ obl[u] \in Seq(Obligation)
      BY <1>0, <1>3 DEF Promised
    <3>2. Kept(obl[u], published', u \in enabled)
      BY <1>0, <2>2, <3>1, KeptLonger
    <3> QED BY <1>1, <3>2
  <2> QED BY <2>3, <2>4 DEF Promised
<1> QED BY <1>0, <1>1, <1>2, <1>3, DoneAlone

\* New targets, or an account restored: no transaction is about either.
LEMMA PeopleAlone ==
  ASSUME TypeOK, AloneInv, enabled \subseteq enabled',
         UNCHANGED <<requiresAck, revisions, published, released, obl, tx, overlapped>>
  PROVE  AloneInv'
<1>1. OverlapSeen' /\ DraftReleasesNothing'
  BY DEF AloneInv, OverlapSeen, Overlap, DraftReleasesNothing
<1>2. ASSUME ~overlapped PROVE Promised' /\ Knowing'
  <2>1. Promised /\ Knowing
    BY <1>2 DEF AloneInv
  <2>2. Promised'
    BY <2>1 DEF Promised, PublishedIsLatest, PublishedAsksSomebody, Kept
  <2>3. Knowing'
    BY <2>1 DEF Knowing, Knows
  <2> QED BY <2>2, <2>3
<1> QED BY <1>1, <1>2 DEF AloneInv

LEMMA NextAlone ==
  ASSUME TypeOK, ChainInv, PublishInv, OnlyReleasedText, AloneInv, [Next]_vars
  PROVE  AloneInv'
<1>1. ASSUME NEW S, SetTargets(S) PROVE AloneInv'
  BY <1>1, PeopleAlone DEF SetTargets, people
<1>2. ASSUME NEW u \in Users, Restore(u) PROVE AloneInv'
  BY <1>2, PeopleAlone DEF Restore, authoring
<1>3. CASE UNCHANGED vars
  BY <1>3, PeopleAlone DEF vars
<1> QED BY <1>1, <1>2, <1>3, ReadsAlone, WritesAlone, PublishAlone, ReviseAlone DEF Next

\* As long as no two handlers overlapped, what an open transaction has read is
\* still true when it commits: the invariant behind the next theorem.
THEOREM AloneAlways == Spec => []AloneInv
<1>1. Init => AloneInv
  BY InitAlone
<1>2. TypeOK /\ ChainInv /\ PublishInv /\ OnlyReleasedText /\ AloneInv /\ [Next]_vars
        => AloneInv'
  BY NextAlone
<1> QED BY <1>1, <1>2, Typed, ChainAlways, PublishAlways, NoDraftIsBound, PTL DEF Spec

\* What the source claims of acknowledging, waiving, disabling, revising and
\* publishing holds for any people, as long as no two handlers overlapped.
THEOREM PromisesHoldAlone == Spec => []AsPromisedAlone
<1>1. TypeOK /\ AloneInv => AsPromisedAlone
  <2> SUFFICES ASSUME TypeOK, AloneInv, ~overlapped
               PROVE  /\ AckedNeverWaived /\ DisabledNotPending /\ SuccessorNotOlder
                      /\ PublishedIsLatest /\ PublishedAsksSomebody
    BY DEF AsPromisedAlone
  <2>1. Promised
    BY DEF AloneInv
  <2>2. AckedNeverWaived
    BY <2>1 DEF Promised, Kept, AckedNeverWaived
  <2>3. DisabledNotPending
    BY <2>1 DEF Promised, Kept, DisabledNotPending, LiveOf
  <2>4. SuccessorNotOlder
    BY <2>1 DEF Promised, Kept, SuccessorNotOlder
  <2> QED BY <2>1, <2>2, <2>3, <2>4 DEF Promised
<1> QED BY <1>1, Typed, AloneAlways, PTL

=============================================================================
