--------------------------- MODULE AccountsProofs ---------------------------
(* What holds of Accounts for any people, any service accounts and any      *)
(* number of concurrent requests: type correctness, one first-run setup and *)
(* the Owner who remains unless two owner checks passed side by side; and,  *)
(* while requests come one after the other, that a disabled person is       *)
(* signed in nowhere and that only Owners make and unmake Owners.           *)
EXTENDS Accounts, FiniteSetTheorems, TLAPS

-----------------------------------------------------------------------------
(* Rows: types, and what a request has found out about its target.          *)

Prepared ==
  \A t \in Tx : tx[t].step \in {"updated", "checked"} =>
    \A u \in tx[t].target : role[u] # "none" /\ NotService(u, tx[t].new)

AskedFor == \A t \in Tx : tx[t].op = "role" => tx[t].new \in Roles

Existing == \A a \in disabled : role[a] # "none"

RowsInv == TypeOK /\ Prepared /\ AskedFor /\ Existing

LEMMA IdleType == Idle \in Local
  BY DEF Idle, Local, Ops, Roles

LEMMA GotoType ==
  ASSUME TypeOK, NEW t \in Tx, NEW l \in Local, Goto(t, l)
  PROVE  /\ tx' \in [Tx -> Local]
         /\ tx'[t] = l
         /\ \A s \in Tx \ {t} : tx'[s] = tx[s]
         /\ skewed' \in BOOLEAN /\ overlapped' \in BOOLEAN
         /\ skewed => skewed'
         /\ Skew(tx') => skewed'
  BY Zenon DEF Goto, TypeOK

LEMMA IssueType ==
  ASSUME TypeOK, NEW c \in Credentials, NEW a \in Accounts, Issue(c, a)
  PROVE  /\ holder' \in [Credentials -> SUBSET Accounts]
         /\ \A d \in Credentials : Cardinality(holder'[d]) <= 1
<1>1. Cardinality({a}) = 1
  BY FS_Singleton
<1> QED BY <1>1 DEF Issue, TypeOK

\* A request goes on, and the accounts are left alone.
LEMMA GotoRows ==
  ASSUME RowsInv, NEW t \in Tx, NEW l \in Local, Goto(t, l),
         UNCHANGED <<users, setups>>,
         holder' \in [Credentials -> SUBSET Accounts],
         \A c \in Credentials : Cardinality(holder'[c]) <= 1,
         revoked' \subseteq Credentials,
         l.op = "role" => l.new \in Roles,
         l.step \in {"updated", "checked"} =>
           \A u \in l.target : role[u] # "none" /\ NotService(u, l.new)
  PROVE  RowsInv'
<1>1. /\ tx' \in [Tx -> Local] /\ tx'[t] = l
      /\ \A s \in Tx \ {t} : tx'[s] = tx[s]
      /\ skewed' \in BOOLEAN /\ overlapped' \in BOOLEAN
  BY GotoType DEF RowsInv
<1>2. role' = role /\ disabled' = disabled /\ setups' = setups
  BY DEF users
<1>3. TypeOK'
  BY <1>1, <1>2 DEF RowsInv, TypeOK
<1>4. Prepared'
  BY <1>1, <1>2 DEF RowsInv, Prepared, NotService
<1>5. AskedFor'
  BY <1>1 DEF RowsInv, AskedFor
<1>6. Existing'
  BY <1>2 DEF RowsInv, Existing
<1> QED BY <1>3, <1>4, <1>5, <1>6 DEF RowsInv

\* A request commits a change of the accounts.
LEMMA CommitRows ==
  ASSUME RowsInv, NEW t \in Tx, Done(t),
         role' \in [Accounts -> Roles \cup {"none"}],
         disabled' \subseteq Accounts,
         holder' \in [Credentials -> SUBSET Accounts],
         \A c \in Credentials : Cardinality(holder'[c]) <= 1,
         revoked' \subseteq Credentials, setups' \in Nat,
         \A s \in Services : role'[s] # "owner",
         \A a \in Accounts : role[a] # "none" => role'[a] # "none",
         \A a \in disabled' : role'[a] # "none"
  PROVE  RowsInv'
<1>1. /\ tx' \in [Tx -> Local] /\ tx'[t] = Idle
      /\ \A s \in Tx \ {t} : tx'[s] = tx[s]
      /\ skewed' \in BOOLEAN /\ overlapped' \in BOOLEAN
  BY GotoType, IdleType DEF RowsInv, Done
<1>2. TypeOK'
  BY <1>1 DEF TypeOK
<1>3. \A s \in Tx : tx[s].target \subseteq Accounts
  BY DEF RowsInv, TypeOK, Local
<1>4. Prepared'
  BY <1>1, <1>3 DEF RowsInv, Prepared, NotService, Idle
<1>5. AskedFor'
  BY <1>1 DEF RowsInv, AskedFor, Idle
<1>6. Existing'
  BY DEF Existing
<1> QED BY <1>2, <1>4, <1>5, <1>6 DEF RowsInv

LEMMA InitRows == Init => RowsInv
<1> SUFFICES ASSUME Init PROVE RowsInv
  OBVIOUS
<1>1. Cardinality({}) = 0
  BY FS_EmptySet
<1>2. TypeOK
  <2>1. tx \in [Tx -> Local]
    BY IdleType DEF Init
  <2>2. \A c \in Credentials : holder[c] = {}
    BY DEF Init
  <2>3. \A c \in Credentials : Cardinality(holder[c]) <= 1
    BY <1>1, <2>2
  <2>4. /\ role \in [Accounts -> Roles \cup {"none"}]
        /\ \A s \in Services : role[s] # "owner"
    BY DEF Init, Accounts
  <2>5. holder \in [Credentials -> SUBSET Accounts]
    BY DEF Init
  <2>6. /\ disabled = {} /\ revoked = {} /\ setups = 0
        /\ skewed = FALSE /\ overlapped = FALSE
    BY DEF Init
  <2> QED BY <2>1, <2>3, <2>4, <2>5, <2>6 DEF TypeOK
<1>3. \A t \in Tx : tx[t] = Idle /\ Idle.op = "idle" /\ Idle.step = "arrived"
  BY DEF Init, Idle
<1>4. Prepared /\ AskedFor
  BY <1>3 DEF Prepared, AskedFor
<1>5. Existing
  BY DEF Init, Existing
<1> QED BY <1>2, <1>4, <1>5 DEF RowsInv

LEMMA NextRows ==
  ASSUME RowsInv, [Next]_vars
  PROVE  RowsInv'
<1> USE AccountsAssumption
<1>0. /\ role \in [Accounts -> Roles \cup {"none"}] /\ disabled \subseteq Accounts
      /\ holder \in [Credentials -> SUBSET Accounts] /\ revoked \subseteq Credentials
      /\ \A c \in Credentials : Cardinality(holder[c]) <= 1
      /\ tx \in [Tx -> Local] /\ setups \in Nat
      /\ \A s \in Services : role[s] # "owner"
      /\ People \subseteq Accounts /\ Services \subseteq Accounts
  BY DEF RowsInv, TypeOK, Accounts
<1>1. ASSUME NEW t \in Tx, NEW p \in People, SetupBegin(t, p)
      PROVE  RowsInv'
  <2> DEFINE l == [Idle EXCEPT !.op = "setup", !.step = "read", !.target = {p}]
  <2>1. l \in Local /\ l.op = "setup" /\ l.step = "read"
    BY <1>0, IdleType DEF Local, Ops, Idle
  <2> HIDE DEF l
  <2>2. Goto(t, l)
    BY <1>1 DEF SetupBegin, l
  <2> QED BY <1>0, <1>1, <2>1, <2>2, GotoRows DEF SetupBegin, creds
<1>2. ASSUME NEW t \in Tx, NEW p \in People, LoginRead(t, p)
      PROVE  RowsInv'
  <2> DEFINE l == [Idle EXCEPT !.op = "login", !.step = "read", !.target = {p}, !.row = TRUE]
  <2>1. l \in Local /\ l.op = "login" /\ l.step = "read"
    BY <1>0, IdleType DEF Local, Ops, Idle
  <2> HIDE DEF l
  <2>2. Goto(t, l)
    BY <1>2 DEF LoginRead, l
  <2> QED BY <1>0, <1>2, <2>1, <2>2, GotoRows DEF LoginRead, creds
<1>3. ASSUME NEW t \in Tx, NEW p \in People, NEW c \in Credentials, SetupCommit(t, p, c)
      PROVE  RowsInv'
  <2>1. /\ holder' \in [Credentials -> SUBSET Accounts]
        /\ \A d \in Credentials : Cardinality(holder'[d]) <= 1
    BY <1>0, <1>3, IssueType DEF SetupCommit, RowsInv
  <2>2. role' = [role EXCEPT ![p] = "owner"]
    BY <1>3 DEF SetupCommit
  <2>3. role' \in [Accounts -> Roles \cup {"none"}]
    BY <1>0, <2>2 DEF Roles
  <2>4. \A s \in Services : role'[s] # "owner"
    BY <1>0, <2>2
  <2>5. \A a \in Accounts : role[a] # "none" => role'[a] # "none"
    BY <1>0, <2>2
  <2>6. \A a \in disabled : role'[a] # "none"
    BY <1>0, <2>5 DEF RowsInv, Existing
  <2> QED BY <1>0, <1>3, <2>1, <2>3, <2>4, <2>5, <2>6, CommitRows DEF SetupCommit
<1>4. ASSUME NEW t \in Tx, NEW p \in People, NEW c \in Credentials, LoginCommit(t, p, c)
      PROVE  RowsInv'
  <2>1. /\ holder' \in [Credentials -> SUBSET Accounts]
        /\ \A d \in Credentials : Cardinality(holder'[d]) <= 1
    BY <1>0, <1>4, IssueType DEF LoginCommit, RowsInv
  <2>2. Goto(t, Idle) /\ UNCHANGED <<users, setups>> /\ revoked' = revoked
    BY <1>4 DEF LoginCommit, Done
  <2>3. Idle.op = "idle" /\ Idle.step = "arrived"
    BY DEF Idle
  <2> QED BY <1>0, <2>1, <2>2, <2>3, IdleType, GotoRows
<1>5. ASSUME NEW t \in Tx, NEW a \in Accounts, NEW u \in Accounts, NEW q \in Asked,
             Request(t, q[1], a, u, q[2])
      PROVE  RowsInv'
  <2> DEFINE s == IF q[1] \in ReadsTarget THEN "arrived" ELSE "read"
             l == [Idle EXCEPT !.op = q[1], !.rank = role[a], !.target = {u},
                               !.new = q[2], !.step = s]
  <2>1. /\ q[1] \in Ops /\ q[2] \in Roles \cup {"none"}
        /\ q[1] = "role" => q[2] \in Roles
    BY DEF Asked, Ops
  <2>2. s \in {"arrived", "read"}
    OBVIOUS
  <2>3. /\ l \in Local /\ (l.op = "role" => l.new \in Roles)
        /\ l.step \notin {"updated", "checked"}
    BY <1>0, <2>1, <2>2 DEF Local, Idle
  <2>4. Goto(t, l) /\ UNCHANGED <<users, creds, setups>>
    BY <1>5 DEF Request
  <2> HIDE DEF l, s
  <2> QED BY <1>0, <2>3, <2>4, GotoRows DEF creds
<1>6. ASSUME NEW t \in Tx, NEW u \in Accounts, Read(t, u)
      PROVE  RowsInv'
  <2> DEFINE l == [tx[t] EXCEPT !.step = "read"]
  <2>1. /\ l \in Local /\ l.step = "read" /\ l.op = tx[t].op /\ l.new = tx[t].new
    BY <1>0 DEF Local
  <2>2. Goto(t, l) /\ UNCHANGED <<users, creds, setups>>
    BY <1>6 DEF Read, Step
  <2> HIDE DEF l
  <2> QED BY <1>0, <2>1, <2>2, GotoRows DEF creds, RowsInv, AskedFor
<1>7. ASSUME NEW t \in Tx, NEW u \in Accounts, Update(t, u)
      PROVE  RowsInv'
  <2> DEFINE b == tx[t].op \in {"disable", "disableService"} => u \notin disabled
             k == IF tx[t].op = "disable" THEN Revokes(u) ELSE {}
             l == [tx[t] EXCEPT !.step = "updated", !.row = b, !.cut = k]
  <2>1. b \in BOOLEAN /\ k \in SUBSET Credentials
    BY DEF Revokes
  <2>2. Goto(t, l) /\ UNCHANGED <<users, creds, setups>>
    BY <1>7 DEF Update
  <2>2a. tx[t].target = {u} /\ role[u] # "none" /\ NotService(u, tx[t].new)
    BY <1>7 DEF Update, Target
  <2> HIDE DEF b, k
  <2>3. /\ l \in Local /\ l.op = tx[t].op /\ l.new = tx[t].new
        /\ l.target = tx[t].target
    BY <1>0, <2>1 DEF Local
  <2> HIDE DEF l
  <2>4. l.op = "role" => l.new \in Roles
    BY <2>3 DEF RowsInv, AskedFor
  <2>5. \A v \in l.target : role[v] # "none" /\ NotService(v, l.new)
    BY <2>2a, <2>3
  <2>6. UNCHANGED <<users, setups>> /\ holder' = holder /\ revoked' = revoked
    BY <2>2 DEF creds
  <2> QED BY <1>0, <2>2, <2>3, <2>4, <2>5, <2>6, GotoRows
<1>8. ASSUME NEW t \in Tx, Check(t)
      PROVE  RowsInv'
  <2> DEFINE l == [tx[t] EXCEPT !.step = "checked"]
  <2>1. /\ l \in Local /\ l.op = tx[t].op /\ l.new = tx[t].new
        /\ l.target = tx[t].target
    BY <1>0 DEF Local
  <2>2. Goto(t, l) /\ UNCHANGED <<users, creds, setups>> /\ tx[t].step = "updated"
    BY <1>8 DEF Check, Step
  <2> HIDE DEF l
  <2> QED BY <1>0, <2>1, <2>2, GotoRows DEF creds, RowsInv, AskedFor, Prepared
<1>9. ASSUME NEW t \in Tx, Commit(t)
      PROVE  RowsInv'
  <2>1. /\ tx[t].target \subseteq Accounts /\ tx[t].cut \subseteq Credentials
        /\ tx[t].new \in Roles \cup {"none"}
    BY <1>0 DEF Local
  <2>2. tx[t].op = "role" => tx[t].new \in Roles
    BY DEF RowsInv, AskedFor
  <2>3. \A u \in tx[t].target : role[u] # "none" /\ NotService(u, tx[t].new)
    BY <1>9 DEF Commit, RowsInv, Prepared
  <2>4. role' = RoleAfter(t) /\ disabled' = DisabledAfter(t) /\ holder' = holder
        /\ revoked' = revoked \cup tx[t].cut /\ setups' = setups /\ Done(t)
    BY <1>9 DEF Commit
  <2>5. role' \in [Accounts -> Roles \cup {"none"}]
    BY <1>0, <2>1, <2>4 DEF RoleAfter
  <2>6. \A a \in Accounts : \/ role'[a] = role[a]
                            \/ a \in tx[t].target /\ role'[a] = tx[t].new
                               /\ tx[t].new \in Roles
    BY <1>0, <2>2, <2>4 DEF RoleAfter, Target
  <2>7. \A s \in Services : role'[s] # "owner"
    BY <1>0, <2>3, <2>6 DEF NotService
  <2>8. \A a \in Accounts : role[a] # "none" => role'[a] # "none"
    BY <2>6 DEF Roles
  <2>9. disabled' \subseteq disabled \cup tx[t].target
    BY <2>4 DEF DisabledAfter
  <2>10. \A a \in disabled' : role'[a] # "none"
    BY <1>0, <2>1, <2>3, <2>8, <2>9 DEF RowsInv, Existing
  <2>11. disabled' \subseteq Accounts /\ revoked' \subseteq Credentials
    BY <1>0, <2>1, <2>4, <2>9
  <2> QED BY <1>0, <2>4, <2>5, <2>7, <2>8, <2>10, <2>11, CommitRows
<1>10. ASSUME NEW t \in Tx, NEW u \in Accounts, CreateCommit(t, u)
       PROVE  RowsInv'
  <2>1. /\ role[u] = "none" /\ NotService(u, tx[t].new) /\ Done(t)
        /\ role' = [role EXCEPT ![u] = tx[t].new]
        /\ UNCHANGED <<disabled, holder, revoked, setups>>
    BY <1>10 DEF CreateCommit, creds
  <2>2. tx[t].new \in Roles \cup {"none"}
    BY <1>0 DEF Local
  <2>3. role' \in [Accounts -> Roles \cup {"none"}]
    BY <1>0, <2>1, <2>2
  <2>4. \A s \in Services : role'[s] # "owner"
    BY <1>0, <2>1 DEF NotService
  <2>5. \A a \in Accounts : role[a] # "none" => role'[a] # "none"
    BY <1>0, <2>1
  <2>6. \A a \in disabled' : role'[a] # "none"
    BY <1>0, <2>1, <2>5 DEF RowsInv, Existing
  <2> QED BY <1>0, <2>1, <2>3, <2>4, <2>5, <2>6, CommitRows
<1>11. ASSUME NEW t \in Tx, NEW u \in Accounts, NEW c \in Credentials, TokenCommit(t, u, c)
       PROVE  RowsInv'
  <2>1. /\ holder' \in [Credentials -> SUBSET Accounts]
        /\ \A d \in Credentials : Cardinality(holder'[d]) <= 1
    BY <1>11, IssueType DEF TokenCommit, RowsInv
  <2>2. Goto(t, Idle) /\ UNCHANGED <<users, setups>> /\ revoked' = revoked
    BY <1>11 DEF TokenCommit, Done
  <2>3. Idle.op = "idle" /\ Idle.step = "arrived"
    BY DEF Idle
  <2> QED BY <1>0, <2>1, <2>2, <2>3, IdleType, GotoRows
<1>12. ASSUME NEW t \in Tx, Rollback(t)
       PROVE  RowsInv'
  <2>1. Goto(t, Idle) /\ UNCHANGED <<users, creds, setups>>
    BY <1>12 DEF Rollback, Done
  <2>2. Idle.op = "idle" /\ Idle.step = "arrived"
    BY DEF Idle
  <2> QED BY <1>0, <2>1, <2>2, IdleType, GotoRows DEF creds
<1>13. ASSUME NEW a \in Accounts, NEW c \in Credentials,
              RevokeSession(a, c) \/ RevokeToken(a, c)
       PROVE  RowsInv'
  <2>1. revoked' = revoked \cup {c} /\ UNCHANGED <<users, holder, tx, history>>
    BY <1>13 DEF RevokeSession, RevokeToken
  <2> QED BY <2>1 DEF RowsInv, TypeOK, Prepared, AskedFor, Existing, NotService, users, history
<1>14. CASE UNCHANGED vars
  BY <1>14 DEF vars, users, creds, history, RowsInv, TypeOK, Prepared, AskedFor, Existing, NotService
<1> QED BY <1>1, <1>2, <1>3, <1>4, <1>5, <1>6, <1>7, <1>8, <1>9, <1>10, <1>11, <1>12,
           <1>13, <1>14 DEF Next

\* Every account, session, token and request has its declared shape, and no
\* service account is an Owner, however many requests overlap.
THEOREM Typed == Spec => []TypeOK
<1>1. Init => RowsInv
  BY InitRows
<1>2. RowsInv /\ [Next]_vars => RowsInv'
  BY NextRows
<1>3. RowsInv => TypeOK
  BY DEF RowsInv
<1> QED BY <1>1, <1>2, <1>3, PTL DEF Spec

-----------------------------------------------------------------------------
(* The Owner who remains, and the one first-run setup.                      *)

\* A change of role always takes the row.
RowTaken ==
  \A t \in Tx : tx[t].op = "role" /\ tx[t].step \in {"updated", "checked"} => tx[t].row

SkewSeen == Skew(tx) => skewed

\* Whoever passed the owner check alone leaves an Owner when it commits.
Takes(l) == l.step = "checked" /\ l.op \in TakesAway /\ l.row
LeavesOwner(t) == OwnersIn(RoleAfter(t), DisabledAfter(t)) # {}
Passed == ~skewed => \A t \in Tx : Takes(tx[t]) => LeavesOwner(t)

\* One setup is under way at most, and none has been committed before it.
OneSetup ==
  /\ \A t, s \in Tx : tx[t].op = "setup" /\ tx[s].op = "setup" => t = s
  /\ ~skewed => \A t \in Tx : tx[t].op = "setup" => setups = 0

OwnerInv == RowTaken /\ SkewSeen /\ Passed /\ OneSetup /\ OwnerRemains /\ SetupOnce

\* No Owner is demoted and nobody disabled.
Growing ==
  /\ \A a \in Accounts : role[a] = "owner" => role'[a] = "owner"
  /\ disabled' \subseteq disabled

LEMMA StillLeavesOwner ==
  ASSUME RowsInv, NEW t \in Tx, tx'[t] = tx[t], Growing, tx[t].op \in TakesAway,
         LeavesOwner(t)
  PROVE  LeavesOwner(t)'
<1>1. PICK a \in Accounts : RoleAfter(t)[a] = "owner" /\ a \notin DisabledAfter(t)
  BY DEF LeavesOwner, OwnersIn
<1>2. RoleAfter(t)'[a] = "owner"
  BY <1>1 DEF RoleAfter, Target, Growing
<1>3. tx[t].op \in {"role", "disable", "disableService"}
  BY DEF TakesAway
<1>4. a \notin DisabledAfter(t)'
  <2>1. CASE tx[t].op = "role"
    BY <1>1, <2>1 DEF DisabledAfter, Growing
  <2>2. CASE tx[t].op \in {"disable", "disableService"}
    BY <1>1, <2>2 DEF DisabledAfter, Growing
  <2> QED BY <1>3, <2>1, <2>2
<1> QED BY <1>1, <1>2, <1>4 DEF LeavesOwner, OwnersIn

\* A request goes on or ends, and whoever was an Owner still is.
LEMMA GotoOwner ==
  ASSUME RowsInv, OwnerInv, NEW t \in Tx, NEW l \in Local, Goto(t, l),
         setups' = setups, Growing,
         l.op = "setup" => tx[t].op = "setup",
         l.op = "role" /\ l.step \in {"updated", "checked"} => l.row,
         Takes(l) => LeavesOwner(t)'
  PROVE  OwnerInv'
<1>1. /\ tx' \in [Tx -> Local] /\ tx'[t] = l
      /\ \A s \in Tx \ {t} : tx'[s] = tx[s]
      /\ skewed' \in BOOLEAN
      /\ skewed => skewed'
      /\ Skew(tx') => skewed'
  BY GotoType DEF RowsInv
<1>2. RowTaken'
  BY <1>1 DEF OwnerInv, RowTaken
<1>3. SkewSeen'
  BY <1>1 DEF SkewSeen, Skew
<1>4. Passed'
  <2> SUFFICES ASSUME ~skewed', NEW s \in Tx, Takes(tx'[s])
               PROVE  LeavesOwner(s)'
    BY DEF Passed, Takes, TakesAway
  <2>1. CASE s = t
    BY <1>1, <2>1
  <2>2. CASE s # t
    <3>1. tx'[s] = tx[s] /\ Takes(tx[s])
      BY <1>1, <2>2
    <3>2. LeavesOwner(s)
      BY <1>1, <3>1 DEF OwnerInv, Passed
    <3> QED BY <3>1, <3>2, StillLeavesOwner DEF Takes
  <2> QED BY <2>1, <2>2
<1>5. OneSetup'
  BY <1>1 DEF OwnerInv, OneSetup
<1>6. OwnerRemains'
  BY <1>1 DEF OwnerInv, OwnerRemains, ActiveOwner, OwnersIn, Growing
<1>7. SetupOnce'
  BY <1>1 DEF OwnerInv, SetupOnce
<1> QED BY <1>2, <1>3, <1>4, <1>5, <1>6, <1>7 DEF OwnerInv

LEMMA InitOwner == Init => OwnerInv
<1> SUFFICES ASSUME Init PROVE OwnerInv
  OBVIOUS
<1>1. \A t \in Tx : tx[t] = Idle /\ Idle.op = "idle" /\ Idle.step = "arrived"
  BY DEF Init, Idle
<1>2. setups = 0
  BY DEF Init
<1> QED BY <1>1, <1>2 DEF OwnerInv, RowTaken, SkewSeen, Skew, Passed, Takes, OneSetup,
                           OwnerRemains, SetupOnce

LEMMA NextOwner ==
  ASSUME RowsInv, OwnerInv, [Next]_vars
  PROVE  OwnerInv'
<1>0. /\ tx \in [Tx -> Local] /\ setups \in Nat /\ skewed \in BOOLEAN
      /\ role \in [Accounts -> Roles \cup {"none"}]
      /\ People \subseteq Accounts
  BY DEF RowsInv, TypeOK, Accounts
<1>i. Idle \in Local /\ Idle.op = "idle" /\ Idle.step = "arrived"
  BY IdleType DEF Idle
<1>g. UNCHANGED users => Growing
  BY DEF users, Growing
<1>1. ASSUME NEW t \in Tx, NEW p \in People, SetupBegin(t, p)
      PROVE  OwnerInv'
  <2> DEFINE l == [Idle EXCEPT !.op = "setup", !.step = "read", !.target = {p}]
  <2>1. l \in Local /\ l.op = "setup" /\ l.step = "read"
    BY <1>0, IdleType DEF Local, Ops, Idle
  <2> HIDE DEF l
  <2>2. /\ Goto(t, l) /\ UNCHANGED <<users, setups>>
        /\ \A s \in Tx : tx[s].op # "setup"
        /\ \A a \in Accounts : role[a] # "owner"
    BY <1>1 DEF SetupBegin, l, SetupLocked
  <2>3. /\ tx'[t] = l /\ \A s \in Tx \ {t} : tx'[s] = tx[s]
        /\ skewed => skewed'
        /\ Skew(tx') => skewed'
    BY <2>1, <2>2, GotoType DEF RowsInv
  <2>4. ~skewed => setups = 0
    BY <1>0, <2>2 DEF OwnerInv, OwnerRemains, ActiveOwner, OwnersIn
  <2>5. RowTaken'
    BY <2>1, <2>3 DEF OwnerInv, RowTaken
  <2>6. SkewSeen'
    BY <2>3 DEF SkewSeen, Skew
  <2>7. Passed'
    <3> SUFFICES ASSUME ~skewed', NEW s \in Tx, Takes(tx'[s])
                 PROVE  LeavesOwner(s)'
      BY DEF Passed, Takes, TakesAway
    <3>1. s # t
      BY <2>1, <2>3 DEF Takes
    <3>2. tx'[s] = tx[s] /\ Takes(tx[s])
      BY <2>3, <3>1
    <3>3. LeavesOwner(s)
      BY <2>3, <3>2 DEF OwnerInv, Passed
    <3> QED BY <1>g, <2>2, <3>2, <3>3, StillLeavesOwner DEF Takes
  <2>8. OneSetup'
    BY <2>1, <2>2, <2>3, <2>4 DEF OneSetup
  <2>9. OwnerRemains' /\ SetupOnce'
    BY <1>0, <2>2, <2>3, <2>4 DEF OwnerRemains, SetupOnce
  <2> QED BY <2>5, <2>6, <2>7, <2>8, <2>9 DEF OwnerInv
<1>2. ASSUME NEW t \in Tx, NEW p \in People, LoginRead(t, p)
      PROVE  OwnerInv'
  <2> DEFINE l == [Idle EXCEPT !.op = "login", !.step = "read", !.target = {p}, !.row = TRUE]
  <2>1. l \in Local /\ l.op = "login" /\ l.step = "read"
    BY <1>0, IdleType DEF Local, Ops, Idle
  <2> HIDE DEF l
  <2>2. Goto(t, l) /\ UNCHANGED <<users, setups>>
    BY <1>2 DEF LoginRead, l
  <2> QED BY <1>g, <2>1, <2>2, GotoOwner DEF Takes
<1>3. ASSUME NEW t \in Tx, NEW p \in People, NEW c \in Credentials, SetupCommit(t, p, c)
      PROVE  OwnerInv'
  <2>1. /\ Goto(t, Idle) /\ setups' = setups + 1 /\ tx[t].op = "setup"
        /\ role' = [role EXCEPT ![p] = "owner"] /\ role[p] = "none"
        /\ disabled' = disabled
    BY <1>3 DEF SetupCommit, Done, In
  <2>2. /\ tx'[t] = Idle /\ \A s \in Tx \ {t} : tx'[s] = tx[s]
        /\ skewed => skewed'
        /\ Skew(tx') => skewed'
    BY <1>i, <2>1, GotoType DEF RowsInv
  <2>3. Growing
    BY <1>0, <2>1 DEF Growing
  <2>4. RowTaken' /\ SkewSeen'
    BY <1>i, <2>2 DEF OwnerInv, RowTaken, SkewSeen, Skew
  <2>5. Passed'
    <3> SUFFICES ASSUME ~skewed', NEW s \in Tx, Takes(tx'[s])
                 PROVE  LeavesOwner(s)'
      BY DEF Passed, Takes, TakesAway
    <3>1. s # t
      BY <1>i, <2>2 DEF Takes
    <3>2. tx'[s] = tx[s] /\ Takes(tx[s])
      BY <2>2, <3>1
    <3>3. LeavesOwner(s)
      BY <2>2, <3>2 DEF OwnerInv, Passed
    <3> QED BY <2>3, <3>2, <3>3, StillLeavesOwner DEF Takes
  <2>6. OneSetup'
    BY <1>i, <2>1, <2>2 DEF OwnerInv, OneSetup
  <2>7. p \notin disabled
    BY <2>1 DEF RowsInv, Existing
  <2>8. OwnerRemains'
    BY <1>0, <2>1, <2>7 DEF OwnerRemains, ActiveOwner, OwnersIn
  <2>9. SetupOnce'
    BY <1>0, <2>1, <2>2 DEF OwnerInv, OneSetup, SetupOnce
  <2> QED BY <2>4, <2>5, <2>6, <2>8, <2>9 DEF OwnerInv
<1>4. ASSUME NEW t \in Tx, NEW p \in People, NEW c \in Credentials, LoginCommit(t, p, c)
      PROVE  OwnerInv'
  <2>1. Goto(t, Idle) /\ UNCHANGED <<users, setups>>
    BY <1>4 DEF LoginCommit, Done
  <2> QED BY <1>i, <1>g, <2>1, GotoOwner DEF Takes
<1>5. ASSUME NEW t \in Tx, NEW a \in Accounts, NEW u \in Accounts, NEW q \in Asked,
             Request(t, q[1], a, u, q[2])
      PROVE  OwnerInv'
  <2> DEFINE s == IF q[1] \in ReadsTarget THEN "arrived" ELSE "read"
             l == [Idle EXCEPT !.op = q[1], !.rank = role[a], !.target = {u},
                               !.new = q[2], !.step = s]
  <2>1. q[1] \in Ops /\ q[1] # "setup" /\ q[2] \in Roles \cup {"none"}
    BY DEF Asked, Ops
  <2>2. s \in {"arrived", "read"}
    OBVIOUS
  <2>3. l \in Local /\ l.op # "setup" /\ l.step \notin {"updated", "checked"}
    BY <1>0, <2>1, <2>2, IdleType DEF Local, Idle
  <2>4. Goto(t, l) /\ UNCHANGED <<users, setups>>
    BY <1>5 DEF Request
  <2> HIDE DEF l, s
  <2> QED BY <1>g, <2>3, <2>4, GotoOwner DEF Takes
<1>6. ASSUME NEW t \in Tx, NEW u \in Accounts, Read(t, u)
      PROVE  OwnerInv'
  <2> DEFINE l == [tx[t] EXCEPT !.step = "read"]
  <2>1. l \in Local /\ l.step = "read" /\ l.op = tx[t].op
    BY <1>0 DEF Local
  <2>2. Goto(t, l) /\ UNCHANGED <<users, setups>>
    BY <1>6 DEF Read, Step
  <2> HIDE DEF l
  <2> QED BY <1>g, <2>1, <2>2, GotoOwner DEF Takes
<1>7. ASSUME NEW t \in Tx, NEW u \in Accounts, Update(t, u)
      PROVE  OwnerInv'
  <2> DEFINE b == tx[t].op \in {"disable", "disableService"} => u \notin disabled
             k == IF tx[t].op = "disable" THEN Revokes(u) ELSE {}
             l == [tx[t] EXCEPT !.step = "updated", !.row = b, !.cut = k]
  <2>1. b \in BOOLEAN /\ k \in SUBSET Credentials /\ (tx[t].op = "role" => b)
    BY DEF Revokes
  <2>2. Goto(t, l) /\ UNCHANGED <<users, setups>>
    BY <1>7 DEF Update
  <2> HIDE DEF b, k
  <2>3. l \in Local /\ l.op = tx[t].op /\ l.step = "updated" /\ l.row = b
    BY <1>0, <2>1 DEF Local
  <2> HIDE DEF l
  <2> QED BY <1>g, <2>1, <2>2, <2>3, GotoOwner DEF Takes
<1>8. ASSUME NEW t \in Tx, Check(t)
      PROVE  OwnerInv'
  <2> DEFINE l == [tx[t] EXCEPT !.step = "checked"]
  <2>1. /\ l \in Local /\ l.op = tx[t].op /\ l.row = tx[t].row
        /\ l.new = tx[t].new /\ l.target = tx[t].target
    BY <1>0 DEF Local
  <2>2. /\ Goto(t, l) /\ UNCHANGED <<users, setups>> /\ tx[t].step = "updated"
        /\ OwnerCheck(t)
    BY <1>8 DEF Check, Step
  <2> HIDE DEF l
  <2>3. tx'[t] = l
    BY <2>1, <2>2, GotoType DEF RowsInv
  <2>4. RoleAfter(t)' = RoleAfter(t) /\ DisabledAfter(t)' = DisabledAfter(t)
    BY <2>1, <2>2, <2>3 DEF RoleAfter, DisabledAfter, Target, users
  <2>5. Takes(l) => LeavesOwner(t)'
    BY <2>1, <2>2, <2>4 DEF Takes, OwnerCheck, LeavesOwner, OwnersIn
  <2>6. l.op = "role" => l.row
    BY <2>1, <2>2 DEF OwnerInv, RowTaken
  <2> QED BY <1>g, <2>1, <2>2, <2>5, <2>6, GotoOwner
<1>9. ASSUME NEW t \in Tx, Commit(t)
      PROVE  OwnerInv'
  <2>1. /\ Goto(t, Idle) /\ setups' = setups /\ tx[t].step = "checked"
        /\ role' = RoleAfter(t) /\ disabled' = DisabledAfter(t)
    BY <1>9 DEF Commit, Done
  <2>2. /\ tx'[t] = Idle /\ \A s \in Tx \ {t} : tx'[s] = tx[s]
        /\ skewed => skewed'
        /\ Skew(tx') => skewed'
    BY <1>i, <2>1, GotoType DEF RowsInv
  <2>3. CASE tx[t].op \in TakesAway /\ tx[t].row
    <3>1. RowTaken' /\ SkewSeen'
      BY <1>i, <2>2 DEF OwnerInv, RowTaken, SkewSeen, Skew
    <3>2. Passed'
      <4> SUFFICES ASSUME ~skewed', NEW s \in Tx, Takes(tx'[s])
                   PROVE  FALSE
        BY DEF Passed, Takes, TakesAway
      <4>1. s # t
        BY <1>i, <2>2 DEF Takes
      <4>2. Takes(tx[s])
        BY <2>2, <4>1
      <4>3. Skew(tx)
        BY <2>1, <2>3, <4>1, <4>2 DEF Skew, Takes
      <4> QED BY <2>2, <4>3 DEF OwnerInv, SkewSeen
    <3>3. OneSetup' /\ SetupOnce'
      BY <1>i, <2>1, <2>2 DEF OwnerInv, OneSetup, SetupOnce
    <3>4. OwnerRemains'
      <4> SUFFICES ASSUME ~skewed' PROVE ActiveOwner'
        BY DEF OwnerRemains
      <4>1. LeavesOwner(t)
        BY <2>1, <2>2, <2>3 DEF OwnerInv, Passed, Takes
      <4> QED BY <2>1, <4>1 DEF LeavesOwner, ActiveOwner, OwnersIn
    <3> QED BY <3>1, <3>2, <3>3, <3>4 DEF OwnerInv
  <2>4. CASE ~(tx[t].op \in TakesAway /\ tx[t].row)
    <3>1. tx[t].op # "role"
      BY <2>1, <2>4 DEF TakesAway, OwnerInv, RowTaken
    <3>2. \A a \in Accounts : role'[a] = role[a]
      BY <2>1, <3>1 DEF RoleAfter
    <3>3. disabled' \subseteq disabled
      BY <2>1, <2>4 DEF DisabledAfter, TakesAway
    <3>4. Growing
      BY <3>2, <3>3 DEF Growing
    <3> QED BY <1>i, <2>1, <3>4, GotoOwner DEF Takes
  <2> QED BY <2>3, <2>4
<1>10. ASSUME NEW t \in Tx, NEW u \in Accounts, CreateCommit(t, u)
       PROVE  OwnerInv'
  <2>1. /\ Goto(t, Idle) /\ setups' = setups /\ disabled' = disabled
        /\ role' = [role EXCEPT ![u] = tx[t].new] /\ role[u] = "none"
    BY <1>10 DEF CreateCommit, Done
  <2>2. Growing
    BY <1>0, <2>1 DEF Growing
  <2> QED BY <1>i, <2>1, <2>2, GotoOwner DEF Takes
<1>11. ASSUME NEW t \in Tx, NEW u \in Accounts, NEW c \in Credentials, TokenCommit(t, u, c)
       PROVE  OwnerInv'
  <2>1. Goto(t, Idle) /\ UNCHANGED <<users, setups>>
    BY <1>11 DEF TokenCommit, Done
  <2> QED BY <1>i, <1>g, <2>1, GotoOwner DEF Takes
<1>12. ASSUME NEW t \in Tx, Rollback(t)
       PROVE  OwnerInv'
  <2>1. Goto(t, Idle) /\ UNCHANGED <<users, setups>>
    BY <1>12 DEF Rollback, Done
  <2> QED BY <1>i, <1>g, <2>1, GotoOwner DEF Takes
<1>13. CASE UNCHANGED <<users, tx, history>>
  <2>1. \A t \in Tx : LeavesOwner(t)' <=> LeavesOwner(t)
    BY <1>13 DEF LeavesOwner, OwnersIn, RoleAfter, DisabledAfter, Target, users
  <2>2. RowTaken' /\ SkewSeen' /\ OneSetup' /\ SetupOnce'
    BY <1>13 DEF OwnerInv, RowTaken, SkewSeen, Skew, OneSetup, SetupOnce, history
  <2>3. Passed'
    BY <1>13, <2>1 DEF OwnerInv, Passed, Takes, history
  <2>4. OwnerRemains'
    BY <1>13 DEF OwnerInv, OwnerRemains, ActiveOwner, OwnersIn, history, users
  <2> QED BY <2>2, <2>3, <2>4 DEF OwnerInv
<1>14. ASSUME NEW a \in Accounts, NEW c \in Credentials,
              RevokeSession(a, c) \/ RevokeToken(a, c)
       PROVE  OwnerInv'
  BY <1>13, <1>14 DEF RevokeSession, RevokeToken
<1>15. CASE UNCHANGED vars
  BY <1>13, <1>15 DEF vars
<1> QED BY <1>1, <1>2, <1>3, <1>4, <1>5, <1>6, <1>7, <1>8, <1>9, <1>10, <1>11, <1>12,
           <1>14, <1>15 DEF Next

\* Whatever overlaps, an Owner is only ever lost after two requests passed
\* trg_users_owner_remains side by side, and nobody sets up twice before that.
THEOREM OwnersAlways == Spec => []OwnerInv
<1>1. Init => RowsInv /\ OwnerInv
  BY InitRows, InitOwner
<1>2. RowsInv /\ OwnerInv /\ [Next]_vars => RowsInv' /\ OwnerInv'
  BY NextRows, NextOwner
<1> QED BY <1>1, <1>2, PTL DEF Spec

\* The organisation keeps an active Owner, however requests to demote and to
\* disable overlap, as long as two owner checks did not pass side by side.
THEOREM OwnerAlwaysRemains == Spec => []OwnerRemains
<1>1. OwnerInv => OwnerRemains
  BY DEF OwnerInv
<1> QED BY <1>1, OwnersAlways, PTL

\* First-run setup creates one Owner, however many forms are submitted at once.
THEOREM SetupAlwaysOnce == Spec => []SetupOnce
<1>1. OwnerInv => SetupOnce
  BY DEF OwnerInv
<1> QED BY <1>1, OwnersAlways, PTL

\* Both together: the property the runs check, for any accounts and requests.
THEOREM OwnersAlwaysHold == Spec => []OwnersHold
BY OwnerAlwaysRemains, SetupAlwaysOnce, PTL DEF OwnersHold

-----------------------------------------------------------------------------
(* Requests one after the other.  As long as none overlapped, what a request *)
(* read of its target is still true when it commits: a login of somebody who *)
(* is not disabled, a change its actor may make, and a disable that cuts     *)
(* every session of its person.                                              *)

OverlapSeen == Overlap(tx) => overlapped

\* A request is about one account, of the kind its route is for.
Aims(l) ==
  IF l.op = "idle"
    THEN l.step = "arrived"
    ELSE \E u \in Accounts : /\ l.target = {u}
                             /\ l.op \in OnServices => u \in Services
                             /\ l.op \in {"setup", "login"} => u \in People

\* What l knows of its target, where roles are r, the disabled are d, and the
\* sessions and tokens h are revoked when in v.
Knows(l, r, d, h, v) ==
  /\ l.op = "login" => l.target \cap d = {}
  /\ l.op \in {"role", "disable"} /\ l.step # "arrived" =>
       \A u \in l.target : MayChange(l.rank, r[u], l.new)
  /\ l.op = "disable" /\ l.step \in {"updated", "checked"} /\ l.row =>
       \A u \in l.target, c \in Credentials \ v : u \in h[c] \cap People => c \in l.cut

Aimed == \A t \in Tx : Aims(tx[t])
Knowing == ~overlapped => \A t \in Tx : Knows(tx[t], role, disabled, holder, revoked)

SoloInv == OverlapSeen /\ Aimed /\ Knowing /\ DisabledSignedOut

LEMMA InitSolo == Init => SoloInv
<1> SUFFICES ASSUME Init PROVE SoloInv
  OBVIOUS
<1>1. \A t \in Tx : tx[t].op = "idle" /\ tx[t].step = "arrived"
  BY DEF Init, Idle
<1>2. disabled = {}
  BY DEF Init
<1> QED BY <1>1, <1>2
        DEF SoloInv, OverlapSeen, Overlap, Aimed, Aims, Knowing, Knows, DisabledSignedOut

LEMMA IdleKnows ==
  /\ Idle \in Local /\ Idle.op = "idle" /\ Aims(Idle)
  /\ \A r, d, h, v : Knows(Idle, r, d, h, v)
<1>1. Idle.op = "idle" /\ Idle.step = "arrived"
  BY DEF Idle
<1> QED BY <1>1, IdleType DEF Aims, Knows

LEMMA Alone ==
  ASSUME SoloInv, ~overlapped, NEW t \in Tx, tx[t].op # "idle", NEW s \in Tx, s # t
  PROVE  tx[s].op = "idle"
  BY DEF SoloInv, OverlapSeen, Overlap

\* Whoever has left "arrived" behind is a request.
LEMMA Busy ==
  ASSUME SoloInv, NEW t \in Tx, tx[t].step # "arrived"
  PROVE  tx[t].op # "idle"
  BY DEF SoloInv, Aimed, Aims

\* A request goes on or ends: either overlaps another, or is the only one.
LEMMA GotoSolo ==
  ASSUME RowsInv, SoloInv, NEW t \in Tx, NEW l \in Local, Goto(t, l),
         l.op # "idle" \/ tx[t].op # "idle", Aims(l),
         ~overlapped' => Knows(l, role', disabled', holder', revoked'),
         DisabledSignedOut'
  PROVE  SoloInv'
<1>1. /\ tx'[t] = l /\ \A s \in Tx \ {t} : tx'[s] = tx[s]
      /\ overlapped' \in BOOLEAN /\ overlapped \in BOOLEAN
  BY GotoType DEF RowsInv, TypeOK
<1>2. overlapped' = (overlapped \/ Overlap(tx'))
  BY DEF Goto
<1>3. OverlapSeen'
  BY <1>2 DEF OverlapSeen, Overlap
<1>4. Aimed'
  BY <1>1 DEF SoloInv, Aimed
<1>5. Knowing'
  <2> SUFFICES ASSUME ~overlapped', NEW s \in Tx
               PROVE  Knows(tx'[s], role', disabled', holder', revoked')
    BY DEF Knowing
  <2>1. CASE s = t
    BY <1>1, <2>1
  <2>2. CASE s # t
    <3>1. ~overlapped /\ ~Overlap(tx')
      BY <1>1, <1>2
    <3>2. tx'[s].op = "idle"
      <4>1. CASE l.op # "idle"
        BY <1>1, <2>2, <3>1, <4>1 DEF Overlap
      <4>2. CASE tx[t].op # "idle"
        BY <1>1, <2>2, <3>1, <4>2, Alone
      <4> QED BY <4>1, <4>2
    <3> QED BY <3>2 DEF Knows
  <2> QED BY <2>1, <2>2
<1> QED BY <1>3, <1>4, <1>5 DEF SoloInv

\* Nobody is disabled and nothing issued.
LEMMA NothingIssued ==
  ASSUME SoloInv, overlapped => overlapped', disabled' \subseteq disabled,
         holder' = holder, revoked \subseteq revoked'
  PROVE  DisabledSignedOut'
  BY DEF SoloInv, DisabledSignedOut, Live

\* Something is issued to an account that is no disabled person.
LEMMA OneIssued ==
  ASSUME RowsInv, SoloInv, overlapped => overlapped', disabled' = disabled, revoked' = revoked,
         NEW c \in Credentials, NEW a \in Accounts, Issue(c, a),
         ~overlapped' => a \notin disabled \cap People
  PROVE  DisabledSignedOut'
<1>1. \A d \in Credentials : holder'[d] = IF d = c THEN {a} ELSE holder[d]
  BY DEF Issue, RowsInv, TypeOK
<1> QED BY <1>1 DEF SoloInv, DisabledSignedOut, Live

LEMMA NextSolo ==
  ASSUME RowsInv, SoloInv, [Next]_vars
  PROVE  SoloInv'
<1> USE AccountsAssumption
<1>0. /\ tx \in [Tx -> Local] /\ overlapped \in BOOLEAN
      /\ role \in [Accounts -> Roles \cup {"none"}]
      /\ People \subseteq Accounts /\ Services \subseteq Accounts
  BY DEF RowsInv, TypeOK, Accounts
<1>g. \A t, l : Goto(t, l) => (overlapped => overlapped')
  BY <1>0 DEF Goto
<1>k. ~overlapped => \A t \in Tx : Knows(tx[t], role, disabled, holder, revoked)
  BY DEF SoloInv, Knowing
<1>a. \A t \in Tx : Aims(tx[t])
  BY DEF SoloInv, Aimed
<1>1. ASSUME NEW t \in Tx, NEW p \in People, SetupBegin(t, p)
      PROVE  SoloInv'
  <2> DEFINE l == [Idle EXCEPT !.op = "setup", !.step = "read", !.target = {p}]
  <2>1. l \in Local /\ l.op = "setup" /\ l.target = {p}
    BY <1>0, IdleType DEF Local, Ops, Idle
  <2>2. Goto(t, l) /\ UNCHANGED <<users, creds, setups>>
    BY <1>1 DEF SetupBegin
  <2> HIDE DEF l
  <2>3. DisabledSignedOut'
    BY <1>g, <2>2, NothingIssued DEF users, creds
  <2>4. Aims(l) /\ \A r, d, h, v : Knows(l, r, d, h, v)
    BY <1>0, <2>1 DEF Aims, Knows, OnServices
  <2> QED BY <2>1, <2>2, <2>3, <2>4, GotoSolo
<1>2. ASSUME NEW t \in Tx, NEW p \in People, LoginRead(t, p)
      PROVE  SoloInv'
  <2> DEFINE l == [Idle EXCEPT !.op = "login", !.step = "read", !.target = {p}, !.row = TRUE]
  <2>1. l \in Local /\ l.op = "login" /\ l.target = {p}
    BY <1>0, IdleType DEF Local, Ops, Idle
  <2>2. Goto(t, l) /\ UNCHANGED <<users, creds, setups>> /\ p \notin disabled
    BY <1>2 DEF LoginRead
  <2> HIDE DEF l
  <2>3. DisabledSignedOut'
    BY <1>g, <2>2, NothingIssued DEF users, creds
  <2>4. Aims(l) /\ Knows(l, role', disabled', holder', revoked')
    BY <1>0, <2>1, <2>2 DEF Aims, Knows, OnServices, users
  <2> QED BY <2>1, <2>2, <2>3, <2>4, GotoSolo
<1>3. ASSUME NEW t \in Tx, NEW p \in People, NEW c \in Credentials, SetupCommit(t, p, c)
      PROVE  SoloInv'
  <2>1. /\ Goto(t, Idle) /\ Issue(c, p) /\ role[p] = "none" /\ tx[t].op # "idle"
        /\ UNCHANGED <<disabled, revoked>>
    BY <1>3 DEF SetupCommit, Done, In
  <2>2. p \notin disabled
    BY <2>1 DEF RowsInv, Existing
  <2>3. DisabledSignedOut'
    BY <1>0, <1>g, <2>1, <2>2, OneIssued
  <2> QED BY <2>1, <2>3, IdleKnows, GotoSolo
<1>4. ASSUME NEW t \in Tx, NEW p \in People, NEW c \in Credentials, LoginCommit(t, p, c)
      PROVE  SoloInv'
  <2>1. /\ Goto(t, Idle) /\ Issue(c, p) /\ tx[t].op = "login" /\ tx[t].target = {p}
        /\ UNCHANGED <<disabled, revoked>>
    BY <1>4 DEF LoginCommit, Done, In, Target, users
  <2>2. ~overlapped => p \notin disabled
    BY <1>k, <2>1 DEF Knows
  <2>3. DisabledSignedOut'
    BY <1>0, <1>g, <2>1, <2>2, OneIssued
  <2> QED BY <2>1, <2>3, IdleKnows, GotoSolo
<1>5. ASSUME NEW t \in Tx, NEW a \in Accounts, NEW u \in Accounts, NEW q \in Asked,
             Request(t, q[1], a, u, q[2])
      PROVE  SoloInv'
  <2> DEFINE s == IF q[1] \in ReadsTarget THEN "arrived" ELSE "read"
             l == [Idle EXCEPT !.op = q[1], !.rank = role[a], !.target = {u},
                               !.new = q[2], !.step = s]
  <2>1. /\ q[1] \in Ops \ {"idle", "setup", "login"} /\ q[2] \in Roles \cup {"none"}
    BY DEF Asked, Ops
  <2>2. s \in {"arrived", "read"} /\ (q[1] \in {"role", "disable"} => s = "arrived")
    BY DEF ReadsTarget
  <2> HIDE DEF s
  <2>3. l \in Local /\ l.op = q[1] /\ l.target = {u} /\ l.step = s
    BY <1>0, <2>1, <2>2 DEF Local, Idle
  <2>4. Goto(t, l) /\ UNCHANGED <<users, creds, setups>> /\ (q[1] \in OnServices => u \in Services)
    BY <1>5 DEF Request, s
  <2> HIDE DEF l
  <2>5. DisabledSignedOut'
    BY <1>g, <2>4, NothingIssued DEF users, creds
  <2>6. Aims(l) /\ \A r, d, h, v : Knows(l, r, d, h, v)
    BY <2>1, <2>2, <2>3, <2>4 DEF Aims, Knows
  <2> QED BY <2>1, <2>3, <2>4, <2>5, <2>6, GotoSolo
<1>6. ASSUME NEW t \in Tx, NEW u \in Accounts, Read(t, u)
      PROVE  SoloInv'
  <2> DEFINE l == [tx[t] EXCEPT !.step = "read"]
  <2>1. /\ l \in Local /\ l.step = "read" /\ l.op = tx[t].op /\ l.rank = tx[t].rank
        /\ l.target = tx[t].target /\ l.new = tx[t].new
    BY <1>0 DEF Local
  <2>2. /\ Goto(t, l) /\ UNCHANGED <<users, creds, setups>> /\ tx[t].op # "idle"
        /\ tx[t].target = {u}
        /\ tx[t].op \in {"role", "disable"} => MayChange(tx[t].rank, role[u], tx[t].new)
    BY <1>6 DEF Read, Step, Free, Target
  <2> HIDE DEF l
  <2>3. DisabledSignedOut'
    BY <1>g, <2>2, NothingIssued DEF users, creds
  <2>4. Aims(l)
    BY <1>a, <2>1, <2>2 DEF Aims
  <2>5. ~overlapped' => Knows(l, role', disabled', holder', revoked')
    BY <1>g, <1>k, <2>1, <2>2 DEF Knows, users
  <2> QED BY <2>1, <2>2, <2>3, <2>4, <2>5, GotoSolo
<1>7. ASSUME NEW t \in Tx, NEW u \in Accounts, Update(t, u)
      PROVE  SoloInv'
  <2> DEFINE b == tx[t].op \in {"disable", "disableService"} => u \notin disabled
             k == IF tx[t].op = "disable" THEN Revokes(u) ELSE {}
             l == [tx[t] EXCEPT !.step = "updated", !.row = b, !.cut = k]
  <2>1. b \in BOOLEAN /\ k \in SUBSET Credentials
    BY DEF Revokes
  <2>2. /\ Goto(t, l) /\ UNCHANGED <<users, creds, setups>>
        /\ tx[t].target = {u} /\ tx[t].step = "read"
    BY <1>7 DEF Update, Target
  <2>3. tx[t].op = "disable" =>
          \A c \in Credentials \ revoked : u \in holder[c] \cap People => c \in k
    BY DEF Revokes, Live
  <2> HIDE DEF b, k
  <2>4. /\ l \in Local /\ l.op = tx[t].op /\ l.new = tx[t].new /\ l.rank = tx[t].rank
        /\ l.target = tx[t].target /\ l.cut = k /\ l.step = "updated"
    BY <1>0, <2>1 DEF Local
  <2> HIDE DEF l
  <2>5. tx[t].op # "idle"
    BY <2>2, Busy
  <2>6. DisabledSignedOut'
    BY <1>g, <2>2, NothingIssued DEF users, creds
  <2>7. Aims(l)
    BY <1>a, <2>4, <2>5 DEF Aims
  <2>8. ~overlapped' => Knows(l, role', disabled', holder', revoked')
    BY <1>g, <1>k, <2>2, <2>3, <2>4 DEF Knows, users, creds
  <2> QED BY <2>2, <2>4, <2>5, <2>6, <2>7, <2>8, GotoSolo
<1>8. ASSUME NEW t \in Tx, Check(t)
      PROVE  SoloInv'
  <2> DEFINE l == [tx[t] EXCEPT !.step = "checked"]
  <2>1. /\ l \in Local /\ l.op = tx[t].op /\ l.new = tx[t].new /\ l.rank = tx[t].rank
        /\ l.target = tx[t].target /\ l.cut = tx[t].cut /\ l.row = tx[t].row
        /\ l.step = "checked"
    BY <1>0 DEF Local
  <2>2. /\ Goto(t, l) /\ UNCHANGED <<users, creds, setups>>
        /\ tx[t].step = "updated" /\ tx[t].op # "idle"
    BY <1>8, Busy DEF Check, Step
  <2> HIDE DEF l
  <2>3. DisabledSignedOut'
    BY <1>g, <2>2, NothingIssued DEF users, creds
  <2>4. Aims(l)
    BY <1>a, <2>1, <2>2 DEF Aims
  <2>5. ~overlapped' => Knows(l, role', disabled', holder', revoked')
    BY <1>g, <1>k, <2>1, <2>2 DEF Knows, users, creds
  <2> QED BY <2>1, <2>2, <2>3, <2>4, <2>5, GotoSolo
<1>9. ASSUME NEW t \in Tx, Commit(t)
      PROVE  SoloInv'
  <2>1. /\ Goto(t, Idle) /\ disabled' = DisabledAfter(t) /\ revoked' = revoked \cup tx[t].cut
        /\ holder' = holder /\ tx[t].step = "checked" /\ tx[t].op # "idle"
    BY <1>9, Busy DEF Commit, Done
  <2>2. overlapped => overlapped'
    BY <1>g, <2>1
  <2>3. DisabledSignedOut'
    <3>1. CASE tx[t].op = "disable" /\ tx[t].row
      <4>1. disabled' = disabled \cup tx[t].target
        BY <2>1, <3>1 DEF DisabledAfter
      <4>2. ~overlapped =>
              \A u \in tx[t].target, c \in Credentials \ revoked :
                u \in holder[c] \cap People => c \in tx[t].cut
        BY <1>k, <2>1, <3>1 DEF Knows
      <4> QED BY <2>1, <2>2, <4>1, <4>2 DEF SoloInv, DisabledSignedOut, Live
    <3>2. CASE tx[t].op = "disableService" /\ tx[t].row
      <4>1. disabled' = disabled \cup tx[t].target
        BY <2>1, <3>2 DEF DisabledAfter
      <4>2. tx[t].target \cap People = {}
        BY <1>a, <3>2 DEF Aims, OnServices
      <4> QED BY <2>1, <2>2, <4>1, <4>2 DEF SoloInv, DisabledSignedOut, Live
    <3>3. CASE ~(tx[t].op \in {"disable", "disableService"} /\ tx[t].row)
      <4>1. disabled' \subseteq disabled
        BY <2>1, <3>3 DEF DisabledAfter
      <4> QED BY <2>1, <2>2, <4>1, NothingIssued
    <3> QED BY <3>1, <3>2, <3>3
  <2> QED BY <2>1, <2>3, IdleKnows, GotoSolo
<1>10. ASSUME NEW t \in Tx, NEW u \in Accounts, CreateCommit(t, u)
       PROVE  SoloInv'
  <2>1. Goto(t, Idle) /\ UNCHANGED <<disabled, creds, setups>> /\ tx[t].op # "idle"
    BY <1>10 DEF CreateCommit, Done, In
  <2>2. DisabledSignedOut'
    BY <1>g, <2>1, NothingIssued DEF creds
  <2> QED BY <2>1, <2>2, IdleKnows, GotoSolo
<1>11. ASSUME NEW t \in Tx, NEW u \in Accounts, NEW c \in Credentials, TokenCommit(t, u, c)
       PROVE  SoloInv'
  <2>1. /\ Goto(t, Idle) /\ Issue(c, u) /\ tx[t].op = "token" /\ tx[t].target = {u}
        /\ UNCHANGED <<disabled, revoked>>
    BY <1>11 DEF TokenCommit, Done, In, Target, users
  <2>2. u \notin People
    BY <1>a, <2>1 DEF Aims, OnServices
  <2>3. DisabledSignedOut'
    BY <1>g, <2>1, <2>2, OneIssued
  <2> QED BY <2>1, <2>3, IdleKnows, GotoSolo
<1>12. ASSUME NEW t \in Tx, Rollback(t)
       PROVE  SoloInv'
  <2>1. Goto(t, Idle) /\ UNCHANGED <<users, creds, setups>> /\ tx[t].op # "idle"
    BY <1>12 DEF Rollback, Done, Free
  <2>2. DisabledSignedOut'
    BY <1>g, <2>1, NothingIssued DEF users, creds
  <2> QED BY <2>1, <2>2, IdleKnows, GotoSolo
<1>13. ASSUME UNCHANGED <<users, holder, tx, history>>, revoked \subseteq revoked'
       PROVE  SoloInv'
  <2>1. DisabledSignedOut'
    BY <1>13, NothingIssued DEF users, history
  <2>2. OverlapSeen' /\ Aimed'
    BY <1>13 DEF SoloInv, OverlapSeen, Overlap, Aimed, history
  <2>3. Knowing'
    BY <1>13, <1>k DEF Knowing, Knows, users, history
  <2> QED BY <2>1, <2>2, <2>3 DEF SoloInv
<1>14. ASSUME NEW a \in Accounts, NEW c \in Credentials,
              RevokeSession(a, c) \/ RevokeToken(a, c)
       PROVE  SoloInv'
  BY <1>13, <1>14 DEF RevokeSession, RevokeToken
<1>15. CASE UNCHANGED vars
  BY <1>13, <1>15 DEF vars, creds
<1> QED BY <1>1, <1>2, <1>3, <1>4, <1>5, <1>6, <1>7, <1>8, <1>9, <1>10, <1>11, <1>12,
           <1>14, <1>15 DEF Next

\* The inductive invariant: a request that overlapped no other knows its target.
THEOREM SoloAlways == Spec => [](RowsInv /\ SoloInv)
<1>1. Init => RowsInv /\ SoloInv
  BY InitRows, InitSolo
<1>2. RowsInv /\ SoloInv /\ [Next]_vars => RowsInv' /\ SoloInv'
  BY NextRows, NextSolo
<1> QED BY <1>1, <1>2, PTL DEF Spec

\* A disabled person stays signed in nowhere, so that restoring the account
\* revives no session, as long as requests came one after the other.
THEOREM DisabledAlwaysSignedOut == Spec => []DisabledSignedOut
<1>1. SoloInv => DisabledSignedOut
  BY DEF SoloInv
<1> QED BY <1>1, SoloAlways, PTL

\* Ownership is granted and withdrawn by Owners, or comes back when an account
\* is restored, as long as requests came one after the other.
THEOREM OwnersAlwaysByOwners == Spec => OwnersByOwners
<1> DEFINE
      Changes(u) == (u \in OwnersIn(role, disabled)) # (u \in OwnersIn(role', disabled'))
      Granted(u) == \E t \in Tx : Target(t, u) /\ (tx[t].rank = "owner" \/ tx[t].op = "restore")
      ByOwner == \A u \in Accounts :
                   ~overlapped /\ role[u] # "none" /\ Changes(u) => Granted(u)
<1>1. RowsInv /\ SoloInv /\ [Next]_vars => ByOwner
  <2> SUFFICES ASSUME RowsInv, SoloInv, [Next]_vars, NEW u \in Accounts,
                      ~overlapped, role[u] # "none", Changes(u)
               PROVE  Granted(u)
    OBVIOUS
  <2>0. /\ role \in [Accounts -> Roles \cup {"none"}] /\ disabled \subseteq Accounts
        /\ \A s \in Services : role[s] # "owner"
        /\ \A t \in Tx : Aims(tx[t]) /\ Knows(tx[t], role, disabled, holder, revoked)
    BY DEF RowsInv, TypeOK, SoloInv, Aimed, Knowing
  <2>1. ~UNCHANGED users
    BY DEF users
  <2>2. \A r : \A p \in Accounts : role[p] = "none" /\ role' = [role EXCEPT ![p] = r]
          => disabled' # disabled
    BY <2>0 DEF OwnersIn
  <2>3. ASSUME NEW t \in Tx, Commit(t)
        PROVE  Granted(u)
    <3>1. /\ role' = RoleAfter(t) /\ disabled' = DisabledAfter(t)
          /\ tx[t].step = "checked" /\ tx[t].op # "idle"
      BY <2>3, Busy DEF Commit
    <3>2. PICK a \in Accounts : /\ tx[t].target = {a}
                                /\ tx[t].op \in OnServices => a \in Services
      BY <2>0, <3>1 DEF Aims
    <3>3. \A x \in Accounts \ {a} : role'[x] = role[x] /\ (x \in disabled' <=> x \in disabled)
      BY <2>0, <3>1, <3>2 DEF RoleAfter, DisabledAfter, Target
    <3>4. a = u
      BY <3>3 DEF OwnersIn
    <3>5. Target(t, u)
      BY <3>2, <3>4 DEF Target
    <3>6. role'[u] = IF tx[t].op = "role" THEN tx[t].new ELSE role[u]
      BY <3>1, <3>5 DEF RoleAfter
    <3>7. CASE tx[t].op \in {"role", "disable"}
      <4>1. MayChange(tx[t].rank, role[u], tx[t].new)
        BY <2>0, <3>1, <3>2, <3>4, <3>7 DEF Knows
      <4>2. role[u] = "owner" \/ role'[u] = "owner"
        BY DEF OwnersIn
      <4>3. "owner" \in {role[u], tx[t].new}
        BY <3>6, <4>2
      <4> QED BY <3>5, <4>1, <4>3 DEF MayChange
    <3>8. CASE tx[t].op \in {"disableService", "restoreService"}
      <4>1. u \in Services
        BY <3>2, <3>4, <3>8 DEF OnServices
      <4> QED BY <2>0, <3>6, <3>8, <4>1 DEF OwnersIn
    <3>9. CASE tx[t].op = "restore"
      BY <3>5, <3>9
    <3>10. CASE tx[t].op \notin {"role", "disable", "disableService", "restoreService", "restore"}
      BY <3>1, <3>6, <3>10 DEF DisabledAfter, OwnersIn
    <3> QED BY <3>7, <3>8, <3>9, <3>10
  <2>4. \A t \in Tx, p \in People, c \in Credentials : ~SetupCommit(t, p, c)
    BY <2>2 DEF SetupCommit, Accounts
  <2>5. \A t \in Tx, a \in Accounts : ~CreateCommit(t, a)
    BY <2>2 DEF CreateCommit
  <2> QED BY <2>1, <2>3, <2>4, <2>5
          DEF Next, vars, SetupBegin, LoginRead, LoginCommit, Request, Read, Update,
              TokenCommit, Check, Rollback, RevokeSession, RevokeToken
<1>2. RowsInv /\ SoloInv /\ [Next]_vars =>
        [\A u \in Accounts :
           /\ ~overlapped /\ role[u] # "none"
           /\ (u \in OwnersIn(role, disabled)) # (u \in OwnersIn(role', disabled'))
           => \E t \in Tx : Target(t, u) /\ (tx[t].rank = "owner" \/ tx[t].op = "restore")]_vars
  BY <1>1
<1> QED BY <1>2, SoloAlways, PTL DEF Spec, OwnersByOwners

=============================================================================
