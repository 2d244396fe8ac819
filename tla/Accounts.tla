------------------------------- MODULE Accounts -------------------------------
(***************************************************************************)
(* Accounts: first-run setup, signing in and out, roles, disabling and     *)
(* restoring people and service accounts, sessions and API tokens.         *)
(*                                                                         *)
(* A request is authorised when it arrives, with the role the account had  *)
(* then; its handler is a READ COMMITTED transaction that reads, updates   *)
(* one row of users under its row lock, has the deferred owner trigger run *)
(* when it commits, and becomes visible after that.  Whatever happens      *)
(* between these moments is other transactions: each is an action.  Expiry *)
(* only takes sessions and tokens away and is left out.                    *)
(***************************************************************************)
EXTENDS Naturals, FiniteSets

CONSTANTS
  People, Services,  \* accounts of kind person and service
  Credentials,       \* ids that sessions and API tokens may get
  Tx                 \* requests in progress at the same time

Accounts == People \cup Services

ASSUME AccountsAssumption == People \cap Services = {}

VARIABLES
  role,        \* users.role, "none" before the row exists
  disabled,    \* accounts whose disabled_at is set
  holder,      \* whom a session or token belongs to: {} or one account
  revoked,     \* sessions and tokens whose revoked_at is set
  tx,          \* local state of the requests
  setups,      \* history: owners created by first-run setup
  skewed,      \* history: two owner checks passed without seeing each other
  overlapped   \* history: two requests were in progress at the same time

users   == <<role, disabled>>
creds   == <<holder, revoked>>
history == <<setups, skewed, overlapped>>
vars    == <<users, creds, tx, history>>

-----------------------------------------------------------------------------

Roles == {"member", "admin", "owner"}
Ops == {"idle", "setup", "login", "create", "role", "disable", "restore",
        "disableService", "restoreService", "token"}

\* rank: the actor's role when the request was authorised; cut: the sessions
\* the disable has seen; row: whether a row of users is updated.
Local == [op: Ops, step: {"arrived", "read", "updated", "checked"},
          rank: Roles \cup {"none"}, target: SUBSET Accounts,
          new: Roles \cup {"none"}, cut: SUBSET Credentials, row: BOOLEAN]

Idle == [op |-> "idle", step |-> "arrived", rank |-> "none", target |-> {},
         new |-> "none", cut |-> {}, row |-> FALSE]

TypeOK ==
  /\ role \in [Accounts -> Roles \cup {"none"}]
  /\ \A s \in Services : role[s] # "owner"
  /\ disabled \subseteq Accounts
  /\ holder \in [Credentials -> SUBSET Accounts]
  /\ \A c \in Credentials : Cardinality(holder[c]) <= 1
  /\ revoked \subseteq Credentials
  /\ tx \in [Tx -> Local]
  /\ setups \in Nat /\ skewed \in BOOLEAN /\ overlapped \in BOOLEAN

Init ==
  /\ role = [a \in Accounts |-> "none"]
  /\ disabled = {} /\ revoked = {}
  /\ holder = [c \in Credentials |-> {}]
  /\ tx = [t \in Tx |-> Idle]
  /\ setups = 0 /\ skewed = FALSE /\ overlapped = FALSE

-----------------------------------------------------------------------------
(* What a statement can see.                                               *)

Free(t) == tx[t].op = "idle"
In(t, op, step) == tx[t].op = op /\ tx[t].step = step
Target(t, a) == tx[t].target = {a}

Live(c) == holder[c] # {} /\ c \notin revoked

\* The onRequest hook joins users and leaves out disabled accounts.
SignedIn(a) == a \notin disabled /\ \E c \in Credentials : Live(c) /\ a \in holder[c]

OwnersIn(r, d) == {a \in Accounts : r[a] = "owner" /\ a \notin d}
ActiveOwner == OwnersIn(role, disabled) # {}

RowLocked(a) ==
  \E t \in Tx : Target(t, a) /\ tx[t].row /\ tx[t].step \in {"updated", "checked"}

\* Two requests whose owner checks have passed and who have not committed.
TakesAway == {"role", "disable", "disableService"}
Skew(local) ==
  \E t, s \in Tx : /\ t # s
                   /\ local[t].step = "checked" /\ local[t].op \in TakesAway
                   /\ local[s].step = "checked" /\ local[s].op \in TakesAway

Overlap(local) ==
  \E t, s \in Tx : t # s /\ local[t].op # "idle" /\ local[s].op # "idle"

Goto(t, local) ==
  /\ tx' = [tx EXCEPT ![t] = local]
  /\ skewed' = (skewed \/ Skew(tx'))
  /\ overlapped' = (overlapped \/ Overlap(tx'))

Done(t) == Goto(t, Idle)
Step(t, step) == Goto(t, [tx[t] EXCEPT !.step = step])

Issue(c, a) ==
  /\ holder[c] = {}
  /\ holder' = [holder EXCEPT ![c] = {a}]

-----------------------------------------------------------------------------
(* First-run setup.                                                        *)

\* Mutation: nothing serialises concurrent attempts.
NoSetupLock == FALSE

\* pg_advisory_xact_lock(hashtext('atarimae:setup')).
SetupLocked == \E t \in Tx : tx[t].op = "setup"

\* A disabled Owner is an Owner here.
SetupBegin(t, p) ==
  /\ Free(t)
  /\ ~SetupLocked
  /\ \A a \in Accounts : role[a] # "owner"
  /\ Goto(t, [Idle EXCEPT !.op = "setup", !.step = "read", !.target = {p}])
  /\ UNCHANGED <<users, creds, setups>>

SetupCommit(t, p, c) ==
  /\ In(t, "setup", "read") /\ Target(t, p)
  /\ role[p] = "none"
  /\ role' = [role EXCEPT ![p] = "owner"]
  /\ Issue(c, p)
  /\ setups' = setups + 1
  /\ Done(t)
  /\ UNCHANGED <<disabled, revoked>>

-----------------------------------------------------------------------------
(* Signing in and out.                                                     *)

\* The account is read and the password verified before the transaction.
LoginRead(t, p) ==
  /\ Free(t)
  /\ role[p] # "none" /\ p \notin disabled
  /\ Goto(t, [Idle EXCEPT !.op = "login", !.step = "read", !.target = {p},
                          !.row = TRUE])
  /\ UNCHANGED <<users, creds, setups>>

\* The new session becomes visible when last_login_at is updated and checked.
LoginCommit(t, p, c) ==
  /\ In(t, "login", "checked") /\ Target(t, p)
  /\ Issue(c, p)
  /\ Done(t)
  /\ UNCHANGED <<users, revoked, setups>>

\* DELETE /auth/sessions and logout: one's own session.
RevokeSession(a, c) ==
  /\ a \in People /\ SignedIn(a)
  /\ Live(c) /\ a \in holder[c]
  /\ revoked' = revoked \cup {c}
  /\ UNCHANGED <<users, holder, tx, history>>

-----------------------------------------------------------------------------
(* What an administrator asks for.  A request that arrives is authorised   *)
(* with the role its actor had then.                                       *)

OnServices == {"disableService", "restoreService", "token"}
NotOnSelf == {"role", "disable"}
ReadsTarget == {"role", "disable", "restore", "token"}

\* Mutation: an administrator may change an Owner.
AnyAdmin(rank, old, new) == TRUE

\* Only an Owner grants or takes away the Owner role, or disables an Owner.
MayChange(rank, old, new) == "owner" \in {old, new} => rank = "owner"

\* Mutation: the CHECK on the kind is missing.
AnyKind(u, new) == TRUE

\* ck_service_accounts_are_not_owners.
NotService(u, new) == new = "owner" => u \in People

Request(t, op, a, u, r) ==
  /\ Free(t)
  /\ SignedIn(a) /\ role[a] \in {"admin", "owner"}
  /\ op \in OnServices => u \in Services
  /\ op \in OnServices \/ (op = "create" /\ u \in Services) => a \in People
  /\ op \in NotOnSelf => a # u
  /\ Goto(t, [Idle EXCEPT !.op = op, !.rank = role[a], !.target = {u}, !.new = r,
                          !.step = IF op \in ReadsTarget THEN "arrived" ELSE "read"])
  /\ UNCHANGED <<users, creds, setups>>

\* The target is read without a lock, and the request refused or not.
Read(t, u) ==
  /\ tx[t].step = "arrived" /\ ~Free(t) /\ Target(t, u)
  /\ role[u] # "none"
  /\ tx[t].op \in {"role", "disable"} => MayChange(tx[t].rank, role[u], tx[t].new)
  /\ tx[t].op = "restore" => u \in disabled
  /\ tx[t].op = "token" => u \notin disabled
  /\ Step(t, "read")
  /\ UNCHANGED <<users, creds, setups>>

\* Mutation: disabling somebody leaves their sessions alone.
RevokesNothing(u) == {}

\* Sessions of the person that are committed by now; tokens stay as they are.
Revokes(u) == {c \in Credentials : Live(c) /\ u \in holder[c] \cap People}

\* UPDATE users takes the row lock; AND disabled_at IS NULL may find no row.
Update(t, u) ==
  /\ tx[t].step = "read" /\ Target(t, u)
  /\ tx[t].op \notin {"setup", "create", "token"}
  /\ role[u] # "none" /\ NotService(u, tx[t].new)
  /\ ~RowLocked(u)
  /\ Goto(t, [tx[t] EXCEPT !.step = "updated",
                !.row = tx[t].op \in {"disable", "disableService"} => u \notin disabled,
                !.cut = IF tx[t].op = "disable" THEN Revokes(u) ELSE {}])
  /\ UNCHANGED <<users, creds, setups>>

RoleAfter(t) ==
  [a \in Accounts |-> IF tx[t].op = "role" /\ Target(t, a) THEN tx[t].new ELSE role[a]]

DisabledAfter(t) ==
  CASE tx[t].op \in {"disable", "disableService"} ->
         disabled \cup IF tx[t].row THEN tx[t].target ELSE {}
    [] tx[t].op \in {"restore", "restoreService"} -> disabled \ tx[t].target
    [] OTHER -> disabled

\* Mutation: the trigger is not there.
NoTrigger(t) == TRUE

\* trg_users_owner_remains sees what is committed, and this transaction.
OwnerCheck(t) == tx[t].row => OwnersIn(RoleAfter(t), DisabledAfter(t)) # {}

Check(t) ==
  /\ tx[t].step = "updated"
  /\ OwnerCheck(t)
  /\ Step(t, "checked")
  /\ UNCHANGED <<users, creds, setups>>

Commit(t) ==
  /\ tx[t].step = "checked" /\ tx[t].op # "login"
  /\ role' = RoleAfter(t)
  /\ disabled' = DisabledAfter(t)
  /\ revoked' = revoked \cup tx[t].cut
  /\ Done(t)
  /\ UNCHANGED <<holder, setups>>

\* POST /users or /service-accounts; an INSERT fires no owner trigger.
CreateCommit(t, u) ==
  /\ In(t, "create", "read") /\ Target(t, u)
  /\ role[u] = "none"
  /\ NotService(u, tx[t].new) /\ MayChange(tx[t].rank, "none", tx[t].new)
  /\ role' = [role EXCEPT ![u] = tx[t].new]
  /\ Done(t)
  /\ UNCHANGED <<disabled, creds, setups>>

TokenCommit(t, u, c) ==
  /\ In(t, "token", "read") /\ Target(t, u)
  /\ Issue(c, u)
  /\ Done(t)
  /\ UNCHANGED <<users, revoked, setups>>

\* DELETE /service-accounts/.../tokens by an administrator.
RevokeToken(a, c) ==
  /\ a \in People /\ SignedIn(a) /\ role[a] \in {"admin", "owner"}
  /\ Live(c) /\ holder[c] \subseteq Services
  /\ revoked' = revoked \cup {c}
  /\ UNCHANGED <<users, holder, tx, history>>

\* Refused, raised by the trigger or another constraint, or lost.
Rollback(t) ==
  /\ ~Free(t)
  /\ Done(t)
  /\ UNCHANGED <<users, creds, setups>>

-----------------------------------------------------------------------------

\* A request, and the role it asks for when it is about one.
Asked == ({"create", "role"} \X Roles)
         \cup ((Ops \ {"idle", "setup", "login", "create", "role"}) \X {"none"})

Next ==
  \/ \E t \in Tx :
       \/ \E p \in People : SetupBegin(t, p) \/ LoginRead(t, p)
       \/ \E p \in People, c \in Credentials : SetupCommit(t, p, c) \/ LoginCommit(t, p, c)
       \/ \E a, u \in Accounts, q \in Asked : Request(t, q[1], a, u, q[2])
       \/ \E u \in Accounts : Read(t, u) \/ Update(t, u) \/ CreateCommit(t, u)
       \/ \E u \in Accounts, c \in Credentials : TokenCommit(t, u, c)
       \/ Check(t) \/ Commit(t) \/ Rollback(t)
  \/ \E a \in Accounts, c \in Credentials : RevokeSession(a, c) \/ RevokeToken(a, c)

Spec == Init /\ [][Next]_vars

-----------------------------------------------------------------------------
(* What must hold.                                                         *)

\* The organisation never loses its last active Owner, by demoting, disabling
\* or both, unless two such changes passed the check at the same moment.
OwnerRemains == setups > 0 /\ ~skewed => ActiveOwner

\* Creating the first Owner happens once, whoever submits the first-run form
\* at the same moment, as long as that Owner was never lost.
SetupOnce == ~skewed => setups <= 1

\* The organisation comes into being with one Owner and keeps one, until two
\* changes passed the owner check side by side.
OwnersHold == OwnerRemains /\ SetupOnce

\* A disabled account stays signed in nowhere, so that restoring it revives
\* no session, unless signing in overlapped the disable.
DisabledSignedOut ==
  ~overlapped => \A c \in Credentials : Live(c) => holder[c] \cap People \cap disabled = {}

\* Ownership is granted and withdrawn by Owners only.
OwnersByOwners ==
  [][\A u \in Accounts :
       /\ ~overlapped /\ role[u] # "none"
       /\ (u \in OwnersIn(role, disabled)) # (u \in OwnersIn(role', disabled'))
       => \E t \in Tx : Target(t, u) /\ (tx[t].rank = "owner" \/ tx[t].op = "restore")]_vars

-----------------------------------------------------------------------------
(* What the source claims and the trigger does not quite ensure.           *)

\* At least one active Owner must always exist.
OwnerAlways == setups > 0 => ActiveOwner

=============================================================================
