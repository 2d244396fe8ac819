------------------------------- MODULE ChatProofs -------------------------------
(* What holds of Chat for any people, channels, names and number of open     *)
(* transactions, for pages and histories of any length: one conversation per *)
(* pair, a complete walk through the history, and positions that only move   *)
(* as far as was read.                                                       *)
EXTENDS Chat, FiniteSetTheorems, WellFoundedInduction, TLAPS

-----------------------------------------------------------------------------
(* Pages.  Newest(S, n) is closed upwards, has something of whatever there   *)
(* is, and is all of it when a page one row longer is not longer.            *)

\* A set of numbers has a least one; one with a bound has a greatest.
LEMMA Least ==
  ASSUME NEW S \in SUBSET Nat, S # {}
  PROVE  \E m \in S : \A k \in S : m <= k
<1> DEFINE R == OpToRel(<, Nat)
<1>1. IsWellFoundedOn(R, Nat)
  BY NatLessThanWellFounded
<1> HIDE DEF R
<1>2. PICK m \in S : \A k \in S : ~(<<k, m>> \in R)
  BY <1>1, WFMin
<1>3. ASSUME NEW k \in S PROVE m <= k
  <2>1. <<k, m>> \in R <=> k < m
    BY DEF R, OpToRel
  <2> QED BY <1>2, <2>1
<1> QED BY <1>3

LEMMA Greatest ==
  ASSUME NEW n \in Nat, NEW S \in SUBSET (1..n), S # {}
  PROVE  \E m \in S : \A k \in S : k <= m
<1> DEFINE T == {n - m : m \in S}
<1>1. \A m \in S : m \in Nat /\ n - m \in Nat
  OBVIOUS
<1>g. T \in SUBSET Nat /\ T # {}
  BY <1>1
<1>2. PICK d \in T : \A k \in T : d <= k
  BY <1>g, Least
<1>3. PICK m \in S : d = n - m
  OBVIOUS
<1>4. ASSUME NEW k \in S PROVE k <= m
  <2>1. n - k \in T
    OBVIOUS
  <2>2. n - m <= n - k
    BY <1>2, <1>3, <2>1
  <2> QED BY <1>1, <2>2
<1> QED BY <1>4

LEMMA IdsAreNaturals == ASSUME NEW S \in SUBSET Ids, NEW m \in S PROVE m \in Nat
  BY DEF Ids

LEMMA IdsFinite ==
  ASSUME NEW S \in SUBSET Ids
  PROVE  IsFiniteSet(S) /\ Cardinality(S) \in Nat
<1>1. IsFiniteSet(Ids)
  BY ChatAssumption, FS_Interval DEF Ids
<1>2. IsFiniteSet(S)
  BY <1>1, FS_Subset
<1> QED BY <1>2, FS_CardinalityType

\* One of the newest, and everything newer, is among the newest.
LEMMA NewestUpwards ==
  ASSUME NEW S \in SUBSET Ids, NEW n \in Nat, NEW o \in Newest(S, n),
         NEW m \in S, o <= m
  PROVE  m \in Newest(S, n)
<1> DEFINE A == {k \in S : k > m}
           B == {k \in S : k > o}
<1>1. A \in SUBSET B /\ B \in SUBSET Ids
  <2>1. o \in S
    BY DEF Newest
  <2>2. \A k \in S : k \in Nat
    BY IdsAreNaturals
  <2> QED BY <2>1, <2>2
<1>2. Cardinality(A) <= Cardinality(B) /\ Cardinality(A) \in Nat /\ Cardinality(B) \in Nat
  BY <1>1, IdsFinite, FS_Subset
<1>3. Cardinality(B) < n
  BY DEF Newest
<1> HIDE DEF A, B
<1>4. Cardinality(A) < n
  BY <1>2, <1>3
<1> QED BY <1>4 DEF Newest, A

LEMMA NewestNonempty ==
  ASSUME NEW S \in SUBSET Ids, S # {}, NEW n \in Nat \ {0}
  PROVE  Newest(S, n) # {}
<1>1. PICK m \in S : \A k \in S : k <= m
  BY ChatAssumption, Greatest DEF Ids
<1>2. {k \in S : k > m} = {}
  BY <1>1, IdsAreNaturals
<1>3. m \in Newest(S, n)
  BY <1>2, FS_EmptySet DEF Newest
<1> QED BY <1>3

\* When there is not one row more than a page, the page is all there is.
LEMMA NewestAll ==
  ASSUME NEW S \in SUBSET Ids, NEW n \in Nat, Cardinality(Newest(S, n + 1)) <= n
  PROVE  Newest(S, n) = S
<1> DEFINE N == Newest(S, n + 1)
<1>0. N \in SUBSET S /\ N \in SUBSET Ids
  BY DEF Newest
<1>1. N = S
  <2> SUFFICES ASSUME S \ N # {} PROVE FALSE
    BY <1>0
  <2>1. PICK m \in S \ N : \A k \in S \ N : k <= m
    BY ChatAssumption, Greatest DEF Ids
  <2> DEFINE A == {k \in S : k > m}
  <2>2. A \in SUBSET N
    BY <2>1, IdsAreNaturals
  <2>3. Cardinality(A) <= Cardinality(N) /\ Cardinality(A) \in Nat /\ Cardinality(N) \in Nat
    BY <1>0, <2>2, IdsFinite, FS_Subset
  <2> HIDE DEF A, N
  <2>4. Cardinality(A) < n + 1
    BY <2>3 DEF N
  <2> QED BY <2>1, <2>4 DEF Newest, A, N
<1>2. ASSUME NEW m \in S PROVE m \in Newest(S, n)
  <2> DEFINE A == {k \in S : k > m}
             R == S \ {m}
  <2>1. Cardinality(R) = Cardinality(S) - 1 /\ R \in SUBSET Ids /\ A \in SUBSET R
    BY IdsFinite, FS_RemoveElement DEF Ids
  <2>2. Cardinality(A) <= Cardinality(R) /\ Cardinality(A) \in Nat /\ Cardinality(S) \in Nat
    BY <2>1, IdsFinite, FS_Subset
  <2> HIDE DEF A, R
  <2>3. Cardinality(A) < n
    BY <1>1, <2>1, <2>2
  <2> QED BY <2>3 DEF Newest, A
<1> QED BY <1>2 DEF Newest

LEMMA OldestType ==
  ASSUME NEW S \in SUBSET Ids, S # {}
  PROVE  Oldest(S) \in S /\ \A k \in S : Oldest(S) <= k
<1>1. S \in SUBSET Nat
  BY DEF Ids
<1>2. \E m \in S : \A k \in S : m <= k
  BY <1>1, Least
<1> QED BY <1>2 DEF Oldest

-----------------------------------------------------------------------------
(* Type correctness, with what an open transaction carries.                  *)

\* What the local state of a request is, by what it asks for.
Fits(l, newest) ==
  /\ l.op # "idle" => /\ \E c \in Channels : l.channel = {c}
                      /\ \E u \in Users : l.user = {u}
  /\ l.op = "open" => l.with \in Pairs /\ l.user \subseteq l.with
  /\ l.op = "create" => l.kind # "direct"
  /\ l.op = "send" => l.id \in 1..newest

TypeInv == TypeOK /\ \A t \in Tx : Fits(tx[t], clock)

LEMMA PairType ==
  ASSUME NEW u \in Users, NEW v \in Users, u # v
  PROVE  {u, v} \in Pairs
<1>1. IsFiniteSet({u}) /\ Cardinality({u}) = 1
  BY FS_Singleton
<1>2. Cardinality({u} \cup {v}) = 2
  BY <1>1, FS_AddElement
<1>3. {u} \cup {v} = {u, v}
  OBVIOUS
<1> QED BY <1>2, <1>3 DEF Pairs

LEMMA IdleType == Idle \in Local /\ Idle.op = "idle" /\ \A n : Fits(Idle, n)
  BY ChatAssumption DEF Idle, Local, Ops, Fits

LEMMA GotoType ==
  ASSUME tx \in [Tx -> Local], NEW t \in Tx, NEW l \in Local, Goto(t, l)
  PROVE  /\ tx' \in [Tx -> Local]
         /\ tx'[t] = l
         /\ \A s \in Tx \ {t} : tx'[s] = tx[s]
  BY DEF Goto

LEMMA NoWalkType ==
  /\ NoWalk \in [on: BOOLEAN, done: BOOLEAN, channel: SUBSET Channels,
                 before: 0..MaxMessages, due: SUBSET Ids, got: [Ids -> Nat]]
  /\ NoWalk.on = FALSE /\ NoWalk.done = FALSE
  /\ NoWalk.got = [m \in Ids |-> 0] /\ NoWalk.before = 0
  BY ChatAssumption DEF NoWalk

LEMMA InitTyped == Init => TypeInv
<1> SUFFICES ASSUME Init PROVE TypeInv
  OBVIOUS
<1>1. \A t \in Tx : tx[t] = Idle
  BY DEF Init
<1>2. tx \in [Tx -> Local]
  BY IdleType DEF Init
<1>3. clock \in 0..MaxMessages /\ message \in [1..clock -> Message]
  <2>1. 1..0 = {}
    OBVIOUS
  <2> QED BY <2>1, ChatAssumption DEF Init
<1>4. /\ enabled \subseteq Users
      /\ kind \in [Channels -> {"free", "public", "private", "direct"}]
      /\ name \in [Channels -> SUBSET Names] /\ creator \in [Channels -> SUBSET Users]
      /\ member \subseteq Channels \X Users /\ direct \in [Pairs -> SUBSET Channels]
      /\ answers \in [Pairs -> SUBSET Channels] /\ overlapped \subseteq Channels
  BY DEF Init
<1>5. visible \subseteq 1..clock /\ pos \in [Channels -> [Users -> visible \cup {0}]]
  BY DEF Init
<1>6. walk = NoWalk
  BY DEF Init
<1>7. TypeOK
  BY <1>2, <1>3, <1>4, <1>5, <1>6, NoWalkType DEF TypeOK
<1> QED BY <1>1, <1>7, IdleType DEF TypeInv

\* A step that sets what one request carries, and no earlier message.
LEMMA RequestStep ==
  ASSUME TypeInv, NEW t \in Tx, NEW l \in Local, Goto(t, l), Fits(l, clock'),
         clock' \in Nat, clock' >= clock
  PROVE  /\ tx' \in [Tx -> Local] /\ tx'[t] = l
         /\ \A s \in Tx \ {t} : tx'[s] = tx[s]
         /\ \A s \in Tx : Fits(tx'[s], clock')
<1>1. /\ tx' \in [Tx -> Local] /\ tx'[t] = l
      /\ \A s \in Tx \ {t} : tx'[s] = tx[s]
  BY GotoType DEF TypeInv, TypeOK
<1>2. ASSUME NEW s \in Tx \ {t} PROVE Fits(tx'[s], clock')
  <2>1. Fits(tx[s], clock) /\ tx[s] \in Local /\ clock \in Nat
    BY ChatAssumption DEF TypeInv, TypeOK
  <2>2. tx[s].op = "send" => tx[s].id \in 1..clock'
    BY <2>1 DEF Fits
  <2> QED BY <1>1, <2>1, <2>2 DEF Fits
<1> QED BY <1>1, <1>2

LEMMA RequestKept ==
  ASSUME TypeInv, NEW t \in Tx, NEW l \in Local, Goto(t, l), Fits(l, clock),
         UNCHANGED <<enabled, rooms, messages, walk, history>>
  PROVE  TypeInv'
<1>1. clock' \in Nat /\ clock' >= clock /\ Fits(l, clock')
  BY ChatAssumption DEF TypeInv, TypeOK, messages, Fits
<1>2. TypeOK'
  BY <1>1, RequestStep DEF TypeInv, TypeOK, rooms, messages, history
<1> QED BY <1>1, <1>2, RequestStep DEF TypeInv

LEMMA DoneKept ==
  ASSUME TypeInv, NEW t \in Tx, Done(t), clock' = clock
  PROVE  /\ tx' \in [Tx -> Local] /\ tx'[t] = Idle
         /\ \A s \in Tx \ {t} : tx'[s] = tx[s]
         /\ \A s \in Tx : Fits(tx'[s], clock')
<1>1. clock' \in Nat /\ clock' >= clock /\ Fits(Idle, clock')
  BY IdleType, ChatAssumption DEF TypeInv, TypeOK, Fits
<1> QED BY <1>1, IdleType, RequestStep DEF Done

LEMMA HistoryType ==
  ASSUME TypeOK
  PROVE  /\ visible \subseteq Ids
         /\ \A c : History(c) \subseteq Ids
         /\ \A c, b : Below(c, b) \subseteq Ids
<1>1. clock \in Nat /\ MaxMessages \in Nat /\ clock <= MaxMessages
  BY ChatAssumption DEF TypeOK
<1>2. 1..clock \subseteq Ids
  BY <1>1 DEF Ids
<1>3. visible \subseteq Ids
  BY <1>2 DEF TypeOK
<1> QED BY <1>3 DEF History, Below

\* What a page of a walk does, when there is more and when there is not.
LEMMA PageStep ==
  ASSUME TypeInv, WalkPage
  PROVE  /\ walk' \in [on: BOOLEAN, done: BOOLEAN, channel: SUBSET Channels,
                       before: 0..MaxMessages, due: SUBSET Ids, got: [Ids -> Nat]]
         /\ UNCHANGED <<walk.on, walk.due, walk.channel>>
         /\ \E c \in walk.channel :
              LET S == Below(c, walk.before)
                  P == Newest(S, PageSize)
              IN  /\ S \in SUBSET Ids
                  /\ \A m \in Ids : walk'.got[m] = IF m \in P THEN walk.got[m] + 1
                                                              ELSE walk.got[m]
                  /\ \/ /\ ~walk'.done /\ P # {} /\ walk'.before = Oldest(P)
                     \/ walk'.done /\ walk'.before = walk.before /\ P = S
<1>0. walk \in [on: BOOLEAN, done: BOOLEAN, channel: SUBSET Channels,
                before: 0..MaxMessages, due: SUBSET Ids, got: [Ids -> Nat]]
  BY DEF TypeInv, TypeOK
<1>1. PICK c \in walk.channel :
        walk' = [walk EXCEPT
                  !.got = [m \in Ids |->
                             IF m \in Page(c, walk.before) THEN @[m] + 1 ELSE @[m]],
                  !.done = ~HasMore(c, walk.before),
                  !.before = IF HasMore(c, walk.before)
                               THEN NextBefore(c, walk.before) ELSE walk.before]
  BY DEF WalkPage
<1> DEFINE S == Below(c, walk.before)
           P == Newest(S, PageSize)
           N == Newest(S, PageSize + 1)
           more == Cardinality(N) > PageSize
<1>2. S \in SUBSET Ids /\ P \in SUBSET S /\ N \in SUBSET S
  BY HistoryType DEF Newest, TypeInv
<1>g. [m \in Ids |-> IF m \in P THEN walk.got[m] + 1 ELSE walk.got[m]] \in [Ids -> Nat]
  BY <1>0
<1>3. walk' = [walk EXCEPT
                 !.got = [m \in Ids |-> IF m \in P THEN walk.got[m] + 1 ELSE walk.got[m]],
                 !.done = ~more,
                 !.before = IF more THEN Oldest(P) ELSE walk.before]
  BY <1>1 DEF Page, HasMore, NextBefore
<1> HIDE DEF S
<1>4. CASE more
  <2>1. S # {}
    <3>1. S = {} => N = {}
      BY <1>2
    <3> QED BY <1>4, <3>1, FS_EmptySet, ChatAssumption
  <2>2. P # {}
    BY <1>2, <2>1, NewestNonempty, ChatAssumption
  <2>3. Oldest(P) \in P
    BY <1>2, <2>2, OldestType
  <2>4. Oldest(P) \in 0..MaxMessages
    <3>1. Oldest(P) \in Ids
      BY <1>2, <2>3
    <3> QED BY <3>1, ChatAssumption DEF Ids
  <2> HIDE DEF more, P
  <2>5. /\ ~walk'.done /\ walk'.before = Oldest(P)
        /\ UNCHANGED <<walk.on, walk.due, walk.channel>>
        /\ walk'.got = [m \in Ids |-> IF m \in P THEN walk.got[m] + 1 ELSE walk.got[m]]
    BY <1>0, <1>3, <1>4
  <2>6. walk' \in [on: BOOLEAN, done: BOOLEAN, channel: SUBSET Channels,
                   before: 0..MaxMessages, due: SUBSET Ids, got: [Ids -> Nat]]
    BY <1>0, <1>g, <1>3, <1>4, <2>4
  <2> QED BY <1>2, <2>2, <2>5, <2>6 DEF P, S
<1>5. CASE ~more
  <2>1. Cardinality(N) <= PageSize
    BY <1>2, <1>5, IdsFinite, ChatAssumption
  <2>2. P = S
    BY <1>2, <2>1, NewestAll, ChatAssumption
  <2> HIDE DEF more, P
  <2>3. /\ walk'.done /\ walk'.before = walk.before
        /\ UNCHANGED <<walk.on, walk.due, walk.channel>>
        /\ walk'.got = [m \in Ids |-> IF m \in P THEN walk.got[m] + 1 ELSE walk.got[m]]
    BY <1>0, <1>3, <1>5
  <2>4. walk' \in [on: BOOLEAN, done: BOOLEAN, channel: SUBSET Channels,
                   before: 0..MaxMessages, due: SUBSET Ids, got: [Ids -> Nat]]
    BY <1>0, <1>g, <1>3, <1>5
  <2> QED BY <1>2, <2>2, <2>3, <2>4 DEF P, S
<1> QED BY <1>4, <1>5

LEMMA NextTyped == TypeInv /\ [Next]_vars => TypeInv'
<1> SUFFICES ASSUME TypeInv, [Next]_vars PROVE TypeInv'
  OBVIOUS
<1>i. Idle \in Local
  BY IdleType
<1>1. ASSUME NEW u \in Users, Disable(u)
      PROVE  TypeInv'
  BY <1>1 DEF Disable, TypeInv, TypeOK, Fits, rooms, messages, history
<1>2. ASSUME NEW t \in Tx, Rollback(t)
      PROVE  TypeInv'
  BY <1>2, IdleType, RequestKept DEF Rollback, Done
<1>3. ASSUME NEW t \in Tx, CreateCommit(t)
      PROVE  TypeInv'
  <2>1. Done(t) /\ UNCHANGED <<enabled, direct, messages, walk, history>>
    BY <1>3 DEF CreateCommit
  <2>2. PICK c \in tx[t].channel :
          /\ kind' = [kind EXCEPT ![c] = tx[t].kind]
          /\ name' = [name EXCEPT ![c] = tx[t].name]
          /\ creator' = [creator EXCEPT ![c] = tx[t].user]
          /\ member' = member \cup ({c} \X FirstMembers(t))
    BY <1>3 DEF CreateCommit
  <2>3. tx[t] \in Local /\ c \in Channels /\ FirstMembers(t) \subseteq Users
    BY <2>2 DEF TypeInv, TypeOK, Local, FirstMembers
  <2>4. /\ kind' \in [Channels -> {"free", "public", "private", "direct"}]
        /\ name' \in [Channels -> SUBSET Names] /\ creator' \in [Channels -> SUBSET Users]
        /\ member' \subseteq Channels \X Users
    BY <2>2, <2>3 DEF TypeInv, TypeOK, Local
  <2>5. clock' = clock
    BY <2>1 DEF messages
  <2>6. TypeOK'
    BY <2>1, <2>4, <2>5, DoneKept DEF TypeInv, TypeOK, messages, history
  <2> QED BY <2>1, <2>5, <2>6, DoneKept DEF TypeInv
<1>4. ASSUME NEW t \in Tx, JoinCommit(t)
      PROVE  TypeInv'
  <2>1. Done(t) /\ UNCHANGED <<enabled, kind, name, creator, direct, messages, walk, history>>
    BY <1>4 DEF JoinCommit
  <2>2. member' \subseteq Channels \X Users
    BY <1>4 DEF JoinCommit, TypeInv, TypeOK, Local
  <2>3. clock' = clock
    BY <2>1 DEF messages
  <2>4. TypeOK'
    BY <2>1, <2>2, <2>3, DoneKept DEF TypeInv, TypeOK, messages, history
  <2> QED BY <2>1, <2>3, <2>4, DoneKept DEF TypeInv
<1>5. ASSUME NEW t \in Tx, OpenLink(t)
      PROVE  TypeInv'
  <2> DEFINE l == [tx[t] EXCEPT !.step = "linked"]
  <2>1. tx[t] \in Local /\ Fits(tx[t], clock)
    BY DEF TypeInv, TypeOK
  <2>2. l \in Local /\ Fits(l, clock)
    BY <2>1 DEF Local, Fits
  <2>3. Goto(t, l) /\ UNCHANGED <<enabled, rooms, messages, walk, history>>
    BY <1>5 DEF OpenLink
  <2> HIDE DEF l
  <2> QED BY <2>2, <2>3, RequestKept
<1>6. ASSUME NEW t \in Tx, OpenConflict(t)
      PROVE  TypeInv'
  <2>1. Done(t) /\ UNCHANGED <<enabled, rooms, messages, walk, overlapped>>
    BY <1>6 DEF OpenConflict
  <2>2. tx[t].with \in Pairs
    BY <1>6 DEF OpenConflict, In, TypeInv, Fits
  <2>3. answers' \in [Pairs -> SUBSET Channels]
    BY <1>6, <2>2 DEF OpenConflict, Told, TypeInv, TypeOK
  <2>4. clock' = clock
    BY <2>1 DEF messages
  <2>5. TypeOK'
    BY <2>1, <2>3, <2>4, DoneKept DEF TypeInv, TypeOK, rooms, messages
  <2> QED BY <2>1, <2>4, <2>5, DoneKept DEF TypeInv
<1>7. ASSUME NEW t \in Tx, OpenCommit(t)
      PROVE  TypeInv'
  <2>1. Done(t) /\ UNCHANGED <<enabled, name, messages, walk, overlapped>>
    BY <1>7 DEF OpenCommit
  <2>2. tx[t] \in Local /\ tx[t].with \in Pairs
    BY <1>7 DEF OpenCommit, In, TypeInv, TypeOK, Fits
  <2>3. /\ answers' \in [Pairs -> SUBSET Channels] /\ direct' \in [Pairs -> SUBSET Channels]
        /\ member' \subseteq Channels \X Users
    BY <1>7, <2>2 DEF OpenCommit, Told, TypeInv, TypeOK, Local
  <2>4. /\ kind' \in [Channels -> {"free", "public", "private", "direct"}]
        /\ creator' \in [Channels -> SUBSET Users]
    BY <1>7, <2>2 DEF OpenCommit, TypeInv, TypeOK, Local
  <2>5. clock' = clock
    BY <2>1 DEF messages
  <2>6. TypeOK'
    BY <2>1, <2>3, <2>4, <2>5, DoneKept DEF TypeInv, TypeOK, messages
  <2> QED BY <2>1, <2>5, <2>6, DoneKept DEF TypeInv
<1>8. ASSUME NEW t \in Tx, SendCommit(t)
      PROVE  TypeInv'
  <2>1. /\ Done(t) /\ UNCHANGED <<enabled, rooms, clock, message, walk, history>>
        /\ visible' = visible \cup {tx[t].id}
    BY <1>8 DEF SendCommit
  <2>2. tx[t] \in Local /\ tx[t].id \in 1..clock
    BY <1>8 DEF SendCommit, In, TypeInv, TypeOK, Fits
  <2>3. PICK c \in Channels, u \in Users : pos' = [pos EXCEPT ![c][u] = tx[t].id]
    BY <1>8, <2>2 DEF SendCommit, OwnPosition, Local
  <2>4. visible' \subseteq 1..clock /\ pos \in [Channels -> [Users -> visible' \cup {0}]]
    <3>1. visible \subseteq 1..clock /\ pos \in [Channels -> [Users -> visible \cup {0}]]
      BY DEF TypeInv, TypeOK
    <3>2. visible \cup {0} \subseteq visible' \cup {0}
      BY <2>1
    <3> QED BY <2>1, <2>2, <3>1, <3>2
  <2>5. pos' \in [Channels -> [Users -> visible' \cup {0}]]
    BY <2>1, <2>3, <2>4
  <2>6. TypeOK'
    BY <2>1, <2>4, <2>5, DoneKept DEF TypeInv, TypeOK, rooms, history
  <2> QED BY <2>1, <2>6, DoneKept DEF TypeInv
<1>9. ASSUME NEW t \in Tx, NEW u \in Users, NEW c \in Channels, JoinLoad(t, u, c)
      PROVE  TypeInv'
  <2> DEFINE l == [Idle EXCEPT !.op = "join", !.user = {u}, !.channel = {c}]
  <2>1. l \in Local /\ Fits(l, clock)
    BY <1>i DEF Local, Ops, Fits
  <2>2. Goto(t, l) /\ UNCHANGED <<enabled, rooms, messages, walk, history>>
    BY <1>9 DEF JoinLoad
  <2> HIDE DEF l
  <2> QED BY <2>1, <2>2, RequestKept
<1>10. ASSUME NEW t \in Tx, NEW u \in Users, NEW c \in Channels, SendInsert(t, u, c)
       PROVE  TypeInv'
  <2> DEFINE l == [Idle EXCEPT !.op = "send", !.user = {u}, !.channel = {c}, !.id = clock + 1]
             n == [channel |-> c, author |-> u]
  <2>1. /\ Goto(t, l) /\ UNCHANGED <<enabled, rooms, visible, pos, walk, answers>>
        /\ clock' = clock + 1 /\ clock < MaxMessages
        /\ message' = [m \in 1..clock' |-> IF m = clock' THEN n ELSE message[m]]
    BY <1>10 DEF SendInsert
  <2>2. clock \in Nat /\ clock + 1 \in 0..MaxMessages /\ clock + 1 \in 1..(clock + 1)
    BY <2>1, ChatAssumption DEF TypeInv, TypeOK
  <2>3. l \in Local /\ Fits(l, clock')
    BY <1>i, <2>1, <2>2 DEF Local, Ops, Fits
  <2>4. message' \in [1..clock' -> Message]
    <3>1. n \in Message /\ \A m \in 1..clock : message[m] \in Message
      BY DEF Message, TypeInv, TypeOK
    <3>2. \A m \in 1..clock' : m = clock' \/ m \in 1..clock
      BY <2>1, <2>2
    <3> HIDE DEF n
    <3> QED BY <2>1, <3>1, <3>2
  <2> HIDE DEF l
  <2>5. clock' \in Nat /\ clock' >= clock /\ visible \subseteq 1..clock'
    BY <2>1, <2>2 DEF TypeInv, TypeOK
  <2>6. overlapped' \subseteq Channels
    BY <1>10 DEF SendInsert, TypeInv, TypeOK
  <2>7. tx' \in [Tx -> Local] /\ \A s \in Tx : Fits(tx'[s], clock')
    BY <2>1, <2>3, <2>5, RequestStep
  <2>8. TypeOK'
    BY <2>1, <2>2, <2>4, <2>5, <2>6, <2>7 DEF TypeInv, TypeOK, rooms
  <2> QED BY <2>7, <2>8 DEF TypeInv
<1>11. ASSUME NEW t \in Tx, NEW u \in Users, NEW v \in Users, NEW c \in Channels,
              OpenMissing(t, u, v, c)
       PROVE  TypeInv'
  <2> DEFINE l == [Idle EXCEPT !.op = "open", !.user = {u}, !.channel = {c},
                               !.with = {u, v}]
  <2>1. Goto(t, l) /\ UNCHANGED <<enabled, rooms, messages, walk, history>> /\ u # v
    BY <1>11 DEF OpenMissing
  <2>2. l \in Local /\ Fits(l, clock)
    BY <1>i, <2>1, PairType DEF Local, Ops, Fits
  <2> HIDE DEF l
  <2> QED BY <2>1, <2>2, RequestKept
<1>12. ASSUME NEW t \in Tx, NEW u \in Users, NEW c \in Channels,
              NEW k \in {"public", "private"}, NEW n \in Names, NEW S \in SUBSET Users,
              CreateInsert(t, u, c, k, n, S)
       PROVE  TypeInv'
  <2> DEFINE l == [Idle EXCEPT !.op = "create", !.user = {u}, !.channel = {c},
                               !.with = S, !.kind = k, !.name = {n}]
  <2>1. Goto(t, l) /\ UNCHANGED <<enabled, rooms, messages, walk, history>>
    BY <1>12 DEF CreateInsert
  <2>2. l \in Local /\ Fits(l, clock)
    BY <1>i DEF Local, Ops, Fits
  <2> HIDE DEF l
  <2> QED BY <2>1, <2>2, RequestKept
<1>13. ASSUME NEW u \in Users, NEW v \in Users, OpenExisting(u, v)
       PROVE  TypeInv'
  <2>1. UNCHANGED <<enabled, rooms, messages, tx, walk, overlapped>>
    BY <1>13 DEF OpenExisting
  <2>2. answers' \in [Pairs -> SUBSET Channels]
    BY <1>13, PairType DEF OpenExisting, Told, TypeInv, TypeOK
  <2> QED BY <2>1, <2>2 DEF TypeInv, TypeOK, Fits, rooms, messages
<1>14. ASSUME NEW u \in Users, NEW c \in Channels, NEW m \in Ids, MarkRead(u, c, m)
       PROVE  TypeInv'
  <2>1. pos' \in [Channels -> [Users -> visible \cup {0}]]
    BY <1>14 DEF MarkRead, History, TypeInv, TypeOK
  <2> QED BY <1>14, <2>1 DEF MarkRead, TypeInv, TypeOK, Fits, rooms, history
<1>15. ASSUME NEW u \in Users, NEW c \in Channels, WalkBegin(u, c)
       PROVE  TypeInv'
  <2>1. History(c) \in SUBSET Ids
    BY HistoryType DEF TypeInv
  <2>2. walk' \in [on: BOOLEAN, done: BOOLEAN, channel: SUBSET Channels,
                   before: 0..MaxMessages, due: SUBSET Ids, got: [Ids -> Nat]]
    BY <1>15, <2>1, NoWalkType DEF WalkBegin
  <2> QED BY <1>15, <2>2 DEF WalkBegin, TypeInv, TypeOK, Fits, rooms, messages, history
<1>16. ASSUME WalkPage
       PROVE  TypeInv'
  <2>1. walk' \in [on: BOOLEAN, done: BOOLEAN, channel: SUBSET Channels,
                   before: 0..MaxMessages, due: SUBSET Ids, got: [Ids -> Nat]]
    BY <1>16, PageStep
  <2> QED BY <1>16, <2>1 DEF WalkPage, TypeInv, TypeOK, Fits, rooms, messages, history
<1>17. ASSUME WalkEnd
       PROVE  TypeInv'
  BY <1>17, NoWalkType DEF WalkEnd, TypeInv, TypeOK, Fits, rooms, messages, history
<1>18. CASE UNCHANGED vars
  BY <1>18 DEF vars, TypeInv, TypeOK, Fits, rooms, messages, history
<1> QED BY <1>1, <1>2, <1>3, <1>4, <1>5, <1>6, <1>7, <1>8, <1>9, <1>10, <1>11, <1>12,
           <1>13, <1>14, <1>15, <1>16, <1>17, <1>18 DEF Next

\* Every channel, message, position and request has its shape.
THEOREM Typed == Spec => []TypeOK
<1>1. Init => TypeInv
  BY InitTyped
<1>2. TypeInv /\ [Next]_vars => TypeInv'
  BY NextTyped
<1>3. TypeInv => TypeOK
  BY DEF TypeInv
<1> QED BY <1>1, <1>2, <1>3, PTL DEF Spec

-----------------------------------------------------------------------------
(* What each request leaves in tx.                                           *)

LEMMA JoinLoads ==
  ASSUME TypeInv, NEW t \in Tx, NEW u \in Users, NEW c \in Channels, JoinLoad(t, u, c)
  PROVE  /\ tx'[t].op = "join" /\ \A s \in Tx \ {t} : tx'[s] = tx[s]
         /\ UNCHANGED <<enabled, rooms, messages, walk, history>>
<1> DEFINE l == [Idle EXCEPT !.op = "join", !.user = {u}, !.channel = {c}]
<1>1. l \in Local /\ l.op = "join"
  BY IdleType DEF Local, Ops
<1>2. Goto(t, l) /\ UNCHANGED <<enabled, rooms, messages, walk, history>>
  BY DEF JoinLoad
<1> HIDE DEF l
<1> QED BY <1>1, <1>2, GotoType DEF TypeInv, TypeOK

LEMMA SendInserts ==
  ASSUME TypeInv, NEW t \in Tx, NEW u \in Users, NEW c \in Channels, SendInsert(t, u, c)
  PROVE  /\ tx'[t].op = "send" /\ tx'[t].channel = {c} /\ tx'[t].user = {u}
         /\ tx'[t].id = clock + 1 /\ clock + 1 \in Nat \ 0..clock
         /\ \A s \in Tx \ {t} : tx'[s] = tx[s]
         /\ message'[clock + 1] = [channel |-> c, author |-> u]
         /\ \A m \in 1..clock : message'[m] = message[m]
         /\ UNCHANGED <<enabled, rooms, visible, pos, walk, answers>>
<1> DEFINE l == [Idle EXCEPT !.op = "send", !.user = {u}, !.channel = {c}, !.id = clock + 1]
<1>1. /\ clock \in Nat /\ clock + 1 \in 0..MaxMessages /\ clock' = clock + 1
      /\ message' = [m \in 1..clock' |->
                       IF m = clock' THEN [channel |-> c, author |-> u] ELSE message[m]]
  BY ChatAssumption DEF SendInsert, TypeInv, TypeOK
<1>2. l \in Local /\ l.op = "send" /\ l.channel = {c} /\ l.user = {u} /\ l.id = clock + 1
  BY <1>1, IdleType DEF Local, Ops
<1>3. Goto(t, l) /\ UNCHANGED <<enabled, rooms, visible, pos, walk, answers>>
  BY DEF SendInsert
<1> HIDE DEF l
<1>4. tx'[t] = l /\ \A s \in Tx \ {t} : tx'[s] = tx[s]
  BY <1>2, <1>3, GotoType DEF TypeInv, TypeOK
<1>5. \A m \in 1..clock : m \in 1..clock' /\ m # clock'
  BY <1>1
<1>6. clock + 1 \in 1..clock' /\ clock + 1 \in Nat \ 0..clock
  BY <1>1
<1> QED BY <1>1, <1>2, <1>3, <1>4, <1>5, <1>6

LEMMA OpenInserts ==
  ASSUME TypeInv, NEW t \in Tx, NEW u \in Users, NEW v \in Users, NEW c \in Channels,
         OpenMissing(t, u, v, c)
  PROVE  /\ tx'[t].op = "open" /\ tx'[t].step = "begun"
         /\ \A s \in Tx \ {t} : tx'[s] = tx[s]
         /\ UNCHANGED <<enabled, rooms, messages, walk, history>>
<1> DEFINE l == [Idle EXCEPT !.op = "open", !.user = {u}, !.channel = {c}, !.with = {u, v}]
<1>1. l \in Local /\ l.op = "open" /\ l.step = "begun"
  BY IdleType DEF Local, Ops, Idle
<1>2. Goto(t, l) /\ UNCHANGED <<enabled, rooms, messages, walk, history>>
  BY DEF OpenMissing
<1> HIDE DEF l
<1> QED BY <1>1, <1>2, GotoType DEF TypeInv, TypeOK

LEMMA OpenLinks ==
  ASSUME TypeInv, NEW t \in Tx, OpenLink(t)
  PROVE  /\ tx'[t].op = "open" /\ tx'[t].with = tx[t].with
         /\ direct[tx[t].with] = {} /\ ~PairHeld(tx[t].with)
         /\ \A s \in Tx \ {t} : tx'[s] = tx[s]
         /\ UNCHANGED <<enabled, rooms, messages, walk, history>>
<1> DEFINE l == [tx[t] EXCEPT !.step = "linked"]
<1>1. /\ tx[t] \in Local /\ tx[t].op = "open" /\ Goto(t, l)
      /\ direct[tx[t].with] = {} /\ ~PairHeld(tx[t].with)
      /\ UNCHANGED <<enabled, rooms, messages, walk, history>>
  BY DEF OpenLink, In, TypeInv, TypeOK
<1>2. l \in Local /\ l.op = "open" /\ l.with = tx[t].with
  BY <1>1 DEF Local
<1> HIDE DEF l
<1> QED BY <1>1, <1>2, GotoType DEF TypeInv, TypeOK

LEMMA CreateInserts ==
  ASSUME TypeInv, NEW t \in Tx, NEW u \in Users, NEW c \in Channels,
         NEW k \in {"public", "private"}, NEW n \in Names, NEW S \in SUBSET Users,
         CreateInsert(t, u, c, k, n, S)
  PROVE  /\ tx'[t].op = "create" /\ tx'[t].name = {n} /\ NameFree(n)
         /\ \A s \in Tx \ {t} : tx'[s] = tx[s]
         /\ UNCHANGED <<enabled, rooms, messages, walk, history>>
<1> DEFINE l == [Idle EXCEPT !.op = "create", !.user = {u}, !.channel = {c},
                             !.with = S, !.kind = k, !.name = {n}]
<1>1. l \in Local /\ l.op = "create" /\ l.name = {n}
  BY IdleType DEF Local, Ops
<1>2. /\ Goto(t, l) /\ NameFree(n)
      /\ UNCHANGED <<enabled, rooms, messages, walk, history>>
  BY DEF CreateInsert
<1> HIDE DEF l
<1> QED BY <1>1, <1>2, GotoType DEF TypeInv, TypeOK

\* A request that ends: it carries nothing, the others what they did.
LEMMA Ends ==
  ASSUME TypeInv, NEW t \in Tx, Done(t)
  PROVE  tx'[t].op = "idle" /\ \A s \in Tx \ {t} : tx'[s] = tx[s]
<1>1. tx'[t] = Idle /\ \A s \in Tx \ {t} : tx'[s] = tx[s]
  BY IdleType, GotoType DEF Done, TypeInv, TypeOK
<1> QED BY <1>1, IdleType

-----------------------------------------------------------------------------
(* The conversation of a pair: a transaction that has linked one is the only *)
(* one of its pair, and the pair has none yet.                               *)

LinkInv ==
  /\ \A t \in Tx : In(t, "open", "linked") => direct[tx[t].with] = {}
  /\ \A s, t \in Tx : /\ In(s, "open", "linked") /\ In(t, "open", "linked")
                      /\ tx[s].with = tx[t].with
                      => s = t

OneEach == \A p \in Pairs : direct[p] = {} \/ \E c \in Channels : direct[p] = {c}

AnswersHold ==
  \A p \in Pairs : answers[p] \subseteq direct[p] /\ direct[p] \X p \subseteq member

NoneLeftOver ==
  \A c \in Channels : kind[c] = "direct" => \E p \in Pairs : direct[p] = {c}

ConversationInv == LinkInv /\ OneEach /\ AnswersHold /\ NoneLeftOver

LEMMA InitConversation == Init => ConversationInv
<1> SUFFICES ASSUME Init PROVE ConversationInv
  OBVIOUS
<1>1. \A t \in Tx : tx[t].op = "idle"
  BY IdleType DEF Init
<1>2. \A c \in Channels : kind[c] = "free"
  BY DEF Init
<1>3. \A p \in Pairs : direct[p] = {} /\ answers[p] = {}
  BY DEF Init
<1> QED BY <1>1, <1>2, <1>3
        DEF ConversationInv, LinkInv, OneEach, AnswersHold, NoneLeftOver, In

\* A step that links nothing and makes no conversation.
LEMMA ConversationKept ==
  ASSUME ConversationInv, UNCHANGED <<direct, answers>>, member \subseteq member',
         \A c \in Channels : kind'[c] = "direct" => kind[c] = "direct",
         \A s \in Tx : In(s, "open", "linked")' =>
                       In(s, "open", "linked") /\ tx'[s].with = tx[s].with
  PROVE  ConversationInv'
<1>1. LinkInv'
  BY DEF ConversationInv, LinkInv
<1>2. OneEach' /\ AnswersHold'
  BY DEF ConversationInv, OneEach, AnswersHold
<1>3. NoneLeftOver'
  BY DEF ConversationInv, NoneLeftOver
<1> QED BY <1>1, <1>2, <1>3 DEF ConversationInv

LEMMA NextConversation == TypeInv /\ ConversationInv /\ [Next]_vars => ConversationInv'
<1> SUFFICES ASSUME TypeInv, ConversationInv, [Next]_vars PROVE ConversationInv'
  OBVIOUS
<1>u. ASSUME UNCHANGED <<kind, direct, member, answers, tx>>
      PROVE  ConversationInv'
  BY <1>u, ConversationKept DEF In
<1>1. ASSUME NEW u \in Users, Disable(u)
      PROVE  ConversationInv'
  BY <1>u, <1>1 DEF Disable, rooms, history
<1>2. ASSUME NEW t \in Tx, Rollback(t)
      PROVE  ConversationInv'
  BY <1>2, Ends, ConversationKept DEF Rollback, rooms, history, In
<1>3. ASSUME NEW t \in Tx, CreateCommit(t)
      PROVE  ConversationInv'
  <2>1. Done(t) /\ UNCHANGED <<direct, answers>> /\ member \subseteq member'
    BY <1>3 DEF CreateCommit, history
  <2>2. \E c \in tx[t].channel : kind' = [kind EXCEPT ![c] = tx[t].kind]
    BY <1>3 DEF CreateCommit
  <2>3. tx[t].kind # "direct"
    BY <1>3 DEF CreateCommit, In, TypeInv, Fits
  <2>4. \A c \in Channels : kind'[c] = "direct" => kind[c] = "direct"
    BY <2>2, <2>3 DEF TypeInv, TypeOK
  <2> QED BY <2>1, <2>4, Ends, ConversationKept DEF In
<1>4. ASSUME NEW t \in Tx, JoinCommit(t)
      PROVE  ConversationInv'
  BY <1>4, Ends, ConversationKept DEF JoinCommit, history, In
<1>5. ASSUME NEW t \in Tx, OpenLink(t)
      PROVE  ConversationInv'
  <2>1. UNCHANGED <<kind, direct, member, answers>>
    BY <1>5, OpenLinks DEF rooms, history
  <2>2. LinkInv'
    BY <1>5, <2>1, OpenLinks DEF ConversationInv, LinkInv, In, PairHeld
  <2> QED BY <2>1, <2>2 DEF ConversationInv, OneEach, AnswersHold, NoneLeftOver
<1>6. ASSUME NEW p \in Pairs, Told(p, direct[p]), UNCHANGED <<kind, direct, member>>,
             \A s \in Tx : In(s, "open", "linked")' =>
                           In(s, "open", "linked") /\ tx'[s].with = tx[s].with
      PROVE  ConversationInv'
  <2>1. LinkInv'
    BY <1>6 DEF ConversationInv, LinkInv
  <2>2. AnswersHold'
    BY <1>6 DEF ConversationInv, AnswersHold, Told, TypeInv, TypeOK
  <2> QED BY <1>6, <2>1, <2>2 DEF ConversationInv, OneEach, NoneLeftOver
<1>7. ASSUME NEW t \in Tx, OpenConflict(t)
      PROVE  ConversationInv'
  <2>1. /\ tx[t].with \in Pairs /\ Done(t) /\ UNCHANGED <<kind, direct, member>>
        /\ Told(tx[t].with, direct[tx[t].with])
    BY <1>7 DEF OpenConflict, In, TypeInv, Fits, rooms
  <2> QED BY <1>6, <2>1, Ends DEF In
<1>8. ASSUME NEW t \in Tx, OpenCommit(t)
      PROVE  ConversationInv'
  <2>1. /\ tx[t].with \in Pairs /\ Done(t) /\ In(t, "open", "linked")
        /\ member' = member \cup (tx[t].channel \X tx[t].with)
        /\ direct' = [direct EXCEPT ![tx[t].with] = tx[t].channel]
        /\ answers' = [answers EXCEPT ![tx[t].with] = @ \cup tx[t].channel]
    BY <1>8 DEF OpenCommit, In, TypeInv, Fits, Told
  <2>2. PICK c \in Channels : tx[t].channel = {c}
    BY <2>1 DEF In, TypeInv, Fits
  <2>3. kind' = [kind EXCEPT ![c] = "direct"]
    BY <1>8, <2>2 DEF OpenCommit
  <2> DEFINE p == tx[t].with
  <2>4. direct[p] = {} /\ direct'[p] = {c} /\ \A q \in Pairs \ {p} : direct'[q] = direct[q]
    BY <2>1, <2>2 DEF ConversationInv, LinkInv, TypeInv, TypeOK
  <2>5. /\ answers'[p] = answers[p] \cup {c}
        /\ \A q \in Pairs \ {p} : answers'[q] = answers[q]
    BY <2>1, <2>2 DEF TypeInv, TypeOK
  <2>6. LinkInv'
    <3>1. \A s \in Tx : In(s, "open", "linked")' =>
                   s # t /\ tx'[s] = tx[s] /\ In(s, "open", "linked")
      BY <2>1, Ends DEF In
    <3>2. ASSUME NEW s \in Tx, In(s, "open", "linked")'
          PROVE  direct'[tx'[s].with] = {}
      <4>1. tx[s].with # p /\ tx[s].with \in Pairs
        BY <2>1, <3>1, <3>2 DEF ConversationInv, LinkInv, In, TypeInv, Fits
      <4> QED BY <2>4, <3>1, <3>2, <4>1 DEF ConversationInv, LinkInv
    <3> QED BY <3>1, <3>2 DEF ConversationInv, LinkInv
  <2>7. OneEach'
    BY <2>1, <2>4 DEF ConversationInv, OneEach
  <2>8. AnswersHold'
    BY <2>1, <2>2, <2>4, <2>5 DEF ConversationInv, AnswersHold
  <2>9. NoneLeftOver'
    <3> SUFFICES ASSUME NEW d \in Channels, kind'[d] = "direct"
                 PROVE  \E q \in Pairs : direct'[q] = {d}
      BY DEF NoneLeftOver
    <3>1. CASE d = c
      BY <2>1, <2>4, <3>1
    <3>2. CASE d # c
      <4>1. kind[d] = "direct"
        BY <2>3, <3>2 DEF TypeInv, TypeOK
      <4>2. PICK q \in Pairs : direct[q] = {d}
        BY <4>1 DEF ConversationInv, NoneLeftOver
      <4> QED BY <2>4, <4>2
    <3> QED BY <3>1, <3>2
  <2> QED BY <2>6, <2>7, <2>8, <2>9 DEF ConversationInv
<1>9. ASSUME NEW t \in Tx, SendCommit(t)
      PROVE  ConversationInv'
  BY <1>9, Ends, ConversationKept DEF SendCommit, rooms, history, In
<1>10. ASSUME NEW t \in Tx, NEW u \in Users, NEW c \in Channels,
              JoinLoad(t, u, c)
       PROVE  ConversationInv'
  BY <1>10, JoinLoads, ConversationKept DEF rooms, history, In
<1>11. ASSUME NEW t \in Tx, NEW u \in Users, NEW c \in Channels,
              SendInsert(t, u, c)
       PROVE  ConversationInv'
  BY <1>11, SendInserts, ConversationKept DEF rooms, In
<1>12. ASSUME NEW t \in Tx, NEW u \in Users, NEW v \in Users, NEW c \in Channels,
              OpenMissing(t, u, v, c)
       PROVE  ConversationInv'
  BY <1>12, OpenInserts, ConversationKept DEF rooms, history, In
<1>13. ASSUME NEW t \in Tx, NEW u \in Users, NEW c \in Channels,
              NEW k \in {"public", "private"}, NEW n \in Names, NEW S \in SUBSET Users,
              CreateInsert(t, u, c, k, n, S)
       PROVE  ConversationInv'
  BY <1>13, CreateInserts, ConversationKept DEF rooms, history, In
<1>14. ASSUME NEW u \in Users, NEW v \in Users, OpenExisting(u, v)
       PROVE  ConversationInv'
  <2>1. {u, v} \in Pairs /\ Told({u, v}, direct[{u, v}])
    BY <1>14, PairType DEF OpenExisting
  <2>2. UNCHANGED <<kind, direct, member, tx>>
    BY <1>14 DEF OpenExisting, rooms
  <2> QED BY <1>6, <2>1, <2>2 DEF In
<1>15. ASSUME NEW u \in Users, NEW c \in Channels, NEW m \in Ids, MarkRead(u, c, m)
       PROVE  ConversationInv'
  BY <1>u, <1>15 DEF MarkRead, rooms, history
<1>16. ASSUME WalkPage \/ WalkEnd \/ \E u \in Users, c \in Channels : WalkBegin(u, c)
       PROVE  ConversationInv'
  BY <1>u, <1>16 DEF WalkPage, WalkEnd, WalkBegin, rooms, history
<1>17. CASE UNCHANGED vars
  BY <1>u, <1>17 DEF vars, rooms, history
<1> QED BY <1>1, <1>2, <1>3, <1>4, <1>5, <1>7, <1>8, <1>9, <1>10, <1>11, <1>12,
           <1>13, <1>14, <1>15, <1>16, <1>17 DEF Next

-----------------------------------------------------------------------------
(* Names and creators: an insert that waits to commit holds a name nobody    *)
(* else has.                                                                 *)

NameInv ==
  /\ NamesUnique
  /\ \A t \in Tx : tx[t].op = "create" => \A c \in Channels : name[c] \cap tx[t].name = {}
  /\ \A s, t \in Tx : /\ tx[s].op = "create" /\ tx[t].op = "create"
                      /\ tx[s].name \cap tx[t].name # {}
                      => s = t

LEMMA InitNames == Init => NameInv
<1> SUFFICES ASSUME Init PROVE NameInv
  OBVIOUS
<1>1. \A t \in Tx : tx[t].op = "idle"
  BY IdleType DEF Init
<1>2. \A c \in Channels : name[c] = {}
  BY DEF Init
<1> QED BY <1>1, <1>2 DEF NameInv, NamesUnique

\* A step that takes no name.
LEMMA NamesKept ==
  ASSUME NameInv, UNCHANGED name,
         \A s \in Tx : tx'[s].op = "create" =>
                       tx[s].op = "create" /\ tx'[s].name = tx[s].name
  PROVE  NameInv'
<1>1. NamesUnique'
  BY DEF NameInv, NamesUnique
<1> QED BY <1>1 DEF NameInv

LEMMA NextNames == TypeInv /\ NameInv /\ [Next]_vars => NameInv'
<1> SUFFICES ASSUME TypeInv, NameInv, [Next]_vars PROVE NameInv'
  OBVIOUS
<1>u. ASSUME UNCHANGED <<name, tx>>
      PROVE  NameInv'
  BY <1>u, NamesKept
<1>1. ASSUME NEW u \in Users, Disable(u)
      PROVE  NameInv'
  BY <1>u, <1>1 DEF Disable, rooms
<1>2. ASSUME NEW t \in Tx, Done(t), UNCHANGED name
      PROVE  NameInv'
  BY <1>2, Ends, NamesKept
<1>3. ASSUME NEW t \in Tx, Rollback(t) \/ JoinCommit(t) \/ OpenConflict(t) \/ OpenCommit(t)
                            \/ SendCommit(t)
      PROVE  NameInv'
  BY <1>2, <1>3 DEF Rollback, JoinCommit, OpenConflict, OpenCommit, SendCommit, rooms
<1>4. ASSUME NEW t \in Tx, CreateCommit(t)
      PROVE  NameInv'
  <2>1. Done(t) /\ tx[t].op = "create"
    BY <1>4 DEF CreateCommit, In
  <2>2. PICK c \in Channels : name' = [name EXCEPT ![c] = tx[t].name]
    <3>1. tx[t].channel \subseteq Channels
      BY DEF TypeInv, TypeOK, Local
    <3> QED BY <1>4, <3>1 DEF CreateCommit
  <2>3. name'[c] = tx[t].name /\ \A d \in Channels \ {c} : name'[d] = name[d]
    BY <2>2 DEF TypeInv, TypeOK
  <2>4. \A s \in Tx : tx'[s].op = "create" => s # t /\ tx'[s] = tx[s]
    BY <2>1, Ends
  <2>5. NamesUnique'
    BY <2>1, <2>3 DEF NameInv, NamesUnique
  <2>6. ASSUME NEW s \in Tx, tx'[s].op = "create", NEW d \in Channels
        PROVE  name'[d] \cap tx'[s].name = {}
    <3>1. s # t /\ tx'[s] = tx[s] /\ tx[s].op = "create"
      BY <2>4, <2>6
    <3>2. tx[t].name \cap tx[s].name = {}
      BY <2>1, <3>1 DEF NameInv
    <3>3. name[d] \cap tx[s].name = {}
      BY <3>1 DEF NameInv
    <3> QED BY <2>3, <3>1, <3>2, <3>3
  <2> QED BY <2>4, <2>5, <2>6 DEF NameInv
<1>5. ASSUME NEW t \in Tx, OpenLink(t)
      PROVE  NameInv'
  BY <1>5, OpenLinks, NamesKept DEF rooms
<1>6. ASSUME NEW t \in Tx, NEW u \in Users, NEW c \in Channels,
             JoinLoad(t, u, c)
      PROVE  NameInv'
  BY <1>6, JoinLoads, NamesKept DEF rooms
<1>7. ASSUME NEW t \in Tx, NEW u \in Users, NEW c \in Channels,
             SendInsert(t, u, c)
      PROVE  NameInv'
  BY <1>7, SendInserts, NamesKept DEF rooms
<1>8. ASSUME NEW t \in Tx, NEW u \in Users, NEW v \in Users, NEW c \in Channels,
             OpenMissing(t, u, v, c)
      PROVE  NameInv'
  BY <1>8, OpenInserts, NamesKept DEF rooms
<1>9. ASSUME NEW t \in Tx, NEW u \in Users, NEW c \in Channels,
             NEW k \in {"public", "private"}, NEW n \in Names, NEW S \in SUBSET Users,
             CreateInsert(t, u, c, k, n, S)
      PROVE  NameInv'
  <2>1. /\ tx'[t].op = "create" /\ tx'[t].name = {n} /\ NameFree(n)
        /\ \A s \in Tx \ {t} : tx'[s] = tx[s]
        /\ name' = name
    BY <1>9, CreateInserts DEF rooms
  <2>2. NamesUnique'
    BY <2>1 DEF NameInv, NamesUnique
  <2>3. ASSUME NEW s \in Tx, tx'[s].op = "create", NEW d \in Channels
        PROVE  name'[d] \cap tx'[s].name = {}
    <3>1. CASE s = t
      BY <2>1, <3>1 DEF NameFree
    <3>2. CASE s # t
      BY <2>1, <2>3, <3>2 DEF NameInv
    <3> QED BY <3>1, <3>2
  <2>4. ASSUME NEW s \in Tx, NEW r \in Tx, tx'[s].op = "create", tx'[r].op = "create",
               tx'[s].name \cap tx'[r].name # {}, s # r
        PROVE  FALSE
    <3>1. CASE s # t /\ r # t
      BY <2>1, <2>4, <3>1 DEF NameInv
    <3>2. CASE s = t
      BY <2>1, <2>4, <3>2 DEF NameFree
    <3>3. CASE r = t
      BY <2>1, <2>4, <3>3 DEF NameFree
    <3> QED BY <3>1, <3>2, <3>3
  <2> QED BY <2>2, <2>3, <2>4 DEF NameInv
<1>10. ASSUME NEW u \in Users, NEW v \in Users, OpenExisting(u, v)
       PROVE  NameInv'
  BY <1>u, <1>10 DEF OpenExisting, rooms
<1>11. ASSUME NEW u \in Users, NEW c \in Channels, NEW m \in Ids, MarkRead(u, c, m)
       PROVE  NameInv'
  BY <1>u, <1>11 DEF MarkRead, rooms
<1>12. ASSUME WalkPage \/ WalkEnd \/ \E u \in Users, c \in Channels : WalkBegin(u, c)
       PROVE  NameInv'
  BY <1>u, <1>12 DEF WalkPage, WalkEnd, WalkBegin, rooms
<1>13. CASE UNCHANGED vars
  BY <1>u, <1>13 DEF vars, rooms
<1> QED BY <1>1, <1>3, <1>4, <1>5, <1>6, <1>7, <1>8, <1>9, <1>10, <1>11, <1>12, <1>13
        DEF Next

\* The three commits and Disable are all that touches members and accounts.
LEMMA RoomSteps ==
  ASSUME [Next]_vars
  PROVE  \/ \E t \in Tx : CreateCommit(t) \/ JoinCommit(t) \/ OpenCommit(t)
         \/ \E u \in Users : Disable(u)
         \/ UNCHANGED <<enabled, kind, creator, member>>
<1>1. ASSUME NEW t \in Tx, Rollback(t) \/ OpenLink(t) \/ OpenConflict(t) \/ SendCommit(t)
      PROVE  UNCHANGED <<enabled, kind, creator, member>>
  BY <1>1 DEF Rollback, OpenLink, OpenConflict, SendCommit, rooms
<1>2. ASSUME NEW t \in Tx, NEW u \in Users, NEW c \in Channels,
             \/ JoinLoad(t, u, c) \/ SendInsert(t, u, c)
             \/ \E v \in Users : OpenMissing(t, u, v, c)
             \/ \E k \in {"public", "private"}, n \in Names, S \in SUBSET Users :
                  CreateInsert(t, u, c, k, n, S)
      PROVE  UNCHANGED <<enabled, kind, creator, member>>
  BY <1>2 DEF JoinLoad, SendInsert, OpenMissing, CreateInsert, rooms
<1>3. ASSUME NEW u \in Users, NEW v \in Users, OpenExisting(u, v)
      PROVE  UNCHANGED <<enabled, kind, creator, member>>
  BY <1>3 DEF OpenExisting, rooms
<1>4. ASSUME NEW u \in Users, NEW c \in Channels,
             WalkBegin(u, c) \/ \E m \in Ids : MarkRead(u, c, m)
      PROVE  UNCHANGED <<enabled, kind, creator, member>>
  BY <1>4 DEF WalkBegin, MarkRead, rooms
<1>5. ASSUME WalkPage \/ WalkEnd \/ UNCHANGED vars
      PROVE  UNCHANGED <<enabled, kind, creator, member>>
  BY <1>5 DEF WalkPage, WalkEnd, vars, rooms
<1> QED BY <1>1, <1>2, <1>3, <1>4, <1>5 DEF Next

\* Nobody ever leaves a channel, and nobody disabled comes back.
LEMMA NobodyLeaves ==
  ASSUME [Next]_vars
  PROVE  member \subseteq member' /\ enabled' \subseteq enabled
<1>1. ASSUME NEW t \in Tx, CreateCommit(t) \/ JoinCommit(t) \/ OpenCommit(t)
      PROVE  member \subseteq member' /\ enabled' = enabled
  BY <1>1 DEF CreateCommit, JoinCommit, OpenCommit
<1>2. ASSUME NEW u \in Users, Disable(u)
      PROVE  member' = member /\ enabled' \subseteq enabled
  BY <1>2 DEF Disable, rooms
<1> QED BY <1>1, <1>2, RoomSteps

LEMMA NextCreators == TypeInv /\ CreatorIsMember /\ [Next]_vars => CreatorIsMember'
<1> SUFFICES ASSUME TypeInv, CreatorIsMember, [Next]_vars PROVE CreatorIsMember'
  OBVIOUS
<1>0. member \subseteq member' /\ enabled' \subseteq enabled
  BY NobodyLeaves
<1>1. CASE UNCHANGED creator
  BY <1>0, <1>1 DEF CreatorIsMember, IsMember
<1>2. ASSUME NEW t \in Tx, CreateCommit(t)
      PROVE  CreatorIsMember'
  <2>1. PICK c \in tx[t].channel :
          /\ creator' = [creator EXCEPT ![c] = tx[t].user]
          /\ member' = member \cup ({c} \X FirstMembers(t))
    BY <1>2 DEF CreateCommit
  <2>2. \A d \in Channels : creator'[d] = IF d = c THEN tx[t].user ELSE creator[d]
    BY <2>1 DEF TypeInv, TypeOK
  <2>3. \A u \in tx[t].user \cap enabled : <<c, u>> \in member'
    BY <2>1 DEF FirstMembers
  <2> QED BY <1>0, <2>2, <2>3 DEF CreatorIsMember, IsMember
<1>3. ASSUME NEW t \in Tx, OpenCommit(t)
      PROVE  CreatorIsMember'
  <2>1. PICK c \in tx[t].channel : creator' = [creator EXCEPT ![c] = tx[t].user]
    BY <1>3 DEF OpenCommit
  <2>2. \A d \in Channels : creator'[d] = IF d = c THEN tx[t].user ELSE creator[d]
    BY <2>1 DEF TypeInv, TypeOK
  <2>3. tx[t].user \subseteq tx[t].with
    BY <1>3 DEF OpenCommit, In, TypeInv, Fits
  <2>4. \A u \in tx[t].user : <<c, u>> \in member'
    BY <1>3, <2>1, <2>3 DEF OpenCommit
  <2> QED BY <1>0, <2>2, <2>4 DEF CreatorIsMember, IsMember
<1>4. ASSUME (\E t \in Tx : JoinCommit(t)) \/ \E u \in Users : Disable(u)
      PROVE  UNCHANGED creator
  BY <1>4 DEF JoinCommit, Disable, rooms
<1> QED BY <1>1, <1>2, <1>3, <1>4, RoomSteps

-----------------------------------------------------------------------------
(* Messages and positions.                                                   *)

\* A send under way holds a message of its own, nobody has seen it, and its
\* author is a member.
SendsOwn ==
  \A t \in Tx : tx[t].op = "send" =>
    /\ tx[t].id \notin visible
    /\ tx[t].channel = {message[tx[t].id].channel}
    /\ tx[t].user = {message[tx[t].id].author}
    /\ IsMember(message[tx[t].id].author, message[tx[t].id].channel)

SendsApart ==
  \A s, t \in Tx :
    tx[s].op = "send" /\ tx[t].op = "send" /\ tx[s].id = tx[t].id => s = t

\* In a channel whose sends never overlapped there is one at a time, and its
\* message is the newest.
SendsInOrder ==
  \A t \in Tx : \A c \in tx[t].channel \ overlapped :
    tx[t].op = "send" =>
      /\ \A m \in History(c) : m < tx[t].id
      /\ Sending(c) = {t}

PositionsThere ==
  \A c \in Channels, u \in Users : pos[c][u] = 0 \/ pos[c][u] \in History(c)

MessageInv == SendsOwn /\ SendsApart /\ SendsInOrder /\ PositionsThere /\ OnlyMembersPost

LEMMA InitMessages == Init => MessageInv
<1> SUFFICES ASSUME Init PROVE MessageInv
  OBVIOUS
<1>1. \A t \in Tx : tx[t].op = "idle"
  BY IdleType DEF Init
<1>2. visible = {} /\ \A c \in Channels, u \in Users : pos[c][u] = 0
  BY DEF Init
<1> QED BY <1>1, <1>2 DEF MessageInv, SendsOwn, SendsApart, SendsInOrder, PositionsThere,
        OnlyMembersPost

\* Inserting, committing and reading are all that touches messages.
LEMMA MessageSteps ==
  ASSUME TypeInv, [Next]_vars
  PROVE  \/ \E t \in Tx, u \in Users, c \in Channels : SendInsert(t, u, c)
         \/ \E t \in Tx : SendCommit(t)
         \/ \E u \in Users, c \in Channels, m \in Ids : MarkRead(u, c, m)
         \/ /\ UNCHANGED <<clock, message, visible, pos, overlapped>>
            /\ \A s \in Tx : tx'[s].op = "send" => tx'[s] = tx[s]
<1> DEFINE Quiet == /\ UNCHANGED <<clock, message, visible, pos, overlapped>>
                    /\ \A s \in Tx : tx'[s].op = "send" => tx'[s] = tx[s]
<1>1. ASSUME NEW t \in Tx, Rollback(t) \/ CreateCommit(t) \/ JoinCommit(t) \/ OpenConflict(t)
                            \/ OpenCommit(t)
      PROVE  Quiet
  <2>1. Done(t) /\ UNCHANGED <<clock, message, visible, pos, overlapped>>
    BY <1>1 DEF Rollback, CreateCommit, JoinCommit, OpenConflict, OpenCommit, messages, history
  <2> QED BY <2>1, Ends
<1>2. ASSUME NEW t \in Tx, OpenLink(t)
      PROVE  Quiet
  BY <1>2, OpenLinks DEF messages, history
<1>3. ASSUME NEW t \in Tx, NEW u \in Users, NEW c \in Channels, JoinLoad(t, u, c)
      PROVE  Quiet
  BY <1>3, JoinLoads DEF messages, history
<1>4. ASSUME NEW t \in Tx, NEW u \in Users, NEW c \in Channels, NEW v \in Users,
             OpenMissing(t, u, v, c)
      PROVE  Quiet
  BY <1>4, OpenInserts DEF messages, history
<1>5. ASSUME NEW t \in Tx, NEW u \in Users, NEW c \in Channels,
             NEW k \in {"public", "private"}, NEW n \in Names, NEW S \in SUBSET Users,
             CreateInsert(t, u, c, k, n, S)
      PROVE  Quiet
  BY <1>5, CreateInserts DEF messages, history
<1>6. ASSUME NEW u \in Users, NEW v \in Users, OpenExisting(u, v)
      PROVE  Quiet
  BY <1>6 DEF OpenExisting, messages
<1>7. ASSUME NEW u \in Users, Disable(u)
      PROVE  Quiet
  BY <1>7 DEF Disable, messages, history
<1>8. ASSUME NEW u \in Users, NEW c \in Channels, WalkBegin(u, c)
      PROVE  Quiet
  BY <1>8 DEF WalkBegin, messages, history
<1>9. ASSUME WalkPage \/ WalkEnd \/ UNCHANGED vars
      PROVE  Quiet
  BY <1>9 DEF WalkPage, WalkEnd, vars, messages, history
<1> HIDE DEF Quiet
<1>10. \/ \E t \in Tx, u \in Users, c \in Channels : SendInsert(t, u, c)
       \/ \E t \in Tx : SendCommit(t)
       \/ \E u \in Users, c \in Channels, m \in Ids : MarkRead(u, c, m)
       \/ Quiet
  BY <1>1, <1>2, <1>3, <1>4, <1>5, <1>6, <1>7, <1>8, <1>9 DEF Next
<1> QED BY <1>10 DEF Quiet

\* What a send that commits does, to the message it holds.
LEMMA SendCommits ==
  ASSUME TypeInv, SendsOwn, NEW t \in Tx, SendCommit(t)
  PROVE  \E c \in Channels, u \in Users :
           /\ tx[t].op = "send" /\ tx[t].channel = {c} /\ tx[t].user = {u}
           /\ tx[t].id \in 1..clock /\ tx[t].id \notin visible /\ visible' = visible \cup {tx[t].id}
           /\ message[tx[t].id].channel = c /\ message[tx[t].id].author = u
           /\ pos'[c][u] = tx[t].id
           /\ \A d \in Channels, v \in Users : d # c \/ v # u => pos'[d][v] = pos[d][v]
           /\ tx'[t].op = "idle" /\ \A s \in Tx \ {t} : tx'[s] = tx[s]
           /\ IsMember(u, c)
           /\ UNCHANGED <<clock, message, member, overlapped>>
<1>1. /\ tx[t].op = "send" /\ Done(t) /\ visible' = visible \cup {tx[t].id}
      /\ UNCHANGED <<clock, message, member, overlapped>>
  BY DEF SendCommit, In, rooms, history
<1>2. PICK c \in Channels, u \in Users : tx[t].channel = {c} /\ tx[t].user = {u}
  BY <1>1 DEF TypeInv, Fits
<1>3. pos' = [pos EXCEPT ![c][u] = tx[t].id]
  BY <1>2 DEF SendCommit, OwnPosition
<1>4. /\ pos'[c][u] = tx[t].id
      /\ \A d \in Channels, v \in Users : d # c \/ v # u => pos'[d][v] = pos[d][v]
  BY <1>3 DEF TypeInv, TypeOK
<1>5. /\ tx[t].id \in 1..clock /\ tx[t].id \notin visible
      /\ message[tx[t].id].channel = c /\ message[tx[t].id].author = u /\ IsMember(u, c)
  BY <1>1, <1>2 DEF SendsOwn, TypeInv, Fits
<1> QED BY <1>1, <1>2, <1>4, <1>5, Ends

LEMMA NextMessages == TypeInv /\ MessageInv /\ [Next]_vars => MessageInv'
<1> SUFFICES ASSUME TypeInv, MessageInv, [Next]_vars PROVE MessageInv'
  OBVIOUS
<1>0. member \subseteq member'
  BY NobodyLeaves
<1>v. visible \subseteq 1..clock
  BY DEF TypeInv, TypeOK
\* Sends only end, and no message appears.
<1>1. ASSUME UNCHANGED <<message, visible, overlapped>>, PositionsThere',
             \A s \in Tx : tx'[s].op = "send" => tx'[s] = tx[s]
      PROVE  MessageInv'
  <2>1. SendsOwn'
    BY <1>0, <1>1 DEF MessageInv, SendsOwn, IsMember
  <2>2. SendsApart'
    BY <1>1 DEF MessageInv, SendsApart
  <2>3. SendsInOrder'
    <3> SUFFICES ASSUME NEW t \in Tx, NEW c \in tx'[t].channel \ overlapped', tx'[t].op = "send"
                 PROVE  /\ \A m \in History(c)' : m < tx'[t].id
                        /\ Sending(c)' = {t}
      BY DEF SendsInOrder
    <3>1. tx'[t] = tx[t] /\ c \in tx[t].channel \ overlapped
      BY <1>1
    <3>2. (\A m \in History(c) : m < tx[t].id) /\ Sending(c) = {t}
      BY <1>1, <3>1 DEF MessageInv, SendsInOrder
    <3>3. History(c)' = History(c)
      BY <1>1 DEF History
    <3>4. t \in Sending(c)' /\ Sending(c)' \subseteq Sending(c)
      BY <1>1 DEF Sending
    <3> QED BY <3>1, <3>2, <3>3, <3>4
  <2>4. OnlyMembersPost'
    BY <1>0, <1>1 DEF MessageInv, OnlyMembersPost, IsMember
  <2> QED BY <1>1, <2>1, <2>2, <2>3, <2>4 DEF MessageInv
<1>2. ASSUME UNCHANGED <<clock, message, visible, pos, overlapped>>,
             \A s \in Tx : tx'[s].op = "send" => tx'[s] = tx[s]
      PROVE  MessageInv'
  <2>1. PositionsThere'
    BY <1>2 DEF MessageInv, PositionsThere, History
  <2> QED BY <1>1, <1>2, <2>1
<1>3. ASSUME NEW u \in Users, NEW c \in Channels, NEW m \in Ids, MarkRead(u, c, m)
      PROVE  MessageInv'
  <2>1. UNCHANGED <<message, visible, overlapped, tx>> /\ m \in History(c)
    BY <1>3 DEF MarkRead, history
  <2>2. PositionsThere'
    <3>1. \A d \in Channels, v \in Users :
            pos'[d][v] = IF d = c /\ v = u THEN m ELSE pos[d][v]
      BY <1>3 DEF MarkRead, TypeInv, TypeOK
    <3> QED BY <2>1, <3>1 DEF MessageInv, PositionsThere, History
  <2> QED BY <1>1, <2>1, <2>2
<1>4. ASSUME NEW t \in Tx, NEW u \in Users, NEW c \in Channels, SendInsert(t, u, c)
      PROVE  MessageInv'
  <2> DEFINE n == clock + 1
  <2>1. /\ tx'[t].op = "send" /\ tx'[t].channel = {c} /\ tx'[t].user = {u}
        /\ tx'[t].id = n /\ n \in Nat \ 0..clock
        /\ \A s \in Tx \ {t} : tx'[s] = tx[s]
        /\ message'[n].channel = c /\ message'[n].author = u
        /\ \A m \in 1..clock : message'[m] = message[m]
        /\ UNCHANGED <<visible, pos, member>>
    <3>1. message'[n] = [channel |-> c, author |-> u] /\ UNCHANGED member
      BY <1>4, SendInserts DEF rooms
    <3>2. message'[n].channel = c /\ message'[n].author = u
      BY <3>1
    <3> HIDE DEF n
    <3> QED BY <1>4, <3>1, <3>2, SendInserts DEF n
  <2>2. IsMember(u, c) /\ overlapped' = IF Sending(c) # {} THEN overlapped \cup {c} ELSE overlapped
    BY <1>4 DEF SendInsert, CanPost
  <2>g. \A m \in 1..clock : m < n
    BY ChatAssumption DEF TypeInv, TypeOK
  <2> HIDE DEF n
  <2>3. \A s \in Tx \ {t} : tx[s].op = "send" => tx[s].id \in 1..clock
    BY DEF TypeInv, Fits
  <2>4. n \notin 1..clock /\ n \notin visible
    BY <1>v, <2>1
  <2>5. \A d : History(d)' = History(d)
    <3>1. visible' = visible /\ \A m \in visible : message'[m] = message[m]
      BY <1>v, <2>1
    <3> QED BY <3>1 DEF History
  <2>6. SendsOwn'
    <3> SUFFICES ASSUME NEW s \in Tx, tx'[s].op = "send"
                 PROVE  /\ tx'[s].id \notin visible'
                        /\ tx'[s].channel = {message'[tx'[s].id].channel}
                        /\ tx'[s].user = {message'[tx'[s].id].author}
                        /\ <<message'[tx'[s].id].channel, message'[tx'[s].id].author>> \in member'
      BY DEF SendsOwn, IsMember
    <3>1. CASE s = t
      BY <2>1, <2>2, <2>4, <3>1 DEF IsMember
    <3>2. CASE s # t
      <4>1. tx'[s] = tx[s] /\ message'[tx[s].id] = message[tx[s].id]
        BY <2>1, <2>3, <3>2
      <4> QED BY <2>1, <4>1 DEF MessageInv, SendsOwn, IsMember
    <3> QED BY <3>1, <3>2
  <2>7. SendsApart'
    BY <2>1, <2>3, <2>4 DEF MessageInv, SendsApart
  <2>8. SendsInOrder'
    <3> SUFFICES ASSUME NEW r \in Tx, NEW d \in tx'[r].channel \ overlapped', tx'[r].op = "send"
                 PROVE  /\ \A m \in History(d)' : m < tx'[r].id
                        /\ Sending(d)' = {r}
      BY DEF SendsInOrder
    <3>1. CASE r = t
      <4>1. d = c /\ Sending(c) = {}
        BY <2>1, <2>2, <3>1
      <4>2. Sending(c)' = {t}
        BY <2>1, <4>1 DEF Sending
      <4>3. \A m \in History(c) : m < n
        BY <1>v, <2>g DEF History
      <4> QED BY <2>1, <2>5, <3>1, <4>1, <4>2, <4>3
    <3>2. CASE r # t
      <4>1. tx'[r] = tx[r] /\ d \in tx[r].channel \ overlapped
        BY <2>1, <2>2, <3>2
      <4>2. (\A m \in History(d) : m < tx[r].id) /\ Sending(d) = {r}
        BY <4>1 DEF MessageInv, SendsInOrder
      <4>3. d # c
        BY <2>2, <4>2
      <4>4. Sending(d)' = {r}
        BY <2>1, <3>2, <4>1, <4>2, <4>3 DEF Sending
      <4> QED BY <2>5, <4>1, <4>2, <4>4
    <3> QED BY <3>1, <3>2
  <2>9. PositionsThere'
    BY <2>1, <2>5 DEF MessageInv, PositionsThere
  <2>10. OnlyMembersPost'
    BY <1>v, <2>1 DEF MessageInv, OnlyMembersPost, IsMember
  <2> QED BY <2>6, <2>7, <2>8, <2>9, <2>10 DEF MessageInv
<1>5. ASSUME NEW t \in Tx, SendCommit(t)
      PROVE  MessageInv'
  <2> DEFINE n == tx[t].id
  <2>1. PICK c \in Channels, u \in Users :
           /\ tx[t].op = "send" /\ tx[t].channel = {c} /\ tx[t].user = {u}
           /\ n \in 1..clock /\ n \notin visible /\ visible' = visible \cup {n}
           /\ message[n].channel = c /\ message[n].author = u
           /\ pos'[c][u] = n
           /\ \A d \in Channels, v \in Users : d # c \/ v # u => pos'[d][v] = pos[d][v]
           /\ tx'[t].op = "idle" /\ \A s \in Tx \ {t} : tx'[s] = tx[s]
           /\ IsMember(u, c)
           /\ UNCHANGED <<clock, message, member, overlapped>>
    BY <1>5, SendCommits DEF MessageInv
  <2>2. SendsOwn'
    BY <2>1 DEF MessageInv, SendsOwn, SendsApart, IsMember
  <2>3. SendsApart'
    BY <2>1 DEF MessageInv, SendsApart
  <2>4. SendsInOrder'
    <3> SUFFICES ASSUME NEW r \in Tx, NEW d \in tx'[r].channel \ overlapped', tx'[r].op = "send"
                 PROVE  /\ \A m \in History(d)' : m < tx'[r].id
                        /\ Sending(d)' = {r}
      BY DEF SendsInOrder
    <3>1. r # t /\ tx'[r] = tx[r] /\ d \in tx[r].channel \ overlapped
      BY <2>1
    <3>2. (\A m \in History(d) : m < tx[r].id) /\ Sending(d) = {r}
      BY <3>1 DEF MessageInv, SendsInOrder
    <3>3. d # c
      BY <2>1, <3>1, <3>2 DEF Sending
    <3>4. History(d)' = History(d)
      BY <2>1, <3>3 DEF History
    <3>5. Sending(d)' = {r}
      BY <2>1, <3>1, <3>2 DEF Sending
    <3> QED BY <3>1, <3>2, <3>4, <3>5
  <2>5. PositionsThere'
    <3> SUFFICES ASSUME NEW d \in Channels, NEW v \in Users
                 PROVE  pos'[d][v] = 0 \/ pos'[d][v] \in History(d)'
      BY DEF PositionsThere
    <3>1. CASE d = c /\ v = u
      BY <2>1, <3>1 DEF History
    <3>2. CASE ~(d = c /\ v = u)
      BY <2>1, <3>2 DEF MessageInv, PositionsThere, History
    <3> QED BY <3>1, <3>2
  <2>6. OnlyMembersPost'
    BY <2>1 DEF MessageInv, OnlyMembersPost, IsMember
  <2> QED BY <2>2, <2>3, <2>4, <2>5, <2>6 DEF MessageInv
<1> QED BY <1>2, <1>3, <1>4, <1>5, MessageSteps

-----------------------------------------------------------------------------
(* The walk: everything due at or above the oldest message shown has been    *)
(* returned once, and nothing below it.                                      *)

WalkInv ==
  /\ walk.on => \E c \in Channels : walk.channel = {c} /\ walk.due \subseteq History(c)
  /\ ~walk.on => walk = NoWalk
  /\ \A m \in Ids : walk.got[m] <= 1
  /\ walk.done => \A m \in walk.due : walk.got[m] = 1
  /\ ~walk.done => \A m \in Ids :
       /\ walk.got[m] = 1 => walk.before # 0 /\ m >= walk.before
       /\ m \in walk.due /\ walk.before # 0 /\ m >= walk.before => walk.got[m] = 1

LEMMA InitWalk == Init => WalkInv
  BY NoWalkType DEF Init, WalkInv, NoWalk

LEMMA HistoryGrows ==
  ASSUME TypeInv, MessageInv, [Next]_vars
  PROVE  \A c : History(c) \subseteq History(c)'
<1>v. visible \subseteq 1..clock
  BY DEF TypeInv, TypeOK
<1>1. visible \subseteq visible' /\ \A m \in visible : message'[m] = message[m]
  <2>1. ASSUME NEW t \in Tx, NEW u \in Users, NEW c \in Channels, SendInsert(t, u, c)
        PROVE  visible' = visible /\ \A m \in visible : message'[m] = message[m]
    BY <1>v, <2>1, SendInserts
  <2>2. ASSUME NEW t \in Tx, SendCommit(t)
        PROVE  visible \subseteq visible' /\ message' = message
    BY <2>2 DEF SendCommit
  <2>3. ASSUME NEW u \in Users, NEW c \in Channels, NEW m \in Ids, MarkRead(u, c, m)
        PROVE  visible' = visible /\ message' = message
    BY <2>3 DEF MarkRead
  <2> QED BY <2>1, <2>2, <2>3, MessageSteps
<1> QED BY <1>1 DEF History

LEMMA WalkSteps ==
  ASSUME [Next]_vars
  PROVE  \/ \E u \in Users, c \in Channels : WalkBegin(u, c)
         \/ WalkPage \/ WalkEnd
         \/ walk' = walk
<1>1. ASSUME NEW t \in Tx, \/ Rollback(t) \/ CreateCommit(t) \/ JoinCommit(t) \/ OpenLink(t)
                            \/ OpenConflict(t) \/ OpenCommit(t) \/ SendCommit(t)
      PROVE  walk' = walk
  BY <1>1 DEF Rollback, CreateCommit, JoinCommit, OpenLink, OpenConflict, OpenCommit, SendCommit
<1>2. ASSUME NEW t \in Tx, NEW u \in Users, NEW c \in Channels,
             \/ JoinLoad(t, u, c) \/ SendInsert(t, u, c)
             \/ \E v \in Users : OpenMissing(t, u, v, c)
             \/ \E k \in {"public", "private"}, n \in Names, S \in SUBSET Users :
                  CreateInsert(t, u, c, k, n, S)
      PROVE  walk' = walk
  BY <1>2 DEF JoinLoad, SendInsert, OpenMissing, CreateInsert
<1>3. ASSUME NEW u \in Users, NEW v \in Users, OpenExisting(u, v)
      PROVE  walk' = walk
  BY <1>3 DEF OpenExisting
<1>4. ASSUME NEW u \in Users, NEW c \in Channels, NEW m \in Ids, MarkRead(u, c, m)
      PROVE  walk' = walk
  BY <1>4 DEF MarkRead
<1>5. ASSUME (\E u \in Users : Disable(u)) \/ UNCHANGED vars
      PROVE  walk' = walk
  BY <1>5 DEF Disable, vars
<1> QED BY <1>1, <1>2, <1>3, <1>4, <1>5 DEF Next

LEMMA NextWalk == TypeInv /\ MessageInv /\ WalkInv /\ [Next]_vars => WalkInv'
<1> SUFFICES ASSUME TypeInv, MessageInv, WalkInv, [Next]_vars PROVE WalkInv'
  OBVIOUS
<1>0. \A c : History(c) \subseteq History(c)'
  BY HistoryGrows
<1>1. CASE walk' = walk
  BY <1>0, <1>1 DEF WalkInv
<1>2. CASE walk' = NoWalk
  BY <1>2, NoWalkType DEF WalkInv, NoWalk
<1>3. ASSUME WalkEnd PROVE WalkInv'
  BY <1>2, <1>3 DEF WalkEnd
<1>4. ASSUME NEW u \in Users, NEW c \in Channels, WalkBegin(u, c)
      PROVE  WalkInv'
  <2>1. /\ walk'.on = TRUE /\ walk'.done = FALSE /\ walk'.before = 0
        /\ walk'.channel = {c} /\ walk'.due = History(c) /\ walk'.got = [m \in Ids |-> 0]
    BY <1>4 DEF WalkBegin, NoWalk
  <2> QED BY <1>0, <2>1 DEF WalkInv
<1>5. ASSUME WalkPage
      PROVE  WalkInv'
  <2>0. walk.on /\ ~walk.done /\ walk.before \in Nat
    BY <1>5, ChatAssumption DEF WalkPage, TypeInv, TypeOK
  <2>1. PICK c \in walk.channel :
          LET S == Below(c, walk.before)
              P == Newest(S, PageSize)
          IN  /\ S \in SUBSET Ids
              /\ \A m \in Ids : walk'.got[m] = IF m \in P THEN walk.got[m] + 1
                                                          ELSE walk.got[m]
              /\ \/ /\ ~walk'.done /\ P # {} /\ walk'.before = Oldest(P)
                 \/ walk'.done /\ walk'.before = walk.before /\ P = S
    BY <1>5, PageStep
  <2> DEFINE b == walk.before
             S == Below(c, b)
             P == Newest(S, PageSize)
  <2>2. P \subseteq S /\ S \in SUBSET Ids
    BY <2>1 DEF Newest
  <2>3. walk.channel = {c} /\ walk.due \subseteq History(c) /\ walk.due \subseteq Ids
    BY <2>0, <2>1, HistoryType DEF WalkInv, TypeInv, TypeOK
  <2>4. UNCHANGED <<walk.on, walk.due, walk.channel>>
    BY <1>5, PageStep
  <2>5. \A m \in Ids : /\ walk.got[m] \in Nat /\ walk.got[m] <= 1 /\ m \in Nat \ {0}
                       /\ walk.got[m] = 1 => b # 0 /\ m >= b
                       /\ m \in walk.due /\ b # 0 /\ m >= b => walk.got[m] = 1
    <3>1. \A m \in Ids : m \in Nat \ {0}
      BY DEF Ids
    <3>2. walk.got \in [Ids -> Nat]
      BY DEF TypeInv, TypeOK
    <3> QED BY <2>0, <3>1, <3>2 DEF WalkInv
  <2>6. \A m \in S : b = 0 \/ m < b
    BY DEF Below
  <2>7. \A m \in History(c) : b = 0 \/ m < b => m \in S
    BY DEF Below
  <2> HIDE DEF S
  <2>8. \A m \in P : walk.got[m] = 0
    BY <2>0, <2>2, <2>5, <2>6
  <2>9. \A m \in Ids : walk'.got[m] = IF m \in P THEN 1 ELSE walk.got[m]
    BY <2>1, <2>2, <2>8 DEF S
  <2>10. CASE walk'.done
    <3>1. P = S
      BY <2>1, <2>10 DEF S
    <3>2. ASSUME NEW m \in walk.due PROVE walk'.got[m] = 1
      <4>1. m \in Ids /\ m \in History(c)
        BY <2>3
      <4>2. CASE b = 0 \/ m < b
        BY <2>7, <2>9, <3>1, <4>1, <4>2
      <4>3. CASE b # 0 /\ m >= b
        BY <2>5, <2>9, <4>1, <4>3
      <4> QED BY <2>0, <2>5, <4>1, <4>2, <4>3
    <3> QED BY <1>0, <2>0, <2>1, <2>3, <2>4, <2>5, <2>9, <2>10, <3>2 DEF WalkInv
  <2>11. CASE ~walk'.done
    <3> DEFINE o == Oldest(P)
    <3>1. P # {} /\ walk'.before = o
      BY <2>1, <2>11 DEF S
    <3>2. o \in P /\ \A k \in P : o <= k
      BY <2>2, <3>1, OldestType
    <3>3. o \in S /\ o \in Nat \ {0} /\ (b = 0 \/ o < b)
      BY <2>2, <2>5, <2>6, <3>2
    <3>4. \A m \in S : o <= m => m \in P
      BY <2>2, <3>2, NewestUpwards, ChatAssumption
    <3> HIDE DEF o, P
    <3>5. ASSUME NEW m \in Ids, walk'.got[m] = 1 PROVE m >= o
      <4>1. CASE m \in P
        BY <3>2, <4>1
      <4>2. CASE m \notin P
        BY <2>0, <2>5, <2>9, <3>3, <3>5, <4>2
      <4> QED BY <4>1, <4>2
    <3>6. ASSUME NEW m \in Ids, m \in walk.due, m >= o PROVE walk'.got[m] = 1
      <4>1. CASE b = 0 \/ m < b
        <5>1. m \in S
          BY <2>3, <2>7, <3>6, <4>1
        <5> QED BY <2>5, <2>9, <3>3, <3>4, <3>6, <5>1
      <4>2. CASE b # 0 /\ m >= b
        BY <2>5, <2>9, <3>6, <4>2
      <4> QED BY <2>0, <2>5, <4>1, <4>2
    <3>7. \A m \in Ids : walk'.got[m] <= 1
      BY <2>5, <2>9
    <3> QED BY <1>0, <2>0, <2>1, <2>3, <2>4, <2>11, <3>1, <3>3, <3>5, <3>6, <3>7 DEF WalkInv
  <2> QED BY <2>10, <2>11
<1> QED BY <1>1, <1>3, <1>4, <1>5, WalkSteps

-----------------------------------------------------------------------------
(* Theorems.                                                                 *)

\* The inductive invariant: however creating, opening, joining, sending,
\* reading and paging interleave.
ChatInv ==
  /\ TypeInv
  /\ ConversationInv /\ NameInv /\ CreatorIsMember
  /\ MessageInv /\ WalkInv

\* It holds in every state, for any people, names, channels and page size.
THEOREM ChatAlways == Spec => []ChatInv
<1>1. Init => CreatorIsMember
  BY DEF Init, CreatorIsMember
<1>2. Init => ChatInv
  BY <1>1, InitTyped, InitConversation, InitNames, InitMessages, InitWalk DEF ChatInv
<1>3. ChatInv /\ [Next]_vars => ChatInv'
  BY NextTyped, NextConversation, NextNames, NextCreators, NextMessages, NextWalk DEF ChatInv
<1> QED BY <1>2, <1>3, PTL DEF Spec

LEMMA OneOfEach == OneEach => \A p \in Pairs : Cardinality(direct[p]) <= 1
<1>1. \A c : Cardinality({c}) = 1
  BY FS_Singleton
<1>2. Cardinality({}) = 0
  BY FS_EmptySet
<1> QED BY <1>1, <1>2 DEF OneEach

\* One conversation per pair, one channel per name, with its creator in it and
\* nothing in it but what members wrote.
THEOREM ChannelsAlwaysSound == Spec => []ChannelsSound
<1>1. ChatInv => ChannelsSound
  <2>1. ConversationInv => OneConversation
    BY OneOfEach DEF ConversationInv, AnswersHold, NoneLeftOver, OneConversation
  <2> QED BY <2>1 DEF ChatInv, TypeInv, NameInv, MessageInv, ChannelsSound
<1> QED BY <1>1, ChatAlways, PTL

\* Paging back shows what was there when it began once and nothing twice, for
\* any page size and whatever is sent meanwhile.
THEOREM WalkAlwaysComplete == Spec => []WalkComplete
<1>1. ChatInv => WalkComplete
  BY DEF ChatInv, WalkInv, WalkComplete
<1> QED BY <1>1, ChatAlways, PTL

\* A position goes back only by a message of one's own.
LEMMA BackStep ==
  ASSUME ChatInv, [Next]_vars, NEW c \in Channels, NEW u \in Users, pos'[c][u] < pos[c][u]
  PROVE  pos'[c][u] \in visible' \ visible /\ message'[pos'[c][u]].author = u
<1> USE DEF ChatInv
<1>p. \A n \in Nat : ~(n < n)
  OBVIOUS
<1>t. pos[c][u] \in Nat
  <2>1. pos[c][u] \in visible \cup {0} /\ visible \subseteq 1..clock
    BY DEF TypeInv, TypeOK
  <2>2. 1..clock \subseteq Nat /\ 0 \in Nat
    OBVIOUS
  <2> QED BY <2>1, <2>2, Zenon
<1>1. ASSUME pos' = pos PROVE FALSE
  BY <1>p, <1>t, <1>1
<1>2. ASSUME NEW t \in Tx, NEW v \in Users, NEW d \in Channels, SendInsert(t, v, d)
      PROVE  FALSE
  BY <1>1, <1>2 DEF SendInsert
<1>3. ASSUME NEW v \in Users, NEW d \in Channels, NEW m \in Ids, MarkRead(v, d, m)
      PROVE  FALSE
  <2>1. pos' = [pos EXCEPT ![d][v] = m] /\ pos[d][v] < m
    BY <1>3 DEF MarkRead, Forward
  <2>2. pos'[c][u] = pos[c][u] \/ (d = c /\ v = u /\ pos'[c][u] = m)
    BY <2>1 DEF TypeInv, TypeOK
  <2>3. m \in Nat
    BY IdsAreNaturals
  <2> QED BY <1>p, <1>t, <2>1, <2>2, <2>3
<1>4. ASSUME NEW t \in Tx, SendCommit(t)
      PROVE  pos'[c][u] \in visible' \ visible /\ message'[pos'[c][u]].author = u
  BY <1>p, <1>t, <1>4, SendCommits DEF MessageInv
<1> QED BY <1>1, <1>2, <1>3, <1>4, MessageSteps

\* A message that appears is the newest of its channel, unless sends overlapped,
\* so nobody but its author has read as far.
LEMMA NewStep ==
  ASSUME ChatInv, [Next]_vars, NEW m \in visible' \ visible,
         NEW c \in Channels, NEW u \in Users,
         message'[m].channel = c, message'[m].author # u, IsMember(u, c), c \notin overlapped
  PROVE  (m \in Unread(u, c))'
<1> USE DEF ChatInv
<1>1. ASSUME visible' = visible PROVE FALSE
  BY <1>1
<1>2. PICK t \in Tx : SendCommit(t)
  BY <1>1, MessageSteps DEF SendInsert, MarkRead
<1>3. PICK d \in Channels, v \in Users :
        /\ tx[t].op = "send" /\ tx[t].channel = {d} /\ tx[t].id \in 1..clock
        /\ visible' = visible \cup {tx[t].id}
        /\ message[tx[t].id].channel = d /\ message[tx[t].id].author = v
        /\ \A e \in Channels, w \in Users : e # d \/ w # v => pos'[e][w] = pos[e][w]
        /\ UNCHANGED <<clock, message, member, overlapped>>
  BY <1>2, SendCommits DEF MessageInv
<1>4. m = tx[t].id /\ d = c /\ v # u
  BY <1>3
<1>5. \A k \in History(c) : k < m
  BY <1>3, <1>4 DEF MessageInv, SendsInOrder
<1>6. pos'[c][u] = pos[c][u] /\ pos[c][u] < m
  <2>1. pos[c][u] = 0 \/ pos[c][u] \in History(c)
    BY DEF MessageInv, PositionsThere
  <2>2. 0 < m
    BY <1>3, <1>4 DEF TypeInv, TypeOK
  <2> QED BY <1>3, <1>4, <1>5, <2>1, <2>2
<1>7. m \in History(c)' /\ IsMember(u, c)' /\ m > pos'[c][u]
  BY <1>3, <1>6 DEF History, IsMember
<1> QED BY <1>7 DEF Unread

\* Nothing read becomes unread and nothing new is taken for read, except through
\* sends that overlap.
THEOREM PositionsAlwaysHold == Spec => PositionsHold
<1>1. ChatInv /\ [Next]_vars =>
        [\A c \in Channels, u \in Users :
           pos'[c][u] < pos[c][u] =>
             /\ pos'[c][u] \in visible' \ visible
             /\ message'[pos'[c][u]].author = u]_vars
  BY BackStep
<1>2. ChatInv /\ [Next]_vars =>
        [\A m \in visible' \ visible, c \in Channels, u \in Users :
           /\ message'[m].channel = c /\ message'[m].author # u
           /\ IsMember(u, c) /\ c \notin overlapped
           => m \in Unread(u, c)']_vars
  BY NewStep
<1> QED BY <1>1, <1>2, ChatAlways, PTL
        DEF PositionsHold, BackOnlyBySending, NewIsUnread, Spec

=============================================================================
