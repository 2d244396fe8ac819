------------------------------ MODULE CallsProofs ------------------------------
(* What holds of Calls for any members, any finite table of providers, any   *)
(* number of requests under way and any bound on the calls: one live call,   *)
(* which is live exactly while somebody is in it, and a header that follows  *)
(* the provider.                                                             *)
EXTENDS Calls, FiniteSetTheorems, TLAPS

-----------------------------------------------------------------------------
(* Type correctness, with what a request under way remembers of its call.  *)

\* A join or leave is about a call that was started; a start has its caller.
RequestInv ==
  \A t \in Tx : /\ tx[t].op \in {"join", "leave"} => tx[t].call \in Calls
                /\ In(t, "start") => tx[t].who # {}

TypeInv == TypeOK /\ RequestInv

LEMMA IdleType == Idle \in Local /\ Idle.op = "idle"
  BY CallsAssumption DEF Idle, Local

LEMMA GotoType ==
  ASSUME tx \in [Tx -> Local], NEW t \in Tx, NEW l \in Local, Goto(t, l)
  PROVE  /\ tx' \in [Tx -> Local]
         /\ tx'[t] = l
         /\ \A s \in Tx \ {t} : tx'[s] = tx[s]
  BY DEF Goto

LEMMA ChosenType == ChosenOrigin \in Origins \cup {NoOrigin}
  BY DEF ChosenOrigin

\* A provider gets the next place in the order, which is never taken.
LEMMA NextPlace ==
  ASSUME TypeOK, NEW p \in Providers, known[p] = 0
  PROVE  1 + Cardinality({q \in Providers : known[q] > 0}) \in 0..Cardinality(Providers)
<1> DEFINE K == {q \in Providers : known[q] > 0}
           R == Providers \ {p}
<1>1. IsFiniteSet(Providers)
  BY CallsAssumption
<1>2. IsFiniteSet(R) /\ Cardinality(R) = Cardinality(Providers) - 1
  BY <1>1, FS_RemoveElement
<1>3. K \in SUBSET R
  OBVIOUS
<1>4. IsFiniteSet(K) /\ Cardinality(K) <= Cardinality(R)
  BY <1>2, <1>3, FS_Subset
<1>5. Cardinality(K) \in Nat /\ Cardinality(Providers) \in Nat
  BY <1>1, <1>4, FS_CardinalityType
<1> HIDE DEF K
<1> QED BY <1>2, <1>4, <1>5 DEF K

LEMMA InitTyped == Init => TypeInv
<1> SUFFICES ASSUME Init PROVE TypeInv
  OBVIOUS
<1>1. tx \in [Tx -> Local] /\ \A t \in Tx : tx[t] = Idle
  BY IdleType DEF Init
<1>2. IsFiniteSet(Providers) /\ Cardinality(Providers) \in Nat
  BY CallsAssumption, FS_CardinalityType
<1>3. known \in [Providers -> 0..Cardinality(Providers)]
  BY <1>2 DEF Init
<1>4. /\ started \in 0..MaxCalls
      /\ \A c \in 1..MaxCalls \ Calls : present[c] = {}
      /\ present \in [1..MaxCalls -> SUBSET People]
  BY CallsAssumption DEF Init
<1>5. TypeOK
  BY <1>1, <1>3, <1>4 DEF Init, TypeOK
<1> QED BY <1>1, <1>5, IdleType DEF TypeInv, RequestInv, In

\* A step that only changes what one request remembers.
LEMMA LocalStep ==
  ASSUME TypeInv, NEW t \in Tx, NEW l \in Local, Goto(t, l),
         UNCHANGED <<calls, providers, header, crossed>>, outrun' \in BOOLEAN,
         l.op \in {"join", "leave"} => l.call \in Calls,
         l.op = "start" => l.who # {}
  PROVE  TypeInv'
<1>1. /\ tx' \in [Tx -> Local] /\ tx'[t] = l
      /\ \A s \in Tx \ {t} : tx'[s] = tx[s]
  BY GotoType DEF TypeInv, TypeOK
<1>2. TypeOK'
  BY <1>1 DEF TypeInv, TypeOK, Calls, calls, providers
<1>3. RequestInv'
  BY <1>1 DEF TypeInv, RequestInv, In, Calls, calls
<1> QED BY <1>2, <1>3 DEF TypeInv

\* A request that ends.
LEMMA DoneStep ==
  ASSUME TypeInv, NEW t \in Tx, Done(t)
  PROVE  /\ tx' \in [Tx -> Local] /\ tx'[t].op = "idle"
         /\ \A s \in Tx \ {t} : tx'[s] = tx[s]
         /\ started' \in Nat /\ started' >= started => RequestInv'
<1>1. /\ tx' \in [Tx -> Local] /\ tx'[t] = Idle
      /\ \A s \in Tx \ {t} : tx'[s] = tx[s]
  BY IdleType, GotoType DEF Done, TypeInv, TypeOK
<1>2. ASSUME started' \in Nat, started' >= started PROVE RequestInv'
  <2> SUFFICES ASSUME NEW s \in Tx
               PROVE  /\ tx'[s].op \in {"join", "leave"} => tx'[s].call \in 1..started'
                      /\ tx'[s].op = "start" => tx'[s].who # {}
    BY DEF RequestInv, In, Calls
  <2>1. CASE s = t
    BY <1>1, <2>1, IdleType
  <2>2. CASE s # t
    <3>1. started \in Nat /\ tx[s].call \in Nat
      BY CallsAssumption DEF TypeInv, TypeOK, Local
    <3>2. tx[s].op \in {"join", "leave"} => tx[s].call \in 1..started
      BY DEF TypeInv, RequestInv, Calls
    <3>3. tx[s].op = "start" => tx[s].who # {}
      BY DEF TypeInv, RequestInv, In
    <3> QED BY <1>1, <1>2, <2>2, <3>1, <3>2, <3>3
  <2> QED BY <2>1, <2>2
<1> QED BY <1>1, <1>2, IdleType

LEMMA RefreshTyped ==
  ASSUME TypeInv, NEW t \in Tx, Refresh(t)
  PROVE  /\ tx' \in [Tx -> Local] /\ tx'[t].op = "refresh"
         /\ \A s \in Tx \ {t} : tx'[s] = tx[s]
         /\ outrun' \in BOOLEAN
<1>1. [Idle EXCEPT !.op = "refresh"] \in Local
  BY IdleType DEF Local
<1>2. [Idle EXCEPT !.op = "refresh"].op = "refresh"
  BY IdleType DEF Local
<1>3. outrun' \in BOOLEAN
  BY DEF Refresh, TypeInv, TypeOK
<1> QED BY <1>1, <1>2, <1>3, GotoType DEF Refresh, TypeInv, TypeOK

LEMMA NextTyped == TypeInv /\ [Next]_vars => TypeInv'
<1> SUFFICES ASSUME TypeInv, [Next]_vars PROVE TypeInv'
  OBVIOUS
<1> USE CallsAssumption
<1>1. ASSUME NEW t \in Tx, NEW p \in Providers, NEW b \in BOOLEAN, CreateProvider(t, p, b)
      PROVE  TypeInv'
  <2>1. Refresh(t) /\ UNCHANGED <<calls, header, crossed>>
    BY <1>1 DEF CreateProvider, RefreshAfterCreate
  <2>2. known' \in [Providers -> 0..Cardinality(Providers)]
    BY <1>1, NextPlace DEF CreateProvider, TypeInv, TypeOK
  <2>3. enabled' \subseteq Providers /\ default' \subseteq enabled'
    BY <1>1 DEF CreateProvider, TypeInv, TypeOK
  <2>4. TypeOK'
    BY <2>1, <2>2, <2>3, RefreshTyped DEF TypeInv, TypeOK, Calls, calls
  <2>5. RequestInv'
    BY <2>1, RefreshTyped DEF TypeInv, RequestInv, In, Calls, calls
  <2> QED BY <2>4, <2>5 DEF TypeInv
<1>2. ASSUME NEW t \in Tx, NEW p \in Providers, DisableProvider(t, p)
      PROVE  TypeInv'
  <2>1. Refresh(t) /\ UNCHANGED <<calls, known, header, crossed>>
    BY <1>2 DEF DisableProvider
  <2>2. enabled' \subseteq Providers /\ default' \subseteq enabled'
    BY <1>2 DEF DisableProvider, TypeInv, TypeOK
  <2>3. TypeOK'
    BY <2>1, <2>2, RefreshTyped DEF TypeInv, TypeOK, Calls, calls
  <2>4. RequestInv'
    BY <2>1, RefreshTyped DEF TypeInv, RequestInv, In, Calls, calls
  <2> QED BY <2>3, <2>4 DEF TypeInv
<1>3. ASSUME NEW t \in Tx, ReadOrigin(t)
      PROVE  TypeInv'
  <2> DEFINE l == [Idle EXCEPT !.op = "apply", !.origin = ChosenOrigin]
  <2>1. l \in Local /\ l.op = "apply"
    BY ChosenType, IdleType DEF Local
  <2>2. Goto(t, l) /\ UNCHANGED <<calls, providers, header, crossed>> /\ outrun' = outrun
    BY <1>3 DEF ReadOrigin
  <2> HIDE DEF l
  <2> QED BY <2>1, <2>2, LocalStep DEF TypeInv, TypeOK
<1>4. ASSUME NEW t \in Tx, ApplyOrigin(t) \/ RefreshFails(t)
      PROVE  TypeInv'
  <2>1. Done(t) /\ UNCHANGED <<calls, providers, crossed, outrun>>
    BY <1>4 DEF ApplyOrigin, RefreshFails
  <2>2. header' \in Origins \cup {NoOrigin}
    BY <1>4 DEF ApplyOrigin, RefreshFails, TypeInv, TypeOK, Local
  <2>3. started' \in Nat /\ started' >= started
    BY <2>1 DEF calls, TypeInv, TypeOK
  <2>4. TypeOK'
    BY <2>1, <2>2, DoneStep DEF TypeInv, TypeOK, Calls, calls, providers
  <2> QED BY <2>1, <2>3, <2>4, DoneStep DEF TypeInv
<1>5. ASSUME NEW t \in Tx, NEW u \in People, StartCheck(t, u)
      PROVE  TypeInv'
  <2> DEFINE l == [Idle EXCEPT !.op = "start", !.who = {u}]
  <2>1. l \in Local /\ l.op = "start" /\ l.who = {u}
    BY IdleType DEF Local
  <2>2. Goto(t, l) /\ UNCHANGED <<calls, providers, header, crossed>> /\ outrun' = outrun
    BY <1>5 DEF StartCheck
  <2> HIDE DEF l
  <2> QED BY <2>1, <2>2, LocalStep DEF TypeInv, TypeOK
<1>6. ASSUME NEW t \in Tx, NEW u \in People, NEW c \in Calls, JoinLoad(t, u, c)
      PROVE  TypeInv'
  <2> DEFINE l == [Idle EXCEPT !.op = "join", !.who = {u}, !.call = c]
  <2>1. c \in 0..MaxCalls
    BY DEF Calls, TypeInv, TypeOK
  <2>2. l \in Local /\ l.op = "join" /\ l.call = c
    BY <2>1, IdleType DEF Local
  <2>3. Goto(t, l) /\ UNCHANGED <<calls, providers, header, crossed>> /\ outrun' = outrun
    BY <1>6 DEF JoinLoad
  <2> HIDE DEF l
  <2> QED BY <2>2, <2>3, LocalStep DEF TypeInv, TypeOK
<1>7. ASSUME NEW t \in Tx, NEW u \in People, NEW c \in Calls, LeaveCount(t, u, c)
      PROVE  TypeInv'
  <2> DEFINE l == [Idle EXCEPT !.op = "leave", !.who = {u} \cap present[c],
                               !.call = c, !.last = LastOut(u, c)]
  <2>1. c \in 0..MaxCalls /\ LastOut(u, c) \in BOOLEAN
    BY DEF Calls, TypeInv, TypeOK, LastOut
  <2>2. l \in Local /\ l.op = "leave" /\ l.call = c
    BY <2>1, IdleType DEF Local
  <2>3. Goto(t, l) /\ UNCHANGED <<calls, providers, header, crossed>> /\ outrun' = outrun
    BY <1>7 DEF LeaveCount
  <2> HIDE DEF l
  <2> QED BY <2>2, <2>3, LocalStep DEF TypeInv, TypeOK
<1>8. ASSUME NEW t \in Tx, StartCommit(t)
      PROVE  TypeInv'
  <2>1. /\ Done(t) /\ started < MaxCalls /\ started' = started + 1
        /\ present' = [present EXCEPT ![started + 1] = tx[t].who]
        /\ UNCHANGED <<ended, swept, providers, header, crossed, outrun>>
    BY <1>8 DEF StartCommit
  <2>2. started \in Nat /\ started + 1 \in 1..MaxCalls /\ Calls \subseteq Calls'
    BY <2>1 DEF Calls, TypeInv, TypeOK
  <2>3. tx[t].who \in SUBSET People
    BY DEF TypeInv, TypeOK, Local
  <2>4. /\ present' \in [1..MaxCalls -> SUBSET People]
        /\ \A c \in 1..MaxCalls \ Calls' : present'[c] = {}
    <3>1. present \in [1..MaxCalls -> SUBSET People]
      BY DEF TypeInv, TypeOK
    <3>2. present' \in [1..MaxCalls -> SUBSET People]
      BY <2>1, <2>2, <2>3, <3>1
    <3>3. ASSUME NEW c \in 1..MaxCalls \ Calls'
          PROVE  present'[c] = {}
      <4>1. c # started + 1 /\ c \notin Calls
        BY <2>1, <2>2, <3>3 DEF Calls
      <4> QED BY <2>1, <3>1, <3>3, <4>1 DEF TypeInv, TypeOK
    <3> QED BY <3>2, <3>3
  <2>5. TypeOK'
    BY <2>1, <2>2, <2>4, DoneStep DEF TypeInv, TypeOK, providers
  <2> QED BY <2>1, <2>2, <2>5, DoneStep DEF TypeInv
<1>9. ASSUME NEW t \in Tx, JoinCommit(t) \/ LeaveCommit(t)
      PROVE  TypeInv'
  <2> DEFINE c == tx[t].call
  <2>1. /\ Done(t) /\ c \in Calls
        /\ UNCHANGED <<started, swept, providers, header, outrun>>
    BY <1>9 DEF JoinCommit, LeaveCommit, In, TypeInv, RequestInv
  <2>2. c \in 1..MaxCalls
    BY <2>1 DEF Calls, TypeInv, TypeOK
  <2>3. tx[t].who \in SUBSET People
    BY DEF TypeInv, TypeOK, Local
  <2>4. \E S \in SUBSET People : present' = [present EXCEPT ![c] = S]
    <3>1. CASE JoinCommit(t)
      BY <2>2, <2>3, <3>1 DEF JoinCommit, TypeInv, TypeOK
    <3>2. CASE LeaveCommit(t)
      BY <2>2, <2>3, <3>2 DEF LeaveCommit, TypeInv, TypeOK
    <3> QED BY <1>9, <3>1, <3>2
  <2>5. ended \subseteq ended' /\ ended' \subseteq ended \cup {c}
    BY <1>9 DEF JoinCommit, LeaveCommit
  <2>6. /\ present' \in [1..MaxCalls -> SUBSET People]
        /\ \A d \in 1..MaxCalls \ Calls' : present'[d] = {}
    BY <2>1, <2>2, <2>4 DEF Calls, TypeInv, TypeOK
  <2>7. crossed' \in BOOLEAN
    BY <1>9 DEF JoinCommit, LeaveCommit, Overlaps, TypeInv, TypeOK
  <2>8. TypeOK'
    BY <2>1, <2>5, <2>6, <2>7, DoneStep DEF TypeInv, TypeOK, Calls, providers
  <2>9. started' \in Nat /\ started' >= started
    BY <2>1 DEF TypeInv, TypeOK
  <2> QED BY <2>1, <2>8, <2>9, DoneStep DEF TypeInv
<1>10. ASSUME NEW t \in Tx, Rollback(t)
       PROVE  TypeInv'
  <2>1. Done(t) /\ UNCHANGED <<calls, providers, header, crossed, outrun>>
    BY <1>10 DEF Rollback
  <2>2. started' \in Nat /\ started' >= started
    BY <2>1 DEF calls, TypeInv, TypeOK
  <2>3. TypeOK'
    BY <2>1, DoneStep DEF TypeInv, TypeOK, Calls, calls, providers
  <2> QED BY <2>1, <2>2, <2>3, DoneStep DEF TypeInv
<1>11. ASSUME NEW c \in Calls, Sweep(c)
       PROVE  TypeInv'
  BY <1>11 DEF Sweep, Live, TypeInv, TypeOK, RequestInv, In, Calls, providers
<1>12. ASSUME Restart
       PROVE  TypeInv'
  <2>1. tx' \in [Tx -> Local] /\ \A t \in Tx : tx'[t].op = "idle"
    BY <1>12, IdleType DEF Restart
  <2>2. TypeOK'
    BY <1>12, <2>1, ChosenType DEF Restart, TypeInv, TypeOK, Calls, calls, providers
  <2>3. RequestInv'
    BY <2>1 DEF RequestInv, In
  <2> QED BY <2>2, <2>3 DEF TypeInv
<1>13. CASE UNCHANGED vars
  BY <1>13 DEF vars, calls, providers, TypeInv, TypeOK, RequestInv, In, Calls
<1> QED BY <1>1, <1>2, <1>3, <1>4, <1>5, <1>6, <1>7, <1>8, <1>9, <1>10, <1>11, <1>12,
           <1>13 DEF Next

\* Every call, provider and request has its shape, for any members and providers.
THEOREM Typed == Spec => []TypeOK
<1>1. Init => TypeInv
  BY InitTyped
<1>2. TypeInv /\ [Next]_vars => TypeInv'
  BY NextTyped
<1>3. TypeInv => TypeOK
  BY DEF TypeInv
<1> QED BY <1>1, <1>2, <1>3, PTL DEF Spec

-----------------------------------------------------------------------------
(* The calls.  A join that goes on holds a call that everybody leaving has  *)
(* not ended, and a leave that goes on counted what is still the case: until *)
(* a leave overlaps a join or another leave.                               *)

AtMostOne == \A c, d \in Live : c = d

JoinsHold ==
  crossed \/ \A t \in Tx : In(t, "join") => tx[t].call \notin ended \ swept

CountsHold ==
  crossed \/ \A t \in Tx : In(t, "leave") =>
               /\ tx[t].who \subseteq present[tx[t].call]
               /\ tx[t].last <=> present[tx[t].call] \ tx[t].who = {}

CallInv == AtMostOne /\ EndedIsEmpty /\ EmptyIsEnded /\ JoinsHold /\ CountsHold

LEMMA InitCalls == Init => CallInv
<1> SUFFICES ASSUME Init PROVE CallInv
  OBVIOUS
<1>1. Live = {} /\ ended = {}
  BY DEF Init, Live, Calls
<1>2. \A t \in Tx : tx[t].op = "idle"
  BY IdleType DEF Init
<1> QED BY <1>1, <1>2 DEF CallInv, AtMostOne, EndedIsEmpty, EmptyIsEnded, JoinsHold, CountsHold, In

\* A step that leaves the calls alone, and one request with what is true of them.
LEMMA CallsKept ==
  ASSUME CallInv, NEW t \in Tx, UNCHANGED <<calls, crossed>>,
         \A s \in Tx \ {t} : tx'[s] = tx[s],
         In(t, "join")' => tx'[t].call \notin ended \ swept,
         In(t, "leave")' => /\ tx'[t].who \subseteq present[tx'[t].call]
                            /\ tx'[t].last <=> present[tx'[t].call] \ tx'[t].who = {}
  PROVE  CallInv'
<1>1. AtMostOne' /\ EndedIsEmpty' /\ EmptyIsEnded'
  BY DEF CallInv, AtMostOne, EndedIsEmpty, EmptyIsEnded, Live, Calls, calls
<1>2. JoinsHold'
  <2> SUFFICES ASSUME ~crossed, NEW s \in Tx, tx'[s].op = "join"
               PROVE  tx'[s].call \notin ended \ swept
    BY DEF JoinsHold, In, calls
  <2>1. CASE s = t
    BY <2>1 DEF In
  <2>2. CASE s # t
    BY <2>2 DEF CallInv, JoinsHold, In
  <2> QED BY <2>1, <2>2
<1>3. CountsHold'
  <2> SUFFICES ASSUME ~crossed, NEW s \in Tx, tx'[s].op = "leave"
               PROVE  /\ tx'[s].who \subseteq present[tx'[s].call]
                      /\ tx'[s].last <=> present[tx'[s].call] \ tx'[s].who = {}
    BY DEF CountsHold, In, calls
  <2>1. CASE s = t
    BY <2>1 DEF In
  <2>2. CASE s # t
    BY <2>2 DEF CallInv, CountsHold, In
  <2> QED BY <2>1, <2>2
<1> QED BY <1>1, <1>2, <1>3 DEF CallInv

\* A request on a call that commits beside no leave, or a leave beside nobody.
LEMMA Alone ==
  ASSUME NEW t \in Tx, ~Overlaps(t), NEW s \in Tx \ {t}, tx[s].call = tx[t].call
  PROVE  /\ ~In(s, "leave")
         /\ In(t, "leave") => ~In(s, "join")
  BY DEF Overlaps, In

LEMMA NextCalls == TypeInv /\ CallInv /\ [Next]_vars => CallInv'
<1> SUFFICES ASSUME TypeInv, CallInv, [Next]_vars PROVE CallInv'
  OBVIOUS
<1>1. ASSUME NEW t \in Tx, Refresh(t), UNCHANGED <<calls, crossed>>
      PROVE  CallInv'
  BY <1>1, RefreshTyped, CallsKept DEF In
<1>2. ASSUME NEW t \in Tx, Done(t), UNCHANGED <<calls, crossed>>
      PROVE  CallInv'
  BY <1>2, DoneStep, CallsKept DEF In
<1>3. ASSUME NEW t \in Tx, NEW p \in Providers, NEW b \in BOOLEAN,
             CreateProvider(t, p, b) \/ DisableProvider(t, p)
      PROVE  CallInv'
  BY <1>1, <1>3 DEF CreateProvider, RefreshAfterCreate, DisableProvider
<1>4. ASSUME NEW t \in Tx, ApplyOrigin(t) \/ RefreshFails(t) \/ Rollback(t)
      PROVE  CallInv'
  BY <1>2, <1>4 DEF ApplyOrigin, RefreshFails, Rollback
<1>5. ASSUME NEW t \in Tx, NEW l \in Local, Goto(t, l), UNCHANGED <<calls, crossed>>,
             l.op = "join" => l.call \notin ended,
             l.op = "leave" => /\ l.who \subseteq present[l.call]
                               /\ l.last <=> present[l.call] \ l.who = {}
      PROVE  CallInv'
  <2>1. tx'[t] = l /\ \A s \in Tx \ {t} : tx'[s] = tx[s]
    BY <1>5, GotoType DEF TypeInv, TypeOK
  <2> QED BY <1>5, <2>1, CallsKept DEF In
<1>6. ASSUME NEW t \in Tx, ReadOrigin(t)
      PROVE  CallInv'
  <2> DEFINE l == [Idle EXCEPT !.op = "apply", !.origin = ChosenOrigin]
  <2>1. l \in Local /\ l.op = "apply"
    BY ChosenType, IdleType DEF Local
  <2>2. Goto(t, l) /\ UNCHANGED <<calls, crossed>>
    BY <1>6 DEF ReadOrigin
  <2> HIDE DEF l
  <2> QED BY <1>5, <2>1, <2>2
<1>7. ASSUME NEW t \in Tx, NEW u \in People, StartCheck(t, u)
      PROVE  CallInv'
  <2> DEFINE l == [Idle EXCEPT !.op = "start", !.who = {u}]
  <2>1. l \in Local /\ l.op = "start"
    BY IdleType DEF Local
  <2>2. Goto(t, l) /\ UNCHANGED <<calls, crossed>>
    BY <1>7 DEF StartCheck
  <2> HIDE DEF l
  <2> QED BY <1>5, <2>1, <2>2
<1>8. ASSUME NEW t \in Tx, NEW u \in People, NEW c \in Calls, JoinLoad(t, u, c)
      PROVE  CallInv'
  <2> DEFINE l == [Idle EXCEPT !.op = "join", !.who = {u}, !.call = c]
  <2>1. c \in 0..MaxCalls
    BY CallsAssumption DEF Calls, TypeInv, TypeOK
  <2>2. l \in Local /\ l.op = "join" /\ l.call = c
    BY <2>1, IdleType DEF Local
  <2>3. Goto(t, l) /\ UNCHANGED <<calls, crossed>> /\ c \notin ended
    BY <1>8 DEF JoinLoad, StillLive
  <2> HIDE DEF l
  <2> QED BY <1>5, <2>2, <2>3
<1>9. ASSUME NEW t \in Tx, NEW u \in People, NEW c \in Calls, LeaveCount(t, u, c)
      PROVE  CallInv'
  <2> DEFINE l == [Idle EXCEPT !.op = "leave", !.who = {u} \cap present[c],
                               !.call = c, !.last = LastOut(u, c)]
  <2>1. c \in 0..MaxCalls /\ LastOut(u, c) \in BOOLEAN
    BY CallsAssumption DEF Calls, TypeInv, TypeOK, LastOut
  <2>2. /\ l \in Local /\ l.op = "leave" /\ l.call = c
        /\ l.who = {u} \cap present[c] /\ l.last = LastOut(u, c)
    BY <2>1, IdleType DEF Local
  <2>3. Goto(t, l) /\ UNCHANGED <<calls, crossed>>
    BY <1>9 DEF LeaveCount
  <2> HIDE DEF l
  <2>4. LastOut(u, c) <=> present[c] \ ({u} \cap present[c]) = {}
    BY DEF LastOut
  <2> QED BY <1>5, <2>2, <2>3, <2>4
<1>10. ASSUME NEW t \in Tx, StartCommit(t)
       PROVE  CallInv'
  <2> DEFINE n == started + 1
  <2>1. /\ Live = {} /\ n \in 1..MaxCalls /\ started' = n /\ tx[t].who # {}
        /\ present' = [present EXCEPT ![n] = tx[t].who]
        /\ UNCHANGED <<ended, swept, crossed>>
    BY <1>10, CallsAssumption
    DEF StartCommit, NoLiveCall, TypeInv, TypeOK, RequestInv
  <2>2. n \notin Calls /\ Calls' = Calls \cup {n}
    BY <2>1, CallsAssumption DEF Calls, TypeInv, TypeOK
  <2>3. ended \subseteq Calls
    BY DEF TypeInv, TypeOK
  <2> HIDE DEF n
  <2>4. Live' = {n}
    BY <2>1, <2>2, <2>3 DEF Live
  <2>5. present'[n] = tx[t].who /\ \A c \in Calls : present'[c] = present[c]
    BY <2>1, <2>2 DEF TypeInv, TypeOK
  <2>6. tx'[t].op = "idle" /\ \A s \in Tx \ {t} : tx'[s] = tx[s]
    BY <1>10, DoneStep DEF StartCommit
  <2>7. AtMostOne' /\ EndedIsEmpty' /\ EmptyIsEnded'
    BY <2>1, <2>3, <2>4, <2>5 DEF CallInv, AtMostOne, EndedIsEmpty, EmptyIsEnded
  <2>8. JoinsHold'
    BY <2>1, <2>6 DEF CallInv, JoinsHold, In
  <2>9. CountsHold'
    <3> SUFFICES ASSUME ~crossed, NEW s \in Tx, tx'[s].op = "leave"
                 PROVE  /\ tx'[s].who \subseteq present'[tx'[s].call]
                        /\ tx'[s].last <=> present'[tx'[s].call] \ tx'[s].who = {}
      BY <2>1 DEF CountsHold, In
    <3>1. tx'[s] = tx[s] /\ tx[s].call \in Calls
      BY <2>6 DEF TypeInv, RequestInv
    <3> QED BY <2>5, <3>1 DEF CallInv, CountsHold, In
  <2> QED BY <2>7, <2>8, <2>9 DEF CallInv
<1>11. ASSUME NEW t \in Tx, JoinCommit(t)
       PROVE  CallInv'
  <2> DEFINE c == tx[t].call
  <2>1. /\ In(t, "join") /\ c \in Calls
        /\ present' = [present EXCEPT ![c] = @ \cup tx[t].who]
        /\ crossed' = (crossed \/ Overlaps(t))
        /\ UNCHANGED <<started, ended, swept>>
    BY <1>11 DEF JoinCommit, TypeInv, RequestInv, In
  <2>2. tx'[t].op = "idle" /\ \A s \in Tx \ {t} : tx'[s] = tx[s]
    BY <1>11, DoneStep DEF JoinCommit
  <2>3. Calls \subseteq 1..MaxCalls /\ ended \subseteq Calls
    BY CallsAssumption DEF Calls, TypeInv, TypeOK
  <2>4. /\ present'[c] = present[c] \cup tx[t].who
        /\ \A d \in Calls \ {c} : present'[d] = present[d]
    BY <2>1, <2>3 DEF TypeInv, TypeOK
  <2>5. Calls' = Calls /\ Live' = Live
    BY <2>1 DEF Calls, Live
  <2>6. AtMostOne'
    BY <2>5 DEF CallInv, AtMostOne
  <2>7. CASE crossed'
    BY <2>6, <2>7 DEF CallInv, EndedIsEmpty, EmptyIsEnded, JoinsHold, CountsHold
  <2>8. CASE ~crossed'
    <3>1. ~crossed /\ ~Overlaps(t)
      BY <2>1, <2>8
    <3>2. EndedIsEmpty'
      <4>1. c \notin ended \ swept
        BY <2>1, <3>1 DEF CallInv, JoinsHold
      <4>2. ASSUME NEW d \in ended \ swept PROVE present'[d] = {}
        BY <2>3, <2>4, <3>1, <4>1 DEF CallInv, EndedIsEmpty
      <4> QED BY <2>1, <4>2 DEF EndedIsEmpty
    <3>3. EmptyIsEnded'
      <4>1. ASSUME NEW d \in Live PROVE present'[d] # {}
        BY <2>4, <3>1 DEF CallInv, EmptyIsEnded, Live
      <4> QED BY <2>5, <4>1 DEF EmptyIsEnded
    <3>4. JoinsHold'
      BY <2>1, <2>2, <3>1 DEF CallInv, JoinsHold, In
    <3>5. CountsHold'
      <4> SUFFICES ASSUME NEW s \in Tx, tx'[s].op = "leave"
                   PROVE  /\ tx'[s].who \subseteq present'[tx'[s].call]
                          /\ tx'[s].last <=> present'[tx'[s].call] \ tx'[s].who = {}
        BY DEF CountsHold, In
      <4>1. s # t /\ tx'[s] = tx[s] /\ tx[s].call \in Calls
        BY <2>2 DEF TypeInv, RequestInv
      <4>2. tx[s].call # c
        BY <3>1, <4>1, Alone DEF In
      <4> QED BY <2>4, <3>1, <4>1, <4>2 DEF CallInv, CountsHold, In
    <3> QED BY <2>6, <3>2, <3>3, <3>4, <3>5 DEF CallInv
  <2> QED BY <2>7, <2>8
<1>12. ASSUME NEW t \in Tx, LeaveCommit(t)
       PROVE  CallInv'
  <2> DEFINE c == tx[t].call
  <2>1. /\ In(t, "leave") /\ c \in Calls
        /\ present' = [present EXCEPT ![c] = @ \ tx[t].who]
        /\ ended' = IF tx[t].last THEN ended \cup {c} ELSE ended
        /\ crossed' = (crossed \/ Overlaps(t))
        /\ UNCHANGED <<started, swept>>
    BY <1>12 DEF LeaveCommit, TypeInv, RequestInv, In
  <2>2. tx'[t].op = "idle" /\ \A s \in Tx \ {t} : tx'[s] = tx[s]
    BY <1>12, DoneStep DEF LeaveCommit
  <2>3. Calls \subseteq 1..MaxCalls /\ ended \subseteq Calls
    BY CallsAssumption DEF Calls, TypeInv, TypeOK
  <2>4. /\ present'[c] = present[c] \ tx[t].who
        /\ \A d \in Calls \ {c} : present'[d] = present[d]
    BY <2>1, <2>3 DEF TypeInv, TypeOK
  <2>5. Calls' = Calls /\ Live' = Calls \ ended' /\ Live' \subseteq Live
    BY <2>1 DEF Calls, Live
  <2>6. AtMostOne'
    BY <2>5 DEF CallInv, AtMostOne
  <2>7. CASE crossed'
    BY <2>6, <2>7 DEF CallInv, EndedIsEmpty, EmptyIsEnded, JoinsHold, CountsHold
  <2>8. CASE ~crossed'
    <3>1. ~crossed /\ ~Overlaps(t)
      BY <2>1, <2>8
    <3>2. tx[t].last <=> present'[c] = {}
      BY <2>1, <2>4, <3>1 DEF CallInv, CountsHold
    <3>3. EndedIsEmpty'
      <4>1. ASSUME NEW d \in ended' \ swept PROVE present'[d] = {}
        <5>1. CASE d = c /\ tx[t].last
          BY <3>2, <5>1
        <5>2. CASE d \in ended
          BY <2>3, <2>4, <3>1, <4>1, <5>2 DEF CallInv, EndedIsEmpty
        <5> QED BY <2>1, <4>1, <5>1, <5>2
      <4> QED BY <2>1, <4>1 DEF EndedIsEmpty
    <3>4. EmptyIsEnded'
      <4>1. ASSUME NEW d \in Live' PROVE present'[d] # {}
        <5>1. CASE d = c
          BY <2>1, <2>5, <3>2, <4>1, <5>1
        <5>2. CASE d # c
          BY <2>4, <2>5, <3>1, <4>1, <5>2 DEF CallInv, EmptyIsEnded, Live
        <5> QED BY <5>1, <5>2
      <4> QED BY <4>1 DEF EmptyIsEnded
    <3>5. JoinsHold'
      <4> SUFFICES ASSUME NEW s \in Tx, tx'[s].op = "join"
                   PROVE  tx'[s].call \notin ended' \ swept'
        BY DEF JoinsHold, In
      <4>1. s # t /\ tx'[s] = tx[s]
        BY <2>2
      <4>2. tx[s].call # c
        BY <2>1, <3>1, <4>1, Alone DEF In
      <4> QED BY <2>1, <3>1, <4>1, <4>2 DEF CallInv, JoinsHold, In
    <3>6. CountsHold'
      <4> SUFFICES ASSUME NEW s \in Tx, tx'[s].op = "leave"
                   PROVE  /\ tx'[s].who \subseteq present'[tx'[s].call]
                          /\ tx'[s].last <=> present'[tx'[s].call] \ tx'[s].who = {}
        BY DEF CountsHold, In
      <4>1. s # t /\ tx'[s] = tx[s] /\ tx[s].call \in Calls
        BY <2>2 DEF TypeInv, RequestInv
      <4>2. tx[s].call # c
        BY <3>1, <4>1, Alone DEF In
      <4> QED BY <2>4, <3>1, <4>1, <4>2 DEF CallInv, CountsHold, In
    <3> QED BY <2>6, <3>3, <3>4, <3>5, <3>6 DEF CallInv
  <2> QED BY <2>7, <2>8
<1>13. ASSUME NEW c \in Calls, Sweep(c)
       PROVE  CallInv'
  <2>1. /\ ended' = ended \cup {c} /\ swept' = swept \cup {c}
        /\ UNCHANGED <<started, present, tx, crossed>>
    BY <1>13 DEF Sweep
  <2>2. Live' \subseteq Live /\ ended' \ swept' \subseteq ended \ swept
    BY <2>1 DEF Live, Calls
  <2> QED BY <2>1, <2>2
          DEF CallInv, AtMostOne, EndedIsEmpty, EmptyIsEnded, JoinsHold, CountsHold, In
<1>14. ASSUME Restart
       PROVE  CallInv'
  <2>1. \A t \in Tx : tx'[t].op = "idle"
    BY <1>14, IdleType DEF Restart
  <2>2. UNCHANGED <<calls, crossed>>
    BY <1>14 DEF Restart
  <2> QED BY <2>1, <2>2 DEF CallInv, AtMostOne, EndedIsEmpty, EmptyIsEnded, JoinsHold,
          CountsHold, In, Live, Calls, calls
<1>15. CASE UNCHANGED vars
  BY <1>15 DEF vars, calls, CallInv, AtMostOne, EndedIsEmpty, EmptyIsEnded, JoinsHold,
     CountsHold, In, Live, Calls
<1> QED BY <1>3, <1>4, <1>6, <1>7, <1>8, <1>9, <1>10, <1>11, <1>12, <1>13, <1>14, <1>15
        DEF Next

\* The inductive invariant: however starts, joins, leaves and sweeps interleave.
THEOREM CallsAlways == Spec => [](TypeInv /\ CallInv)
<1>1. Init => TypeInv /\ CallInv
  BY InitTyped, InitCalls
<1>2. TypeInv /\ CallInv /\ [Next]_vars => TypeInv' /\ CallInv'
  BY NextTyped, NextCalls
<1> QED BY <1>1, <1>2, PTL DEF Spec

\* Two live calls would be two different numbers.
LEMMA OneAtMost == TypeInv /\ AtMostOne => OneLiveCall
<1> SUFFICES ASSUME TypeInv, AtMostOne PROVE Cardinality(Live) <= 1
  BY DEF OneLiveCall
<1>1. CASE Live = {}
  BY <1>1, FS_EmptySet
<1>2. CASE Live # {}
  <2>1. PICK c \in Live : TRUE
    BY <1>2
  <2>2. Live = {c}
    BY <2>1 DEF AtMostOne
  <2> QED BY <2>2, FS_Singleton
<1> QED BY <1>1, <1>2

\* A channel holds at most one live call, whoever presses the button at the
\* same moment: uq_call_live_per_channel decides.
THEOREM OneCallAlways == Spec => []OneLiveCall
<1>1. TypeInv /\ CallInv => OneLiveCall
  BY OneAtMost DEF CallInv
<1> QED BY <1>1, CallsAlways, PTL

\* A call is live exactly while somebody is in it, as long as no leave
\* overlapped a join or another leave of the call.
THEOREM CallsAlwaysSound == Spec => []CallsSound
<1>1. TypeInv /\ CallInv => CallsSound
  BY OneAtMost DEF TypeInv, CallInv, CallsSound
<1> QED BY <1>1, CallsAlways, PTL

-----------------------------------------------------------------------------
(* The header.  A refresh that goes on, alone, carries what the table says. *)

\* With no overlap there is one refresh at a time, and what it read is true.
RefreshInv ==
  \/ outrun
  \/ /\ \A s, t \in Tx : Refreshing(s) /\ Refreshing(t) => s = t
     /\ \A t \in Tx : In(t, "apply") => tx[t].origin = ChosenOrigin

HeaderInv == RefreshInv /\ FrameOrigin

LEMMA InitHeader == Init => HeaderInv
<1> SUFFICES ASSUME Init PROVE HeaderInv
  OBVIOUS
<1>1. \A t \in Tx : tx[t].op = "idle"
  BY IdleType DEF Init
<1> QED BY <1>1 DEF HeaderInv, RefreshInv, FrameOrigin, Refreshing, In, Init

\* A step that changes neither the table nor who is refreshing.
LEMMA HeaderKept ==
  ASSUME TypeInv, HeaderInv, NEW t \in Tx, NEW l \in Local, Goto(t, l),
         UNCHANGED <<providers, header, outrun>>,
         ~Refreshing(t), l.op \notin {"refresh", "apply"}
  PROVE  HeaderInv'
<1>1. tx'[t] = l /\ \A s \in Tx \ {t} : tx'[s] = tx[s]
  BY GotoType DEF TypeInv, TypeOK
<1>2. \A s \in Tx : Refreshing(s)' <=> Refreshing(s)
  BY <1>1 DEF Refreshing, In
<1>3. \A s \in Tx : In(s, "apply")' => In(s, "apply") /\ tx'[s] = tx[s]
  BY <1>1 DEF In
<1>4. ChosenOrigin' = ChosenOrigin
  BY DEF ChosenOrigin, Preferred, providers
<1> QED BY <1>2, <1>3, <1>4 DEF HeaderInv, RefreshInv, FrameOrigin

\* The refresh that ends leaves the header right, if it was the only one.
LEMMA HeaderApplied ==
  ASSUME TypeInv, HeaderInv, NEW t \in Tx, Refreshing(t), Done(t),
         UNCHANGED <<providers, outrun>>,
         outrun \/ header' \in {ChosenOrigin, NoOrigin}
  PROVE  HeaderInv'
<1>1. tx'[t].op = "idle" /\ \A s \in Tx \ {t} : tx'[s] = tx[s]
  BY DoneStep
<1>2. \A s \in Tx : Refreshing(s)' => Refreshing(s) /\ tx'[s] = tx[s]
  BY <1>1 DEF Refreshing, In
<1>3. ChosenOrigin' = ChosenOrigin
  BY DEF ChosenOrigin, Preferred, providers
<1> QED BY <1>2, <1>3 DEF HeaderInv, RefreshInv, FrameOrigin, Refreshing, In

LEMMA NextHeader == TypeInv /\ HeaderInv /\ [Next]_vars => HeaderInv'
<1> SUFFICES ASSUME TypeInv, HeaderInv, [Next]_vars PROVE HeaderInv'
  OBVIOUS
<1>1. ASSUME NEW t \in Tx, Refresh(t)
      PROVE  HeaderInv'
  <2>1. tx'[t].op = "refresh" /\ \A s \in Tx \ {t} : tx'[s] = tx[s]
    BY <1>1, RefreshTyped
  <2>2. outrun' = (outrun \/ \E s \in Tx : Refreshing(s))
    BY <1>1 DEF Refresh
  <2>3. FrameOrigin'
    BY <2>1 DEF FrameOrigin, Refreshing, In
  <2>4. CASE outrun'
    BY <2>3, <2>4 DEF HeaderInv, RefreshInv
  <2>5. CASE ~outrun'
    <3>1. \A s \in Tx : Refreshing(s)' => s = t
      BY <2>1, <2>2, <2>5 DEF Refreshing, In
    <3>2. \A s \in Tx : ~In(s, "apply")'
      BY <2>1, <3>1 DEF Refreshing, In
    <3> QED BY <2>3, <3>1, <3>2 DEF HeaderInv, RefreshInv
  <2> QED BY <2>4, <2>5
<1>2. ASSUME NEW t \in Tx, NEW p \in Providers, NEW b \in BOOLEAN,
             CreateProvider(t, p, b) \/ DisableProvider(t, p)
      PROVE  HeaderInv'
  BY <1>1, <1>2 DEF CreateProvider, RefreshAfterCreate, DisableProvider
<1>3. ASSUME NEW t \in Tx, ReadOrigin(t)
      PROVE  HeaderInv'
  <2> DEFINE l == [Idle EXCEPT !.op = "apply", !.origin = ChosenOrigin]
  <2>1. l \in Local /\ l.op = "apply" /\ l.origin = ChosenOrigin
    BY ChosenType, IdleType DEF Local
  <2>2. Goto(t, l) /\ UNCHANGED <<providers, header, outrun>> /\ Refreshing(t)
    BY <1>3 DEF ReadOrigin, Refreshing
  <2> HIDE DEF l
  <2>3. tx'[t] = l /\ \A s \in Tx \ {t} : tx'[s] = tx[s]
    BY <2>1, <2>2, GotoType DEF TypeInv, TypeOK
  <2>4. \A s \in Tx : Refreshing(s)' <=> Refreshing(s)
    BY <2>1, <2>2, <2>3 DEF Refreshing, In
  <2>5. ChosenOrigin' = ChosenOrigin
    BY <2>2 DEF ChosenOrigin, Preferred, providers
  <2>6. RefreshInv'
    BY <2>1, <2>2, <2>3, <2>4, <2>5 DEF HeaderInv, RefreshInv, In
  <2>7. FrameOrigin'
    BY <2>2, <2>4 DEF FrameOrigin
  <2> QED BY <2>6, <2>7 DEF HeaderInv
<1>4. ASSUME NEW t \in Tx, ApplyOrigin(t) \/ RefreshFails(t)
      PROVE  HeaderInv'
  <2>1. Refreshing(t) /\ Done(t) /\ UNCHANGED <<providers, outrun>>
    BY <1>4 DEF ApplyOrigin, RefreshFails, Refreshing
  <2>2. outrun \/ header' \in {ChosenOrigin, NoOrigin}
    BY <1>4 DEF ApplyOrigin, RefreshFails, HeaderInv, RefreshInv
  <2> QED BY <2>1, <2>2, HeaderApplied
<1>5. ASSUME NEW t \in Tx, NEW u \in People, StartCheck(t, u)
      PROVE  HeaderInv'
  <2> DEFINE l == [Idle EXCEPT !.op = "start", !.who = {u}]
  <2>1. l \in Local /\ l.op = "start"
    BY IdleType DEF Local
  <2>2. Goto(t, l) /\ UNCHANGED <<providers, header, outrun>> /\ ~Refreshing(t)
    BY <1>5 DEF StartCheck, Free, Refreshing, In
  <2> HIDE DEF l
  <2> QED BY <2>1, <2>2, HeaderKept
<1>6. ASSUME NEW t \in Tx, NEW u \in People, NEW c \in Calls, JoinLoad(t, u, c)
      PROVE  HeaderInv'
  <2> DEFINE l == [Idle EXCEPT !.op = "join", !.who = {u}, !.call = c]
  <2>1. c \in 0..MaxCalls
    BY CallsAssumption DEF Calls, TypeInv, TypeOK
  <2>2. l \in Local /\ l.op = "join"
    BY <2>1, IdleType DEF Local
  <2>3. Goto(t, l) /\ UNCHANGED <<providers, header, outrun>> /\ ~Refreshing(t)
    BY <1>6 DEF JoinLoad, Free, Refreshing, In
  <2> HIDE DEF l
  <2> QED BY <2>2, <2>3, HeaderKept
<1>7. ASSUME NEW t \in Tx, NEW u \in People, NEW c \in Calls, LeaveCount(t, u, c)
      PROVE  HeaderInv'
  <2> DEFINE l == [Idle EXCEPT !.op = "leave", !.who = {u} \cap present[c],
                               !.call = c, !.last = LastOut(u, c)]
  <2>1. c \in 0..MaxCalls /\ LastOut(u, c) \in BOOLEAN
    BY CallsAssumption DEF Calls, TypeInv, TypeOK, LastOut
  <2>2. l \in Local /\ l.op = "leave"
    BY <2>1, IdleType DEF Local
  <2>3. Goto(t, l) /\ UNCHANGED <<providers, header, outrun>> /\ ~Refreshing(t)
    BY <1>7 DEF LeaveCount, Free, Refreshing, In
  <2> HIDE DEF l
  <2> QED BY <2>2, <2>3, HeaderKept
<1>8. ASSUME NEW t \in Tx, StartCommit(t) \/ JoinCommit(t) \/ LeaveCommit(t) \/ Rollback(t)
      PROVE  HeaderInv'
  <2>1. Goto(t, Idle) /\ UNCHANGED <<providers, header, outrun>> /\ ~Refreshing(t)
    BY <1>8 DEF StartCommit, JoinCommit, LeaveCommit, Rollback, Done, Refreshing, In
  <2> QED BY <2>1, IdleType, HeaderKept
<1>9. CASE UNCHANGED <<providers, header, tx, outrun>>
  <2>1. ChosenOrigin' = ChosenOrigin
    BY <1>9 DEF ChosenOrigin, Preferred, providers
  <2> QED BY <1>9, <2>1 DEF HeaderInv, RefreshInv, FrameOrigin, Refreshing, In
<1>10. ASSUME Restart
       PROVE  HeaderInv'
  <2>1. ChosenOrigin' = ChosenOrigin
    BY <1>10 DEF Restart, ChosenOrigin, Preferred, providers
  <2>2. \A t \in Tx : tx'[t].op = "idle"
    BY <1>10, IdleType DEF Restart
  <2>3. header' \in {ChosenOrigin, NoOrigin}
    BY <1>10 DEF Restart
  <2> QED BY <2>1, <2>2, <2>3 DEF HeaderInv, RefreshInv, FrameOrigin, Refreshing, In
<1>11. ASSUME NEW c \in Calls, Sweep(c)
       PROVE  HeaderInv'
  BY <1>9, <1>11 DEF Sweep
<1>12. CASE UNCHANGED vars
  BY <1>9, <1>12 DEF vars
<1> QED BY <1>2, <1>3, <1>4, <1>5, <1>6, <1>7, <1>8, <1>10, <1>11, <1>12 DEF Next

\* Once the refreshes are over the header names the origin of the provider a
\* call would be held with, or none, unless two refreshes overlapped: no origin
\* is left in frame-src after its provider was stopped or replaced.
THEOREM FrameOriginAlways == Spec => []FrameOrigin
<1>1. Init => TypeInv /\ HeaderInv
  BY InitTyped, InitHeader
<1>2. TypeInv /\ HeaderInv /\ [Next]_vars => TypeInv' /\ HeaderInv'
  BY NextTyped, NextHeader
<1>3. HeaderInv => FrameOrigin
  BY DEF HeaderInv
<1> QED BY <1>1, <1>2, <1>3, PTL DEF Spec

=============================================================================
