----------------------------- MODULE MessageFiles -----------------------------
(* What the chat promises about a file somebody attaches: it is offered      *)
(* whole or not at all, sent in one message together with the others of that *)
(* message or given up, and once sent it stays.  Transactions, the disk, the *)
(* sweep and crashes are not seen.                                           *)

CONSTANTS Keys, Messages

VARIABLES
  inService,   \* the data are the server's own, not lost or being replaced
  status,      \* of each file: "fresh", "unsent", "gone", or its message
  posted       \* messages |-> their files

vars == <<inService, status, posted>>

Fresh  == [k \in Keys |-> "fresh"]
Nobody == [m \in Messages |-> {}]

Init == inService = TRUE /\ status = Fresh /\ posted = Nobody

Become(K, s) == [k \in Keys |-> IF k \in K THEN s ELSE status[k]]
All(K, s) == \A k \in K : status[k] = s

Offer(k) ==
  /\ inService /\ All({k}, "fresh")
  /\ status' = Become({k}, "unsent")
  /\ UNCHANGED <<inService, posted>>

\* An upload that fails.
Abandon(k) ==
  /\ inService /\ All({k}, "fresh")
  /\ status' = Become({k}, "gone")
  /\ UNCHANGED <<inService, posted>>

Post(m, K) ==
  /\ inService /\ posted[m] = {} /\ K # {} /\ All(K, "unsent")
  /\ status' = Become(K, m) /\ posted' = [posted EXCEPT ![m] = K]
  /\ UNCHANGED inService

\* Files nobody sent are given up, several at a time.
GiveUp(K) ==
  /\ inService /\ All(K, "unsent")
  /\ status' = Become(K, "gone")
  /\ UNCHANGED <<inService, posted>>

Stop ==
  /\ inService /\ inService' = FALSE
  /\ status' = Fresh /\ posted' = Nobody

Next ==
  \/ \E k \in Keys : Offer(k) \/ Abandon(k)
  \/ \E m \in Messages, K \in SUBSET Keys : Post(m, K)
  \/ \E K \in SUBSET Keys : GiveUp(K)
  \/ Stop

Spec == Init /\ [][Next]_vars

=============================================================================
