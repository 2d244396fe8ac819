------------------------- MODULE MCNotificationOutbox -------------------------
(* Instances of NotificationOutbox for TLC. *)
EXTENDS NotificationOutbox, TLC

Interchangeable ==
  UNION {Permutations(S) : S \in {Rows, Notes, Drains, Devices, Instances}}

NobodySlow == {{"noPush"}, {"overlap"}, {"crash"}, {"database"}}
AlmostAnything == {{"crash", "slow", "database", "lostReply"}}

=============================================================================
