--------------------------- MODULE MCOrganisation ---------------------------
(* Instances of Administration, and with it of OrgUnits and PersonalContent, *)
(* for TLC.                                                                  *)
EXTENDS Administration, TLC

CONSTANTS plain, padded, other, blank

\* padded is plain with a space in front.
Trim == padded :> plain @@ plain :> plain @@ other :> other

\* One row for each person: nothing, or a text; or two rows that disagree.
Row(p, t) == [who |-> p, cell |-> t]
Uploads == UNION {{<<Row(p, blank)>>, <<Row(p, plain)>>, <<Row(p, other)>>,
                   <<Row(p, plain), Row(p, other)>>} : p \in People}

Everybody == [all |-> TRUE, units |-> {}, people |-> {}]
Members(S) == [all |-> FALSE, units |-> S, people |-> {}]
TargetLists == {Everybody} \cup {Members(S) : S \in SUBSET Units \ {{}}}

AllDesks == {"organisation", "targets", "secrets"}

Interchangeable == Permutations(People) \cup Permutations(Units) \cup
                   Permutations(Admins) \cup Permutations(Chips)

=============================================================================
