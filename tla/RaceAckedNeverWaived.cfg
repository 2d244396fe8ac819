SPECIFICATION Spec
CONSTANTS
  Users = {u1}
  Tx = {t1, t2}
  MaxRevisions = 2
  MaxObligations = 3
SYMMETRY Interchangeable
INVARIANT AckedNeverWaived
