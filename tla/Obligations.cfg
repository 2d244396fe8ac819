SPECIFICATION Spec
CONSTANTS
  Users = {u1, u2}
  Tx = {t1, t2}
  MaxRevisions = 2
  MaxObligations = 2
SYMMETRY Interchangeable
INVARIANT TypeOK
INVARIANT EveryoneCountedOnce
INVARIANT OnlyReleasedText
INVARIANT EventsOnce
INVARIANT AsPromisedAlone
PROPERTY PublishedStands
