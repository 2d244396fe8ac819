\* Without an active Owner nobody may be left who can sign in: it may stop.
CHECK_DEADLOCK FALSE
SPECIFICATION Spec
CONSTANTS
  People = {ann, bob}
  Services = {svc}
  Credentials = {c1, c2}
  Tx = {t1, t2}
SYMMETRY Interchangeable
CONSTRAINT BeforeSkew
INVARIANT TypeOK
INVARIANT OwnersHold
INVARIANT DisabledSignedOut
PROPERTY OwnersByOwners
