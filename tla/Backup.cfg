SPECIFICATION Spec
CONSTANTS
  Keys = {k1, k2}
  Messages = {m1, m2}
  Writers = {w1, w2}
  MaxKeys = 2
SYMMETRY Interchangeable
INVARIANT TypeOK
INVARIANT FilesWhole
INVARIANT BackupSound
INVARIANT RestoreHonest
PROPERTY FilesAreKept
PROPERTY OmittedKeepsAlone
CHECK_DEADLOCK FALSE
