SPECIFICATION Spec
CONSTANTS
  Notes = {n1, n2}
  NoNote = NoNote
  Instances = {i1, i2}
  Rows = {r1, r2}
  Drains = {d1, d2}
  Devices = {p1}
  MaxAttempts = 2
  BatchSize = 2
  Environments <- NobodySlow
SYMMETRY Interchangeable
INVARIANT RowsHeldOnce
PROPERTY NobodyToldTwice
