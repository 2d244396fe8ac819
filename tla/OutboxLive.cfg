SPECIFICATION FairSpec
CONSTANTS
  Notes = {n1}
  NoNote = NoNote
  Instances = {i1}
  Rows = {r1}
  Drains = {d1, d2}
  Devices = {p1, p2}
  MaxAttempts = 2
  BatchSize = 1
  Environments <- AlmostAnything
INVARIANT ProcessedIsDelivered
PROPERTY EventuallyConcluded
