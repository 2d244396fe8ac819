SPECIFICATION FairSpec
CONSTANTS
  Deliveries = {d1, d2}
  Passes = {p1, p2}
  MaxAttempts = 3
  FailuresBeforeDisable = 3
  BatchSize = 2
  Environments <- Anything
PROPERTY SwitchedOffRightly
PROPERTY RecordIsTrue
PROPERTY EventuallyConcluded
