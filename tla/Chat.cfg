SPECIFICATION Spec
CONSTANTS
  Users = {u1, u2}
  Tx = {t1, t2}
  Channels = {c1, c2}
  Names = {n1}
  MaxMessages = 3
  PageSize = 1
SYMMETRY Interchangeable
INVARIANT ChannelsSound
INVARIANT WalkComplete
PROPERTY PositionsHold
CHECK_DEADLOCK FALSE
