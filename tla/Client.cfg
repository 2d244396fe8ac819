SPECIFICATION Spec
CONSTANTS
  MaxSockets = 3
  MaxRuns = 2
  NoData = NoData
  MaxMessages = 2
  MaxTexts = 2
  MaxVisits = 2
  Channels = {c1, c2}
  NoChannel = NoChannel
  MaxCalls = 2
  People = {p, q}
  Nobody = Nobody
  NoCopy = NoCopy
  MaxSignOuts = 1
  MaxBuilds = 2
  Windows = {t1, t2}
  MaxScripts = 3
  Users = {u, v}
  MaxEndpoints = 2
  Foci <- AllFoci
INVARIANT ConversationShown
INVARIANT WritingHolds
INVARIANT CallsShown
 
INVARIANT UpdatesReach
INVARIANT PushAgrees
PROPERTY SocketsHold
CHECK_DEADLOCK FALSE
