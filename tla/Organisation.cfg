SPECIFICATION AdminSpec
CONSTANTS
  People = {p1}
  Units = {u1, u2}
  Admins = {a1, a2}
  MaxRows = 2
  plain = plain
  padded = padded
  other = other
  blank = blank
  Texts = {plain, padded, other}
  Blank = blank
  Trimmed <- Trim
  Targets <- TargetLists
  Sheets <- Uploads
  MaxVersions = 2
  MaxRevisions = 2
  MaxObligations = 2
  Chips = {g1, g2}
  MaxSecrets = 2
  MaxMounts = 2
  Desks <- AllDesks
SYMMETRY Interchangeable
INVARIANT AnnouncementTells
INVARIANT SecretsTold
PROPERTY MembershipHolds
PROPERTY ImportAsks
PROPERTY TargetsAsSeen
