\* Two refreshes with one token, each read before the other is written.
SPECIFICATION Spec
CONSTANTS
  Creators = {c1}
  Editors = {}
  Sessions = {s1}
  CreatorRequests = {r1, r2}
  EditorRequests = {}
  None = None
  SessionTTL = 1
  AbsoluteTTL = 2
  RefreshTTL = 2
  AccessTTL = 1
  CleanupPeriod = 1
  MaxRefreshCount = 2
  MaxClock = 0
  MaxVersion = 5
  MaxBoots = 0
  QuietAfter = 0
INVARIANT TokenRotatedOnce
CHECK_DEADLOCK FALSE
