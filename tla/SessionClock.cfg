\* One client and the clock: expiry, the cleanup timer and restarts.
SPECIFICATION FairSpec
CONSTANTS
  Creators = {c1}
  Editors = {}
  Sessions = {s1, s2}
  CreatorRequests = {r1}
  EditorRequests = {}
  None = None
  SessionTTL = 1
  AbsoluteTTL = 2
  RefreshTTL = 2
  AccessTTL = 1
  CleanupPeriod = 1
  MaxRefreshCount = 2
  MaxClock = 4
  MaxVersion = 2
  MaxBoots = 2
  QuietAfter = 2
INVARIANTS SessionLifetimeBounded AbsoluteLifetimeNeverBinds
PROPERTY SessionsEnd
CHECK_DEADLOCK FALSE
