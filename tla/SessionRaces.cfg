\* Requests race on two sessions of a creator; the clock stands still.
SPECIFICATION Spec
CONSTANTS
  Creators = {c1}
  Editors = {e1}
  Sessions = {s1, s2}
  CreatorRequests = {r1, r2}
  EditorRequests = {q1}
  None = None
  SessionTTL = 1
  AbsoluteTTL = 2
  RefreshTTL = 2
  AccessTTL = 1
  CleanupPeriod = 1
  MaxRefreshCount = 1
  MaxClock = 0
  MaxVersion = 3
  MaxBoots = 0
  QuietAfter = 0
SYMMETRY Symmetry
INVARIANTS TypeOK ReuseRevocationJustified TokensBelongToSessions CutOffOnlyAtLimit CountExactUntilReplay
PROPERTIES RevokedIsFinal ImplementsLifecycle
CHECK_DEADLOCK FALSE
