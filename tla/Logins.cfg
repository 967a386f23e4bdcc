\* Five calls of one user, two at once, over two windows of the mail address.
SPECIFICATION Spec
CONSTANTS
  Keys = {"mail", "mobile", "password", "refresh"}
  Points <- MCPoints
  Duration <- MCDuration
  BlockDuration <- MCBlockDuration
  MaxTime = 3
  MaxCalls = 5
  Channels = {web, api}
  Api = api
  Clients = {}
  ApiClients = {}
  None = None
  Requests = {r1, r2}
SYMMETRY Symmetry
INVARIANTS TypeOK BurstBounded RefusedOnlyIfSpent SessionsUsable
CHECK_DEADLOCK FALSE
