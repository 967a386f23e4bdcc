\* Two uploads for rows of different channels share the OAuth client.
SPECIFICATION Spec
CONSTANTS
  Channels = {c1, c2}
  Rows = {i1, i2}
  Requests = {r1, r2}
  None = None
INVARIANT VideoReachesOwnChannel
