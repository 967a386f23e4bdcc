\* A row is deleted while an update of it is under way.
SPECIFICATION Spec
CONSTANTS
  Channels = {c1, c2}
  Rows = {i1, i2}
  Requests = {r1, r2}
  None = None
PROPERTY DeletedStaysDeleted
