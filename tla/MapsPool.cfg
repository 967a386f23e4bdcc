\* A row of each table, two requests on two connections.  An update and a delete take
\* the same steps, and with one status the loss of a delete shows.
SPECIFICATION FairSpec
CONSTANTS
  CreatorIds = {m1}
  AccountIds = {a1}
  OtherIds = {o1}
  Statuses = {"PENDING"}
  Conns = {c1, c2}
  Requests = {r1, r2}
  None = None
INVARIANTS TypeOK OnlyLookUpLeavesOpen AcknowledgedWritesKept NotAllWait
PROPERTIES CommitsOwnWrites ImplementsTable RequestsEnd
