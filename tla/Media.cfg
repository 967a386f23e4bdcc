\* One medium, three requests, two connections: media share nothing but the connections.
SPECIFICATION FairSpec
CONSTANTS
  Media = {m1}
  Requests = {r1, r2, r3}
  PoolSize = 2
  None = None
INVARIANTS TypeOK RowsHaveObjects OrphansAccounted AnswersAreFinal
PROPERTIES ImplementsLifecycle RequestsEnd
