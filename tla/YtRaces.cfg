\* Three requests share the OAuth client and one row; two channels.
SPECIFICATION Spec
CONSTANTS
  Channels = {c1, c2}
  Rows = {i1}
  Requests = {r1, r2, r3}
  None = None
SYMMETRY Symmetry
INVARIANTS TypeOK StoredTokensBelong OwnChannelIfUndisturbed
PROPERTY SavesLikePartialUpdate
