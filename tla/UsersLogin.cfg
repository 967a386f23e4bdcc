\* An editor's login and an update of the same row.
SPECIFICATION Spec
CONSTANTS
  Creators = {}
  Editors = {e1, e2}
  Emails = {m1, m2}
  Mobiles = {n1, n2}
  Names = {x1, x2}
  Asks <- EmailOrName
  Requests = {r1, r2}
  MaxLogins = 1
  None = None
PROPERTY LoginTouchesOnlyLastLogin
