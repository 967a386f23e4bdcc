\* Two requests on one creator and two editors.
SPECIFICATION Spec
CONSTANTS
  Creators = {c1}
  Editors = {e1, e2}
  Emails = {m1, m2}
  Mobiles = {n1, n2}
  Names = {x1, x2}
  Asks <- EmailOrName
  Requests = {r1, r2}
  MaxLogins = 1
  None = None
SYMMETRY Symmetry
INVARIANTS TypeOK PreferencesUnlessCutShort
PROPERTIES ConflictOnlyIfRaced ChangesOnlyAsked
