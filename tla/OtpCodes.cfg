\* Three sends to an address of each kind, two requests.
SPECIFICATION Spec
CONSTANTS
  Mails = {mail}
  Phones = {phone, twilio, test}
  Twilio = {twilio}
  Tests = {test}
  Sends = {s1, s2, s3}
  Requests = {r1, r2}
  RandomCodes = {0, 1}
  RowLife = 2
  MaxTime = 2
  None = None
SYMMETRY Symmetry
INVARIANTS TypeOK ConfirmedOnceUnlessOverlapped ArrivedCodesConfirm
PROPERTY ImplementsLifecycle
