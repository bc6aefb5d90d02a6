SPECIFICATION Spec
CONSTANTS
  Handlers = {h1, h2}
  Emails = {"a@x"}
  Users = {u1, u2}
  Tokens = {t1, t2, t3}
  None = None
  Leeway = TRUE
  MaxFaults = 1
SYMMETRY Symmetry
INVARIANTS
  TypeOK
  OneAccountPerEmail
  ChainsAreSound
  OneLiveToken
  LogoutEndsLineage
PROPERTIES
  RevocationIsForever
