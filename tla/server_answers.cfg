\* Concurrent answers, expiry and close; the two requests may share a token.
SPECIFICATION Spec
CONSTANTS
  c1 = c1
  c2 = c2
  e1 = e1
  e2 = e2
  i1 = i1
  i2 = i2
  k1 = k1
  None = None
  AppId = AppId
  Clients = {c1, c2}
  Readings = {r1, r2}
  EventIds = {e1, e2}
  RequestIds = {i1, i2}
  Tokens = {k1, e1}
  Messages <- AllMessages
  Traffic <- SharedIds
  Calls = {t1, t2}
  Notices = {}
  EncryptionMode = "Required"
  AllowedKeys = {}
  ExcludedCapabilities <- NothingExcluded
SYMMETRY Symmetry
INVARIANTS
  TypeOK
  RoutesAreBacked
  PendingIsRouted
  SessionTablesAgree
  AnswersMatchRequests
PROPERTIES
  TrackedUntilAnswered
  ImplementsLedger
CHECK_DEADLOCK FALSE
