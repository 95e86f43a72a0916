\* Progress of the event loop, of cleanup, of answers and of notifications.
SPECIFICATION FairSpec
CONSTANTS
  c1 = c1
  c2 = c2
  e1 = e1
  e2 = e2
  i1 = i1
  i2 = i2
  k1 = k1
  None = None
  AppId = AppId
  Clients = {c1, c2}
  Readings = {r1, r2}
  EventIds = {e1, e2}
  RequestIds = {i1, i2}
  Tokens = {k1, e1}
  Messages <- AllMessages
  Traffic <- LiveTraffic
  Calls = {t1}
  Notices = {n1}
  EncryptionMode = "Required"
  AllowedKeys = {c1}
  ExcludedCapabilities <- NothingExcluded
PROPERTIES
  AcceptedIsForwarded
  AnsweredIsReleased
  IdleIsReclaimed
  EveryTargetHasItsTurn
CHECK_DEADLOCK FALSE
