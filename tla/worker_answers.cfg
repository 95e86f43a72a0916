\* A handler with two requests at once, ids used twice, two clients, fair.
SPECIFICATION FairWorkerSpec
CONSTANTS
  c1 = c1
  c2 = c2
  e1 = e1
  e2 = e2
  i1 = i1
  r1 = r1
  r2 = r2
  r3 = r3
  None = None
  AppId = AppId
  Clients = {c1, c2}
  Readings = {r1, r2, r3}
  EventIds = {e1, e2}
  RequestIds <- SomeRequestIds
  Tokens = {}
  Messages <- AllMessages
  Traffic <- SomeTraffic
  Unconvertible <- OddMessages
  Calls = {t1, t2}
  Notices = {n1}
  EncryptionMode = "Required"
  AllowedKeys = {}
  ExcludedCapabilities <- NothingExcluded
INVARIANTS
  WorkerTypeOK
  OnePeer
  HandledIsKnown
  ResultsReachTheirRequests
  AnsweredOnce
PROPERTIES
  ChannelIsDrained
CHECK_DEADLOCK FALSE
