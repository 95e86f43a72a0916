\* A server in Optional mode that lists one client: sessions expire and are made
\* anew under an answer, a direct notification and a broadcast.
SPECIFICATION Spec
CONSTANTS
  c1 = c1
  c2 = c2
  e1 = e1
  e2 = e2
  i1 = i1
  i2 = i2
  k1 = k1
  None = None
  AppId = AppId
  Clients = {c1, c2}
  Readings = {r1, r2}
  EventIds = {e1, e2}
  RequestIds = {i1, i2}
  Tokens = {k1, e1}
  Messages <- AllMessages
  Traffic <- PolicyTraffic
  Calls = {t1}
  Notices = {n1}
  EncryptionMode = "Optional"
  AllowedKeys = {c1}
  ExcludedCapabilities <- AddExcluded
SYMMETRY ReadingSymmetry
INVARIANTS
  OutsidersAreConfined
  EncryptionPolicyKept
  BroadcastOnlyToInitialized
CHECK_DEADLOCK FALSE
