\* Two servers, two relays that take what is published in their own time.
SPECIFICATION Spec
CONSTANTS
  None = None
  s1 = s1
  s2 = s2
  name = name
  add = add
  odd = odd
  Servers = {s1, s2}
  ServerInfo <- InfoOfServers
  Relays = {r1, r2}
  Items = {name, add, odd}
  TypedItems = {add}
  Lists <- ListsOfServers
  Others <- ContentsOfOthers
  Queries <- QueriesOfClients
  Fetchers = {f1}
  MaxEvents = 2
  MaxTime = 1
SYMMETRY RelaySymmetry
INVARIANTS
  TypeOK
  DiscoveryIsFresh
  ServersAreListed
  DeletionIsWhole
CHECK_DEADLOCK FALSE
