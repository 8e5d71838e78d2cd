SPECIFICATION ServicesSpec
CONSTANTS
  d1 = d1
  d2 = d2
  d3 = d3
  d4 = d4
  d5 = d5
  busy = busy
  quiet = quiet
  full = full
  p1 = p1
  p2 = p2
  None = None
  Threads = {t1, t2}
  Dsns = {d1, d2, d3, d4, d5}
  Endpoints = {busy, quiet, full}
  EndpointOf <- MCEndpointOf
  Objects = {o1, o2}
  MaxCached = 2
  PoolMax = 1
  Affordable = {busy, quiet}
  Revision <- MCRevision
  Hosts <- MCHosts
  Promotions <- MCPromotions
  Floors = {3}
  MaxOperations = 3
  Posts = {p1, p2}
  EventOf <- MCEventOf
  Workers = {w1, w2}
  MaxRetries = 1
  MaxLosses = 1
  Sockets = {s1, s2, s3}
  MaxMessages = 2
  Trees = {wa, wb}
  Branches = {"feat/a", "feat-a", "main"}
  Label <- MCLabel
  BasePorts = {0, 2}
  OffsetStep = 1
  MaxHostPort = 4
  Unset = Unset
  MaxCommands = 3
INVARIANTS ServicesTypes RegistrySound DeploySound DeliveriesSound SelectedPortsWereFree NoStackIsLost
PROPERTIES PlacedOnItsSchema ServicesSettle
CHECK_DEADLOCK FALSE
