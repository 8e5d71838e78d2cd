SPECIFICATION TenancySpec
CONSTANTS
  None = None
  acme = acme
  globex = globex
  a = a
  b = b
  c = c
  Tenants = {acme, globex}
  Slugs = {a, b, c}
  Requests = {r1, r2, r3}
  Cooling = 1
  MaxTime = 2
  StartingStates <- MCStartingStates
  NoEntry = NoEntry
  Callers = {t1, t2}
  Served = {east}
  Ttl = 1
  MaxVersion = 2
  MaxClock = 3
  MaxEpoch = 2
  Clients = {b, c}
  Releases = {2, 3}
  Migrations = {t1, t2}
  MaxOrders = 3
INVARIANTS TenancyTypes FreshAfterInvalidation StalenessBounded DatabasesAreAsTold
PROPERTIES EventsAreChanges CoolingClaimedOnlyInRace FreshRenameCools ControlLeads
SYMMETRY TenancySymmetry
CHECK_DEADLOCK FALSE
