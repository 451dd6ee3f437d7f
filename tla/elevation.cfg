SPECIFICATION Spec
CONSTANTS
  alice = alice
  carol = carol
  bob = bob
  r1 = r1
  r2 = r2
  s1 = s1
  s2 = s2
  worker = worker
  User = {alice, carol, bob}
  Req = {r1, r2}
  Null = Null
  Slot = {s1, s2}
  Worker = worker
  Eligible = {alice, carol}
  Permanent = {bob}
  BreakGlass = {}
  RequestTTL = 1
  ActiveTTL = 1
  KcFaults = {"refused"}
  DbFaults = FALSE
  Webhook = FALSE
  Removals = {}
  Isolated = TRUE
  MaxTime = 2
  MaxStops = 0
  MaxPerUser = 2
SYMMETRY Symmetry
INVARIANT NoOrphan
PROPERTY ElevationSpec
