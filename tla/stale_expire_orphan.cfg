SPECIFICATION Spec
CONSTANTS
  alice = alice
  bob = bob
  r1 = r1
  s1 = s1
  worker = worker
  User = {alice, bob}
  Req = {r1}
  Null = Null
  Slot = {s1}
  Worker = worker
  Eligible = {alice}
  Permanent = {bob}
  BreakGlass = {}
  RequestTTL = 1
  ActiveTTL = 1
  KcFaults = {}
  DbFaults = FALSE
  Webhook = FALSE
  Removals = {}
  Isolated = FALSE
  MaxTime = 2
  MaxStops = 0
  MaxPerUser = 1
INVARIANT NoStandingAccess
