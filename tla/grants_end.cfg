SPECIFICATION FairSpec
CONSTANTS
  alice = alice
  bob = bob
  r1 = r1
  s1 = s1
  worker = worker
  User = {alice, bob}
  Req = {r1}
  Null = Null
  Slot = {s1}
  Worker = worker
  Eligible = {alice}
  Permanent = {bob}
  BreakGlass = {}
  RequestTTL = 1
  ActiveTTL = 1
  KcFaults = {"refused", "lost"}
  DbFaults = TRUE
  Webhook = FALSE
  Removals = {}
  Isolated = FALSE
  MaxTime = 2
  MaxStops = 1
  MaxPerUser = 1
INVARIANT RowsCoherent
INVARIANT CopiesFit
INVARIANT AuditNeverAhead
PROPERTY PendingResolved
PROPERTY GrantEnds
