SPECIFICATION Spec
CONSTANTS
  alice = alice
  bob = bob
  r1 = r1
  s1 = s1
  s2 = s2
  worker = worker
  User = {alice, bob}
  Req = {r1}
  Null = Null
  Slot = {s1, s2}
  Worker = worker
  Eligible = {alice}
  Permanent = {bob}
  BreakGlass = {bob}
  RequestTTL = 1
  ActiveTTL = 1
  KcFaults = {}
  DbFaults = FALSE
  Webhook = FALSE
  Removals = {}
  Isolated = FALSE
  MaxTime = 2
  MaxStops = 0
  MaxPerUser = 1
SYMMETRY Symmetry
INVARIANT TypeOK
INVARIANT RowsCoherent
INVARIANT AuditNeverAhead
INVARIANT LedgerComplete
INVARIANT NoStepSkipped
