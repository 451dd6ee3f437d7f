SPECIFICATION Spec
CONSTANTS
  alice = alice
  bob = bob
  r1 = r1
  s1 = s1
  worker = worker
  User = {alice, bob}
  Req = {r1}
  Null = Null
  Slot = {s1}
  Worker = worker
  Eligible = {alice}
  Permanent = {bob}
  BreakGlass = {}
  RequestTTL = 0
  ActiveTTL = 1
  KcFaults = {}
  DbFaults = FALSE
  Webhook = TRUE
  Removals = {}
  Isolated = FALSE
  MaxTime = 1
  MaxStops = 1
  MaxPerUser = 1
INVARIANT NoticeNeverAhead
INVARIANT AtMostOnce
