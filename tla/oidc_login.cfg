SPECIFICATION Spec
CONSTANTS
  alice = alice
  bob = bob
  l1 = l1
  l2 = l2
  k1 = k1
  k2 = k2
  c1 = c1
  c2 = c2
  Null = Null
  User = {alice, bob}
  Login = {l1, l2}
  Code = {k1, k2}
  Call = {c1, c2}
  LoginTTL = 1
  SessionTTL = 1
  HttpTimeout = 1
  CodeTTL = 1
  KcFaults = TRUE
  AllowHeaderAuth = TRUE
  MaxTime = 6
  MaxStops = 1
SYMMETRY Symmetry
INVARIANT OncePerLogin
INVARIANT StatesAreOpenLogins
INVARIANT ActsOnFreshLogin
INVARIANT SessionRunsItsTerm
PROPERTY RefusedForCause
