SPECIFICATION FairSpec
CONSTANTS
  p1 = p1
  p2 = p2
  Null = Null
  Proc = {p1, p2}
  Lifetime = {1, 3}
  Margin = 1
  HttpTimeout = 1
  GroupId = {0, 1}
  MaxTime = 3
INVARIANT CachedTokenAlive
INVARIANT OkMeansDone
PROPERTY FreshTokenKept
PROPERTY GroupOperationSpec
PROPERTY Returns
