SPECIFICATION FairSpec
CONSTANTS
  r1 = r1
  a = a
  c1 = c1
  c2 = c2
  Null = Null
  Req = {r1}
  Own = {}
  Note = {a}
  Chain = {c1, c2}
INVARIANT DraftKept
PROPERTY CatchesUp
