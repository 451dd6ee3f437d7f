SPECIFICATION Spec
CONSTANTS
  Base = 3
  Width = 2
  Second = 9
  Unit <- MCUnit
  TTL = 9
  MaxCall = 4
  PollInterval = 3
  MaxWork = 4
  MaxTime = 44
INVARIANT TextOrder
INVARIANT NotEarly
INVARIANT EndsInTime
