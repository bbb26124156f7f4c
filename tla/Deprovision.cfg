SPECIFICATION MCSpec
CONSTANTS
  b = b
  a = a
  p = p
  s1 = s1
  s2 = s2
  x = x
  y = y
  Keys = {b, a, p}
  Bridge = b
  Spaces = {s1, s2}
  Channels = {x, y}
  Commands = {c1}
  None = None
  Nth <- MCNth
  MaxFaults = 1
  MaxChanges = 1
INVARIANTS TypeOK OnlyOurs SecretsLast FailsOnlyBlocked
PROPERTY LedgerKept
CHECK_DEADLOCK FALSE
