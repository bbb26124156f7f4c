SPECIFICATION Spec
CONSTANTS
  Processes = {p1, p2}
  Inodes = {i1, i2}
  None = None
  MaxUpdates = 2
  MaxCrashes = 2
  MaxChanges = 2
INVARIANT MarkedWhenSaved
PROPERTIES Serialized FailClosed
CHECK_DEADLOCK FALSE
