SPECIFICATION FairSpec
CONSTANTS
  Ids = {i1}
  Bridge = bridge
  Keys = {k1, k2, k3, k4, t1}
  Theirs = {t1}
  Provisioners = {p1}
  None = None
  EditsOverlap = FALSE
  MaxFaults = 1
  MaxChanges = 0
PROPERTY AgentsRegistered
CHECK_DEADLOCK FALSE
