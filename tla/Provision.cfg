SPECIFICATION FairSpec
CONSTANTS
  Ids = {i1}
  Bridge = bridge
  Keys = {k1, k2, k3, k4, t1}
  Theirs = {t1}
  Provisioners = {p1}
  None = None
  EditsOverlap = FALSE
  MaxFaults = 2
  MaxChanges = 2
INVARIANTS TypeOK ClaimsOnlyGenerated KeyAtHand
PROPERTIES AgentsIdentified LedgerKept
CHECK_DEADLOCK FALSE
