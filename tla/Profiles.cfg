SPECIFICATION Spec
CONSTANTS
  Order <- Sorted
  Bridge = bridge
  Texts = {t1, t2}
  Spaces = {s1}
  Assets = {x, y}
  Prefers <- SameTaste
  None = None
  Refresh = 1
  MaxFaults = 1
  MaxChanges = 1
  a = a
  x = x
  y = y

INVARIANTS TypeOK RecordShown HandshakeSucceeds
PROPERTIES OldAvatarsKept Converges
