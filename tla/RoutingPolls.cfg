SPECIFICATION Spec
CONSTANTS
  Messages = {m1, m2}
  Author <- ByHuman
  Mentions <- MentionBoth
  Cancels = {m2}
  Bindings = {b1, b2}
  Identity <- OwnPanes
  Keys = {human, k1, k2}
  RespondTo = "owner-only"
  Owner = human
  Allowlist = {}
  Requests = {}
  Cap = 2
  Limit = 2
  Lookback = 1
  MaxClock = 3
  MaxSkew = 1
  MaxTokens = 6
  MaxFaults = 2
  MaxChanges = 1
  None = None
  m1 = m1
  m2 = m2
  human = human
  k1 = k1
  k2 = k2
  b1 = b1
  b2 = b2

INVARIANT RepeatsNeedFaults
