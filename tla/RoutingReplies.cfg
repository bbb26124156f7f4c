SPECIFICATION FairSpec
CONSTANTS
  Messages = {m1, m2}
  Author <- ByHumanAndAgent
  Mentions <- MentionFirst
  Cancels = {}
  Bindings = {b1}
  Identity <- OwnPanes
  Keys = {human, k1, k2}
  RespondTo = "owner-only"
  Owner = human
  Allowlist = {}
  Requests = {r1, r2}
  Cap = 5
  Limit = 5
  Lookback = 0
  MaxClock = 1
  MaxSkew = 1
  MaxTokens = 3
  MaxFaults = 1
  MaxChanges = 1
  None = None
  m1 = m1
  m2 = m2
  human = human
  k1 = k1
  k2 = k2
  b1 = b1
  b2 = b2

INVARIANTS TypeOK ProcessedAnswerable RepliesAnswerMentions SentOncePerFault
PROPERTIES RequestsAnswered RoutedOrPassed
