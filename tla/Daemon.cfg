SPECIFICATION FairSpec
CONSTANTS
  Daemons = {d1, d2}
  Stoppers = {s1, s2}
  Kinds = {"deprovision"}
  Ids = {i1}
  MayTimeOut = TRUE
  MaxStarts = 1
  MaxCrashes = 1
  None = None
INVARIANTS SingleDaemon StopEndsDaemon CleanupQuiesced
PROPERTIES StopCompletes QueuedStopHonoured
CHECK_DEADLOCK FALSE
