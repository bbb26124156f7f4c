SPECIFICATION FairSpec
CONSTANTS
  Spaces = {s1}
  Names = {n1}
  NamesOf <- FixedNames
  Channels = {c1, h1}
  HumanChannels = {h1}
  Agents = {a1, a2}
  Owners = {human}
  Bridge = bridge
  Readers = {a1}
  Procs = {daemon}
  AtStart <- AgentsRunning
  Modes = {TRUE}
  ArchiveClosed = TRUE
  RemoveDeparted = TRUE
  None = None
  MaxMarks = 1
  MaxFaults = 1
  MaxEnv = 2
INVARIANT MembershipTracked
PROPERTIES  MirroredOrBlocked
