SPECIFICATION Spec
CONSTANTS
  Spaces = {s1}
  Names = {n1}
  NamesOf <- FixedNames
  Channels = {c1}
  HumanChannels = {}
  Agents = {a1}
  Owners = {}
  Bridge = bridge
  Readers = {a1}
  Procs = {daemon}
  AtStart <- AgentsRunning
  Modes = {TRUE}
  ArchiveClosed = FALSE
  RemoveDeparted = TRUE
  None = None
  MaxMarks = 1
  MaxFaults = 0
  MaxEnv = 2
PROPERTY RoleChangesKept
