SPECIFICATION Spec
CONSTANTS
  Spaces = {s1, s2}
  Names = {n1}
  NamesOf <- FixedNames
  Channels = {c1, h1}
  HumanChannels = {h1}
  Agents = {}
  Owners = {}
  Bridge = bridge
  Readers = {}
  Procs = {daemon}
  AtStart <- NothingOpen
  Modes = {TRUE}
  ArchiveClosed = TRUE
  RemoveDeparted = FALSE
  None = None
  MaxMarks = 1
  MaxFaults = 0
  MaxEnv = 3
PROPERTY AdoptedPreserved
