SPECIFICATION Spec
CONSTANTS
  Spaces = {s1, s2}
  Names = {n1, n2}
  NamesOf <- AnyNames
  Channels = {c1, c2, h1}
  HumanChannels = {h1}
  Agents = {}
  Owners = {}
  Bridge = bridge
  Readers = {}
  Procs = {daemon, cli}
  AtStart <- NothingOpen
  Modes = {TRUE, FALSE}
  ArchiveClosed = TRUE
  RemoveDeparted = FALSE
  None = None
  MaxMarks = 2
  MaxFaults = 1
  MaxEnv = 3
SYMMETRY Symmetry
INVARIANTS TypeOK CreatedProvenance
PROPERTIES ArchivesOnlyCreated CreationTracked
