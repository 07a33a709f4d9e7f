\* Three interfaces, five networks, two lost leases, four passes, all the options.
CONSTANTS
  NoFile = NoFile
  NoName = NoName
  Any = Any
  Interfaces = {0, 1, 2}
  Networks <- SomeNetworks
  BootOptions <- AllOptions
  MaxLosses = 2
  MaxPasses = 4
SPECIFICATION Spec
CHECK_DEADLOCK FALSE
INVARIANTS
  TakenAnswered
  OthersDown
  TaskReady
PROPERTIES
  SearchEnds
