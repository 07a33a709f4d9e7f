\* A drive of seven sectors, two processes; pages of two entries of two sectors.
CONSTANTS
  tool = tool
  other = other
  Procs = {tool, other}
  Capacity = 7
  EntryMax = 2
  PageLength = 2
  UnmapMax = 3
  ByteValues = 2
  WordValues = 256
  Drives <- SomeDrives
  Jobs <- SomeJobs
SPECIFICATION Spec
CHECK_DEADLOCK FALSE
INVARIANTS
  StaysInside
  ReportedIsErased
  ZeroIsStopped
PROPERTIES
  WipeEnds
