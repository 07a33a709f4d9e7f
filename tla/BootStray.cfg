\* Three interfaces, two of them without a way to Contractor, one lost lease.
CONSTANTS
  NoFile = NoFile
  NoName = NoName
  Any = Any
  Interfaces = {0, 1, 2}
  Networks <- SomeNetworks
  BootOptions <- DefaultOnly
  MaxLosses = 1
  MaxPasses = 2
SPECIFICATION Spec
CHECK_DEADLOCK FALSE
INVARIANTS
  TakenPinged
