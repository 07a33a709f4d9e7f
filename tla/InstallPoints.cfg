\* A shipped recipe with bcache, and one with two logical volumes.
CONSTANTS
  NoMount = NoMount
  Drives = {"sda", "sdb", "sdc", "sdd"}
  DriveOrder <- AllDrives
  Capacity <- Large
  Jobs <- LosingJobs
  Groups = {0, 1}
  Points <- AllPoints
  PathLength <- Lengths
  Extras <- SomeExtras
  Diverts = {"service"}
  MaxHolders = 1
SPECIFICATION Spec
CHECK_DEADLOCK FALSE
INVARIANTS
  PointsHaveFileSystems
