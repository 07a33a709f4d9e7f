\* Shipped and custom recipes, four drives, an extra mount, one process left behind.
CONSTANTS
  NoMount = NoMount
  Drives = {"sda", "sdb", "sdc", "sdd"}
  DriveOrder <- AllDrives
  Capacity <- Large
  Jobs <- SomeJobs
  Groups = {0, 1}
  Points <- AllPoints
  PathLength <- Lengths
  Extras <- SomeExtras
  Diverts = {"service"}
  MaxHolders = 1
SPECIFICATION Spec
CHECK_DEADLOCK FALSE
INVARIANTS
  DrivesAreLaidOut
  UsesAreSound
  PathsAreTrue
  InstalledIsWhole
PROPERTIES
  InstallEnds
