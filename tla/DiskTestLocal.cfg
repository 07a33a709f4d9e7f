\* Two drives on one block device and the member of a RAID volume, one of them of
\* a type without thresholds, tests from the command line: does the test end?
CONSTANTS
  Drives = {1, 2, 3}
  b1 = b1
  b2 = b2
  NoBlock = NoBlock
  Blocks = {b1, b2}
  block_name <- SharedAndMember
  Options <- LocalJobs
  BootMounts = {}
  Untabled = {2}
  MaxBoots = 1
SPECIFICATION Spec
CHECK_DEADLOCK FALSE
INVARIANTS
  GoodIsCertified
PROPERTIES
  Terminates
