\* Two drives with a block device each, jobs from Plato, two boots.
CONSTANTS
  Drives = {1, 2}
  b1 = b1
  b2 = b2
  NoBlock = NoBlock
  Blocks = {b1, b2}
  block_name <- OwnBlocks
  Options <- PlatoJobs
  BootMounts = {}
  Untabled = {}
  MaxBoots = 2
SPECIFICATION Spec
CHECK_DEADLOCK FALSE
INVARIANTS
  MarkedIsCertified
  NoChildLeftBehind
  BadIsReported
PROPERTIES
  PassIsCertified
  RawOnlyUnmounted
  MarkedNotDead
