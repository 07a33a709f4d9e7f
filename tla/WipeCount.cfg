\* One sector of a SCSI drive of four, with bytes of 256 values.
CONSTANTS
  tool = tool
  other = other
  Procs = {tool}
  Capacity = 4
  EntryMax = 65535
  PageLength = 63
  UnmapMax = 4
  ByteValues = 256
  WordValues = 65536
  Drives <- ScsiDrive
  Jobs <- BootSector
SPECIFICATION Spec
CHECK_DEADLOCK FALSE
INVARIANTS
  CountIsKept
