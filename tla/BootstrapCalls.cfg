\* Two boots, a call on its way, two sessions.
CONSTANTS
  MaxLate = 1
  MaxSessions = 2
  MaxBoots = 2
SPECIFICATION Spec
CHECK_DEADLOCK FALSE
INVARIANTS
  PastIsExecuted
PROPERTIES
  WipedIsAccepted
  BootEnds
