\* Two handlers, three targets, four jobs, a reset, updates without effect.
CONSTANTS
  card = card
  disk = disk
  ssd = ssd
  m1 = m1
  m2 = m2
  m3 = m3
  NHandlers = 2
  Targets <- CardAndDisks
  handler_of <- HandlerOf
  model_of <- ModelOf
  Versions <- ThreeVersions
  Jobs <- AllJobs
  Ineffective = {disk}
  MaxResets = 1
SPECIFICATION Spec
CHECK_DEADLOCK FALSE
INVARIANTS
  HooksAround
PROPERTIES
  PriorityOrder
  KeepsPromise
  Verdict
