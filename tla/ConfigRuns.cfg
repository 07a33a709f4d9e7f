SPECIFICATION Spec
CONSTANTS
  hosts = hosts
  a = a
  b = b
  Templates = {hosts}
  Targets = {a, b}
  Produces <- ProducesValue
  Calls <- CallsValue
  MaxVersion = 1
  MaxValues = 2
  MaxTime = 3
  MaxEdits = 1
  MaxDeaths = 1
  Local = Local
  Empty = Empty
  Missing = Missing
  Nil = Nil
  Null = Null
INVARIANTS
  ChangeIsNoticed
  NothingIsNewer
PROPERTY
  OnlyAsAsked
CHECK_DEADLOCK FALSE
