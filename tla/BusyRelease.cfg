CONSTANTS
  Requirements = {r1}
  NoReq = NoReq
  MaxSlots = 1
  MaxRows = 2
  BatchSize = 2
  Procs = {p1, p2}
SPECIFICATION OutcomeSpec
PROPERTY
  KeptUntilJobYields
CHECK_DEADLOCK FALSE
