CONSTANTS
  Requirements = {r1}
  NoReq = NoReq
  MaxSlots = 1
  MaxRows = 3
  BatchSize = 2
  Procs = {p1}
SPECIFICATION CancelSpec
INVARIANT
  RefusalIsTrue
CHECK_DEADLOCK FALSE
