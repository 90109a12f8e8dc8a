CONSTANTS
  Requirements = {r1, r2}
  NoReq = NoReq
  MaxSlots = 1
  MaxRows = 2
  BatchSize = 2
  Procs = {p1, p2}
SPECIFICATION DrainSpec
PROPERTY
  FailedIsFinal
CHECK_DEADLOCK FALSE
