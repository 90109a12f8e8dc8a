CONSTANTS
  Requirements = {r1, r2}
  NoReq = NoReq
  MaxSlots = 2
  MaxRows = 2
  BatchSize = 2
  Procs = {p1, p2}
SPECIFICATION ShrinkSpec
PROPERTY
  ShrinkTakesClearTail
CHECK_DEADLOCK FALSE
