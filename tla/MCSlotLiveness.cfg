CONSTANTS
  Requirements = {r1, r2}
  NoReq = NoReq
  MaxSlots = 2
  MaxRows = 1
  BatchSize = 1
  Procs = {p1}
SPECIFICATION FairSpec
INVARIANT
  TypeOK
PROPERTIES
  AssignedRowIsHandled
  EveryRequestEnds
CHECK_DEADLOCK FALSE
