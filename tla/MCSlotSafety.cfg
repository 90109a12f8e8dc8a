CONSTANTS
  Requirements = {r1, r2}
  NoReq = NoReq
  MaxSlots = 2
  MaxRows = 2
  BatchSize = 2
  Procs = {p1, p2, p3}
SPECIFICATION SafetySpec
SYMMETRY Symmetry
INVARIANTS
  OneSlotPerRequirement
  FreeSlotIsNobodys
PROPERTIES
  NothingBehindCancel
  CancelClearsQueue
  ImplementsSlotPool
CHECK_DEADLOCK FALSE
