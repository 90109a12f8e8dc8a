CONSTANTS
  MaxSlots = 2
  Procs = {p1, p2}
  Tips = {t1, t2}
  NoTips = NoTips
SPECIFICATION Spec
INVARIANTS
  RestFileCovers
CHECK_DEADLOCK FALSE
