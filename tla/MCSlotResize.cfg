CONSTANTS
  MaxSlots = 3
  Procs = {p1, p2, p3}
  Tips = {t1, t2}
  NoTips = NoTips
SPECIFICATION Spec
SYMMETRY Symmetry
INVARIANTS
  TypeOK
  RestoreSuffices
PROPERTIES
  SuccessAgrees
  CoverKept
  ImplementsTopology
CHECK_DEADLOCK FALSE
