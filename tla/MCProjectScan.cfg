CONSTANTS
  RequirementFiles = {1, 2}
  TaskFiles = {t}
  Versions = {"stating", "silent", "nameless"}
  Absent = Absent
  Ids = {"R"}
  NoId = NoId
  IdOf <- IdOfVersion
  Stating = {"stating"}
  Scans = {s1, s2, s3}
  MaxChanges = 1
  MaxMishaps = 1
SPECIFICATION Spec
INVARIANTS
  ScanTypeOK
  CleanScanAgrees
  NeverThreeScans
PROPERTIES
  RowsHeal
CHECK_DEADLOCK FALSE
