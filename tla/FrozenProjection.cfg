CONSTANTS
  RequirementFiles = {}
  TaskFiles = {t}
  Versions = {"stating", "silent", "nameless"}
  Absent = Absent
  Ids = {"R"}
  NoId = NoId
  IdOf <- IdOfVersion
  Stating = {"stating"}
  Scans = {s1, s2, s3}
  MaxChanges = 2
  MaxMishaps = 0
SPECIFICATION ScanSpec
INVARIANT
  ProjectionReflectsCanonical
CHECK_DEADLOCK FALSE
