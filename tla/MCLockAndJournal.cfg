CONSTANTS
  MaxCalls = 4
  EventIds = {a, b}
  Broken = Broken
  NoMark = NoMark
  Outcomes = {a}
  Shared = {b}
  Hooks = {h}
  Readers = {s1, s2}
  MaxLines = 3
  MaxFailures = 1
SPECIFICATION PartsSpec
INVARIANTS
  PartsTypeOK
  FirstComeFirstServed
  EntryWhileInFlight
  TimedOutNeverWorks
  RecordedPrefix
PROPERTIES
  EveryCallEnds
  ImplementsMutex
  LinesGetRecorded
CHECK_DEADLOCK FALSE
