CONSTANTS
  Viewers = {v1, v2}
  Sources = {s1, s2}
  NoSource = NoSource
  Pausing = {v1}
  MaxChunks = 2
  MaxFaults = 1
  MaxOutput = 2
  MaxUpsets = 2
  Calls = {c1, c2}
  NoCall = NoCall
  Keys = {k, t}
  TxKeys = {t}
  NoKey = NoKey
  MaxRuns = 2
  MaxTroubles = 1
  Panels = {p1, p2}
  MaxEvents = 3
  Unreadable = {2}
  BufferLimit = 1
  MaxBreaks = 1
  MaxChecks = 1
SPECIFICATION Spec
INVARIANTS
  ConsoleTypeOK
  ToldMode
  RetryPending
  ClosedLeavesNothing
  NoHoleWhileStreaming
  AnswersAreRuns
  NothingLost
PROPERTIES
  ImplementsPaneFeed
  Recovers
  LastViewerLeavesNothing
  FirstPicture
  Converges
  ImplementsRunOnce
  EveryCallSettles
  CatchesUp
CHECK_DEADLOCK FALSE
