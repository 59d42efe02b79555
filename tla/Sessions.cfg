SPECIFICATION FairSessions
CONSTANTS
  MaxFrames = 2
  MaxOutput = 1
  Name = n
  Longer = {n1}
  NoSession = NoSession
  MaxEnsures = 2
  MaxFaults = 1
INVARIANTS
  SessionsTypeOK
  OneWriter
  PipeOutlivesReader
  InputInOrder
  EnsuredOpens
  EnsureSettles
PROPERTIES
  BrowserGoneReturns
  NothingStays
CHECK_DEADLOCK FALSE
