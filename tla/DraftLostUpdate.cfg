SPECIFICATION MCSpec
CONSTANTS
  N = 2
  Editors = {e1}
  Callers = {c1}
  Letters = {"a", "x"}
  Typed <- MCTyped
  Streams <- MCStreams
  MaxDraft = 2
  Interleaved = TRUE
  NoText = NoText
  NoAttempt = NoAttempt
  Idle = Idle
  NoConflict = NoConflict
  MaxRuns = 2
  MaxRevision = 2
  MaxFrames = 1
  MaxChars = 2
  Closed = Closed
  MaxRequests = 1
CHECK_DEADLOCK FALSE
PROPERTY
  NothingUnseenLost
