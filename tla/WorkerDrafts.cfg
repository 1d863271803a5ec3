\* Two components that share nothing: a translation and a synthesis with a forced segment
\* in one worker, and the drafts of a chapter.
SPECIFICATION WorkerDraftsSpec
CONSTANTS
  k1 = k1
  k2 = k2
  k3 = k3
  k4 = k4
  k5 = k5
  Jobs = {1, 2}
  Keys = {k1, k2}
  Plans = {NoPlan}
  Priorities = {100}
  Workers = {w1}
  Me = w1
  Errors <- MCErrors
  HandlerOf <- Mixed
  NSegments = 1
  Forced = {1}
  MaxCrashes = 1
  LeaseTime = 0
  RecoveryThreshold = 1
  MaxRetryableAttempt = 1
  RetryDelays <- MCRetryDelays
  MaxRetryAfter = 1
  NoRetryAfter = NoRetryAfter
  NoKey = NoKey
  NoPlan = NoPlan
  NoWorker = NoWorker
  NoError = NoError
  MaxAttempts = 1
  MaxSequence = 1
  N = 2
  Editors = {e1}
  Callers = {c1}
  Letters = {"a", "x"}
  Typed <- MCTyped
  Streams <- MCStreams
  MaxDraft = 2
  Interleaved = FALSE
  NoText = NoText
  NoAttempt = NoAttempt
  Idle = Idle
  NoConflict = NoConflict
  MaxRuns = 2
  MaxRevision = 2
  MaxFrames = 1
  MaxChars = 2
  Closed = Closed
  MaxRequests = 1
CHECK_DEADLOCK FALSE
INVARIANTS
  WorkerOwnsItsJob
  SettledViewIsServerText
PROPERTIES
  NothingUnseenLost
