\* Two jobs are canceled; a refresh is answered while the stream delivers one of them.
SPECIFICATION FeedSpec
CONSTANTS
  Jobs = {1, 2}
  Keys = {k1, k2}
  Plans = {NoPlan}
  Priorities = {100}
  Workers = {}
  Errors = {}
  LeaseTime = 0
  RecoveryThreshold = 0
  MaxRetryableAttempt = 0
  RetryDelays <- MCRetryDelays
  MaxRetryAfter = 0
  NoRetryAfter = NoRetryAfter
  NoKey = NoKey
  NoPlan = NoPlan
  NoWorker = NoWorker
  NoError = NoError
  MaxAttempts = 1
  MaxSequence = 2
  Requests = {1, 2}
  MaxEvents = 3
  MaxListeners = 1
  MaxMounts = 1
  MaxRefreshes = 1
  MaxFailures = 0
INVARIANTS
  CursorHidesNoJob
