\* A cancel, a refresh and a failing request, for one consumer.
SPECIFICATION FeedSpec
CONSTANTS
  Jobs = {1}
  Keys = {k1}
  Plans = {NoPlan}
  Priorities = {100}
  Workers = {w1}
  Errors = {}
  LeaseTime = 0
  RecoveryThreshold = 0
  MaxRetryableAttempt = 0
  RetryDelays <- MCRetryDelays
  MaxRetryAfter = 0
  NoRetryAfter = NoRetryAfter
  NoKey = NoKey
  NoPlan = NoPlan
  NoWorker = NoWorker
  NoError = NoError
  MaxAttempts = 1
  MaxSequence = 2
  Requests = {1, 2}
  MaxEvents = 1
  MaxListeners = 1
  MaxMounts = 1
  MaxRefreshes = 1
  MaxFailures = 1
PROPERTIES
  CancelComesToBeShown
INVARIANTS
  CancelMarkerShowsCancel
