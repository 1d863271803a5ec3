\* One job of any kind, with crashes, lost leases, cancels and retries at every step.
SPECIFICATION WorkerSpec
CONSTANTS
  k1 = k1
  k2 = k2
  k3 = k3
  k4 = k4
  k5 = k5
  Jobs = {1}
  Keys = {k1, k2, k3, k4, k5}
  Plans = {NoPlan}
  Priorities = {100}
  Workers = {w1}
  Me = w1
  Errors <- MCErrors
  HandlerOf <- AnyKind
  NSegments = 2
  Forced = {}
  MaxCrashes = 2
  LeaseTime = 1
  RecoveryThreshold = 1
  MaxRetryableAttempt = 1
  RetryDelays <- MCRetryDelays
  MaxRetryAfter = 1
  NoRetryAfter = NoRetryAfter
  NoKey = NoKey
  NoPlan = NoPlan
  NoWorker = NoWorker
  NoError = NoError
  MaxAttempts = 3
  MaxSequence = 3
INVARIANTS
  
  ResumesWhereItStopped
  CancelStopsRequests
PROPERTIES
  QueueSpec
  EveryJobEnds
