\* A cancel that lands between the last cancel check and complete.
SPECIFICATION WorkerSpec
CONSTANTS
  k1 = k1
  k2 = k2
  k3 = k3
  k4 = k4
  k5 = k5
  Jobs = {1}
  Keys = {k1}
  Plans = {NoPlan}
  Priorities = {100}
  Workers = {w1}
  Me = w1
  Errors <- MCErrors
  HandlerOf <- Synthesizing
  NSegments = 2
  Forced = {}
  MaxCrashes = 0
  LeaseTime = 1
  RecoveryThreshold = 1
  MaxRetryableAttempt = 1
  RetryDelays <- MCRetryDelays
  MaxRetryAfter = 1
  NoRetryAfter = NoRetryAfter
  NoKey = NoKey
  NoPlan = NoPlan
  NoWorker = NoWorker
  NoError = NoError
  MaxAttempts = 1
  MaxSequence = 1
INVARIANTS
  CancelNeverKillsWorker
