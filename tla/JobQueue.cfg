\* One job with a long history, or two jobs that compete (MCHistory).
SPECIFICATION Spec
CONSTANTS
  w2 = w2
  Jobs = {1, 2}
  Keys = {k1, k2}
  Plans = {NoPlan, p1}
  Priorities = {100, 200}
  Workers = {w1, w2}
  Errors <- MCErrors
  LeaseTime = 1
  RecoveryThreshold = 1
  MaxRetryableAttempt = 3
  RetryDelays <- MCRetryDelays
  MaxRetryAfter = 1
  NoRetryAfter = NoRetryAfter
  NoKey = NoKey
  NoPlan = NoPlan
  NoWorker = NoWorker
  NoError = NoError
  MaxAttempts = 5
  MaxSequence = 3
SYMMETRY KeySymmetry
CONSTRAINT MCHistory
INVARIANTS
  
  NoZombie
  SentNeverResent
  StatusMatchesHistory
  CancelSticks
PROPERTIES
  UserActionsPublished
  LifecycleSpec
