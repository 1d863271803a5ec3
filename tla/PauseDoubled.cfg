\* The pause between two parts of a master.
SPECIFICATION TextsSpec
CONSTANTS
  Jobs = {1, 2}
  Keys = {k1, k2}
  Plans = {NoPlan}
  Priorities = {100}
  Workers = {}
  Errors = {}
  LeaseTime = 0
  RecoveryThreshold = 0
  MaxRetryableAttempt = 0
  RetryDelays <- MCRetryDelays
  MaxRetryAfter = 0
  NoRetryAfter = NoRetryAfter
  NoKey = NoKey
  NoPlan = NoPlan
  NoWorker = NoWorker
  NoError = NoError
  MaxAttempts = 1
  MaxSequence = 4
  Requests = {1, 2}
  MaxEvents = 3
  MaxListeners = 1
  MaxMounts = 1
  MaxRefreshes = 0
  MaxFailures = 2
  N = 2
  Sources = {s1, s2}
  Answers <- MCAnswers
  Edits = {"other"}
  Repairs = {"repaired"}
  Flagged <- MCFlagged
  Requested = {"FAILED"}
  MaxContext = 1
  MaxRuns = 3
  None = None
  NoCacheKey = NoCacheKey
  Estimates = {1, 2}
  Lengths = {1, 3}
  Padding = {0, 1}
  Pause = 1
  PartMaxSegments = 2
  PartMaxDuration = 3
  MaxSegments = 4
  MaxVersions = 2
  MaxFinals = 2
  NoPass = NoPass
SYMMETRY TextsSymmetry
CONSTRAINT MCPasses
CHECK_DEADLOCK FALSE
INVARIANTS
  NoPauseDoubled
