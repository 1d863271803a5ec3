\* Edits, renders, a job, approvals and exports in any order (MCHistory).
SPECIFICATION ChapterSpec
CONSTANTS
  N = 2
  Sources = {s1}
  Answers <- MCAnswers
  Edits = {"other"}
  Repairs = {}
  Flagged <- MCFlagged
  Requested = {}
  MaxContext = 1
  MaxRuns = 2
  None = None
  NoCacheKey = NoCacheKey
  Presets = {p1, p2}
  Casts <- MCCasts
  Faults <- MCFaults
  Forced <- MCForced
  Kinds = {"publication"}
  MaxPlans = 2
  MaxClips = 3
  MaxMasters = 2
  MaxBundles = 1
  MaxOpen = 1
  Idle = Idle
SYMMETRY MCPresets
CONSTRAINT MCHistory
CHECK_DEADLOCK FALSE
INVARIANTS
  PlanReadsApprovedRun
  
  FreshBundleIsApproved
