\* Five components that share nothing: purse, previews, batches, credentials, served audio.
SPECIFICATION DeskSpec
CONSTANTS
  Auths = {p, q}
  Operations = {o1, o2}
  Categories = {"REGULAR", "QA_REPAIR", "OTHER"}
  Consents = {1}
  Callers = {c1}
  Usages = {20, 120}
  Overruns <- MCOverruns
  Price = 2000000
  FreeUnits = 2
  QuoteTtl = 1
  NoQuote = NoQuote
  MaxRevision = 2
  MaxMishaps = 1
  Voices = {v}
  Scripts = {s}
  Sounds = {p, q}
  MaxAsks = 3
  PollAttempts = 1
  MaxCrashes = 1
  Silence = Silence
  NChapters = 3
  States = {"NORMALIZED", "TRANSLATED"}
  BatchIds = {op}
  PageLimit = 1
  MaxSelection = 2
  MaxGenerations = 2
  MaxChanges = 1
  MaxPosts = 2
  Nobody = Nobody
  Secrets = {s1, s2}
  Threads = {p, q}
  MaxProfileRevision = 3
  NoRequest = NoRequest
  Missing = Missing
  Files = {p, q}
  MaxSize = 3
  ChunkBytes = 2
  NoRange = NoRange
  Multi = Multi
  Malformed = Malformed
  Open = Open
  Silent = Silent
SYMMETRY DeskSymmetry
CONSTRAINT MCHistory
CHECK_DEADLOCK FALSE
INVARIANTS
  LimitsKept
  NamedAudioIsThere
  NoPreviewHangs
  RowsOfOneFilter
  NoChapterSkipped
  BatchIsComplete
  CredentialAnswerHolds
  PlayerHoldsTheFile
