\* Two components that share nothing: files, knowledge.
SPECIFICATION StudioSpec
CONSTANTS
  Artifacts = {cache, wav}
  Caches = {cache}
  Wavs = {wav}
  Makers = {p, q}
  Retention = 1
  MaxBackups = 3
  MaxFaults = 1
  Nil = Nil
  Live = Live
  NChapters = 2
  Texts <- MCTexts
  Terms = {"term"}
  Mentions <- MCMentions
  Targets = {"first", "second"}
  Renderings = {"a", "b"}
  Scopes <- MCScopes
  Users = {p, q}
  Characters = {"hero"}
  MaxRevisions = 2
  MaxMemories = 1
  MaxRuns = 2
  None = None
SYMMETRY StudioSymmetry
CONSTRAINT MCHistory
CHECK_DEADLOCK FALSE
INVARIANTS
  NamedFileExists
  ListedVerifies
  RetentionKept
  
  RetrievalWithinApproved
  
  
