SPECIFICATION MemorySpec
CHECK_DEADLOCK FALSE
CONSTANTS
  Parts = {"facts", "merges", "skills", "archives", "tree", "vectors", "searches"}
  Alone = {"w"}
  Sources = {"k1", "k2"}
  Clients = {c1}
  Texts = {"t"}
  Fleeting = {}
  Enrichers = {w1, w2}
  Drainer = w1
  Revs = 2
  Typed = {TRUE, FALSE}
  Overlap = FALSE
  RunAttempts = 2
  PipeFaults = 1
  Entities = {e1, e2}
  Mentioning = {"k1"}
  Mergers = {m1, m2}
  NoEntity = noe
  MergeRevs = 3
  UserEdits = 1
  Written = {e2}
  Authored = {"a", "b"}
  Drafted = {"c", "x"}
  Approved = "c"
  Executions = {"e"}
  Recorders = {r1}
  SkillFaults = 1
  SkillEdits = 2
  Runnings = 3
  Appliers = {a1}
  Archives = 1
  PageSize = 2
  ArchEdits = 1
  ArchFaults = 1
  Restores = 1
  Compacts = 1
  Obs = {"a", "b", "c", "d"}
  TopicGroups = {"g", "misc"}
  Fanout = 2
  MaxDepth = 2
  ObsEdits = 2
  Builds = 2
  BuildFaults = 1
  Bucket <- MCBucket
  VecKeys = {"j", "k"}
  Enriched = {"k"}
  Bodies = {"t", "u"}
  VecWorkers = {"w", "x"}
  Legacy = FALSE
  TopN = 1
  MaxLinks = 1
  VecRevs = 2
  VecEdits = 1
  Passes = 1
  VecFaults = 1
INVARIANTS MemoryTypeOK PipeSafety MergeSafety SkillSafety ArchiveSafety
PROPERTIES TreeSafety VectorSafety
