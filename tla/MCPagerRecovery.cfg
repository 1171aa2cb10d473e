CONSTANTS
  TABLE_MAX_PAGES = 2
  WAL_CHECKPOINT_THRESHOLD = 3
  CRASH_WAL_FRAMES = 3
  NEW_HEADER = h
  Headers = {h}
  NEW_ROOT = r
  Nodes = {r, n}
  PageContents <- AllContents
  BAD_HEADER = bad
  ZERO = zero
  TORN = part
  NULL = null
SPECIFICATION Spec
INVARIANTS
  TypeOK
  MapExact
  MissReadsCommitted
  CheckpointProgress
PROPERTIES
  ImplementsPageStore
  CommitKeepsLogShort
  CloseSyncsFile
