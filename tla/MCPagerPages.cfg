CONSTANTS
  TABLE_MAX_PAGES = 3
  WAL_CHECKPOINT_THRESHOLD = 2
  CRASH_WAL_FRAMES = 2
  NEW_HEADER = h
  Headers = {h}
  NEW_ROOT = r
  Nodes = {r}
  PageContents <- FewContents
  BAD_HEADER = bad
  ZERO = zero
  TORN = part
  NULL = null
SPECIFICATION Spec
INVARIANTS
  IInv
  TornPagesCovered
PROPERTIES
  CloseCountsPages
