CONSTANTS
  INTERNAL_NODE_MAX_KEYS = 3
  MAX_CELLS = 1
  TABLE_MAX_PAGES = 16
  Scopes <- GrowAndShrink
  MAY_CRASH = FALSE
SPECIFICATION Spec
CONSTRAINT
  NoEmptyLeaf
INVARIANTS
  PagesAccounted
  ParentsExact
  IInv
PROPERTIES
  ImplementsRowTable
  RowsKept
