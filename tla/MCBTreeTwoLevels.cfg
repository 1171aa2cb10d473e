CONSTANTS
  INTERNAL_NODE_MAX_KEYS = 3
  MAX_CELLS = 3
  TABLE_MAX_PAGES = 6
  Scopes <- EightKeys
  MAY_CRASH = TRUE
SPECIFICATION Spec
INVARIANTS
  PagesUsedOnce
  NodesFit
  KeysSeparate
  LeavesFilled
  CommitsItsChanges
PROPERTIES
  ImplementsRowTable
