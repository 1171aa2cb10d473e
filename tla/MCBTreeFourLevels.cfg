CONSTANTS
  INTERNAL_NODE_MAX_KEYS = 3
  MAX_CELLS = 1
  TABLE_MAX_PAGES = 30
  Scopes <- FourthLevel
  MAY_CRASH = FALSE
SPECIFICATION Spec
PROPERTIES
  ImplementsRowTable
