CONSTANTS
  INTERNAL_NODE_MAX_KEYS = 3
  MAX_CELLS = 1
  TABLE_MAX_PAGES = 20
  Scopes <- ThirdLevel
  MAY_CRASH = TRUE
SPECIFICATION Spec
PROPERTIES
  ImplementsRowTable
