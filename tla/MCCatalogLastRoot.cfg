CONSTANTS
  a = a
  b = b
  TABLE_MAX_PAGES = 6
  Names <- TwoNames
  LAST_ROOT = 5
  USED_ROOTS = FALSE
  CRASH_EARLY = FALSE
SYMMETRY EitherName
SPECIFICATION Spec
PROPERTY ReopenKeepsNextRoot
CHECK_DEADLOCK FALSE
